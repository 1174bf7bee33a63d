------------------------------- MODULE KeyPool -------------------------------
(***************************************************************************)
(* The ordered upstream key pool of one AI-gateway provider: the runtime   *)
(* marks stored in the configuration file, and the requests that read them *)
(* into a private copy, choose a key, contact the upstream with it and     *)
(* write the outcome back (selection/keys.rs, attempt_policy.rs and the    *)
(* key loops of runtime_http/non_streaming.rs and streaming.rs).           *)
(*                                                                         *)
(* A stored key's auto_marked flag, failure_kind and marked_at are always  *)
(* written together; they are one record here, unmarked when its kind is   *)
(* "none".  Every write goes through modify_config, so it is one step; the *)
(* time it writes may have been read any time before, while the request    *)
(* waited for the lock that modify_config takes.                           *)
(***************************************************************************)
EXTENDS Naturals

CONSTANTS NKeys,      \* number of keys; key k is the k-th of the list
          Daily,      \* the keys whose quota resets with the calendar day
          Switched,   \* the keys the user may switch on and off
          Requests,   \* concurrent inbound requests
          Ttl,        \* KEY_QUOTA_MARK_TTL_SECS
          Cooldown,   \* KEY_PROBE_COOLDOWN_SECS
          DayLen,     \* length of a day
          MaxTime,    \* bound of the clock
          MaxPasses   \* bound on the provider passes of one request

Keys == 1..NKeys

ASSUME KeyPoolAssumption ==
    /\ NKeys \in Nat /\ Daily \subseteq Keys /\ Switched \subseteq Keys
    /\ Ttl \in Nat /\ Cooldown \in Nat
    /\ DayLen \in Nat \ {0} /\ MaxTime \in Nat /\ MaxPasses \in Nat

Kinds     == {"none", "auth", "quota"}
Marks     == [kind : Kinds, at : Nat]
Phases    == {"idle", "sync", "select", "inflight", "between"}
PassKinds == {"initial", "retry", "probe", "fallback"}

Unmarked == [kind |-> "none", at |-> 0]
NoMarks  == [k \in Keys |-> Unmarked]
NoKey    == [key |-> 0, probe |-> FALSE, at |-> 0]

VARIABLES now,      \* now_ts()
          stored,   \* the persisted mark of every key
          enabled,  \* the persisted user intent of every key
          req       \* the private state of every request

vars == <<now, stored, enabled, req>>

\* streaming: the transport; pass, passes: kind and number of the provider
\* pass; snap, on: the private copy of the marks and of the user intent;
\* attempted: attempted_keys; probeUsed: key_probe_used; again: a retry is
\* scheduled; bare: pass_retry, a buffered pass last met a bare 429; sel: the
\* key in use.  History: seen, the marks the last sync found; probes, the key
\* probes sent.
ReqStates ==
    [pc : Phases, streaming : BOOLEAN, pass : PassKinds, passes : Nat,
     snap : [Keys -> Marks], on : [Keys -> BOOLEAN],
     attempted : SUBSET Keys, probeUsed : BOOLEAN, again : BOOLEAN,
     bare : BOOLEAN, sel : [key : Keys \cup {0}, probe : BOOLEAN, at : Nat],
     seen : [Keys -> Marks], probes : Nat]

Idle ==
    [pc |-> "idle", streaming |-> FALSE, pass |-> "initial", passes |-> 0,
     snap |-> NoMarks, on |-> [k \in Keys |-> TRUE],
     attempted |-> {}, probeUsed |-> FALSE, again |-> FALSE,
     bare |-> FALSE, sel |-> NoKey, seen |-> NoMarks, probes |-> 0]

Init ==
    /\ now = 0
    /\ stored = NoMarks
    /\ enabled = [k \in Keys |-> TRUE]
    /\ req = [r \in Requests |-> Idle]

-----------------------------------------------------------------------------
(* The pure decisions of selection/keys.rs, over a request's state q. *)

Day(t) == t \div DayLen

DailyResetDue(k, m, t) == k \in Daily /\ m.kind = "quota" /\ Day(t) > Day(m.at)

\* A mistake: the mark lapses a second early.
QuotaMarkExpired_Early(k, m, t) ==
    /\ m.kind = "quota"
    /\ IF k \in Daily THEN DailyResetDue(k, m, t) ELSE t + 1 >= m.at + Ttl

QuotaMarkExpired(k, m, t) ==
    /\ m.kind = "quota"
    /\ IF k \in Daily THEN DailyResetDue(k, m, t) ELSE t >= m.at + Ttl

\* The keys select_usable_key may return, of which it takes the first.
Usable(q) == {k \in Keys :
    /\ q.on[k]
    /\ k \notin q.attempted
    /\ q.snap[k].kind = "none" \/ QuotaMarkExpired(k, q.snap[k], now)}

\* The keys find_key_probe_candidate may return, of which it takes the oldest.
Probable(q) == {k \in Keys :
    /\ q.on[k]
    /\ k \notin Daily
    /\ q.snap[k].kind = "quota"
    /\ now >= q.snap[k].at + Cooldown}

\* min_by_key returns the first of the marks with the smallest time.
Oldest(q, k) == \A j \in Probable(q) \ {k} :
    q.snap[k].at < q.snap[j].at \/ (q.snap[k].at = q.snap[j].at /\ k < j)

\* A mistake: every pass may probe a key.
Selects_PerPass(q, k, probe) ==
    IF probe THEN Usable(q) = {} /\ k \in Probable(q) /\ Oldest(q, k)
    ELSE k \in Usable(q) /\ \A j \in Usable(q) : k <= j

\* select_attempt_key: the first usable key; else, once per request, the key
\* whose quota mark is the oldest, as a probe.
Selects(q, k, probe) ==
    IF probe
    THEN Usable(q) = {} /\ ~q.probeUsed /\ k \in Probable(q) /\ Oldest(q, k)
    ELSE k \in Usable(q) /\ \A j \in Usable(q) : k <= j

Selectable(q) == \E k \in Keys, probe \in BOOLEAN : Selects(q, k, probe)

\* A mistake: the mark is dated back, to be probed at once.
MarkedAs_Backdated(kind, t) == [kind |-> kind, at |-> t - Cooldown]

\* The times a request may write when its attempt has ended: now_ts() is read
\* after the key was chosen, and before the write lock is free.
Stamps(r) == req[r].sel.at..now

\* mark_key_failure, and rearm_key_probe where kind "none" is a failure that is
\* not key-scoped: it keeps the mark's kind and makes a cleared mark a quota.
MarkedAs(kind, t)   == [kind |-> kind, at |-> t]
Rearmed(m, kind, t) ==
    MarkedAs(IF kind # "none" THEN kind
             ELSE IF m.kind # "none" THEN m.kind ELSE "quota", t)

-----------------------------------------------------------------------------
(* The steps of a request. *)

\* A new request copies the provider out of the configuration it read; the
\* marks in that copy are overwritten by the sync before the first selection.
Begin(r) ==
    /\ req[r].pc = "idle"
    /\ \E s \in BOOLEAN :
        req' = [req EXCEPT ![r] = [Idle EXCEPT !.pc = "sync", !.streaming = s,
                                               !.passes = 1, !.on = enabled]]
    /\ UNCHANGED <<now, stored, enabled>>

\* sync_key_runtime_marks: the marks are refreshed, the user intent is not.
Sync(r) ==
    /\ req[r].pc = "sync"
    /\ req' = [req EXCEPT ![r].pc = "select", ![r].snap = stored,
                          ![r].seen = stored]
    /\ UNCHANGED <<now, stored, enabled>>

\* The request once it has chosen key k, through an expired mark or not.
Chosen(q, k, probe, expired) ==
    [q EXCEPT !.pc = "inflight",
              !.sel = [key |-> k, probe |-> probe, at |-> now],
              !.snap[k] = IF expired THEN Unmarked ELSE @,
              !.probeUsed = @ \/ probe,
              !.probes = IF probe THEN @ + 1 ELSE @]

\* select_attempt_key, with clear_ttl_expired_key_runtime_state: a key chosen
\* through an expired mark is cleared in the copy and in the file, whatever
\* mark the file holds by now.
Select(r, k, probe) ==
    /\ req[r].pc = "select"
    /\ Selects(req[r], k, probe)
    /\ LET expired == ~probe /\ req[r].snap[k].kind # "none" IN
       /\ stored' = IF expired THEN [stored EXCEPT ![k] = Unmarked] ELSE stored
       /\ req' = [req EXCEPT ![r] = Chosen(req[r], k, probe, expired)]
    /\ UNCHANGED <<now, enabled>>

\* A pass is over.  Its copy of the provider is refreshed before it is used
\* again, so what it held is dropped here.
PassOver(q, again) ==
    [q EXCEPT !.pc = "between", !.again = again, !.bare = FALSE, !.sel = NoKey,
              !.attempted = {}, !.snap = NoMarks, !.seen = NoMarks]

\* No key is left: the pass ends, and a buffered pass worn out by bare rate
\* limits leaves its retry scheduled.
Exhausted(r) ==
    /\ req[r].pc = "select"
    /\ ~Selectable(req[r])
    /\ req' = [req EXCEPT ![r] = PassOver(req[r], req[r].bare)]
    /\ UNCHANGED <<now, stored, enabled>>

\* The response is final for the caller: a served key probe clears its mark.
Served(r) ==
    /\ req[r].pc = "inflight"
    /\ LET s == req[r].sel IN
       stored' = IF s.probe THEN [stored EXCEPT ![s.key] = Unmarked] ELSE stored
    /\ req' = [req EXCEPT ![r] = Idle]
    /\ UNCHANGED <<now, enabled>>

\* A client error, or a stream that broke after its first byte, ends the
\* request.  A key probe is re-armed, except in an ordinary buffered pass.
EndedUnserved(r) ==
    /\ req[r].pc = "inflight"
    /\ IF req[r].sel.probe /\ (req[r].streaming \/ req[r].pass = "probe")
       THEN \E at \in Stamps(r) :
              stored' = [stored EXCEPT ![req[r].sel.key] = Rearmed(@, "none", at)]
       ELSE UNCHANGED stored
    /\ req' = [req EXCEPT ![r] = Idle]
    /\ UNCHANGED <<now, enabled>>

\* A mistake: the probe is re-armed from the time of the mark it was to test.
ProbeFailed_Stale(r, kind) ==
    /\ req[r].pc = "inflight" /\ req[r].sel.probe
    /\ LET k == req[r].sel.key IN
       stored' = [stored EXCEPT ![k] = Rearmed(@, kind, req[r].seen[k].at)]
    /\ req' = [req EXCEPT ![r] = PassOver(req[r], FALSE)]
    /\ UNCHANGED <<now, enabled>>

\* A failed key probe is re-armed and never rotated: the pass ends.
ProbeFailed(r, kind) ==
    /\ req[r].pc = "inflight" /\ req[r].sel.probe
    /\ \E at \in Stamps(r) :
          stored' = [stored EXCEPT ![req[r].sel.key] = Rearmed(@, kind, at)]
    /\ req' = [req EXCEPT ![r] = PassOver(req[r], FALSE)]
    /\ UNCHANGED <<now, enabled>>

\* The key loop goes round.  Only the first buffered pass and the buffered
\* probe and fallback passes keep the marks they synced when they started; the
\* streaming half-open probe starts every rotation with an empty set.
Rotated(q) ==
    [q EXCEPT !.pc = IF q.streaming \/ q.pass = "retry" THEN "sync" ELSE "select",
              !.sel = NoKey,
              !.attempted = IF q.streaming /\ q.pass = "probe" THEN {}
                            ELSE @ \cup {q.sel.key}]

\* A key-scoped failure marks the key and moves on to the next one.  A
\* streaming pass goes on only if its own copy still holds a key to try.
KeyFailed(r, kind) ==
    /\ req[r].pc = "inflight" /\ ~req[r].sel.probe
    /\ \E at \in Stamps(r) :
         LET k == req[r].sel.key
             q == [Rotated(req[r]) EXCEPT !.snap[k] = MarkedAs(kind, at),
                                          !.bare = FALSE] IN
         /\ stored' = [stored EXCEPT ![k] = MarkedAs(kind, at)]
         /\ req' = [req EXCEPT ![r] =
              IF q.streaming /\ q.pass # "probe" /\ ~Selectable(q)
              THEN PassOver(q, FALSE) ELSE q]
    /\ UNCHANGED <<now, enabled>>

\* A bare 429 rotates without a mark.  A streaming pass left without a usable
\* key goes straight to its retry; a buffered one may still probe a key.
RateLimited(r) ==
    /\ req[r].pc = "inflight" /\ ~req[r].sel.probe /\ req[r].pass # "probe"
    /\ LET q == [Rotated(req[r]) EXCEPT !.bare = ~req[r].streaming] IN
       req' = [req EXCEPT ![r] =
            IF q.streaming /\ Usable(q) = {} THEN PassOver(q, TRUE) ELSE q]
    /\ UNCHANGED <<now, stored, enabled>>

\* Any other failure ends the pass; only a retryable one schedules a retry.  A
\* failure in the scope of a model pool leaves even a key probe's mark alone.
PassFailed(r) ==
    /\ req[r].pc = "inflight"
    /\ \E again \in {FALSE, ~req[r].sel.probe} :
        req' = [req EXCEPT ![r] = PassOver(req[r], again)]
    /\ UNCHANGED <<now, stored, enabled>>

\* The next pass over this provider: a scheduled retry, the half-open mapping
\* probe or a fallback source; those stages never go back to retrying.
NextPass(r, kind) ==
    /\ req[r].pc = "between" /\ req[r].passes < MaxPasses
    /\ \/ kind = "retry" /\ req[r].again /\ req[r].pass \in {"initial", "retry"}
       \/ kind \in {"probe", "fallback"}
    /\ req' = [req EXCEPT ![r].pc = "sync", ![r].pass = kind,
                          ![r].passes = @ + 1, ![r].again = FALSE]
    /\ UNCHANGED <<now, stored, enabled>>

\* The request is over: it is exhausted, or its caller hung up.
Finish(r) ==
    /\ req[r].pc # "idle"
    /\ req' = [req EXCEPT ![r] = Idle]
    /\ UNCHANGED <<now, stored, enabled>>

-----------------------------------------------------------------------------
(* The steps of the rest of the program. *)

Tick ==
    /\ now < MaxTime
    /\ now' = now + 1
    /\ UNCHANGED <<stored, enabled, req>>

\* ai_gateway_reenable_provider_key; saving a new key value does the same.
Reenable(k) ==
    /\ stored' = [stored EXCEPT ![k] = Unmarked]
    /\ UNCHANGED <<now, enabled, req>>

\* The user switches a key on or off in the provider editor.
Toggle(k) ==
    /\ enabled' = [enabled EXCEPT ![k] = ~@]
    /\ UNCHANGED <<now, stored, req>>

\* scan_due_daily_reset_marks, with the time it was called at.
DailyScan ==
    /\ \E t \in 0..now :
         stored' = [k \in Keys |->
                      IF enabled[k] /\ DailyResetDue(k, stored[k], t)
                      THEN Unmarked ELSE stored[k]]
    /\ UNCHANGED <<now, enabled, req>>

RequestStep(r) ==
    \/ Begin(r)
    \/ Sync(r)
    \/ \E k \in Keys, probe \in BOOLEAN : Select(r, k, probe)
    \/ Exhausted(r)
    \/ Served(r)
    \/ EndedUnserved(r)
    \/ \E kind \in Kinds : ProbeFailed(r, kind)
    \/ \E kind \in Kinds \ {"none"} : KeyFailed(r, kind)
    \/ RateLimited(r)
    \/ PassFailed(r)
    \/ \E kind \in PassKinds : NextPass(r, kind)
    \/ Finish(r)

Next ==
    \/ \E r \in Requests : RequestStep(r)
    \/ \E k \in Keys : Reenable(k)
    \/ \E k \in Switched : Toggle(k)
    \/ DailyScan
    \/ Tick

Spec == Init /\ [][Next]_vars

-----------------------------------------------------------------------------
(* Properties. *)

TypeOK ==
    /\ now \in Nat
    /\ stored \in [Keys -> Marks]
    /\ enabled \in [Keys -> BOOLEAN]
    /\ req \in [Requests -> ReqStates]

\* How long a mark keeps its key out of use: for good when it is an
\* authentication mark, else until the next day or for the time to live, or
\* for the probe cooldown when the key is only probed.
Rested(k, m, s) ==
    /\ m.kind # "auth"
    /\ m.kind = "quota" =>
         IF s.probe THEN k \notin Daily /\ s.at >= m.at + Cooldown
         ELSE IF k \in Daily THEN Day(s.at) > Day(m.at)
         ELSE s.at >= m.at + Ttl

\* A mark found by a request's last look at the file is honoured until its next
\* one, however many keys the request marks, clears, rotates through and probes
\* in between: the key it contacts had served out that mark.
MarkedKeyRests ==
    \A r \in Requests : req[r].pc = "inflight" =>
        Rested(req[r].sel.key, req[r].seen[req[r].sel.key], req[r].sel)

\* One request sends at most one key probe, over all of its passes: first
\* pass, retries, half-open mapping probe and fallback sources.
OneKeyProbe == \A r \in Requests : req[r].probes <= 1

\* A late outcome may move the start of a key's rest into the past, as its time
\* is read before the file is locked; but it replaces by an older mark only one
\* that was written after its request had last looked at the file, and never by
\* one from before the request chose the key: what a request has seen it does
\* not shorten, and what fails after the other has ended does not either.
MarksAdvance ==
    [][\A k \in Keys :
        /\ stored[k].kind # "none" /\ stored'[k].kind # "none"
        /\ stored'[k].at < stored[k].at
        => \E r \in Requests :
             /\ req[r].pc = "inflight" /\ req[r].sel.key = k
             /\ stored[k] # req[r].seen[k]
             /\ stored'[k].at >= req[r].sel.at]_vars

\* What attempt_policy.rs says of authentication marks: they are manual-only,
\* so none disappears but by the operator's re-enable of that key.
AuthMarksManualOnly ==
    [][\A k \in Keys :
        stored[k].kind = "auth" /\ stored'[k].kind # "auth" => Reenable(k)]_vars
=============================================================================
