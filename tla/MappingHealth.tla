---------------------------- MODULE MappingHealth ----------------------------
(***************************************************************************)
(* The health of the AI gateway's model-mapping rows: the runtime state    *)
(* stored in the configuration file, the outcomes a request buffers while  *)
(* it tries rows, their settlement when it ends, and the half-open probe   *)
(* of a disabled row under a process-wide single-flight guard              *)
(* (selection/health.rs, selection/probe.rs, RequestHealth in              *)
(* attempt_policy.rs and its callers in runtime_http).                     *)
(*                                                                         *)
(* A row here is one (provider, local model, upstream model) identity,     *)
(* each with a provider of its own; last_error_at, which no decision       *)
(* reads, is left out.                                                     *)
(***************************************************************************)
EXTENDS Naturals

CONSTANTS NRows,      \* mapping rows that serve the requested model
          Requests,   \* concurrent inbound requests
          Threshold,  \* settings.failure_threshold; 0 never disables
          Cooldown,   \* settings.probe_cooldown_secs
          MaxTime     \* bound of the clock

Rows  == 1..NRows
NoRow == 0

ASSUME MappingHealthAssumption ==
    /\ NRows \in Nat /\ Threshold \in Nat /\ Cooldown \in Nat /\ MaxTime \in Nat

\* What disabled_reason tells the code: "auth" is a reason that starts with
\* HTTP 401 or HTTP 403, "other" any other text.
Reasons == {"none", "auth", "other"}

Phases == {"idle", "trying", "probing", "ending", "ended"}

\* What an attempt on a row shows: "failed" is a counted failure, "dropped" a
\* transport failure within the grace after a system resume, "passing" a 404 or
\* a rate limit, "refused" a 401 or 403 that is not about the key.
Events == {"failed", "dropped", "passing", "refused", "served"}

RowStates == [auto : BOOLEAN, reason : Reasons, at : Nat, count : Nat]
Plans     == [rows : SUBSET Rows, probe : Rows \cup {NoRow}, graced : BOOLEAN]
Outcomes  == [failed : BOOLEAN, refused : BOOLEAN, served : BOOLEAN]
Results   == [kind : {"none", "served", "failed"}, details : BOOLEAN,
              reason : Reasons, at : Nat]

Healthy    == [auto |-> FALSE, reason |-> "none", at |-> 0, count |-> 0]
NoPlan     == [rows |-> {}, probe |-> NoRow, graced |-> FALSE]
NoOutcomes == [k \in Rows |-> [failed |-> FALSE, refused |-> FALSE,
                               served |-> FALSE]]
NoResult   == [kind |-> "none", details |-> FALSE, reason |-> "none", at |-> 0]
NoEvents   == [k \in Rows |-> {}]

VARIABLES now,     \* now_ts()
          rows,    \* the persisted runtime state of every row
          active,  \* active_probes(): the rows with a probe in flight
          pc,      \* where every request is
          plan,    \* what a request read when it began
          held,    \* the row whose ProbeGuard a request holds
          out,     \* RequestHealth.outcomes
          result,  \* RequestHealth.probe
          log      \* history: what the attempts of the request showed

vars == <<now, rows, active, pc, plan, held, out, result, log>>

Init ==
    /\ now = 0
    /\ rows = [k \in Rows |-> Healthy]
    /\ active = {}
    /\ pc = [r \in Requests |-> "idle"]
    /\ plan = [r \in Requests |-> NoPlan]
    /\ held = [r \in Requests |-> NoRow]
    /\ out = [r \in Requests |-> NoOutcomes]
    /\ result = [r \in Requests |-> NoResult]
    /\ log = [r \in Requests |-> NoEvents]

-----------------------------------------------------------------------------
(* The mutations of selection/health.rs. *)

\* A mistake: the first probe is made due at once.
Registered_Backdated(m, refused, t) ==
    LET n == IF refused THEN m.count ELSE m.count + 1 IN
    IF ~m.auto /\ (refused \/ (Threshold > 0 /\ n >= Threshold))
    THEN [auto |-> TRUE, reason |-> IF refused THEN "auth" ELSE "other",
          at |-> t - Cooldown, count |-> n]
    ELSE [m EXCEPT !.count = n]

\* register_mapping_failure_with_threshold: refused is its immediate class,
\* which leaves the counter alone.
Registered(m, refused, t) ==
    LET n == IF refused THEN m.count ELSE m.count + 1 IN
    IF ~m.auto /\ (refused \/ (Threshold > 0 /\ n >= Threshold))
    THEN [auto |-> TRUE, reason |-> IF refused THEN "auth" ELSE "other",
          at |-> t, count |-> n]
    ELSE [m EXCEPT !.count = n]

\* rearm_mapping_probe_cooldown
Rearmed(m, p) ==
    [m EXCEPT !.auto = TRUE, !.at = p.at,
              !.reason = IF p.details THEN p.reason ELSE @]

\* A row after the settlement of the request's probe, which comes first.
AfterProbe(r, k) ==
    CASE k # held[r] \/ result[r].kind = "none" -> rows[k]
      [] k = held[r] /\ result[r].kind = "served" -> Healthy
      [] k = held[r] /\ result[r].kind = "failed" -> Rearmed(rows[k], result[r])

\* A mistake: a failure of an earlier attempt outweighs the success.
Settled_FailureFirst(r, k) ==
    LET m == AfterProbe(r, k)
        o == out[r][k] IN
    CASE o.refused                            -> m
      [] ~o.refused /\ o.failed               -> Registered(m, FALSE, now)
      [] ~o.refused /\ ~o.failed /\ o.served  -> [m EXCEPT !.count = 0]
      [] ~o.refused /\ ~o.failed /\ ~o.served -> m

\* A row after the settlement of the request's other outcomes as well.
Settled(r, k) ==
    LET m == AfterProbe(r, k)
        o == out[r][k] IN
    CASE o.refused                             -> m
      [] ~o.refused /\ o.served                -> [m EXCEPT !.count = 0]
      [] ~o.refused /\ ~o.served /\ o.failed   -> Registered(m, FALSE, now)
      [] ~o.refused /\ ~o.served /\ ~o.failed  -> m

\* A mistake: rate limits and 404s count.
Heard_AllFailures(o, e) == [failed  |-> o.failed  \/ e \in {"failed", "passing"},
                            refused |-> o.refused \/ e = "refused",
                            served  |-> o.served  \/ e = "served"]

\* The buffered outcome of a row after one more attempt on it; a failure within
\* the grace and a passing one leave it as it was.
Heard(o, e) == [failed  |-> o.failed  \/ e = "failed",
                refused |-> o.refused \/ e = "refused",
                served  |-> o.served  \/ e = "served"]

-----------------------------------------------------------------------------
(* The steps of a request. *)

\* find_probe_candidate_with_settings: the rows eligible for a probe.
Eligible(k) ==
    /\ rows[k].auto /\ rows[k].reason # "auth"
    /\ now >= rows[k].at + Cooldown
    /\ Threshold > 0 => rows[k].count >= Threshold

OldestEligible(k) ==
    /\ Eligible(k)
    /\ \A j \in Rows \ {k} : Eligible(j) =>
         rows[k].at < rows[j].at \/ (rows[k].at = rows[j].at /\ k < j)

\* handle_connection: the plan of a request is made once, from one read of the
\* configuration: the rows that may serve it and the row it may probe.
Begin(r) ==
    /\ pc[r] = "idle"
    /\ \E graced \in BOOLEAN, k \in Rows \cup {NoRow} :
        /\ IF k = NoRow THEN \A j \in Rows : ~Eligible(j) ELSE OldestEligible(k)
        /\ plan' = [plan EXCEPT ![r] = [rows   |-> {j \in Rows : ~rows[j].auto},
                                        probe  |-> k,
                                        graced |-> graced]]
    /\ pc' = [pc EXCEPT ![r] = "trying"]
    /\ UNCHANGED <<now, rows, active, held, out, result, log>>

\* record_failure, at most once per row written at once: a refusal disables the
\* row without waiting for the request to end.
AttemptFails(r, k, e) ==
    /\ pc[r] = "trying" /\ k \in plan[r].rows /\ e # "served"
    /\ e = "dropped" => plan[r].graced
    /\ rows' = IF e = "refused" /\ ~out[r][k].refused
               THEN [rows EXCEPT ![k] = Registered(@, TRUE, now)] ELSE rows
    /\ out' = [out EXCEPT ![r][k] = Heard(@, e)]
    /\ log' = [log EXCEPT ![r][k] = @ \cup {e}]
    /\ UNCHANGED <<now, active, pc, plan, held, result>>

\* settle_success: the response is final.
AttemptServes(r, k) ==
    /\ pc[r] = "trying" /\ k \in plan[r].rows
    /\ out' = [out EXCEPT ![r][k] = Heard(@, "served")]
    /\ log' = [log EXCEPT ![r][k] = @ \cup {"served"}]
    /\ pc' = [pc EXCEPT ![r] = "ending"]
    /\ UNCHANGED <<now, rows, active, plan, held, result>>

\* The request ends without being served: every source is exhausted, an error
\* goes back to the caller, or a stream breaks after its first byte.
GivesUp(r) ==
    /\ pc[r] = "trying"
    /\ pc' = [pc EXCEPT ![r] = "ending"]
    /\ UNCHANGED <<now, rows, active, plan, held, out, result, log>>

\* A mistake: a probe starts without asking for the guard.
StartProbe_Unguarded(r) ==
    /\ pc[r] = "trying" /\ plan[r].probe # NoRow
    /\ active' = active \cup {plan[r].probe}
    /\ held' = [held EXCEPT ![r] = plan[r].probe]
    /\ plan' = [plan EXCEPT ![r] = [@ EXCEPT !.probe = NoRow]]
    /\ pc' = [pc EXCEPT ![r] = "probing"]
    /\ UNCHANGED <<now, rows, out, result, log>>

\* try_acquire_probe_guard, when no candidate served: the row is looked up no
\* more, and a request that finds its probe in flight goes on without one.
StartProbe(r) ==
    /\ pc[r] = "trying" /\ plan[r].probe # NoRow
    /\ LET k == plan[r].probe IN
       /\ k \notin active
       /\ active' = active \cup {k}
       /\ held' = [held EXCEPT ![r] = k]
    /\ plan' = [plan EXCEPT ![r] = [@ EXCEPT !.probe = NoRow]]
    /\ pc' = [pc EXCEPT ![r] = "probing"]
    /\ UNCHANGED <<now, rows, out, result, log>>

SkipProbe(r) ==
    /\ pc[r] = "trying" /\ plan[r].probe \in active
    /\ plan' = [plan EXCEPT ![r] = [@ EXCEPT !.probe = NoRow]]
    /\ UNCHANGED <<now, rows, active, pc, held, out, result, log>>

\* record_probe_success
ProbeServes(r) ==
    /\ pc[r] = "probing"
    /\ result' = [result EXCEPT ![r] = [NoResult EXCEPT !.kind = "served"]]
    /\ pc' = [pc EXCEPT ![r] = "ending"]
    /\ UNCHANGED <<now, rows, active, plan, held, out, log>>

\* record_probe_failure: the request ends with the error, or goes on to its
\* fallback sources.  In the grace after a resume a transport failure only
\* moves the cooldown.
ProbeFails(r, reason, transport, next) ==
    /\ pc[r] = "probing"
    /\ transport => reason = "other"
    /\ result' = [result EXCEPT ![r] =
         [kind |-> "failed", details |-> ~(transport /\ plan[r].graced),
          reason |-> reason, at |-> now]]
    /\ pc' = [pc EXCEPT ![r] = next]
    /\ UNCHANGED <<now, rows, active, plan, held, out, log>>

\* The probe had no key to try, or failed in the scope of a model pool: nothing
\* is recorded, and the guard stays with the request.
ProbeUnsettled(r) ==
    /\ pc[r] = "probing"
    /\ pc' = [pc EXCEPT ![r] = "trying"]
    /\ UNCHANGED <<now, rows, active, plan, held, out, result, log>>

\* RequestHealth::apply: one write settles everything against the latest file.
Settle(r) ==
    /\ pc[r] = "ending"
    /\ rows' = [k \in Rows |-> Settled(r, k)]
    /\ pc' = [pc EXCEPT ![r] = "ended"]
    /\ UNCHANGED <<now, active, plan, held, out, result, log>>

\* A mistake: only a settled request frees the row it probed.
Released_IfSettled(r) == IF pc[r] = "ended" THEN active \ {held[r]} ELSE active

\* ProbeGuard::drop: the row is free again.
Released(r) == active \ {held[r]}

\* The request's future is dropped, and its guard with it.
Forget(r) ==
    /\ active' = Released(r)
    /\ held' = [held EXCEPT ![r] = NoRow]
    /\ pc' = [pc EXCEPT ![r] = "idle"]
    /\ plan' = [plan EXCEPT ![r] = NoPlan]
    /\ out' = [out EXCEPT ![r] = NoOutcomes]
    /\ result' = [result EXCEPT ![r] = NoResult]
    /\ log' = [log EXCEPT ![r] = NoEvents]
    /\ UNCHANGED <<now, rows>>

Finish(r) == pc[r] = "ended" /\ Forget(r)

\* The caller hangs up at an await: nothing is settled.
Cancel(r) == pc[r] \in {"trying", "probing"} /\ Forget(r)

-----------------------------------------------------------------------------

Tick ==
    /\ now < MaxTime
    /\ now' = now + 1
    /\ UNCHANGED <<rows, active, pc, plan, held, out, result, log>>

\* ai_gateway_reenable_provider_model
Reenable(k) ==
    /\ rows' = [rows EXCEPT ![k] = Healthy]
    /\ UNCHANGED <<now, active, pc, plan, held, out, result, log>>

\* What a request does between its arrival and its end, but for hanging up.
Advance(r) ==
    \/ \E k \in Rows, e \in Events : AttemptFails(r, k, e)
    \/ \E k \in Rows : AttemptServes(r, k)
    \/ GivesUp(r)
    \/ StartProbe(r)
    \/ SkipProbe(r)
    \/ ProbeServes(r)
    \/ \E reason \in {"auth", "other"}, transport \in BOOLEAN,
          next \in {"trying", "ending"} : ProbeFails(r, reason, transport, next)
    \/ ProbeUnsettled(r)
    \/ Settle(r)
    \/ Finish(r)

Next ==
    \/ \E r \in Requests : Begin(r) \/ Advance(r) \/ Cancel(r)
    \/ \E k \in Rows : Reenable(k)
    \/ Tick

Spec == Init /\ [][Next]_vars

\* Every upstream attempt ends, if only by its timeout, and a request's retries
\* are bounded: it keeps moving.
FairSpec == Spec /\ \A r \in Requests : WF_vars(Advance(r))

-----------------------------------------------------------------------------
(* Properties. *)

TypeOK ==
    /\ now \in Nat
    /\ rows \in [Rows -> RowStates]
    /\ active \in SUBSET Rows
    /\ pc \in [Requests -> Phases]
    /\ plan \in [Requests -> Plans]
    /\ held \in [Requests -> Rows \cup {NoRow}]
    /\ out \in [Requests -> [Rows -> Outcomes]]
    /\ result \in [Requests -> Results]
    /\ log \in [Requests -> [Rows -> SUBSET Events]]

\* Single flight: the rows marked as being probed are exactly those whose guard
\* a live request holds, and no two requests hold the same one, whichever way
\* requests end or are cancelled.
SingleFlight ==
    /\ active = {held[r] : r \in Requests} \ {NoRow}
    /\ \A r, s \in Requests : r # s /\ held[r] # NoRow => held[r] # held[s]

\* Health is counted in requests, not in attempts: a counter rises only by one,
\* when a request ends that met a counted failure on the row, was not served by
\* it and did not have it refused; 404s, rate limits and transport failures
\* within the resume grace alone never raise it.
CountsRequests ==
    [][\A k \in Rows : rows'[k].count > rows[k].count =>
        /\ rows'[k].count = rows[k].count + 1
        /\ \E r \in Requests :
             /\ pc[r] = "ending" /\ pc'[r] = "ended"
             /\ "failed" \in log[r][k]
             /\ log[r][k] \cap {"served", "refused"} = {}]_vars

\* A row is never disabled by a request it served: not by the failures of
\* earlier attempts of that request, nor by a probe it held.
ServedNeverDisables ==
    [][\A r \in Requests, k \in Rows :
        /\ pc[r] = "ending" /\ pc'[r] = "ended"
        /\ "served" \in log[r][k] \/ (k = held[r] /\ result[r].kind = "served")
        /\ rows'[k].auto
        => rows[k].auto]_vars

\* A row is not kept from being probed for ever: whoever is probing it ends.
GuardsFreed == \A k \in Rows : k \in active ~> k \notin active

\* What the README promises: a row disabled for failing is probed again after
\* its cooldown, so it keeps the count that makes it eligible.
DisabledRowsProbeable ==
    \A k \in Rows :
        rows[k].auto /\ rows[k].reason # "auth" /\ Threshold > 0
            => rows[k].count >= Threshold

\* What rearm_mapping_probe_cooldown says of itself: the row of a failed probe
\* stays disabled, it does not become so.  One the operator re-enabled meanwhile
\* does.
ProbeOnlyRearms ==
    [][\A r \in Requests :
        /\ pc[r] = "ending" /\ pc'[r] = "ended"
        /\ result[r].kind = "failed"
        => rows[held[r]].auto]_vars
=============================================================================
