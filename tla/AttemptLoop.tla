----------------------------- MODULE AttemptLoop -----------------------------
(***************************************************************************)
(* The attempt loop of one AI-gateway request: the order in which it turns *)
(* to the candidates it was planned with, the bounded retries it schedules *)
(* within its waiting budget, its single half-open mapping probe and its   *)
(* last-stage fallback queue, for both transports: the buffered loop of    *)
(* runtime_http/non_streaming.rs and the streaming loop of                 *)
(* runtime_http/streaming.rs.                                              *)
(*                                                                         *)
(* A source is one candidate provider.  Which key a pass uses, and what it *)
(* does to key marks and row health, is in KeyPool and MappingHealth; here *)
(* a pass may find a key, or not, and may rotate to another one.           *)
(***************************************************************************)
EXTENDS Naturals, Sequences, SequencesExt

CONSTANTS Sources,      \* candidate providers
          NoSource,     \* no candidate
          Modes,        \* the transports: "buffered", "streaming"
          Plans,        \* what a request may be planned with
          MaxRetries,   \* settings.max_retries_per_provider
          Budget,       \* settings.request_budget_secs
          Delays,       \* backoff delays: a retry header's, or the default one
          Durations,    \* how long one contact with an upstream may take
          MaxLate,      \* how late a sleep may end
          MaxRotations  \* bound on the key rotations of the request

\* ordered: the healthy candidates, all different; probe: the row to probe;
\* fallback: the fallback queue, half marking the stages that probe a row too.
Stages == [src : Sources, half : BOOLEAN]

ASSUME AttemptLoopAssumption ==
    /\ NoSource \notin Sources
    /\ Modes \subseteq {"buffered", "streaming"}
    /\ Plans \subseteq [ordered : Seq(Sources), probe : Sources \cup {NoSource},
                        fallback : Seq(Stages)]
    /\ \A p \in Plans : \A i, j \in DOMAIN p.ordered :
         /\ p.ordered[i] # p.probe
         /\ p.ordered[i] = p.ordered[j] => i = j
    /\ MaxRetries \in Nat /\ Budget \in Nat /\ MaxLate \in Nat
    /\ Delays \subseteq Nat /\ Durations \subseteq Nat /\ MaxRotations \in Nat

\* The stages of a request, in the order it is to go through them.
Rank == [first |-> 1, retry |-> 2, probe |-> 3, fallback |-> 4]

\* kind, half: the stage the pass belongs to, and whether it probes a row;
\* attempts: RetryCandidate.attempts; slot: retry_index; bare: the pass last
\* met a bare 429; reached: the pass has contacted its source.
Passes ==
    [src : Sources, kind : DOMAIN Rank, half : BOOLEAN, attempts : Nat,
     slot : Nat, bare : BOOLEAN, reached : BOOLEAN]
Retries == [src : Sources, attempts : Nat, ready : Nat]

VARIABLES mode,       \* the transport
          clock,      \* Instant::now()
          wait,       \* remaining_wait
          queue,      \* the healthy candidates that still wait for a first pass
          retries,    \* retries
          over,       \* the buffered retry loop has been left
          probe,      \* the row that waits for its half-open probe
          guard,      \* the request holds a probe guard
          fallback,   \* the fallback stages left
          active,     \* fallback_active
          attempted,  \* attempted_sources
          pc,         \* where the loop is
          cur,        \* the pass under way
          rotations,  \* key rotations so far
          slept,      \* history: the delays the request has waited out
          passes,     \* history: how many passes contacted each source
          stage       \* history: rank of the last stage a contact was made in

plan == <<queue, retries, over, probe, guard, fallback, active>>
vars == <<mode, clock, wait, plan, attempted, pc, cur, rotations, slept,
          passes, stage>>

NoPass == [src |-> NoSource]

Init ==
    /\ mode \in Modes
    /\ \E p \in Plans :
        queue = p.ordered /\ probe = p.probe /\ fallback = p.fallback
    /\ clock = 0 /\ wait = Budget /\ slept = 0
    /\ retries = <<>> /\ over = FALSE
    /\ guard = FALSE /\ active = FALSE
    /\ attempted = {} /\ passes = [s \in Sources |-> 0]
    /\ pc = "choose" /\ cur = NoPass
    /\ rotations = 0 /\ stage = 1

-----------------------------------------------------------------------------
(* Which pass comes next. *)

\* RetryCandidate::earliest: the earliest deadline, ties in the order of the
\* queue.
Earliest(i) ==
    /\ i \in DOMAIN retries
    /\ \A j \in DOMAIN retries :
        \/ retries[i].ready < retries[j].ready
        \/ retries[i].ready = retries[j].ready /\ i <= j

\* A mistake: a deadline that has passed gives a negative pause.
Pause_Wrapping(i) == retries[i].ready - clock

\* saturating_duration_since
Pause(i) == IF retries[i].ready > clock THEN retries[i].ready - clock ELSE 0

\* next_ready: the earliest retry can be waited for within the budget.
Ready(i) == Earliest(i) /\ Pause(i) <= wait

\* A mistake: a retry that the budget no longer allows is still waited for.
Drained_Patient == queue = <<>> /\ (over \/ retries = <<>>)

\* Nothing is left before the half-open probe.  The buffered loop looks at its
\* retries no more once none was ready; the streaming loop looks again and
\* again.
Drained == queue = <<>> /\ (over \/ \A i \in DOMAIN retries : ~Ready(i))

\* A mistake: the buffered loop comes back to its retries.
LeavesRetries_Never == FALSE

LeavesRetries == mode = "buffered"

Enter(s, kind, half, attempts, slot, reached) ==
    /\ pc' = "select"
    /\ cur' = [src |-> s, kind |-> kind, half |-> half, attempts |-> attempts,
               slot |-> slot, bare |-> FALSE, reached |-> reached]

\* The first pass of a healthy candidate, without any delay.
First ==
    /\ pc = "choose" /\ queue # <<>>
    /\ Enter(Head(queue), "first", FALSE, 0, Len(retries) + 1, FALSE)
    /\ queue' = Tail(queue)
    /\ UNCHANGED <<mode, clock, wait, retries, over, probe, guard, fallback,
                   active, attempted, rotations, slept, passes, stage>>

\* A mistake: only the oversleep is taken off.
Debited_Late(pause, late) == IF wait > late THEN wait - late ELSE 0

\* saturating_sub: what is left of the budget after a sleep.
Debited(pause, late) == IF wait > pause + late THEN wait - (pause + late) ELSE 0

\* A retry, after its deadline; the sleep is taken off the budget.
Retry(i) ==
    /\ pc = "choose" /\ queue = <<>> /\ ~over /\ Ready(i)
    /\ LET entry == retries[i] IN
       /\ Enter(entry.src, "retry", FALSE, entry.attempts, i, FALSE)
       /\ IF Pause(i) = 0 THEN UNCHANGED <<clock, wait>>
          ELSE \E late \in 0..MaxLate :
            /\ clock' = clock + Pause(i) + late
            /\ wait' = Debited(Pause(i), late)
    /\ slept' = slept + Pause(i)
    /\ retries' = RemoveAt(retries, i)
    /\ UNCHANGED <<mode, queue, over, probe, guard, fallback, active,
                   attempted, rotations, passes, stage>>

\* try_acquire_probe_guard: a guard is held until the request ends, and is
\* denied while another request probes the row.
Acquired(got) == guard' = (guard \/ got)

\* The half-open probe, entered again after each of its streaming rotations,
\* or skipped because another request probes the row.
Probe(got) ==
    /\ pc = "choose" /\ Drained /\ probe # NoSource
    /\ Acquired(got)
    /\ IF guard'
       THEN Enter(probe, IF active THEN "fallback" ELSE "probe", TRUE, 0,
                  Len(retries) + 1, guard)
       ELSE UNCHANGED <<pc, cur>>
    /\ probe' = NoSource
    /\ over' = LeavesRetries
    /\ UNCHANGED <<mode, clock, wait, queue, retries, fallback, active,
                   attempted, rotations, slept, passes, stage>>

\* The next fallback stage, skipped when its source was attempted before or
\* another request probes its row.
Fallback(got) ==
    /\ pc = "choose" /\ Drained /\ probe = NoSource /\ fallback # <<>>
    /\ LET f == Head(fallback) IN
       IF f.src \in attempted
       THEN UNCHANGED <<active, guard, pc, cur>>
       ELSE /\ active' = TRUE
            /\ IF f.half THEN Acquired(got) ELSE UNCHANGED guard
            /\ IF f.half /\ ~guard' THEN UNCHANGED <<pc, cur>>
               ELSE Enter(f.src, "fallback", f.half, 0, Len(retries) + 1, FALSE)
    /\ fallback' = Tail(fallback)
    /\ over' = LeavesRetries
    /\ UNCHANGED <<mode, clock, wait, queue, retries, probe, attempted,
                   rotations, slept, passes, stage>>

\* Every candidate is exhausted: the caller gets a 502.
GiveUp ==
    /\ pc = "choose" /\ Drained /\ probe = NoSource /\ fallback = <<>>
    /\ pc' = "done"
    /\ UNCHANGED <<mode, clock, wait, plan, attempted, cur, rotations, slept,
                   passes, stage>>

-----------------------------------------------------------------------------
(* One pass. *)

\* A mistake: only the queued stages are remembered.
Remembered_Queued ==
    IF cur.kind = "fallback" THEN attempted \cup {cur.src} ELSE attempted

Remembered == attempted \cup {cur.src}

\* select_attempt_key finds a key: the source is contacted with it.
Contact ==
    /\ pc = "select"
    /\ pc' = "contact"
    /\ cur' = [cur EXCEPT !.reached = TRUE]
    /\ attempted' = Remembered
    /\ passes' = IF cur.reached THEN passes
                 ELSE [passes EXCEPT ![cur.src] = @ + 1]
    /\ stage' = Rank[cur.kind]
    /\ UNCHANGED <<mode, clock, wait, plan, rotations, slept>>

\* Two mistakes: one retry too many, and retries of the queued stages.
Earned_OneMore(p) == ~p.half /\ ~active /\ p.attempts <= MaxRetries
Earned_Always(p)  == ~p.half /\ p.attempts + 1 <= MaxRetries

\* The first buffered pass always earns its source another one; a half-open
\* probe never does, nor does any pass once the fallback queue was entered.
Earned(p) ==
    /\ ~p.half /\ ~active
    /\ (mode = "buffered" /\ p.kind = "first") \/ p.attempts + 1 <= MaxRetries

Scheduled(p, t) ==
    \E d \in Delays :
        retries' = InsertAt(retries, p.slot,
            [src |-> p.src, attempts |-> p.attempts + 1, ready |-> t + d])

PassOver(again, t) ==
    /\ pc' = "choose" /\ cur' = NoPass
    /\ IF again /\ Earned(cur) THEN Scheduled(cur, t) ELSE UNCHANGED retries
    /\ UNCHANGED <<queue, over, probe, guard, fallback, active>>

\* No key is left: the pass is dropped, unless it is a buffered one that bare
\* rate limits wore out.
NoKey ==
    /\ pc = "select"
    /\ PassOver(cur.bare, clock)
    /\ UNCHANGED <<mode, clock, wait, attempted, rotations, slept, passes,
                   stage>>

\* The contact takes d seconds.
Answer(d) ==
    /\ pc = "contact" /\ d \in Durations
    /\ clock' = clock + d
    /\ UNCHANGED <<mode, wait, attempted, slept, passes, stage>>

\* The caller gets its answer: the source served it, the error is the
\* caller's own, or a stream broke after its first byte.
Answered(d) ==
    /\ Answer(d)
    /\ pc' = "done"
    /\ UNCHANGED <<plan, cur, rotations>>

\* The pass goes on with the next key.  A streaming pass goes through the
\* queues for it: a probe back to the pending probe, any other pass to the
\* front of the candidates, so that its retry would go last.
Rotate(bare) ==
    /\ rotations < MaxRotations
    /\ rotations' = rotations + 1
    /\ IF mode = "streaming" /\ cur.half
       THEN pc' = "choose" /\ cur' = NoPass /\ probe' = cur.src
       ELSE /\ pc' = "select" /\ UNCHANGED probe
            /\ cur' = [cur EXCEPT
                 !.bare = bare,
                 !.slot = IF mode = "streaming" THEN Len(retries) + 1 ELSE @]
    /\ UNCHANGED <<queue, retries, over, guard, fallback, active>>

\* A key-scoped failure marks the key and rotates.
KeyFailed(d) == Answer(d) /\ Rotate(FALSE)

\* A bare 429 rotates, except in a probe.
RateLimited(d) == Answer(d) /\ ~cur.half /\ Rotate(mode = "buffered")

\* Any other failure, a failed key probe and a streaming bare 429 on the last
\* usable key end the pass; a retryable one asks for a retry.
Failed(d, again) ==
    /\ Answer(d)
    /\ PassOver(again, clock')
    /\ UNCHANGED rotations

\* The caller hangs up.
Hangup ==
    /\ pc # "done"
    /\ pc' = "done"
    /\ UNCHANGED <<mode, clock, wait, plan, attempted, cur, rotations, slept,
                   passes, stage>>

Loop ==
    \/ First
    \/ \E i \in DOMAIN retries : Retry(i)
    \/ \E got \in BOOLEAN : Probe(got)
    \/ \E got \in BOOLEAN : Fallback(got)
    \/ GiveUp
    \/ Contact
    \/ NoKey
    \/ \E d \in Durations :
        \/ Answered(d)
        \/ KeyFailed(d)
        \/ RateLimited(d)
        \/ \E again \in BOOLEAN : Failed(d, again)

Next == Loop \/ Hangup

Spec     == Init /\ [][Next]_vars
FairSpec == Spec /\ WF_vars(Loop)

-----------------------------------------------------------------------------
(* Properties. *)

TypeOK ==
    /\ mode \in Modes
    /\ clock \in Nat /\ wait \in Nat /\ slept \in Nat
    /\ queue \in Seq(Sources) /\ retries \in Seq(Retries)
    /\ fallback \in Seq(Stages)
    /\ probe \in Sources \cup {NoSource}
    /\ over \in BOOLEAN /\ guard \in BOOLEAN /\ active \in BOOLEAN
    /\ attempted \subseteq Sources
    /\ pc \in {"choose", "select", "contact", "done"}
    /\ cur \in Passes \cup {NoPass}
    /\ pc \in {"select", "contact"} => cur \in Passes
    /\ rotations \in Nat
    /\ passes \in [Sources -> Nat]
    /\ stage \in 1..4

\* A source is contacted in at most 1 + MaxRetries passes of one request, over
\* its first pass, its retries, the probe and the fallback queue.
PassBudget == \A s \in Sources : passes[s] <= 1 + MaxRetries

\* However the deadlines of the sources interleave, and however late the sleeps
\* end, the delays a request waits out never add up to more than its budget.
WaitBudget == slept + wait <= Budget

\* The fallback queue is the last resort of a source as well: it contacts only
\* sources this request has not contacted in any way, and once each.
FallbackOnce ==
    pc = "contact" /\ cur.kind = "fallback" => passes[cur.src] = 1

\* From the first fallback stage on, no retry is scheduled, be it by the stage
\* or by a retry that was still outstanding.
FallbackSchedulesNothing ==
    [][active => \A i \in DOMAIN retries' :
                   \E j \in DOMAIN retries : retries'[i] = retries[j]]_vars

\* The half-open probe is taken after every bounded retry has failed, and the
\* fallback queue after every bounded retry and the probe (the comments of the
\* two loops): no contact goes back to an earlier stage.  The streaming loop does not
\* keep it.
StagesInOrder == [][stage' >= stage]_vars

\* What holds of that: the buffered loop never contacts a source in an earlier
\* stage than the last one.
BufferedInOrder == [][mode = "buffered" => stage' >= stage]_vars

\* Every request comes to an end.
Ends == <>(pc = "done")
=============================================================================
