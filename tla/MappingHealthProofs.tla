------------------------- MODULE MappingHealthProofs -------------------------
(***************************************************************************)
(* Proofs about MappingHealth, for every number of rows and requests and   *)
(* every threshold and cooldown.                                           *)
(***************************************************************************)
EXTENDS MappingHealth, TLAPS

\* A request that holds a guard will not take another one.
Spent ==
    \A r \in Requests : held[r] # NoRow =>
        pc[r] # "idle" /\ plan[r].probe = NoRow

FlightInv == SingleFlight /\ Spent

\* The buffer says what the attempts showed, and only rows of the plan, never
\* the row that is probed, are attempted; a new request has attempted none.
Buffered ==
    \A r \in Requests :
        /\ pc[r] = "idle" => held[r] = NoRow /\ log[r] = NoEvents
        /\ plan[r].probe \notin plan[r].rows
        /\ held[r] \notin plan[r].rows
        /\ \A k \in Rows :
             /\ out[r][k].failed  <=> "failed"  \in log[r][k]
             /\ out[r][k].refused <=> "refused" \in log[r][k]
             /\ out[r][k].served  <=> "served"  \in log[r][k]
             /\ log[r][k] # {} => k \in plan[r].rows

-----------------------------------------------------------------------------
LEMMA Constants ==
    /\ Healthy \in RowStates /\ NoPlan \in Plans /\ NoResult \in Results
    /\ NoOutcomes \in [Rows -> Outcomes] /\ NoEvents \in [Rows -> SUBSET Events]
    /\ NoRow \notin Rows
BY MappingHealthAssumption
DEF Healthy, RowStates, Reasons, NoPlan, Plans, NoResult, Results, NoOutcomes,
    Outcomes, NoEvents, NoRow, Rows

LEMMA HeardType ==
    ASSUME NEW o \in Outcomes, NEW e \in Events
    PROVE  Heard(o, e) \in Outcomes
BY DEF Heard, Outcomes

LEMMA RegisteredType ==
    ASSUME NEW m \in RowStates, NEW refused \in BOOLEAN, NEW t \in Nat
    PROVE  /\ Registered(m, refused, t) \in RowStates
           /\ Registered(m, refused, t).count
                = IF refused THEN m.count ELSE m.count + 1
<1> DEFINE n == IF refused THEN m.count ELSE m.count + 1
           d == [auto |-> TRUE, reason |-> IF refused THEN "auth" ELSE "other",
                 at |-> t, count |-> n]
<1>1. n \in Nat /\ m.auto \in BOOLEAN
  BY DEF RowStates
<1>2. [m EXCEPT !.count = n] \in RowStates /\ [m EXCEPT !.count = n].count = n
  BY <1>1 DEF RowStates
<1>3. d \in RowStates /\ d.count = n
  BY <1>1 DEF RowStates, Reasons
<1>4. Registered(m, refused, t) \in {[m EXCEPT !.count = n], d}
  BY DEF Registered
<1>5. Registered(m, refused, t) \in RowStates
      /\ Registered(m, refused, t).count = n
  <2> HIDE DEF d, n
  <2> QED BY <1>2, <1>3, <1>4
<1> QED BY <1>5

LEMMA RearmedType ==
    ASSUME NEW m \in RowStates, NEW p \in Results
    PROVE  Rearmed(m, p) \in RowStates /\ Rearmed(m, p).count = m.count
BY DEF Rearmed, RowStates, Results

\* What the settlement does to a row's counter, and when it can disable a row.
LEMMA SettledRow ==
    ASSUME TypeOK, NEW r \in Requests, NEW k \in Rows
    PROVE  /\ Settled(r, k) \in RowStates
           /\ Settled(r, k).count > rows[k].count =>
                /\ Settled(r, k).count = rows[k].count + 1
                /\ out[r][k].failed /\ ~out[r][k].refused /\ ~out[r][k].served
<1> DEFINE m == AfterProbe(r, k)
           o == out[r][k]
<1>1. rows[k] \in RowStates /\ result[r] \in Results /\ o \in Outcomes /\ now \in Nat
  BY DEF TypeOK
<1>2. m \in RowStates /\ m.count <= rows[k].count
  <2>1. rows[k].count \in Nat
    BY <1>1 DEF RowStates
  <2>2. Healthy \in RowStates /\ Healthy.count = 0
    BY Constants DEF Healthy
  <2>3. Rearmed(rows[k], result[r]) \in RowStates
        /\ Rearmed(rows[k], result[r]).count = rows[k].count
    BY <1>1, RearmedType
  <2>4. result[r].kind \in {"none", "served", "failed"}
    BY <1>1 DEF Results
  <2>5. m = rows[k] \/ m = Healthy \/ m = Rearmed(rows[k], result[r])
    BY <2>4 DEF AfterProbe
  <2> HIDE DEF m
  <2> QED BY <1>1, <2>1, <2>2, <2>3, <2>5
<1>3. m.count \in Nat /\ rows[k].count \in Nat
  BY <1>1, <1>2 DEF RowStates
<1>4. [m EXCEPT !.count = 0] \in RowStates /\ [m EXCEPT !.count = 0].count = 0
  BY <1>2 DEF RowStates
<1>5. Registered(m, FALSE, now) \in RowStates
      /\ Registered(m, FALSE, now).count = m.count + 1
  BY <1>1, <1>2, RegisteredType
<1>6. o.failed \in BOOLEAN /\ o.refused \in BOOLEAN /\ o.served \in BOOLEAN
  BY <1>1 DEF Outcomes
<1>7. \/ Settled(r, k) = m
      \/ Settled(r, k) = [m EXCEPT !.count = 0]
      \/ /\ Settled(r, k) = Registered(m, FALSE, now)
         /\ o.failed /\ ~o.refused /\ ~o.served
  BY <1>6 DEF Settled
<1> HIDE DEF m
<1>8. CASE Settled(r, k) = m
  BY <1>2, <1>3, <1>8
<1>9. CASE Settled(r, k) = [m EXCEPT !.count = 0]
  BY <1>3, <1>4, <1>9
<1>10. CASE /\ Settled(r, k) = Registered(m, FALSE, now)
            /\ o.failed /\ ~o.refused /\ ~o.served
  <2>1. Settled(r, k).count = m.count + 1 /\ Settled(r, k) \in RowStates
    BY <1>5, <1>10
  <2>2. Settled(r, k).count > rows[k].count
          => Settled(r, k).count = rows[k].count + 1
    BY <1>2, <1>3, <2>1
  <2>3. out[r][k].failed /\ ~out[r][k].refused /\ ~out[r][k].served
    BY <1>10
  <2> QED BY <2>1, <2>2, <2>3
<1> QED BY <1>7, <1>8, <1>9, <1>10

-----------------------------------------------------------------------------
LEMMA TypeStep == TypeOK /\ [Next]_vars => TypeOK'
<1> SUFFICES ASSUME TypeOK, [Next]_vars PROVE TypeOK'
    OBVIOUS
<1> USE MappingHealthAssumption, Constants DEF TypeOK
<1>1. ASSUME NEW r \in Requests, Begin(r) PROVE TypeOK'
  <2>1. PICK graced \in BOOLEAN, k \in Rows \cup {NoRow} :
          plan' = [plan EXCEPT ![r] = [rows   |-> {j \in Rows : ~rows[j].auto},
                                       probe  |-> k,
                                       graced |-> graced]]
    BY <1>1 DEF Begin
  <2>2. [rows |-> {j \in Rows : ~rows[j].auto}, probe |-> k, graced |-> graced]
          \in Plans
    BY DEF Plans
  <2>3. plan' \in [Requests -> Plans]
    BY <2>1, <2>2
  <2> QED BY <1>1, <2>3 DEF Begin, Phases
<1>2. ASSUME NEW r \in Requests, NEW k \in Rows, NEW e \in Events,
             AttemptFails(r, k, e)
      PROVE  TypeOK'
  <2>1. Registered(rows[k], TRUE, now) \in RowStates
    BY RegisteredType
  <2>2. rows' \in [Rows -> RowStates]
    BY <1>2, <2>1 DEF AttemptFails
  <2>3. Heard(out[r][k], e) \in Outcomes
    BY HeardType
  <2>4. out' \in [Requests -> [Rows -> Outcomes]]
    BY <1>2, <2>3 DEF AttemptFails
  <2>5. log' \in [Requests -> [Rows -> SUBSET Events]]
    BY <1>2 DEF AttemptFails
  <2> QED BY <1>2, <2>2, <2>4, <2>5 DEF AttemptFails
<1>3. ASSUME NEW r \in Requests, NEW k \in Rows, AttemptServes(r, k)
      PROVE  TypeOK'
  <2>1. Heard(out[r][k], "served") \in Outcomes
    BY HeardType DEF Events
  <2>2. out' \in [Requests -> [Rows -> Outcomes]]
    BY <1>3, <2>1 DEF AttemptServes
  <2>3. log' \in [Requests -> [Rows -> SUBSET Events]]
    BY <1>3 DEF AttemptServes, Events
  <2> QED BY <1>3, <2>2, <2>3 DEF AttemptServes, Phases
<1>4. ASSUME NEW r \in Requests, GivesUp(r) \/ ProbeUnsettled(r) PROVE TypeOK'
  BY <1>4 DEF GivesUp, ProbeUnsettled, Phases
<1>5. ASSUME NEW r \in Requests, StartProbe(r) \/ SkipProbe(r) PROVE TypeOK'
  <2>1. plan[r] \in Plans /\ plan[r].probe \in Rows \cup {NoRow}
    BY DEF Plans
  <2>2. [plan[r] EXCEPT !.probe = NoRow] \in Plans
    BY <2>1 DEF Plans
  <2>3. plan' = [plan EXCEPT ![r] = [plan[r] EXCEPT !.probe = NoRow]]
    BY <1>5 DEF StartProbe, SkipProbe
  <2>4. plan' \in [Requests -> Plans]
    BY <2>2, <2>3
  <2>5. active' \in SUBSET Rows /\ held' \in [Requests -> Rows \cup {NoRow}]
    BY <1>5, <2>1 DEF StartProbe, SkipProbe
  <2> QED BY <1>5, <2>4, <2>5 DEF StartProbe, SkipProbe, Phases
<1>6. ASSUME NEW r \in Requests, ProbeServes(r) PROVE TypeOK'
  <2>1. [NoResult EXCEPT !.kind = "served"] \in Results
    BY DEF NoResult, Results, Reasons
  <2> QED BY <1>6, <2>1 DEF ProbeServes, Phases
<1>7. ASSUME NEW r \in Requests, NEW reason \in {"auth", "other"},
             NEW transport \in BOOLEAN, NEW next \in {"trying", "ending"},
             ProbeFails(r, reason, transport, next)
      PROVE  TypeOK'
  <2>1. [kind |-> "failed", details |-> ~(transport /\ plan[r].graced),
         reason |-> reason, at |-> now] \in Results
    BY DEF Results, Reasons
  <2>2. result' \in [Requests -> Results]
    BY <1>7, <2>1 DEF ProbeFails
  <2> QED BY <1>7, <2>2 DEF ProbeFails, Phases
<1>8. ASSUME NEW r \in Requests, Settle(r) PROVE TypeOK'
  <2>1. \A k \in Rows : Settled(r, k) \in RowStates
    BY SettledRow
  <2> QED BY <1>8, <2>1 DEF Settle, Phases
<1>9. ASSUME NEW r \in Requests, Finish(r) \/ Cancel(r) PROVE TypeOK'
  <2>1. Forget(r)
    BY <1>9 DEF Finish, Cancel
  <2>2. now' \in Nat /\ rows' \in [Rows -> RowStates] /\ active' \in SUBSET Rows
        /\ pc' \in [Requests -> Phases]
    BY <2>1 DEF Forget, Released, Phases
  <2>3. plan' \in [Requests -> Plans]
    BY <2>1 DEF Forget, Released
  <2>4. held' \in [Requests -> Rows \cup {NoRow}]
    BY <2>1 DEF Forget, Released
  <2>5. result' \in [Requests -> Results]
    BY <2>1 DEF Forget, Released
  <2>6. out' \in [Requests -> [Rows -> Outcomes]]
    BY <2>1 DEF Forget, Released
  <2>7. log' \in [Requests -> [Rows -> SUBSET Events]]
    BY <2>1 DEF Forget, Released
  <2> QED BY <2>2, <2>3, <2>4, <2>5, <2>6, <2>7
<1>10. ASSUME NEW k \in Rows, Reenable(k) PROVE TypeOK'
  BY <1>10 DEF Reenable
<1>11. CASE Tick
  BY <1>11 DEF Tick
<1>12. CASE UNCHANGED vars
  BY <1>12 DEF vars
<1>13. ASSUME NEW r \in Requests, Advance(r) PROVE TypeOK'
  <2> HIDE DEF TypeOK
  <2> QED BY <1>2, <1>3, <1>4, <1>5, <1>6, <1>7, <1>8, <1>9, <1>13 DEF Advance
<1> HIDE DEF TypeOK
<1> QED BY <1>1, <1>9, <1>10, <1>11, <1>12, <1>13 DEF Next

\* Type correctness of the stored health and of the requests.
THEOREM TypeCorrect == Spec => []TypeOK
<1>1. Init => TypeOK
  BY Constants DEF Init, TypeOK, Phases
<1> QED BY <1>1, TypeStep, PTL DEF Spec

-----------------------------------------------------------------------------
(* One probe in flight per row. *)

LEMMA FlightStep == TypeOK /\ FlightInv /\ [Next]_vars => FlightInv'
<1> SUFFICES ASSUME TypeOK, FlightInv, [Next]_vars PROVE FlightInv'
    OBVIOUS
<1> USE Constants DEF FlightInv, SingleFlight, Spent
<1>0. /\ held \in [Requests -> Rows \cup {NoRow}] /\ pc \in [Requests -> Phases]
      /\ plan \in [Requests -> Plans]
  BY DEF TypeOK
<1>1. ASSUME NEW r \in Requests, Begin(r) PROVE FlightInv'
  BY <1>0, <1>1 DEF Begin
<1>2. ASSUME NEW r \in Requests, StartProbe(r) PROVE FlightInv'
  <2> DEFINE k == plan[r].probe
  <2>1. held[r] = NoRow /\ k \in Rows /\ k \notin active
    BY <1>0, <1>2 DEF StartProbe, Plans
  <2>2. held' = [held EXCEPT ![r] = k] /\ active' = active \cup {k}
    BY <1>2 DEF StartProbe
  <2>3. \A s \in Requests : held[s] # k
    BY <2>1
  <2>4. SingleFlight'
    <3> HIDE DEF k
    <3> QED BY <1>0, <2>1, <2>2, <2>3
  <2>5. plan'[r].probe = NoRow /\ pc'[r] = "probing"
        /\ \A s \in Requests \ {r} : plan'[s] = plan[s] /\ pc'[s] = pc[s]
    BY <1>0, <1>2 DEF StartProbe, Plans
  <2>6. Spent'
    <3> HIDE DEF k
    <3> QED BY <1>0, <2>2, <2>5
  <2> QED BY <2>4, <2>6
<1>3. ASSUME NEW r \in Requests, SkipProbe(r) PROVE FlightInv'
  <2>1. plan'[r].probe = NoRow /\ \A s \in Requests \ {r} : plan'[s] = plan[s]
    BY <1>0, <1>3 DEF SkipProbe, Plans
  <2>2. held' = held /\ pc' = pc /\ active' = active
    BY <1>3 DEF SkipProbe
  <2> QED BY <2>1, <2>2
<1>4. ASSUME NEW r \in Requests, Finish(r) \/ Cancel(r) PROVE FlightInv'
  <2>1. /\ active' = active \ {held[r]} /\ held' = [held EXCEPT ![r] = NoRow]
        /\ plan' = [plan EXCEPT ![r] = NoPlan] /\ pc' = [pc EXCEPT ![r] = "idle"]
    BY <1>4 DEF Finish, Cancel, Forget, Released
  <2>2. SingleFlight'
    BY <1>0, <2>1
  <2>3. Spent'
    BY <1>0, <2>1
  <2> QED BY <2>2, <2>3
<1>5. ASSUME NEW r \in Requests, NEW next \in Phases \ {"idle"},
             pc' = [pc EXCEPT ![r] = next], UNCHANGED <<active, held, plan>>
      PROVE  FlightInv'
  BY <1>0, <1>5
<1>6. CASE UNCHANGED <<active, held, plan, pc>>
  BY <1>6
<1>7. ASSUME NEW r \in Requests, Advance(r) PROVE FlightInv'
  <2>1. CASE \E k \in Rows, e \in Events : AttemptFails(r, k, e)
    BY <1>6, <2>1 DEF AttemptFails
  <2>2. CASE \E k \in Rows : AttemptServes(r, k)
    BY <1>5, <2>2 DEF AttemptServes, Phases
  <2>3. CASE GivesUp(r) \/ ProbeServes(r) \/ ProbeUnsettled(r) \/ Settle(r)
    BY <1>5, <2>3 DEF GivesUp, ProbeServes, ProbeUnsettled, Settle, Phases
  <2>4. ASSUME NEW reason \in {"auth", "other"}, NEW transport \in BOOLEAN,
               NEW next \in {"trying", "ending"},
               ProbeFails(r, reason, transport, next)
        PROVE  FlightInv'
    BY <1>5, <2>4 DEF ProbeFails, Phases
  <2> QED BY <1>2, <1>3, <1>4, <1>7, <2>1, <2>2, <2>3, <2>4 DEF Advance
<1> QED
  BY <1>1, <1>4, <1>6, <1>7 DEF Next, Reenable, Tick, vars

\* A row is probed by at most one request at a time, and is free as soon as no
\* live request holds its guard.
THEOREM OneProbePerRow == Spec => []SingleFlight
<1>1. Init => TypeOK /\ FlightInv
  BY Constants
  DEF Init, TypeOK, Phases, FlightInv, SingleFlight, Spent
<1>2. FlightInv => SingleFlight
  BY DEF FlightInv
<1> QED BY <1>1, <1>2, TypeStep, FlightStep, PTL DEF Spec

-----------------------------------------------------------------------------
(* The counter counts requests. *)

LEMMA BufferStep == TypeOK /\ Buffered /\ [Next]_vars => Buffered'
<1> SUFFICES ASSUME TypeOK, Buffered, [Next]_vars PROVE Buffered'
    OBVIOUS
<1> USE Constants
<1> DEFINE B(r) == /\ pc[r] = "idle" => held[r] = NoRow /\ log[r] = NoEvents
                   /\ plan[r].probe \notin plan[r].rows
                   /\ held[r] \notin plan[r].rows
                   /\ \A k \in Rows :
                        /\ out[r][k].failed  <=> "failed"  \in log[r][k]
                        /\ out[r][k].refused <=> "refused" \in log[r][k]
                        /\ out[r][k].served  <=> "served"  \in log[r][k]
                        /\ log[r][k] # {} => k \in plan[r].rows
<1>0. /\ held \in [Requests -> Rows \cup {NoRow}]
      /\ plan \in [Requests -> Plans] /\ pc \in [Requests -> Phases]
      /\ out \in [Requests -> [Rows -> Outcomes]]
      /\ log \in [Requests -> [Rows -> SUBSET Events]]
      /\ \A r \in Requests : B(r)
  BY DEF TypeOK, Buffered
<1>1. ASSUME NEW r \in Requests, B(r)',
             \A s \in Requests \ {r} :
                 UNCHANGED <<pc[s], plan[s], held[s], out[s], log[s]>>
      PROVE  Buffered'
  BY <1>0, <1>1 DEF Buffered
<1>2. ASSUME NEW r \in Requests, NEW next \in Phases \ {"idle"},
             pc' = pc \/ pc' = [pc EXCEPT ![r] = next],
             UNCHANGED <<plan, held, out, log>>
      PROVE  Buffered'
  BY <1>0, <1>2 DEF Buffered
<1>3. ASSUME NEW r \in Requests, NEW k \in Rows, NEW e \in Events,
             k \in plan[r].rows, UNCHANGED <<plan, held>>,
             pc[r] # "idle", \/ pc' = pc
                             \/ pc' = [pc EXCEPT ![r] = "ending"],
             out' = [out EXCEPT ![r][k] = Heard(@, e)],
             log' = [log EXCEPT ![r][k] = @ \cup {e}]
      PROVE  Buffered'
  <2>1. out'[r][k] = Heard(out[r][k], e) /\ log'[r][k] = log[r][k] \cup {e}
    BY <1>0, <1>3
  <2>2. \A j \in Rows \ {k} : out'[r][j] = out[r][j] /\ log'[r][j] = log[r][j]
    BY <1>0, <1>3
  <2>3. B(r)'
    <3>1. /\ out'[r][k].failed  <=> "failed"  \in log'[r][k]
          /\ out'[r][k].refused <=> "refused" \in log'[r][k]
          /\ out'[r][k].served  <=> "served"  \in log'[r][k]
      <4>1. /\ out'[r][k].failed  = (out[r][k].failed \/ e = "failed")
            /\ out'[r][k].refused = (out[r][k].refused \/ e = "refused")
            /\ out'[r][k].served  = (out[r][k].served \/ e = "served")
        BY <2>1 DEF Heard
      <4> QED BY <1>0, <2>1, <4>1, Zenon
    <3> QED BY <1>0, <1>3, <2>2, <3>1
  <2>4. \A s \in Requests \ {r} :
          UNCHANGED <<pc[s], plan[s], held[s], out[s], log[s]>>
    BY <1>0, <1>3
  <2> QED BY <1>1, <2>3, <2>4
<1>4. ASSUME NEW r \in Requests, Begin(r) PROVE Buffered'
  <2>1. PICK graced \in BOOLEAN, k \in Rows \cup {NoRow} :
          /\ k = NoRow \/ rows[k].auto
          /\ plan' = [plan EXCEPT ![r] = [rows   |-> {j \in Rows : ~rows[j].auto},
                                          probe  |-> k,
                                          graced |-> graced]]
    BY <1>4 DEF Begin, OldestEligible, Eligible
  <2>2. plan'[r].probe \notin plan'[r].rows /\ NoRow \notin plan'[r].rows
    BY <1>0, <2>1
  <2>3. held[r] = NoRow /\ \A j \in Rows : log[r][j] = {}
    BY <1>0, <1>4 DEF Begin, NoEvents
  <2>4. pc'[r] = "trying" /\ UNCHANGED <<held, out, log>>
    BY <1>0, <1>4 DEF Begin
  <2>5. B(r)'
    BY <1>0, <2>2, <2>3, <2>4
  <2>6. \A s \in Requests \ {r} : UNCHANGED <<pc[s], plan[s]>>
    BY <1>0, <1>4, <2>1 DEF Begin
  <2> QED BY <1>1, <2>4, <2>5, <2>6
<1>5. ASSUME NEW r \in Requests, StartProbe(r) \/ SkipProbe(r) PROVE Buffered'
  <2>1. plan' = [plan EXCEPT ![r] = [plan[r] EXCEPT !.probe = NoRow]]
        /\ UNCHANGED <<out, log>>
    BY <1>5 DEF StartProbe, SkipProbe
  <2>2. plan'[r].probe = NoRow /\ plan'[r].rows = plan[r].rows
        /\ \A s \in Requests \ {r} : plan'[s] = plan[s] /\ held'[s] = held[s]
    BY <1>0, <1>5, <2>1 DEF Plans, StartProbe, SkipProbe
  <2>3. held'[r] \in {held[r], plan[r].probe}
    BY <1>0, <1>5 DEF StartProbe, SkipProbe
  <2>4. plan[r].rows \subseteq Rows
    BY <1>0 DEF Plans
  <2>6. pc'[r] # "idle" /\ \A s \in Requests \ {r} : pc'[s] = pc[s]
    BY <1>0, <1>5 DEF StartProbe, SkipProbe
  <2>5. B(r)'
    BY <1>0, <2>1, <2>2, <2>3, <2>4, <2>6
  <2> QED BY <1>1, <2>1, <2>2, <2>5, <2>6
<1>6. ASSUME NEW r \in Requests, Forget(r) PROVE Buffered'
  <2>1. plan'[r] = NoPlan /\ held'[r] = NoRow /\ out'[r] = NoOutcomes
        /\ log'[r] = NoEvents
    BY <1>0, <1>6 DEF Forget, Released
  <2>2. \A s \in Requests \ {r} :
          UNCHANGED <<pc[s], plan[s], held[s], out[s], log[s]>>
    BY <1>0, <1>6 DEF Forget, Released
  <2>3. B(r)'
    BY <2>1 DEF NoPlan, NoOutcomes, NoEvents
  <2> QED BY <1>1, <2>2, <2>3
<1>7. ASSUME NEW r \in Requests, Advance(r) PROVE Buffered'
  <2>1. CASE \E k \in Rows, e \in Events : AttemptFails(r, k, e)
    BY <1>3, <2>1 DEF AttemptFails
  <2>2. CASE \E k \in Rows : AttemptServes(r, k)
    <3>1. "served" \in Events
      BY DEF Events
    <3> QED BY <1>3, <2>2, <3>1 DEF AttemptServes
  <2>3. CASE GivesUp(r) \/ ProbeServes(r) \/ ProbeUnsettled(r) \/ Settle(r)
    BY <1>2, <2>3 DEF GivesUp, ProbeServes, ProbeUnsettled, Settle, Phases
  <2>4. ASSUME NEW reason \in {"auth", "other"}, NEW transport \in BOOLEAN,
               NEW next \in {"trying", "ending"},
               ProbeFails(r, reason, transport, next)
        PROVE  Buffered'
    BY <1>2, <2>4 DEF ProbeFails, Phases
  <2> QED
    BY <1>5, <1>6, <1>7, <2>1, <2>2, <2>3, <2>4 DEF Advance, Finish
<1>8. CASE UNCHANGED <<pc, plan, held, out, log>>
  BY <1>0, <1>8 DEF Buffered
<1> QED
  BY <1>4, <1>6, <1>7, <1>8 DEF Next, Cancel, Reenable, Tick, vars

\* A counter rises by one at a time, and only when a request ends that failed on
\* the row in a way that counts, however often it tried and whoever else wrote.
THEOREM HealthCountsRequests == Spec => CountsRequests
<1> DEFINE Counts ==
      \A k \in Rows : rows'[k].count > rows[k].count =>
        /\ rows'[k].count = rows[k].count + 1
        /\ \E r \in Requests :
             /\ pc[r] = "ending" /\ pc'[r] = "ended"
             /\ "failed" \in log[r][k]
             /\ log[r][k] \cap {"served", "refused"} = {}
<1>1. Init => TypeOK /\ Buffered
  BY Constants
  DEF Init, TypeOK, Phases, Buffered, NoPlan, NoOutcomes, NoEvents
<1>2. TypeOK /\ Buffered /\ [Next]_vars => [Counts]_vars
  <2> SUFFICES ASSUME TypeOK, Buffered, [Next]_vars PROVE Counts
    OBVIOUS
  <2>0. rows \in [Rows -> RowStates] /\ pc \in [Requests -> Phases]
        /\ now \in Nat /\ \A k \in Rows : rows[k].count \in Nat
    BY DEF TypeOK, RowStates
  <2>1. ASSUME NEW r \in Requests, Settle(r) PROVE Counts
    <3> SUFFICES ASSUME NEW k \in Rows, rows'[k].count > rows[k].count
        PROVE /\ rows'[k].count = rows[k].count + 1
              /\ pc[r] = "ending" /\ pc'[r] = "ended"
              /\ "failed" \in log[r][k]
              /\ log[r][k] \cap {"served", "refused"} = {}
      OBVIOUS
    <3>1. rows'[k] = Settled(r, k) /\ pc[r] = "ending" /\ pc'[r] = "ended"
      BY <2>0, <2>1 DEF Settle
    <3>2. /\ rows'[k].count = rows[k].count + 1
          /\ out[r][k].failed /\ ~out[r][k].refused /\ ~out[r][k].served
      BY <3>1, SettledRow
    <3>3. "failed" \in log[r][k] /\ "refused" \notin log[r][k]
          /\ "served" \notin log[r][k]
      BY <3>2 DEF Buffered
    <3> QED BY <3>1, <3>2, <3>3
  <2>2. ASSUME NEW r \in Requests, NEW k \in Rows, NEW e \in Events,
               AttemptFails(r, k, e)
        PROVE  Counts
    <3>1. rows' = rows \/ rows' = [rows EXCEPT ![k] = Registered(@, TRUE, now)]
      BY <2>2 DEF AttemptFails
    <3>2. Registered(rows[k], TRUE, now).count = rows[k].count
      BY <2>0, RegisteredType
    <3>3. \A j \in Rows : rows'[j].count = rows[j].count
      BY <2>0, <3>1, <3>2
    <3> QED BY <2>0, <3>3
  <2>3. ASSUME NEW k \in Rows, Reenable(k) PROVE Counts
    <3>1. Healthy.count = 0
      BY DEF Healthy
    <3>2. \A j \in Rows : rows'[j] = rows[j] \/ rows'[j].count = 0
      BY <2>0, <2>3, <3>1 DEF Reenable
    <3> QED BY <2>0, <3>2
  <2>4. CASE rows' = rows
    BY <2>0, <2>4
  <2> HIDE DEF Counts
  <2> QED
    BY <2>1, <2>2, <2>3, <2>4
    DEF Next, Begin, Advance, AttemptServes, GivesUp, StartProbe, SkipProbe,
        ProbeServes, ProbeFails, ProbeUnsettled, Finish, Cancel, Forget, Released,
        Tick, vars
<1> QED BY <1>1, <1>2, TypeStep, BufferStep, PTL DEF Spec, CountsRequests

\* What a request knows of a row that served it outweighs all it buffered.
LEMMA ServedRow ==
    ASSUME TypeOK, Buffered, NEW r \in Requests, NEW k \in Rows,
           "served" \in log[r][k] \/ (k = held[r] /\ result[r].kind = "served")
    PROVE  Settled(r, k).auto => rows[k].auto
<1>1. rows[k] \in RowStates /\ out[r][k] \in Outcomes
  BY DEF TypeOK
<1>2. CASE "served" \in log[r][k]
  <2>1. k # held[r] /\ out[r][k].served
    BY <1>2 DEF Buffered
  <2>2. AfterProbe(r, k) = rows[k]
    BY <2>1 DEF AfterProbe
  <2>3. Settled(r, k) \in {rows[k], [rows[k] EXCEPT !.count = 0]}
    BY <1>1, <2>1, <2>2 DEF Settled, Outcomes
  <2>4. [rows[k] EXCEPT !.count = 0].auto = rows[k].auto
    BY <1>1 DEF RowStates
  <2> QED BY <2>3, <2>4
<1>3. CASE k = held[r] /\ result[r].kind = "served"
  <2>1. ~out[r][k].failed /\ ~out[r][k].refused /\ ~out[r][k].served
    BY <1>3 DEF Buffered
  <2>2. AfterProbe(r, k) = Healthy
    BY <1>3 DEF AfterProbe
  <2>3. Settled(r, k) = Healthy
    BY <2>1, <2>2 DEF Settled
  <2> QED BY <2>3 DEF Healthy
<1> QED BY <1>2, <1>3

\* No request disables a row that served it, whatever the row did before.
THEOREM ServedRowsStayUp == Spec => ServedNeverDisables
<1> DEFINE Kept ==
      \A r \in Requests, k \in Rows :
        /\ pc[r] = "ending" /\ pc'[r] = "ended"
        /\ "served" \in log[r][k] \/ (k = held[r] /\ result[r].kind = "served")
        /\ rows'[k].auto
        => rows[k].auto
<1>1. Init => TypeOK /\ Buffered
  BY Constants
  DEF Init, TypeOK, Phases, Buffered, NoPlan, NoOutcomes, NoEvents
<1>2. TypeOK /\ Buffered /\ [Next]_vars => [Kept]_vars
  <2> SUFFICES ASSUME TypeOK, Buffered, [Next]_vars,
                      NEW r \in Requests, NEW k \in Rows,
                      pc[r] = "ending", pc'[r] = "ended",
                      "served" \in log[r][k]
                        \/ (k = held[r] /\ result[r].kind = "served"),
                      rows'[k].auto
      PROVE rows[k].auto
    OBVIOUS
  <2>0. pc \in [Requests -> Phases]
    BY DEF TypeOK
  <2>1. Settle(r)
    <3>1. CASE \E s \in Requests : Begin(s) \/ Cancel(s)
      BY <2>0, <3>1 DEF Begin, Cancel, Forget, Released
    <3>2. CASE \E s \in Requests : Settle(s)
      BY <2>0, <3>2 DEF Settle
    <3>3. CASE \E s \in Requests : StartProbe(s) \/ GivesUp(s) \/ ProbeServes(s)
                                   \/ ProbeUnsettled(s) \/ Finish(s)
      BY <2>0, <3>3
      DEF StartProbe, GivesUp, ProbeServes, ProbeUnsettled, Finish, Forget, Released
    <3>4. CASE \E s \in Requests, j \in Rows : AttemptServes(s, j)
      BY <2>0, <3>4 DEF AttemptServes
    <3>5. CASE \E s \in Requests, reason \in {"auth", "other"},
                 transport \in BOOLEAN, next \in {"trying", "ending"} :
                 ProbeFails(s, reason, transport, next)
      BY <2>0, <3>5 DEF ProbeFails
    <3>6. CASE pc' = pc
      BY <3>6
    <3> QED
      BY <3>1, <3>2, <3>3, <3>4, <3>5, <3>6
      DEF Next, Advance, AttemptFails, SkipProbe, Reenable, Tick, vars
  <2>2. rows'[k] = Settled(r, k)
    BY <2>1 DEF Settle
  <2> QED BY <2>2, ServedRow
<1> QED BY <1>1, <1>2, TypeStep, BufferStep, PTL DEF Spec, ServedNeverDisables
=============================================================================
