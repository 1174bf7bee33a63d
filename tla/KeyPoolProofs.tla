---------------------------- MODULE KeyPoolProofs ----------------------------
(***************************************************************************)
(* Proofs about KeyPool, for every number of keys and requests and every   *)
(* length of the time to live, the cooldown and the day.                   *)
(***************************************************************************)
EXTENDS KeyPool, TLAPS

\* No mark carries a time that is still to come.
MarksInPast == \A k \in Keys : stored[k].at <= now

\* What a request's copy of the marks keeps of those its last sync found: a key
\* it has not contacted since is as it was; no authentication mark has become a
\* quota mark, and no quota mark has become older.
Honours(q) ==
    \A k \in Keys :
        /\ q.seen[k].at <= now
        /\ k \notin q.attempted /\ ~(q.pc = "inflight" /\ k = q.sel.key)
             => q.snap[k] = q.seen[k]
        /\ q.snap[k].kind = "quota" => q.seen[k].kind # "auth"
        /\ q.snap[k].kind = "quota" /\ q.seen[k].kind = "quota"
             => q.snap[k].at >= q.seen[k].at

KeyOfSel(q) == q.pc = "inflight" => q.sel.key \in Keys

\* What a request has seen was there when it chose its key.
InTime(q) ==
    q.pc = "inflight" => q.sel.at <= now /\ \A k \in Keys : q.seen[k].at <= q.sel.at

Holding == {"select", "inflight"}

\* A request honours the marks it saw, and the key it uses had rested.
Respects(q) ==
    /\ KeyOfSel(q)
    /\ InTime(q)
    /\ q.pc \in Holding => Honours(q)
    /\ q.pc = "inflight" => Rested(q.sel.key, q.seen[q.sel.key], q.sel)

RestInv == MarksInPast /\ \A r \in Requests : Respects(req[r])

\* The probe allowance is used up as soon as a probe is sent.
ProbeInv ==
    \A r \in Requests :
        /\ req[r].probes <= 1
        /\ ~req[r].probeUsed => req[r].probes = 0

-----------------------------------------------------------------------------
LEMMA UnmarkedType == Unmarked \in Marks /\ NoMarks \in [Keys -> Marks]
BY DEF Unmarked, NoMarks, Marks, Kinds

LEMMA IdleType == Idle \in ReqStates
BY UnmarkedType DEF Idle, ReqStates, Phases, PassKinds, NoKey

LEMMA MarkType ==
    ASSUME NEW kind \in Kinds, NEW t \in Nat, NEW m \in Marks
    PROVE  MarkedAs(kind, t) \in Marks /\ Rearmed(m, kind, t) \in Marks
BY DEF MarkedAs, Rearmed, Marks, Kinds

LEMMA PassOverType ==
    ASSUME NEW q \in ReqStates, NEW again \in BOOLEAN
    PROVE  PassOver(q, again) \in ReqStates /\ PassOver(q, again).pc = "between"
<1>1. PassOver(q, again) \in ReqStates
  BY UnmarkedType DEF PassOver, ReqStates, Phases, NoKey
<1>2. PassOver(q, again).pc = "between"
  BY DEF PassOver, ReqStates
<1> QED BY <1>1, <1>2

LEMMA RotatedType ==
    ASSUME NEW q \in ReqStates, q.sel.key \in Keys
    PROVE  Rotated(q) \in ReqStates
BY DEF Rotated, ReqStates, Phases, NoKey

LEMMA ChosenType ==
    ASSUME NEW q \in ReqStates, NEW k \in Keys, NEW probe \in BOOLEAN,
           NEW expired \in BOOLEAN, now \in Nat
    PROVE  Chosen(q, k, probe, expired) \in ReqStates
           /\ KeyOfSel(Chosen(q, k, probe, expired))
<1> DEFINE c == Chosen(q, k, probe, expired)
<1>1. q.snap \in [Keys -> Marks] /\ q.probes \in Nat /\ q.probeUsed \in BOOLEAN
  BY DEF ReqStates
<1>2. [q.snap EXCEPT ![k] = IF expired THEN Unmarked ELSE @] \in [Keys -> Marks]
  BY <1>1, UnmarkedType
<1>3. (IF probe THEN q.probes + 1 ELSE q.probes) \in Nat
  BY <1>1
<1>4. (q.probeUsed \/ probe) \in BOOLEAN
  OBVIOUS
<1>5. [key |-> k, probe |-> probe, at |-> now]
        \in [key : Keys \cup {0}, probe : BOOLEAN, at : Nat]
  OBVIOUS
<1>6. c \in ReqStates
  BY <1>2, <1>3, <1>4, <1>5 DEF Chosen, ReqStates, Phases
<1>7. c.sel.key = k
  BY DEF Chosen, ReqStates
<1> QED BY <1>6, <1>7 DEF KeyOfSel

\* Every reachable state is well typed, and a key in use is a key of the pool.
TypeInv == TypeOK /\ \A r \in Requests : KeyOfSel(req[r])

LEMMA TypeStep == TypeInv /\ [Next]_vars => TypeInv'
<1> SUFFICES ASSUME TypeInv, [Next]_vars PROVE TypeInv'
    OBVIOUS
<1> USE KeyPoolAssumption DEF TypeInv, TypeOK
<1>1. ASSUME NEW r \in Requests, RequestStep(r) PROVE TypeInv'
  <2> USE IdleType, UnmarkedType
  <2>0. req[r] \in ReqStates /\ now \in Nat /\ req[r].sel.at \in Nat
    BY DEF ReqStates
  <2>1. ASSUME NEW q \in ReqStates, KeyOfSel(q), req' = [req EXCEPT ![r] = q]
        PROVE  req' \in [Requests -> ReqStates]
               /\ \A p \in Requests : KeyOfSel(req'[p])
    BY <2>1 DEF KeyOfSel
  <2>2. KeyOfSel(Idle) /\ \A b : KeyOfSel(PassOver(req[r], b))
    BY <2>0 DEF KeyOfSel, Idle, PassOver, ReqStates
  <2>3. CASE Begin(r)
    <3>1. PICK s \in BOOLEAN :
            req' = [req EXCEPT ![r] = [Idle EXCEPT !.pc = "sync",
                        !.streaming = s, !.passes = 1, !.on = enabled]]
      BY <2>3 DEF Begin
    <3> DEFINE q == [Idle EXCEPT !.pc = "sync", !.streaming = s,
                                 !.passes = 1, !.on = enabled]
    <3>2. q \in ReqStates /\ KeyOfSel(q)
      BY DEF ReqStates, Idle, Phases, KeyOfSel
    <3> QED BY <2>1, <2>3, <3>1, <3>2 DEF Begin
  <2>4. CASE Sync(r)
    <3> DEFINE q == [req[r] EXCEPT !.pc = "select", !.snap = stored,
                                   !.seen = stored]
    <3>1. q \in ReqStates /\ KeyOfSel(q)
      BY <2>0 DEF ReqStates, Phases, KeyOfSel
    <3>2. req' = [req EXCEPT ![r] = q]
      BY <2>4 DEF Sync
    <3> QED BY <2>1, <2>4, <3>1, <3>2 DEF Sync
  <2>5. CASE \E k \in Keys, probe \in BOOLEAN : Select(r, k, probe)
    <3>1. PICK k \in Keys, probe \in BOOLEAN : Select(r, k, probe)
      BY <2>5
    <3> DEFINE expired == ~probe /\ req[r].snap[k].kind # "none"
               q == Chosen(req[r], k, probe, expired)
    <3>2. q \in ReqStates /\ KeyOfSel(q)
      BY <2>0, ChosenType
    <3>3. req' = [req EXCEPT ![r] = q]
      BY <3>1 DEF Select
    <3>4. stored' \in [Keys -> Marks]
      BY <3>1 DEF Select
    <3> HIDE DEF q
    <3> QED BY <2>1, <3>1, <3>2, <3>3, <3>4 DEF Select
  <2>6. CASE Exhausted(r)
    <3>1. PassOver(req[r], req[r].bare) \in ReqStates
      BY <2>0, PassOverType DEF ReqStates
    <3> QED BY <2>1, <2>2, <2>6, <3>1 DEF Exhausted
  <2>7. CASE Served(r)
    <3>1. stored' \in [Keys -> Marks]
      BY <2>7 DEF Served
    <3> QED BY <2>1, <2>2, <2>7, <3>1 DEF Served
  <2>8. CASE EndedUnserved(r)
    <3>1. stored' \in [Keys -> Marks]
      <4>1. CASE UNCHANGED stored
        BY <4>1
      <4>2. CASE \E at \in Stamps(r) :
                   stored' = [stored EXCEPT ![req[r].sel.key] = Rearmed(@, "none", at)]
        BY <2>0, <2>8, <4>2, MarkType DEF EndedUnserved, Kinds, KeyOfSel, Stamps
      <4> QED BY <2>8, <4>1, <4>2 DEF EndedUnserved
    <3> QED BY <2>1, <2>2, <2>8, <3>1 DEF EndedUnserved
  <2>9. ASSUME NEW kind \in Kinds, ProbeFailed(r, kind) PROVE TypeInv'
    <3>1. stored' \in [Keys -> Marks]
      BY <2>0, <2>9, MarkType DEF ProbeFailed, KeyOfSel, Stamps
    <3>2. PassOver(req[r], FALSE) \in ReqStates
      BY <2>0, PassOverType
    <3> QED BY <2>1, <2>2, <2>9, <3>1, <3>2 DEF ProbeFailed
  <2>10. ASSUME NEW kind \in Kinds, KeyFailed(r, kind) PROVE TypeInv'
    <3> DEFINE k == req[r].sel.key
               Q(at) == [Rotated(req[r]) EXCEPT !.snap[k] = MarkedAs(kind, at),
                                                !.bare = FALSE]
    <3>0. PICK at \in Stamps(r) :
            /\ stored' = [stored EXCEPT ![k] = MarkedAs(kind, at)]
            /\ \/ req' = [req EXCEPT ![r] = Q(at)]
               \/ req' = [req EXCEPT ![r] = PassOver(Q(at), FALSE)]
      BY <2>10 DEF KeyFailed
    <3> DEFINE q == Q(at)
    <3>1. k \in Keys /\ Rotated(req[r]) \in ReqStates
      BY <2>0, <2>10, RotatedType DEF KeyFailed, KeyOfSel
    <3>2. MarkedAs(kind, at) \in Marks
      BY <2>0, MarkType, UnmarkedType DEF Stamps
    <3>3. q \in ReqStates
      BY <3>1, <3>2 DEF ReqStates
    <3>4. q.pc # "inflight"
      BY <2>0, <3>1 DEF Rotated, ReqStates
    <3>5. KeyOfSel(q)
      BY <3>4 DEF KeyOfSel
    <3>6. PassOver(q, FALSE) \in ReqStates /\ KeyOfSel(PassOver(q, FALSE))
      <4> HIDE DEF q
      <4> QED BY <3>3, PassOverType DEF KeyOfSel
    <3>7. stored' \in [Keys -> Marks]
      BY <3>0, <3>2
    <3>8. \/ req' = [req EXCEPT ![r] = q]
          \/ req' = [req EXCEPT ![r] = PassOver(q, FALSE)]
      BY <3>0
    <3> HIDE DEF q
    <3> QED BY <2>1, <2>10, <3>3, <3>5, <3>6, <3>7, <3>8 DEF KeyFailed
  <2>11. CASE RateLimited(r)
    <3> DEFINE q == [Rotated(req[r]) EXCEPT !.bare = ~req[r].streaming]
    <3>1. Rotated(req[r]) \in ReqStates
      BY <2>0, <2>11, RotatedType DEF RateLimited, KeyOfSel
    <3>2. q \in ReqStates
      BY <2>0, <3>1 DEF ReqStates
    <3>3. q.pc # "inflight"
      BY <2>0, <3>1 DEF Rotated, ReqStates
    <3>4. KeyOfSel(q)
      BY <3>3 DEF KeyOfSel
    <3>5. PassOver(q, TRUE) \in ReqStates /\ KeyOfSel(PassOver(q, TRUE))
      <4> HIDE DEF q
      <4> QED BY <3>2, PassOverType DEF KeyOfSel
    <3>6. \/ req' = [req EXCEPT ![r] = q]
          \/ req' = [req EXCEPT ![r] = PassOver(q, TRUE)]
      BY <2>11 DEF RateLimited
    <3> HIDE DEF q
    <3> QED BY <2>1, <2>11, <3>2, <3>4, <3>5, <3>6 DEF RateLimited
  <2>12. CASE PassFailed(r)
    <3>1. PICK again \in {FALSE, ~req[r].sel.probe} :
            req' = [req EXCEPT ![r] = PassOver(req[r], again)]
      BY <2>12 DEF PassFailed
    <3>2. PassOver(req[r], again) \in ReqStates
      BY <2>0, PassOverType
    <3> QED BY <2>1, <2>2, <2>12, <3>1, <3>2 DEF PassFailed
  <2>13. ASSUME NEW kind \in PassKinds, NextPass(r, kind) PROVE TypeInv'
    <3> DEFINE q == [req[r] EXCEPT !.pc = "sync", !.pass = kind,
                                   !.passes = @ + 1, !.again = FALSE]
    <3>1. q \in ReqStates /\ KeyOfSel(q)
      <4>1. req[r].passes + 1 \in Nat
        BY <2>0 DEF ReqStates
      <4> QED BY <2>0, <4>1 DEF ReqStates, Phases, KeyOfSel
    <3>2. req' = [req EXCEPT ![r] = q]
      BY <2>13 DEF NextPass
    <3> QED BY <2>1, <2>13, <3>1, <3>2 DEF NextPass
  <2>14. CASE Finish(r)
    BY <2>1, <2>2, <2>14 DEF Finish
  <2> QED
    BY <1>1, <2>3, <2>4, <2>5, <2>6, <2>7, <2>8, <2>9, <2>10, <2>11, <2>12,
       <2>13, <2>14 DEF RequestStep
<1>2. CASE \E k \in Keys : Reenable(k)
  BY <1>2, UnmarkedType DEF Reenable
<1>3. CASE \E k \in Switched : Toggle(k)
  BY <1>3 DEF Toggle
<1>4. CASE DailyScan
  BY <1>4, UnmarkedType DEF DailyScan
<1>5. CASE Tick
  BY <1>5 DEF Tick
<1>6. CASE UNCHANGED vars
  BY <1>6 DEF vars
<1> QED BY <1>1, <1>2, <1>3, <1>4, <1>5, <1>6 DEF Next

\* Type correctness of the key pool and of the requests using it.
THEOREM TypeCorrect == Spec => []TypeOK
<1>1. Init => TypeInv
  BY IdleType, UnmarkedType DEF Init, TypeInv, TypeOK, KeyOfSel, Idle
<1>2. TypeInv => TypeOK
  BY DEF TypeInv
<1> QED BY <1>1, <1>2, TypeStep, PTL DEF Spec

-----------------------------------------------------------------------------
(* At most one key probe per request. *)

LEMMA ProbeAllowance ==
    ASSUME NEW q \in ReqStates, q.probes <= 1, ~q.probeUsed => q.probes = 0,
           NEW k \in Keys, NEW probe \in BOOLEAN, NEW expired \in BOOLEAN,
           Selects(q, k, probe)
    PROVE  /\ Chosen(q, k, probe, expired).probes <= 1
           /\ ~Chosen(q, k, probe, expired).probeUsed
                => Chosen(q, k, probe, expired).probes = 0
<1>1. q.probes \in Nat /\ q.probeUsed \in BOOLEAN
  BY DEF ReqStates
<1>2. Chosen(q, k, probe, expired).probes
        = IF probe THEN q.probes + 1 ELSE q.probes
  BY DEF Chosen, ReqStates
<1>3. Chosen(q, k, probe, expired).probeUsed = (q.probeUsed \/ probe)
  BY DEF Chosen, ReqStates
<1>4. probe => ~q.probeUsed
  BY DEF Selects
<1>5. CASE probe
  <2>1. Chosen(q, k, probe, expired).probes = 1
    BY <1>2, <1>4, <1>5
  <2>2. Chosen(q, k, probe, expired).probeUsed
    BY <1>3, <1>5
  <2> QED BY <2>1, <2>2
<1>6. CASE ~probe
  <2>1. Chosen(q, k, probe, expired).probes = q.probes
    BY <1>2, <1>6
  <2>2. Chosen(q, k, probe, expired).probeUsed = q.probeUsed
    BY <1>1, <1>3, <1>6
  <2> QED BY <2>1, <2>2
<1> QED BY <1>5, <1>6

\* The probe allowance of one request.
Allowance(q) == q.probes <= 1 /\ (~q.probeUsed => q.probes = 0)

\* No step but Select touches the allowance; a new request starts with it.
LEMMA AllowanceKept ==
    ASSUME NEW q \in ReqStates, Allowance(q), NEW again \in BOOLEAN
    PROVE  /\ Allowance(Idle)
           /\ Allowance(PassOver(q, again))
           /\ Allowance(Rotated(q))
<1>1. Allowance(Idle)
  BY DEF Allowance, Idle
<1>2. Allowance(PassOver(q, again))
  BY DEF Allowance, PassOver, ReqStates
<1>3. Allowance(Rotated(q))
  BY DEF Allowance, Rotated, ReqStates
<1> QED BY <1>1, <1>2, <1>3

LEMMA ProbeStep == TypeInv /\ ProbeInv /\ [Next]_vars => ProbeInv'
<1> SUFFICES ASSUME TypeInv, ProbeInv, [Next]_vars PROVE ProbeInv'
    OBVIOUS
<1> USE DEF TypeInv, TypeOK
<1>0. \A p \in Requests : Allowance(req[p])
  BY DEF ProbeInv, Allowance
<1>1. ASSUME NEW r \in Requests, RequestStep(r)
      PROVE  \A p \in Requests : Allowance(req'[p])
  <2>0. req[r] \in ReqStates /\ Allowance(req[r])
    BY <1>0
  <2>1. ASSUME NEW q, Allowance(q), req' = [req EXCEPT ![r] = q]
        PROVE  \A p \in Requests : Allowance(req'[p])
    BY <1>0, <2>1
  <2>2. Allowance(Idle) /\ Allowance(Rotated(req[r]))
        /\ \A b \in BOOLEAN : Allowance(PassOver(req[r], b))
    BY <2>0, AllowanceKept
  <2>3. CASE Begin(r)
    <3>1. PICK s \in BOOLEAN :
            req' = [req EXCEPT ![r] = [Idle EXCEPT !.pc = "sync",
                        !.streaming = s, !.passes = 1, !.on = enabled]]
      BY <2>3 DEF Begin
    <3>2. Allowance([Idle EXCEPT !.pc = "sync", !.streaming = s,
                                 !.passes = 1, !.on = enabled])
      BY DEF Allowance, Idle
    <3> QED BY <2>1, <3>1, <3>2
  <2>4. CASE Sync(r)
    <3> DEFINE q == [req[r] EXCEPT !.pc = "select", !.snap = stored,
                                   !.seen = stored]
    <3>1. Allowance(q)
      BY <2>0 DEF Allowance, ReqStates
    <3>2. req' = [req EXCEPT ![r] = q]
      BY <2>4 DEF Sync
    <3> HIDE DEF q
    <3> QED BY <2>1, <3>1, <3>2
  <2>5. CASE \E k \in Keys, probe \in BOOLEAN : Select(r, k, probe)
    <3>1. PICK k \in Keys, probe \in BOOLEAN : Select(r, k, probe)
      BY <2>5
    <3> DEFINE expired == ~probe /\ req[r].snap[k].kind # "none"
               q == Chosen(req[r], k, probe, expired)
    <3>2. Selects(req[r], k, probe) /\ req' = [req EXCEPT ![r] = q]
      BY <3>1 DEF Select
    <3>3. Allowance(q)
      BY <2>0, <3>2, ProbeAllowance DEF Allowance
    <3> HIDE DEF q
    <3> QED BY <2>1, <3>2, <3>3
  <2>6. CASE Exhausted(r) \/ PassFailed(r)
    <3>1. PICK b \in BOOLEAN : req' = [req EXCEPT ![r] = PassOver(req[r], b)]
      BY <2>0, <2>6 DEF Exhausted, PassFailed, ReqStates
    <3> QED BY <2>1, <2>2, <3>1
  <2>7. CASE Served(r) \/ EndedUnserved(r) \/ Finish(r)
    BY <2>1, <2>2, <2>7 DEF Served, EndedUnserved, Finish
  <2>8. ASSUME NEW kind \in Kinds, ProbeFailed(r, kind)
        PROVE  \A p \in Requests : Allowance(req'[p])
    BY <2>1, <2>2, <2>8 DEF ProbeFailed
  <2>9. ASSUME NEW kind \in Kinds, KeyFailed(r, kind)
        PROVE  \A p \in Requests : Allowance(req'[p])
    <3> DEFINE k == req[r].sel.key
               Q(at) == [Rotated(req[r]) EXCEPT !.snap[k] = MarkedAs(kind, at),
                                                !.bare = FALSE]
    <3>0. PICK at \in Stamps(r) :
            \/ req' = [req EXCEPT ![r] = Q(at)]
            \/ req' = [req EXCEPT ![r] = PassOver(Q(at), FALSE)]
      BY <2>9 DEF KeyFailed
    <3> DEFINE q == Q(at)
    <3>1. k \in Keys /\ Rotated(req[r]) \in ReqStates /\ at \in Nat
      BY <2>0, <2>9, RotatedType DEF KeyFailed, KeyOfSel, Stamps, ReqStates
    <3>2. MarkedAs(kind, at) \in Marks
      BY <3>1, MarkType, UnmarkedType
    <3>3. q \in ReqStates
      BY <3>1, <3>2 DEF ReqStates
    <3>4. Allowance(q)
      BY <2>2, <3>1 DEF Allowance, ReqStates
    <3>5. \/ req' = [req EXCEPT ![r] = q]
          \/ req' = [req EXCEPT ![r] = PassOver(q, FALSE)]
      BY <3>0
    <3> HIDE DEF q
    <3>6. Allowance(PassOver(q, FALSE))
      BY <3>3, <3>4, AllowanceKept
    <3> QED BY <2>1, <3>4, <3>5, <3>6
  <2>10. CASE RateLimited(r)
    <3> DEFINE q == [Rotated(req[r]) EXCEPT !.bare = ~req[r].streaming]
    <3>1. Rotated(req[r]) \in ReqStates
      BY <2>0, <2>10, RotatedType DEF RateLimited, KeyOfSel
    <3>2. q \in ReqStates
      BY <2>0, <3>1 DEF ReqStates
    <3>3. Allowance(q)
      BY <2>2, <3>1 DEF Allowance, ReqStates
    <3>4. \/ req' = [req EXCEPT ![r] = q]
          \/ req' = [req EXCEPT ![r] = PassOver(q, TRUE)]
      BY <2>10 DEF RateLimited
    <3> HIDE DEF q
    <3>5. Allowance(PassOver(q, TRUE))
      BY <3>2, <3>3, AllowanceKept
    <3> QED BY <2>1, <3>3, <3>4, <3>5
  <2>11. ASSUME NEW kind \in PassKinds, NextPass(r, kind)
         PROVE  \A p \in Requests : Allowance(req'[p])
    <3> DEFINE q == [req[r] EXCEPT !.pc = "sync", !.pass = kind,
                                   !.passes = @ + 1, !.again = FALSE]
    <3>1. Allowance(q)
      BY <2>0 DEF Allowance, ReqStates
    <3>2. req' = [req EXCEPT ![r] = q]
      BY <2>11 DEF NextPass
    <3> HIDE DEF q
    <3> QED BY <2>1, <3>1, <3>2
  <2> QED
    BY <1>1, <2>3, <2>4, <2>5, <2>6, <2>7, <2>8, <2>9, <2>10, <2>11
    DEF RequestStep
<1>2. CASE \E r \in Requests : RequestStep(r)
  BY <1>1, <1>2 DEF ProbeInv, Allowance
<1>3. CASE UNCHANGED req
  BY <1>3 DEF ProbeInv
<1> QED
  BY <1>2, <1>3 DEF Next, vars, Reenable, Toggle, DailyScan, Tick

\* However many passes, keys and requests there are, no request sends a second
\* key probe.
THEOREM KeyProbeBudget == Spec => []OneKeyProbe
<1>1. Init => TypeInv /\ ProbeInv
  BY IdleType, UnmarkedType
  DEF Init, TypeInv, TypeOK, KeyOfSel, ProbeInv, Idle
<1>2. ProbeInv => OneKeyProbe
  BY DEF ProbeInv, OneKeyProbe
<1> QED BY <1>1, <1>2, TypeStep, ProbeStep, PTL DEF Spec

-----------------------------------------------------------------------------
(* Every key that is contacted had served out the mark its request found. *)

\* The mark of k is what a request that used k has made of it.
Stamped(k) ==
    \E r \in Requests :
        req[r].pc = "inflight" /\ req[r].sel.key = k /\ stored'[k].at \in Stamps(r)

\* What a step may write over a stored mark: a cleared one, or one of a time since
\* its request chose the key.
LEMMA WriteStep ==
    ASSUME TypeInv, [Next]_vars
    PROVE  /\ now' \in Nat /\ now' >= now
           /\ \A k \in Keys : \/ stored'[k] = stored[k]
                              \/ stored'[k] = Unmarked
                              \/ Stamped(k)
<1> USE DEF TypeInv, TypeOK
<1> DEFINE W == \A k \in Keys : \/ stored'[k] = stored[k]
                                \/ stored'[k] = Unmarked
                                \/ Stamped(k)
<1>1. \A m, kind, at : MarkedAs(kind, at).at = at /\ Rearmed(m, kind, at).at = at
  BY DEF MarkedAs, Rearmed
<1>2. ASSUME NEW r \in Requests, RequestStep(r) PROVE W /\ now' = now
  <2>0. ASSUME req[r].pc = "inflight",
               \E m : /\ m.at \in Stamps(r)
                     /\ stored' = [stored EXCEPT ![req[r].sel.key] = m]
        PROVE  W
    <3>1. PICK k \in Keys : k = req[r].sel.key
      BY <2>0 DEF KeyOfSel
    <3>2. PICK m : m.at \in Stamps(r) /\ stored' = [stored EXCEPT ![k] = m]
      BY <2>0, <3>1
    <3>3. stored'[k] = m /\ \A j \in Keys \ {k} : stored'[j] = stored[j]
      BY <3>2
    <3>4. Stamped(k)
      BY <2>0, <3>1, <3>2, <3>3 DEF Stamped
    <3> QED BY <3>3, <3>4
  <2>1. CASE \E k \in Keys, probe \in BOOLEAN : Select(r, k, probe)
    BY <2>1 DEF Select
  <2>2. CASE Served(r)
    BY <2>2 DEF Served
  <2>3. CASE EndedUnserved(r)
    <3>1. req[r].pc = "inflight" /\ now' = now
      BY <2>3 DEF EndedUnserved
    <3>2. CASE \E at \in Stamps(r) :
                 stored' = [stored EXCEPT ![req[r].sel.key] = Rearmed(@, "none", at)]
      <4>1. PICK at \in Stamps(r) : stored' =
              [stored EXCEPT ![req[r].sel.key]
                             = Rearmed(stored[req[r].sel.key], "none", at)]
        BY <3>2
      <4>2. Rearmed(stored[req[r].sel.key], "none", at).at \in Stamps(r)
        BY <1>1
      <4> QED BY <2>0, <3>1, <4>1, <4>2
    <3> QED BY <2>3, <3>1, <3>2 DEF EndedUnserved
  <2>4. CASE \E kind \in Kinds : ProbeFailed(r, kind)
    <3>1. PICK kind \in Kinds : ProbeFailed(r, kind)
      BY <2>4
    <3>2. req[r].pc = "inflight" /\ now' = now
      BY <3>1 DEF ProbeFailed
    <3>3. PICK at \in Stamps(r) : stored' =
            [stored EXCEPT ![req[r].sel.key] = Rearmed(stored[req[r].sel.key], kind, at)]
      BY <3>1 DEF ProbeFailed
    <3>4. Rearmed(stored[req[r].sel.key], kind, at).at \in Stamps(r)
      BY <1>1
    <3> QED BY <2>0, <3>2, <3>3, <3>4
  <2>5. CASE \E kind \in Kinds \ {"none"} : KeyFailed(r, kind)
    <3>1. PICK kind \in Kinds : KeyFailed(r, kind)
      BY <2>5
    <3>2. req[r].pc = "inflight" /\ now' = now
      BY <3>1 DEF KeyFailed
    <3>3. PICK at \in Stamps(r) :
            stored' = [stored EXCEPT ![req[r].sel.key] = MarkedAs(kind, at)]
      BY <3>1 DEF KeyFailed
    <3>4. MarkedAs(kind, at).at \in Stamps(r)
      BY <1>1
    <3> QED BY <2>0, <3>2, <3>3, <3>4
  <2>6. CASE stored' = stored /\ now' = now
    BY <2>6
  <2> QED
    BY <1>2, <2>1, <2>2, <2>3, <2>4, <2>5, <2>6
    DEF RequestStep, Begin, Sync, Exhausted, RateLimited, PassFailed,
        NextPass, Finish, Select, Served
<1>3. CASE \E k \in Keys : Reenable(k)
  BY <1>3 DEF Reenable
<1>4. CASE \E k \in Switched : Toggle(k)
  BY <1>4 DEF Toggle
<1>5. CASE DailyScan
  BY <1>5 DEF DailyScan
<1>6. CASE Tick
  BY <1>6 DEF Tick
<1>7. CASE UNCHANGED vars
  BY <1>7 DEF vars
<1> QED BY <1>2, <1>3, <1>4, <1>5, <1>6, <1>7 DEF Next

LEMMA ChosenRespects ==
    ASSUME NEW q \in ReqStates, q.pc = "select", Honours(q), now \in Nat,
           NEW k \in Keys, NEW probe \in BOOLEAN, Selects(q, k, probe)
    PROVE  Respects(Chosen(q, k, probe, ~probe /\ q.snap[k].kind # "none"))
<1> DEFINE expired == ~probe /\ q.snap[k].kind # "none"
           c == Chosen(q, k, probe, expired)
<1>1. q.snap \in [Keys -> Marks] /\ q.seen \in [Keys -> Marks]
  BY DEF ReqStates
<1>2. c.snap = [q.snap EXCEPT ![k] = IF expired THEN Unmarked ELSE @]
  BY DEF Chosen, ReqStates
<1>3. c.seen = q.seen /\ c.attempted = q.attempted /\ c.pc = "inflight"
      /\ c.sel = [key |-> k, probe |-> probe, at |-> now]
  BY DEF Chosen, ReqStates
<1>4. Rested(k, q.seen[k], c.sel)
  <2>0. c.sel.probe = probe /\ c.sel.at = now
    BY <1>3
  <2> HIDE DEF c
  <2>1. CASE probe
    <3>1. k \notin Daily /\ q.snap[k].kind = "quota"
          /\ now >= q.snap[k].at + Cooldown
      BY <2>1 DEF Selects, Probable
    <3>2. q.seen[k].kind # "auth" /\ q.seen[k].at \in Nat
          /\ q.snap[k].at \in Nat
          /\ (q.seen[k].kind = "quota" => q.snap[k].at >= q.seen[k].at)
      BY <1>1, <3>1 DEF Honours, Marks
    <3>3. q.seen[k].kind = "quota" => now >= q.seen[k].at + Cooldown
      BY <3>1, <3>2, KeyPoolAssumption
    <3> QED BY <2>0, <2>1, <3>1, <3>2, <3>3 DEF Rested
  <2>2. CASE ~probe
    <3>1. k \in Usable(q)
      BY <2>2 DEF Selects
    <3>2. q.snap[k] = q.seen[k]
      BY <3>1 DEF Usable, Honours
    <3>3. q.seen[k].kind = "none" \/ QuotaMarkExpired(k, q.seen[k], now)
      BY <3>1, <3>2 DEF Usable
    <3> QED BY <2>0, <2>2, <3>3 DEF Rested, QuotaMarkExpired, DailyResetDue
  <2> QED BY <2>1, <2>2
<1>5. Honours(c)
  <2>1. SUFFICES ASSUME NEW j \in Keys
        PROVE /\ c.seen[j].at <= now
              /\ j \notin c.attempted /\ ~(c.pc = "inflight" /\ j = c.sel.key)
                   => c.snap[j] = c.seen[j]
              /\ c.snap[j].kind = "quota" => c.seen[j].kind # "auth"
              /\ c.snap[j].kind = "quota" /\ c.seen[j].kind = "quota"
                   => c.snap[j].at >= c.seen[j].at
    BY DEF Honours
  <2>2. CASE j # k \/ ~expired
    <3>1. c.snap[j] = q.snap[j]
      BY <1>1, <1>2, <2>2
    <3> HIDE DEF c
    <3> QED BY <1>3, <3>1, <2>2 DEF Honours
  <2>3. CASE j = k /\ expired
    <3>1. c.snap[j] = Unmarked
      BY <1>1, <1>2, <2>3
    <3> HIDE DEF c
    <3> QED BY <1>3, <3>1, <2>3 DEF Honours, Unmarked
  <2> QED BY <2>2, <2>3
<1> HIDE DEF c
<1>6. Respects(c)
  <2>1. InTime(c)
    BY <1>3, <1>5 DEF InTime, Honours
  <2> QED BY <1>3, <1>4, <1>5, <2>1 DEF Respects, KeyOfSel
<1> QED BY <1>6 DEF c

\* The key loop goes round: a new mark of a time since the key was chosen, or none.
LEMMA RotatedRespects ==
    ASSUME NEW q \in ReqStates, q.pc = "inflight", Respects(q), now \in Nat,
           NEW c \in ReqStates, c.pc \in {"sync", "select"},
           c.seen = q.seen,
           c.pc = "select" => c.attempted = q.attempted \cup {q.sel.key},
           \/ c.snap = q.snap
           \/ \E kind \in Kinds, at \in q.sel.at..now :
                c.snap = [q.snap EXCEPT ![q.sel.key] = MarkedAs(kind, at)]
    PROVE  Respects(c)
<1> DEFINE k == q.sel.key
<1>1. k \in Keys /\ Honours(q) /\ q.seen[k].kind # "auth"
  BY DEF Respects, KeyOfSel, Holding, Rested
<1>2. q.snap \in [Keys -> Marks] /\ q.seen \in [Keys -> Marks] /\ q.sel.at \in Nat
  BY DEF ReqStates
<1>3. ASSUME c.pc = "select" PROVE Honours(c)
  <2>1. SUFFICES ASSUME NEW j \in Keys
        PROVE /\ c.seen[j].at <= now
              /\ j \notin c.attempted /\ ~(c.pc = "inflight" /\ j = c.sel.key)
                   => c.snap[j] = c.seen[j]
              /\ c.snap[j].kind = "quota" => c.seen[j].kind # "auth"
              /\ c.snap[j].kind = "quota" /\ c.seen[j].kind = "quota"
                   => c.snap[j].at >= c.seen[j].at
    BY DEF Honours
  <2>2. c.attempted = q.attempted \cup {k}
    BY <1>3
  <2>3. CASE c.snap[j] = q.snap[j]
    <3>1. /\ q.seen[j].at <= now
          /\ j \notin q.attempted /\ j # k => q.snap[j] = q.seen[j]
          /\ q.snap[j].kind = "quota" => q.seen[j].kind # "auth"
          /\ q.snap[j].kind = "quota" /\ q.seen[j].kind = "quota"
               => q.snap[j].at >= q.seen[j].at
      BY <1>1 DEF Honours
    <3> QED BY <2>2, <2>3, <3>1
  <2>4. CASE c.snap[j] # q.snap[j]
    <3>1. j = k /\ c.snap[j].at >= q.sel.at /\ c.snap[j].at \in Nat
      <4>1. PICK kind \in Kinds, at \in q.sel.at..now :
              c.snap = [q.snap EXCEPT ![k] = MarkedAs(kind, at)]
        BY <2>4
      <4>2. MarkedAs(kind, at).at = at
        BY DEF MarkedAs
      <4>3. at >= q.sel.at /\ at \in Nat
        BY <1>2
      <4> QED BY <1>1, <1>2, <2>4, <4>1, <4>2, <4>3
    <3>2. q.seen[k].at <= now /\ q.seen[k].at <= q.sel.at /\ q.seen[k].at \in Nat
      BY <1>1, <1>2 DEF Honours, Respects, InTime, Marks
    <3> QED BY <1>1, <1>2, <2>2, <3>1, <3>2
  <2> QED BY <2>3, <2>4
<1> QED BY <1>3 DEF Respects, KeyOfSel, InTime, Holding

LEMMA RestStep == TypeInv /\ RestInv /\ [Next]_vars => RestInv'
<1> SUFFICES ASSUME TypeInv, RestInv, [Next]_vars PROVE RestInv'
    OBVIOUS
<1> USE KeyPoolAssumption DEF TypeInv, TypeOK
<1>1. MarksInPast'
  <2>1. \A k \in Keys : stored[k].at \in Nat /\ stored[k].at <= now
    BY DEF RestInv, MarksInPast, Marks
  <2>2. \A k \in Keys : Stamped(k) => stored'[k].at \in Nat /\ stored'[k].at <= now
    BY DEF Stamped, Stamps, ReqStates
  <2> QED BY <2>1, <2>2, WriteStep DEF MarksInPast, Unmarked
<1>2. ASSUME NEW r \in Requests, RequestStep(r)
      PROVE  \A p \in Requests : Respects(req[p])'
  <2>0. req[r] \in ReqStates /\ Respects(req[r]) /\ now \in Nat /\ now' = now
    BY <1>2 DEF RestInv, RequestStep, Begin, Sync, Select, Exhausted, Served,
                EndedUnserved, ProbeFailed, KeyFailed, RateLimited, PassFailed,
                NextPass, Finish
  <2>1. ASSUME NEW q, Respects(q), req' = [req EXCEPT ![r] = q]
        PROVE  \A p \in Requests : Respects(req[p])'
    <3>1. \A p \in Requests : Respects(req'[p])
      BY <2>1 DEF RestInv
    <3>2. ASSUME NEW p \in Requests PROVE Respects(req[p])'
      <4>1. Respects(req'[p]) /\ now' = now
        BY <2>0, <3>1
      <4> QED BY <4>1 DEF Respects, Honours, KeyOfSel, InTime
    <3> QED BY <3>2
  <2>3. Respects(Idle) /\ \A b \in BOOLEAN : Respects(PassOver(req[r], b))
    <3>1. Idle.pc = "idle" /\ \A b \in BOOLEAN : PassOver(req[r], b).pc = "between"
      BY <2>0, PassOverType DEF Idle
    <3> QED BY <3>1 DEF Respects, KeyOfSel, InTime, Holding
  <2>4. CASE Begin(r)
    <3>1. PICK s \in BOOLEAN :
            req' = [req EXCEPT ![r] = [Idle EXCEPT !.pc = "sync",
                        !.streaming = s, !.passes = 1, !.on = enabled]]
      BY <2>4 DEF Begin
    <3> DEFINE q == [Idle EXCEPT !.pc = "sync", !.streaming = s,
                                 !.passes = 1, !.on = enabled]
    <3>2. q.pc = "sync"
      BY DEF Idle
    <3> HIDE DEF q
    <3>3. Respects(q)
      BY <3>2 DEF Respects, KeyOfSel, InTime, Holding
    <3> QED BY <2>1, <3>1, <3>3 DEF q
  <2>5. CASE Sync(r)
    <3> DEFINE q == [req[r] EXCEPT !.pc = "select", !.snap = stored,
                                   !.seen = stored]
    <3>1. q.pc = "select" /\ q.snap = stored /\ q.seen = stored
      BY <2>0 DEF ReqStates
    <3>2. req' = [req EXCEPT ![r] = q]
      BY <2>5 DEF Sync
    <3> HIDE DEF q
    <3>3. \A k \in Keys : stored[k].at <= now /\ stored[k].at \in Nat
      BY DEF RestInv, MarksInPast, Marks
    <3>4. Respects(q)
      BY <3>1, <3>3 DEF Respects, KeyOfSel, Honours, InTime
    <3> QED BY <2>1, <3>2, <3>4
  <2>6. CASE \E k \in Keys, probe \in BOOLEAN : Select(r, k, probe)
    <3>1. PICK k \in Keys, probe \in BOOLEAN : Select(r, k, probe)
      BY <2>6
    <3> DEFINE q == Chosen(req[r], k, probe,
                           ~probe /\ req[r].snap[k].kind # "none")
    <3>2. /\ req[r].pc = "select" /\ Selects(req[r], k, probe)
          /\ req' = [req EXCEPT ![r] = q]
      BY <3>1 DEF Select
    <3>3. Respects(q)
      BY <2>0, <3>2, ChosenRespects DEF Respects, Holding
    <3> HIDE DEF q
    <3> QED BY <2>1, <3>2, <3>3
  <2>7. CASE Exhausted(r) \/ PassFailed(r)
    <3>1. PICK b \in BOOLEAN : req' = [req EXCEPT ![r] = PassOver(req[r], b)]
      BY <2>0, <2>7 DEF Exhausted, PassFailed, ReqStates
    <3> QED BY <2>1, <2>3, <3>1
  <2>8. CASE Served(r) \/ EndedUnserved(r) \/ Finish(r)
    BY <2>1, <2>3, <2>8 DEF Served, EndedUnserved, Finish
  <2>9. ASSUME NEW kind \in Kinds, ProbeFailed(r, kind)
        PROVE  \A p \in Requests : Respects(req[p])'
    BY <2>1, <2>3, <2>9 DEF ProbeFailed
  <2>10. ASSUME NEW kind \in Kinds, KeyFailed(r, kind)
         PROVE  \A p \in Requests : Respects(req[p])'
    <3> DEFINE k == req[r].sel.key
               Q(at) == [Rotated(req[r]) EXCEPT !.snap[k] = MarkedAs(kind, at),
                                                !.bare = FALSE]
    <3>0. PICK at \in Stamps(r) :
            \/ req' = [req EXCEPT ![r] = Q(at)]
            \/ req' = [req EXCEPT ![r] = PassOver(Q(at), FALSE)]
      BY <2>10 DEF KeyFailed
    <3> DEFINE q == Q(at)
    <3>1. k \in Keys /\ Rotated(req[r]) \in ReqStates /\ req[r].pc = "inflight"
      BY <2>0, <2>10, RotatedType DEF KeyFailed, KeyOfSel, Respects
    <3>2. at \in req[r].sel.at..now
      BY DEF Stamps
    <3>2a. at \in Nat
      BY <2>0, <3>2 DEF ReqStates
    <3>2b. MarkedAs(kind, at) \in Marks
      BY <3>2a DEF MarkedAs, Marks
    <3>3. q \in ReqStates
      BY <3>1, <3>2b DEF ReqStates
    <3>4. q.pc \in {"sync", "select"} /\ q.seen = req[r].seen
          /\ (q.pc = "select" => q.attempted = req[r].attempted \cup {k})
      BY <2>0, <3>1 DEF Rotated, ReqStates
    <3>5. q.snap = [req[r].snap EXCEPT ![k] = MarkedAs(kind, at)]
      BY <2>0, <3>1 DEF Rotated, ReqStates
    <3>6. \/ req' = [req EXCEPT ![r] = q]
          \/ req' = [req EXCEPT ![r] = PassOver(q, FALSE)]
      BY <3>0
    <3> HIDE DEF q
    <3>7. Respects(q)
      <4>1. \E m \in Kinds, t \in req[r].sel.at..now :
              q.snap = [req[r].snap EXCEPT ![k] = MarkedAs(m, t)]
        BY <3>2, <3>5
      <4> QED BY <2>0, <3>1, <3>3, <3>4, <4>1, RotatedRespects
    <3>8. Respects(PassOver(q, FALSE))
      <4>1. PassOver(q, FALSE).pc = "between"
        BY <3>3, PassOverType
      <4> QED BY <4>1 DEF Respects, KeyOfSel, InTime, Holding
    <3> QED BY <2>1, <3>6, <3>7, <3>8
  <2>11. CASE RateLimited(r)
    <3> DEFINE q == [Rotated(req[r]) EXCEPT !.bare = ~req[r].streaming]
    <3>1. Rotated(req[r]) \in ReqStates /\ req[r].pc = "inflight"
      BY <2>0, <2>11, RotatedType DEF RateLimited, KeyOfSel
    <3>2. q \in ReqStates
      BY <2>0, <3>1 DEF ReqStates
    <3>3. q.pc \in {"sync", "select"} /\ q.seen = req[r].seen
          /\ q.snap = req[r].snap
          /\ (q.pc = "select"
                => q.attempted = req[r].attempted \cup {req[r].sel.key})
      BY <2>0, <2>11, <3>1 DEF Rotated, ReqStates, RateLimited
    <3>4. \/ req' = [req EXCEPT ![r] = q]
          \/ req' = [req EXCEPT ![r] = PassOver(q, TRUE)]
      BY <2>11 DEF RateLimited
    <3> HIDE DEF q
    <3>5. Respects(q)
      BY <2>0, <3>1, <3>2, <3>3, RotatedRespects
    <3>6. Respects(PassOver(q, TRUE))
      <4>1. PassOver(q, TRUE).pc = "between"
        BY <3>2, PassOverType
      <4> QED BY <4>1 DEF Respects, KeyOfSel, InTime, Holding
    <3> QED BY <2>1, <3>4, <3>5, <3>6
  <2>12. ASSUME NEW kind \in PassKinds, NextPass(r, kind)
         PROVE  \A p \in Requests : Respects(req[p])'
    <3> DEFINE q == [req[r] EXCEPT !.pc = "sync", !.pass = kind,
                                   !.passes = @ + 1, !.again = FALSE]
    <3>1. q.pc = "sync"
      BY <2>0 DEF ReqStates
    <3>2. req' = [req EXCEPT ![r] = q]
      BY <2>12 DEF NextPass
    <3> HIDE DEF q
    <3>3. Respects(q)
      BY <3>1 DEF Respects, KeyOfSel, InTime, Holding
    <3> QED BY <2>1, <3>2, <3>3
  <2> QED
    BY <1>2, <2>4, <2>5, <2>6, <2>7, <2>8, <2>9, <2>10, <2>11, <2>12
    DEF RequestStep
<1>3. CASE Tick
  <2>1. \A p \in Requests : req[p] \in ReqStates /\ Respects(req[p])
    BY DEF RestInv
  <2>2. \A p \in Requests : req[p].sel.at \in Nat
          /\ \A k \in Keys : req[p].seen[k].at \in Nat
    BY <2>1 DEF ReqStates, Marks
  <2>3. now' = now + 1 /\ req' = req
    BY <1>3 DEF Tick
  <2>4. \A p \in Requests : Respects(req[p])'
    BY <2>1, <2>2, <2>3 DEF Respects, Honours, KeyOfSel, InTime
  <2> QED BY <1>1, <2>4 DEF RestInv
<1>4. CASE UNCHANGED <<now, req>>
  BY <1>1, <1>4 DEF RestInv, Respects, Honours, KeyOfSel, InTime
<1>5. CASE \E r \in Requests : RequestStep(r)
  BY <1>1, <1>2, <1>5 DEF RestInv
<1> QED
  BY <1>3, <1>4, <1>5 DEF Next, vars, Reenable, Toggle, DailyScan

LEMMA InitRests == Init => TypeInv /\ RestInv
<1>1. SUFFICES ASSUME Init PROVE TypeInv /\ RestInv
  OBVIOUS
<1>2. /\ now = 0 /\ stored = NoMarks /\ enabled = [k \in Keys |-> TRUE]
      /\ req = [r \in Requests |-> Idle]
  BY <1>1 DEF Init
<1>3. Idle.pc = "idle"
  BY DEF Idle
<1>4. TypeInv
  BY <1>2, <1>3, IdleType, UnmarkedType DEF TypeInv, TypeOK, KeyOfSel
<1>5. Respects(Idle)
  BY <1>3 DEF Respects, KeyOfSel, InTime, Holding
<1>6. MarksInPast
  BY <1>2 DEF MarksInPast, NoMarks, Unmarked
<1> QED BY <1>2, <1>4, <1>5, <1>6 DEF RestInv

\* No request ever contacts a key through a mark it saw and that the key had
\* not served out, for any pool, any number of requests and any timing.
THEOREM MarksAreHonoured == Spec => []MarkedKeyRests
<1>1. Init => TypeInv /\ RestInv
  BY InitRests
<1>2. RestInv => MarkedKeyRests
  BY DEF RestInv, Respects, MarkedKeyRests
<1> QED BY <1>1, <1>2, TypeStep, RestStep, PTL DEF Spec

\* Whoever writes, a mark goes back in time only over one its request had not seen,
\* and never to before the request chose the key.
THEOREM MarksOnlyAdvance == Spec => MarksAdvance
<1>1. Init => TypeInv /\ RestInv
  BY InitRests
<1> DEFINE Excused(k) == \E r \in Requests :
                           /\ req[r].pc = "inflight" /\ req[r].sel.key = k
                           /\ stored[k] # req[r].seen[k]
                           /\ stored'[k].at >= req[r].sel.at
           Advance == \A k \in Keys :
              /\ stored[k].kind # "none" /\ stored'[k].kind # "none"
              /\ stored'[k].at < stored[k].at
              => Excused(k)
<1>2. TypeInv /\ RestInv /\ [Next]_vars => [Advance]_vars
  <2>1. SUFFICES ASSUME TypeInv, RestInv, [Next]_vars, NEW k \in Keys,
                        stored'[k].kind # "none", stored'[k].at < stored[k].at
                 PROVE  Excused(k)
    OBVIOUS
  <2>2. stored[k].at \in Nat
    BY <2>1 DEF TypeInv, TypeOK, Marks
  <2>3. Stamped(k)
    BY <2>1, <2>2, WriteStep DEF Unmarked
  <2>4. PICK r \in Requests :
          req[r].pc = "inflight" /\ req[r].sel.key = k /\ stored'[k].at \in Stamps(r)
    BY <2>3 DEF Stamped
  <2>5. req[r] \in ReqStates /\ Respects(req[r]) /\ now \in Nat
    BY <2>1 DEF TypeInv, TypeOK, RestInv
  <2>6. req[r].sel.at \in Nat /\ req[r].seen[k].at \in Nat
        /\ req[r].seen[k].at <= req[r].sel.at
    BY <2>4, <2>5 DEF ReqStates, Marks, Respects, InTime
  <2>7. stored'[k].at \in Nat /\ stored'[k].at >= req[r].sel.at
    BY <2>4, <2>5, <2>6 DEF Stamps
  <2>8. stored[k].at > req[r].seen[k].at
    BY <2>1, <2>2, <2>6, <2>7
  <2> QED BY <2>4, <2>6, <2>7, <2>8
<1> QED BY <1>1, <1>2, TypeStep, RestStep, PTL DEF Spec, MarksAdvance
=============================================================================
