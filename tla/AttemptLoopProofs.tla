-------------------------- MODULE AttemptLoopProofs --------------------------
(***************************************************************************)
(* Proofs about AttemptLoop: its types, the bounds on the contacts and on  *)
(* the waiting of a request, and the order of its stages.                  *)
(***************************************************************************)
EXTENDS AttemptLoop, SequenceTheorems, TLAPS

-----------------------------------------------------------------------------
(* Sequences with one element more or less. *)

\* What InsertAt returns, element by element.
LEMMA Inserted ==
    ASSUME NEW S, NEW s \in Seq(S), NEW i \in 1..Len(s) + 1, NEW e \in S
    PROVE  /\ InsertAt(s, i, e) \in Seq(S)
           /\ Len(InsertAt(s, i, e)) = Len(s) + 1
           /\ \A j \in 1..Len(s) + 1 :
                InsertAt(s, i, e)[j] = IF j < i THEN s[j]
                                       ELSE IF j = i THEN e ELSE s[j - 1]
<1> DEFINE a == SubSeq(s, 1, i - 1)
           b == SubSeq(s, i, Len(s))
<1>0. /\ Len(s) \in Nat /\ i \in Nat /\ i >= 1 /\ i <= Len(s) + 1
      /\ \A j \in 1..Len(s) : s[j] \in S
    OBVIOUS
<1>1. /\ a \in Seq(S) /\ Len(a) = i - 1
      /\ \A j \in 1..i - 1 : a[j] = s[j]
  <2>1. \A j \in 1..i - 1 : s[j] \in S
      BY <1>0
  <2>2. /\ SubSeq(s, 1, i - 1) \in Seq(S)
        /\ Len(SubSeq(s, 1, i - 1)) = IF 1 <= i - 1 THEN (i - 1) - 1 + 1 ELSE 0
        /\ \A j \in 1..(i - 1) - 1 + 1 : SubSeq(s, 1, i - 1)[j] = s[1 + j - 1]
      BY <1>0, <2>1, SubSeqProperties
  <2> QED
      BY <1>0, <2>2
<1>2. /\ b \in Seq(S) /\ Len(b) = Len(s) - i + 1
      /\ \A j \in 1..Len(s) - i + 1 : b[j] = s[i + j - 1]
  <2>1. \A j \in i..Len(s) : s[j] \in S
      BY <1>0
  <2>2. /\ SubSeq(s, i, Len(s)) \in Seq(S)
        /\ Len(SubSeq(s, i, Len(s))) = IF i <= Len(s) THEN Len(s) - i + 1 ELSE 0
        /\ \A j \in 1..Len(s) - i + 1 : SubSeq(s, i, Len(s))[j] = s[i + j - 1]
      BY <1>0, <2>1, SubSeqProperties
  <2> QED
      BY <1>0, <2>2
<1>3. /\ <<e>> \in Seq(S) /\ Len(<<e>>) = 1 /\ <<e>>[1] = e
    OBVIOUS
<1>4. InsertAt(s, i, e) = (a \o <<e>>) \o b
    BY DEF InsertAt
<1> HIDE DEF a, b
<1>5. /\ a \o <<e>> \in Seq(S) /\ Len(a \o <<e>>) = i
      /\ \A j \in 1..i :
           (a \o <<e>>)[j] = IF j <= i - 1 THEN a[j] ELSE <<e>>[j - (i - 1)]
  <2>1. /\ a \o <<e>> \in Seq(S) /\ Len(a \o <<e>>) = Len(a) + Len(<<e>>)
        /\ \A j \in 1..Len(a) + Len(<<e>>) :
             (a \o <<e>>)[j] = IF j <= Len(a) THEN a[j] ELSE <<e>>[j - Len(a)]
      BY <1>1, <1>3, ConcatProperties
  <2>2. Len(a) + Len(<<e>>) = i
      BY <1>0, <1>1, <1>3
  <2> QED
      BY <1>1, <2>1, <2>2
<1>6. /\ (a \o <<e>>) \o b \in Seq(S) /\ Len((a \o <<e>>) \o b) = Len(s) + 1
      /\ \A j \in 1..Len(s) + 1 : ((a \o <<e>>) \o b)[j] =
            IF j <= i THEN (a \o <<e>>)[j] ELSE b[j - i]
  <2> DEFINE c == a \o <<e>>
  <2>0. c \in Seq(S) /\ Len(c) = i
      BY <1>5
  <2> HIDE DEF c
  <2>1. /\ c \o b \in Seq(S) /\ Len(c \o b) = Len(c) + Len(b)
        /\ \A j \in 1..Len(c) + Len(b) :
             (c \o b)[j] = IF j <= Len(c) THEN c[j] ELSE b[j - Len(c)]
      BY <1>2, <2>0, ConcatProperties
  <2>2. Len(c) + Len(b) = Len(s) + 1
      BY <1>0, <1>2, <2>0
  <2> QED
      BY <2>0, <2>1, <2>2 DEF c
<1>7. ASSUME NEW j \in 1..Len(s) + 1
      PROVE  InsertAt(s, i, e)[j] = IF j < i THEN s[j]
                                    ELSE IF j = i THEN e ELSE s[j - 1]
  <2>1. InsertAt(s, i, e)[j] = IF j <= i THEN (a \o <<e>>)[j] ELSE b[j - i]
      BY <1>4, <1>6
  <2>2. CASE j < i
    <3>1. j \in 1..i - 1 /\ j \in 1..i /\ j <= i /\ j <= i - 1
        BY <1>0, <2>2
    <3> QED
        BY <1>1, <1>5, <2>1, <2>2, <3>1
  <2>3. CASE j = i
      BY <1>0, <1>3, <1>5, <2>1, <2>3
  <2>4. CASE j > i
    <3>1. /\ j - i \in 1..Len(s) - i + 1 /\ i + (j - i) - 1 = j - 1
        BY <1>0, <2>4
    <3> QED
        BY <1>0, <1>2, <2>1, <2>4, <3>1
  <2> QED
      BY <1>0, <2>2, <2>3, <2>4
<1> QED
    BY <1>0, <1>4, <1>6, <1>7

\* What RemoveAt returns, element by element.
LEMMA Removed ==
    ASSUME NEW S, NEW s \in Seq(S), NEW i \in 1..Len(s)
    PROVE  /\ RemoveAt(s, i) \in Seq(S)
           /\ Len(RemoveAt(s, i)) = Len(s) - 1
           /\ \A j \in 1..Len(s) - 1 :
                RemoveAt(s, i)[j] = IF j < i THEN s[j] ELSE s[j + 1]
<1> DEFINE a == SubSeq(s, 1, i - 1)
           b == SubSeq(s, i + 1, Len(s))
<1>0. /\ Len(s) \in Nat /\ i \in Nat /\ i >= 1 /\ i <= Len(s)
      /\ \A j \in 1..Len(s) : s[j] \in S
    OBVIOUS
<1>1. /\ a \in Seq(S) /\ Len(a) = i - 1
      /\ \A j \in 1..i - 1 : a[j] = s[j]
  <2>1. \A j \in 1..i - 1 : s[j] \in S
      BY <1>0
  <2>2. /\ SubSeq(s, 1, i - 1) \in Seq(S)
        /\ Len(SubSeq(s, 1, i - 1)) = IF 1 <= i - 1 THEN (i - 1) - 1 + 1 ELSE 0
        /\ \A j \in 1..(i - 1) - 1 + 1 : SubSeq(s, 1, i - 1)[j] = s[1 + j - 1]
      BY <1>0, <2>1, SubSeqProperties
  <2> QED
      BY <1>0, <2>2
<1>2. /\ b \in Seq(S) /\ Len(b) = Len(s) - i
      /\ \A j \in 1..Len(s) - i : b[j] = s[i + j]
  <2>1. \A j \in i + 1..Len(s) : s[j] \in S
      BY <1>0
  <2>2. /\ SubSeq(s, i + 1, Len(s)) \in Seq(S)
        /\ Len(SubSeq(s, i + 1, Len(s))) =
             IF i + 1 <= Len(s) THEN Len(s) - (i + 1) + 1 ELSE 0
        /\ \A j \in 1..Len(s) - (i + 1) + 1 :
             SubSeq(s, i + 1, Len(s))[j] = s[(i + 1) + j - 1]
      BY <1>0, <2>1, SubSeqProperties
  <2> QED
      BY <1>0, <2>2
<1>3. RemoveAt(s, i) = a \o b
    BY DEF RemoveAt
<1> HIDE DEF a, b
<1>4. /\ a \o b \in Seq(S) /\ Len(a \o b) = Len(s) - 1
      /\ \A j \in 1..Len(s) - 1 : (a \o b)[j] =
            IF j <= i - 1 THEN a[j] ELSE b[j - (i - 1)]
  <2>1. /\ a \o b \in Seq(S) /\ Len(a \o b) = Len(a) + Len(b)
        /\ \A j \in 1..Len(a) + Len(b) :
             (a \o b)[j] = IF j <= Len(a) THEN a[j] ELSE b[j - Len(a)]
      BY <1>1, <1>2, ConcatProperties
  <2>2. Len(a) + Len(b) = Len(s) - 1
      BY <1>0, <1>1, <1>2
  <2> QED
      BY <1>1, <2>1, <2>2
<1>5. ASSUME NEW j \in 1..Len(s) - 1
      PROVE  RemoveAt(s, i)[j] = IF j < i THEN s[j] ELSE s[j + 1]
  <2>1. RemoveAt(s, i)[j] = IF j <= i - 1 THEN a[j] ELSE b[j - (i - 1)]
      BY <1>3, <1>4
  <2>2. CASE j < i
    <3>1. j \in 1..i - 1 /\ j <= i - 1
        BY <1>0, <2>2
    <3> QED
        BY <1>1, <2>1, <2>2, <3>1
  <2>3. CASE j >= i
    <3>1. j - (i - 1) \in 1..Len(s) - i /\ i + (j - (i - 1)) = j + 1
        BY <1>0, <2>3
    <3> QED
        BY <1>0, <1>2, <2>1, <2>3, <3>1
  <2> QED
      BY <1>0, <2>2, <2>3
<1> QED
    BY <1>0, <1>3, <1>4, <1>5

-----------------------------------------------------------------------------
(* Types. *)

\* The place a pass under way would take in the retry queue lies within it.
SlotOK == pc \in {"select", "contact"} => cur.slot \in 1..Len(retries) + 1

Typed == TypeOK /\ SlotOK

LEMMA RankDomain == DOMAIN Rank = {"first", "retry", "probe", "fallback"}
BY DEF Rank

LEMMA RankRange == \A kind \in DOMAIN Rank : Rank[kind] \in 1..4
BY DEF Rank

\* A pass that is entered is well-formed.
LEMMA Entered ==
    ASSUME NEW s \in Sources, NEW kind \in DOMAIN Rank, NEW half \in BOOLEAN,
           NEW attempts \in Nat, NEW slot \in Nat, NEW reached \in BOOLEAN,
           Enter(s, kind, half, attempts, slot, reached)
    PROVE  /\ pc' = "select" /\ cur' \in Passes
           /\ cur'.src = s /\ cur'.kind = kind /\ cur'.half = half
           /\ cur'.attempts = attempts /\ cur'.slot = slot
           /\ cur'.bare = FALSE /\ cur'.reached = reached
BY DEF Enter, Passes

\* A pause is a number of seconds, and what is left of the budget after it and
\* its oversleep is at most the budget without the pause.
LEMMA Pausing ==
    ASSUME Typed, NEW i \in DOMAIN retries
    PROVE  /\ retries[i] \in Retries
           /\ Pause(i) \in Nat
           /\ Pause(i) <= wait => \A late \in Nat :
                /\ Debited(Pause(i), late) \in Nat
                /\ Debited(Pause(i), late) + Pause(i) <= wait
<1>1. retries[i] \in Retries /\ clock \in Nat /\ wait \in Nat
    BY DEF Typed, TypeOK
<1>2. retries[i].ready \in Nat
    BY <1>1 DEF Retries
<1>3. Pause(i) \in Nat
    BY <1>1, <1>2 DEF Pause
<1> DEFINE pause == Pause(i)
<1> HIDE DEF pause
<1>4. pause \in Nat
    BY <1>3 DEF pause
<1>5. pause <= wait => \A late \in Nat :
        Debited(pause, late) \in Nat /\ Debited(pause, late) + pause <= wait
    BY <1>1, <1>4 DEF Debited
<1> QED
    BY <1>1, <1>3, <1>5 DEF pause

LEMMA TypedStep == Typed /\ [Next]_vars => Typed'
<1> SUFFICES ASSUME Typed, [Next]_vars PROVE Typed'
    OBVIOUS
<1> USE AttemptLoopAssumption
<1>0. TypeOK /\ SlotOK /\ Len(retries) \in Nat /\ Len(retries) + 1 \in Nat
    BY DEF Typed, TypeOK
<1>1. CASE First
  <2>1. Head(queue) \in Sources /\ Tail(queue) \in Seq(Sources)
      BY <1>0, <1>1 DEF First, TypeOK
  <2>2. /\ pc' = "select" /\ cur' \in Passes /\ cur'.slot = Len(retries) + 1
    <3>1. Enter(Head(queue), "first", FALSE, 0, Len(retries) + 1, FALSE)
        BY <1>1 DEF First
    <3>2. "first" \in DOMAIN Rank
        BY RankDomain
    <3> QED
        BY ONLY <1>0, <2>1, <3>1, <3>2, Entered
  <2> QED
      BY <1>0, <1>1, <2>1, <2>2 DEF First, Typed, TypeOK, SlotOK
<1>2. ASSUME NEW i \in DOMAIN retries, Retry(i) PROVE Typed'
  <2>1. /\ retries[i] \in Retries /\ Pause(i) \in Nat
        /\ Pause(i) <= wait
        /\ \A late \in Nat : Debited(Pause(i), late) \in Nat
      BY <1>2, Pausing DEF Retry, Ready
  <2>2. i \in 1..Len(retries) /\ i \in Nat
      BY <1>0 DEF TypeOK
  <2>3. /\ retries' \in Seq(Retries) /\ Len(retries') = Len(retries) - 1
      BY <1>0, <1>2, <2>2, Removed DEF Retry, TypeOK
  <2>4. /\ pc' = "select" /\ cur' \in Passes /\ cur'.slot = i
    <3>1. /\ retries[i].src \in Sources /\ retries[i].attempts \in Nat
          /\ Enter(retries[i].src, "retry", FALSE, retries[i].attempts, i, FALSE)
        BY <1>2, <2>1 DEF Retry, Retries
    <3> QED
        BY <2>2, <3>1, RankDomain, Entered
  <2>5. clock' \in Nat /\ wait' \in Nat /\ slept' \in Nat
    <3>1. 0..MaxLate \subseteq Nat
        OBVIOUS
    <3>2. CASE Pause(i) = 0
        BY <1>0, <1>2, <2>1, <3>2 DEF Retry, TypeOK
    <3>3. CASE Pause(i) # 0
      <4>1. PICK late \in 0..MaxLate : /\ clock' = clock + Pause(i) + late
                                       /\ wait' = Debited(Pause(i), late)
          BY <1>2, <3>3 DEF Retry
      <4>2. clock \in Nat /\ slept \in Nat /\ slept' = slept + Pause(i)
          BY <1>0, <1>2 DEF Retry, TypeOK
      <4>3. late \in Nat
          OBVIOUS
      <4>4. wait' \in Nat
          BY <2>1, <4>1, <4>3
      <4> DEFINE pause == Pause(i)
      <4>5. pause \in Nat /\ clock' = clock + pause + late /\ slept' = slept + pause
          BY <2>1, <4>1, <4>2
      <4> HIDE DEF pause
      <4> QED
          BY <4>2, <4>3, <4>4, <4>5
    <3> QED
        BY <3>2, <3>3
  <2>6. SlotOK'
      BY <1>0, <2>2, <2>3, <2>4 DEF SlotOK
  <2>7. TypeOK'
      BY <1>0, <1>2, <2>3, <2>4, <2>5 DEF Retry, TypeOK
  <2> QED
      BY <2>6, <2>7 DEF Typed
<1>3. ASSUME NEW got \in BOOLEAN, Probe(got) PROVE Typed'
  <2>1. guard' \in BOOLEAN /\ over' \in BOOLEAN /\ probe' \in Sources \cup {NoSource}
      BY <1>0, <1>3 DEF Probe, Acquired, LeavesRetries, TypeOK
  <2>2. CASE ~guard'
      BY <1>0, <1>3, <2>1, <2>2 DEF Probe, Typed, TypeOK, SlotOK
  <2>3. CASE guard'
    <3>1. /\ probe \in Sources /\ guard \in BOOLEAN
          /\ (IF active THEN "fallback" ELSE "probe") \in DOMAIN Rank
          /\ Enter(probe, IF active THEN "fallback" ELSE "probe", TRUE, 0,
                   Len(retries) + 1, guard)
        BY <1>0, <1>3, <2>3, RankDomain DEF Probe, TypeOK
    <3>2. pc' = "select" /\ cur' \in Passes /\ cur'.slot = Len(retries) + 1
        BY <1>0, <3>1 DEF Enter, Passes
    <3> QED
        BY <1>0, <1>3, <2>1, <3>2 DEF Probe, Typed, TypeOK, SlotOK
  <2> QED
      BY <2>2, <2>3
<1>4. ASSUME NEW got \in BOOLEAN, Fallback(got) PROVE Typed'
  <2>1. /\ Head(fallback) \in Stages /\ Tail(fallback) \in Seq(Stages)
      BY <1>0, <1>4 DEF Fallback, TypeOK
  <2>2. Head(fallback).src \in Sources /\ Head(fallback).half \in BOOLEAN
      BY <2>1 DEF Stages
  <2>3. guard' \in BOOLEAN /\ over' \in BOOLEAN /\ active' \in BOOLEAN
      BY <1>0, <1>4 DEF Fallback, Acquired, LeavesRetries, TypeOK
  <2>4. CASE Enter(Head(fallback).src, "fallback", Head(fallback).half, 0,
                   Len(retries) + 1, FALSE)
    <3>1. pc' = "select" /\ cur' \in Passes /\ cur'.slot = Len(retries) + 1
      <4>1. "fallback" \in DOMAIN Rank
          BY RankDomain
      <4> QED
          BY <1>0, <2>2, <2>4, <4>1 DEF Enter, Passes
    <3> QED
        BY <1>0, <1>4, <2>1, <2>3, <3>1 DEF Fallback, Typed, TypeOK, SlotOK
  <2>5. CASE UNCHANGED <<pc, cur>>
      BY <1>0, <1>4, <2>1, <2>3, <2>5 DEF Fallback, Typed, TypeOK, SlotOK
  <2> QED
      BY <1>4, <2>4, <2>5 DEF Fallback
<1>5. CASE GiveUp
    BY <1>0, <1>5 DEF GiveUp, plan, Typed, TypeOK, SlotOK
<1>6. CASE Contact
  <2>1. /\ cur \in Passes /\ cur' \in Passes /\ cur'.slot = cur.slot
      BY <1>0, <1>6 DEF Contact, TypeOK, Passes
  <2>2. cur.src \in Sources /\ cur.kind \in DOMAIN Rank
      BY <2>1 DEF Passes
  <2>3. attempted' \subseteq Sources
      BY <1>0, <1>6, <2>2 DEF Contact, Remembered, TypeOK
  <2>4. passes' \in [Sources -> Nat]
    <3>1. passes \in [Sources -> Nat]
        BY <1>0 DEF TypeOK
    <3>2. passes' = passes \/ passes' = [passes EXCEPT ![cur.src] = @ + 1]
        BY <1>6 DEF Contact
    <3> QED
        BY <2>2, <3>1, <3>2
  <2>5. stage' \in 1..4
      BY <1>6, <2>2, RankRange DEF Contact
  <2> QED
      BY <1>0, <1>6, <2>1, <2>3, <2>4, <2>5 DEF Contact, plan, Typed, TypeOK, SlotOK
<1>7. ASSUME NEW again, NEW t \in Nat, pc \in {"select", "contact"}, PassOver(again, t)
      PROVE  /\ retries' \in Seq(Retries) /\ pc' = "choose" /\ cur' = NoPass
             /\ UNCHANGED <<queue, over, probe, guard, fallback, active>>
  <2>1. cur \in Passes /\ cur.slot \in 1..Len(retries) + 1
      BY <1>0, <1>7 DEF TypeOK, SlotOK
  <2>2. cur.src \in Sources /\ cur.attempts \in Nat
      BY <2>1 DEF Passes
  <2>3. CASE Scheduled(cur, t)
    <3>1. PICK d \in Delays : retries' = InsertAt(retries, cur.slot,
              [src |-> cur.src, attempts |-> cur.attempts + 1, ready |-> t + d])
        BY <2>3 DEF Scheduled
    <3>2. [src |-> cur.src, attempts |-> cur.attempts + 1, ready |-> t + d]
             \in Retries
        BY <2>2 DEF Retries
    <3>3. retries' \in Seq(Retries)
        BY <1>0, <2>1, <3>1, <3>2, Inserted DEF TypeOK
    <3> QED
        BY <1>7, <3>3 DEF PassOver
  <2>4. CASE UNCHANGED retries
      BY <1>0, <1>7, <2>4 DEF PassOver, TypeOK
  <2> QED
      BY <1>7, <2>3, <2>4 DEF PassOver
<1>8. CASE NoKey
  <2>1. /\ retries' \in Seq(Retries) /\ pc' = "choose" /\ cur' = NoPass
        /\ UNCHANGED <<queue, over, probe, guard, fallback, active>>
      BY <1>0, <1>7, <1>8 DEF NoKey, TypeOK
  <2> QED
      BY <1>0, <1>8, <2>1 DEF NoKey, Typed, TypeOK, SlotOK
<1>9. ASSUME NEW d \in Durations, Answer(d)
      PROVE  /\ clock' \in Nat /\ cur \in Passes /\ pc = "contact"
             /\ UNCHANGED <<mode, wait, attempted, slept, passes, stage>>
    BY <1>0, <1>9 DEF Answer, TypeOK
<1>10. ASSUME NEW d \in Durations, Answered(d) PROVE Typed'
    BY <1>0, <1>9, <1>10 DEF Answered, plan, Typed, TypeOK, SlotOK
<1>11. ASSUME NEW d \in Durations, Answer(d), NEW bare \in BOOLEAN, Rotate(bare)
       PROVE  Typed'
  <2>1. /\ clock' \in Nat /\ cur \in Passes /\ pc = "contact"
        /\ UNCHANGED <<mode, wait, attempted, slept, passes, stage>>
      BY <1>9, <1>11
  <2>2. /\ rotations' \in Nat
        /\ UNCHANGED <<queue, retries, over, guard, fallback, active>>
      BY <1>0, <1>11 DEF Rotate, TypeOK
  <2>3. CASE pc' = "choose" /\ cur' = NoPass /\ probe' = cur.src
    <3>1. probe' \in Sources
        BY <2>1, <2>3 DEF Passes
    <3> QED
        BY <1>0, <2>1, <2>2, <2>3, <3>1 DEF Typed, TypeOK, SlotOK
  <2>4. CASE /\ pc' = "select" /\ UNCHANGED probe
             /\ cur' = [cur EXCEPT
                  !.bare = bare,
                  !.slot = IF mode = "streaming" THEN Len(retries) + 1 ELSE @]
    <3>1. cur.slot \in 1..Len(retries) + 1
        BY <1>0, <2>1 DEF SlotOK
    <3> DEFINE slot == IF mode = "streaming" THEN Len(retries) + 1 ELSE cur.slot
    <3>2. slot \in 1..Len(retries) + 1 /\ slot \in Nat
        BY <1>0, <3>1
    <3>3. cur' = [cur EXCEPT !.bare = bare, !.slot = slot]
        BY <2>4
    <3> HIDE DEF slot
    <3>4. cur' \in Passes /\ cur'.slot = slot
        BY <1>11, <2>1, <3>2, <3>3 DEF Passes
    <3>5. cur'.slot \in 1..Len(retries) + 1
        BY <3>2, <3>4
    <3> QED
        BY <1>0, <2>1, <2>2, <2>4, <3>4, <3>5 DEF Typed, TypeOK, SlotOK
  <2> QED
      BY <1>11, <2>3, <2>4 DEF Rotate
<1>12. ASSUME NEW d \in Durations, KeyFailed(d) \/ RateLimited(d) PROVE Typed'
    BY <1>11, <1>12 DEF KeyFailed, RateLimited
<1>13. ASSUME NEW d \in Durations, NEW again \in BOOLEAN, Failed(d, again)
       PROVE  Typed'
  <2>1. /\ clock' \in Nat /\ cur \in Passes /\ pc = "contact"
        /\ UNCHANGED <<mode, wait, attempted, slept, passes, stage>>
      BY <1>9, <1>13 DEF Failed
  <2>2. /\ retries' \in Seq(Retries) /\ pc' = "choose" /\ cur' = NoPass
        /\ UNCHANGED <<queue, over, probe, guard, fallback, active>>
      BY <1>7, <1>13, <2>1 DEF Failed
  <2> QED
      BY <1>0, <1>13, <2>1, <2>2 DEF Failed, Typed, TypeOK, SlotOK
<1>14. CASE Hangup
    BY <1>0, <1>14 DEF Hangup, plan, Typed, TypeOK, SlotOK
<1>15. CASE UNCHANGED vars
    BY <1>0, <1>15 DEF vars, plan, Typed, TypeOK, SlotOK
<1> QED
    BY <1>1, <1>2, <1>3, <1>4, <1>5, <1>6, <1>8, <1>10, <1>12, <1>13, <1>14,
       <1>15 DEF Next, Loop

LEMMA InitTyped == Init => Typed
<1> SUFFICES ASSUME Init PROVE Typed
    OBVIOUS
<1>1. PICK p \in Plans :
        queue = p.ordered /\ probe = p.probe /\ fallback = p.fallback
    BY DEF Init
<1>2. /\ queue \in Seq(Sources) /\ probe \in Sources \cup {NoSource}
      /\ fallback \in Seq(Stages)
    BY <1>1, AttemptLoopAssumption
<1>3. retries \in Seq(Retries) /\ passes \in [Sources -> Nat]
    BY DEF Init
<1>4. mode \in Modes /\ wait \in Nat
    BY AttemptLoopAssumption DEF Init
<1>5. TypeOK
  <2>1. /\ over \in BOOLEAN /\ guard \in BOOLEAN /\ active \in BOOLEAN
        /\ cur \in Passes \cup {NoPass} /\ attempted \subseteq Sources
        /\ pc = "choose"
      BY Zenon DEF Init
  <2>2. clock \in Nat /\ slept \in Nat /\ rotations \in Nat /\ stage \in 1..4
      BY DEF Init
  <2> QED
      BY <1>2, <1>3, <1>4, <2>1, <2>2 DEF TypeOK
<1> QED
    BY <1>5 DEF Init, Typed, SlotOK

\* The request, its queues and its counters keep their types.
THEOREM TypeCorrect == Spec => []TypeOK
<1>1. Typed => TypeOK
    BY DEF Typed
<1> QED
    BY <1>1, InitTyped, TypedStep, PTL DEF Spec

-----------------------------------------------------------------------------
(* The waiting budget and the fallback queue. *)

LEMMA WaitStep == Typed /\ WaitBudget /\ [Next]_vars => WaitBudget'
<1> SUFFICES ASSUME Typed, WaitBudget, [Next]_vars PROVE WaitBudget'
    OBVIOUS
<1>0. slept \in Nat /\ wait \in Nat /\ Budget \in Nat /\ slept + wait <= Budget
    BY AttemptLoopAssumption DEF Typed, TypeOK, WaitBudget
<1>1. ASSUME NEW i \in DOMAIN retries, Retry(i) PROVE WaitBudget'
  <2>1. /\ Pause(i) \in Nat
        /\ \A late \in Nat : /\ Debited(Pause(i), late) \in Nat
                            /\ Debited(Pause(i), late) + Pause(i) <= wait
      BY <1>1, Pausing DEF Retry, Ready
  <2>2. slept' = slept + Pause(i)
      BY <1>1 DEF Retry
  <2>3. wait' \in Nat /\ wait' + Pause(i) <= wait
    <3>1. CASE Pause(i) = 0
        BY <1>0, <1>1, <3>1 DEF Retry
    <3>2. CASE Pause(i) # 0
      <4>1. PICK late \in 0..MaxLate : wait' = Debited(Pause(i), late)
          BY <1>1, <3>2 DEF Retry
      <4>2. late \in Nat
          BY AttemptLoopAssumption
      <4> QED
          BY <2>1, <4>1, <4>2
    <3> QED
        BY <3>1, <3>2
  <2>4. \A a, b, c, x, y \in Nat : a + b <= y /\ c + x <= b => (a + x) + c <= y
      OBVIOUS
  <2>5. (slept + Pause(i)) + wait' <= Budget
      BY <1>0, <2>1, <2>3, <2>4
  <2> QED
      BY <2>2, <2>5 DEF WaitBudget
<1>2. ASSUME UNCHANGED <<slept, wait>> PROVE WaitBudget'
    BY <1>2 DEF WaitBudget
<1> QED
    BY <1>1, <1>2 DEF Next, Loop, First, Probe, Fallback, GiveUp, Contact, NoKey,
       Answered, KeyFailed, RateLimited, Failed, Answer, Hangup, vars

\* However late its sleeps end, a request never waits out more delay than its
\* budget, for any number of sources and any delays.
THEOREM WaitsWithinBudget == Spec => []WaitBudget
<1>1. Init => Typed /\ WaitBudget
    BY InitTyped, AttemptLoopAssumption DEF Init, WaitBudget
<1>2. Typed /\ WaitBudget /\ [Next]_vars => (Typed /\ WaitBudget)'
    BY TypedStep, WaitStep
<1> QED
    BY <1>1, <1>2, PTL DEF Spec

\* What a pass that ends leaves in the retry queue.
LEMMA AfterPass ==
    ASSUME Typed, NEW again, NEW t \in Nat, pc \in {"select", "contact"},
           PassOver(again, t)
    PROVE  \/ retries' = retries
           \/ /\ Earned(cur) /\ again
              /\ DOMAIN retries' = 1..Len(retries) + 1
              /\ retries'[cur.slot].src = cur.src
              /\ retries'[cur.slot].attempts = cur.attempts + 1
              /\ \A j \in DOMAIN retries' : j # cur.slot =>
                   /\ (IF j < cur.slot THEN j ELSE j - 1) \in DOMAIN retries
                   /\ retries'[j] = retries[IF j < cur.slot THEN j ELSE j - 1]
<1>0. /\ cur \in Passes /\ cur.slot \in 1..Len(retries) + 1
      /\ retries \in Seq(Retries)
    BY DEF Typed, TypeOK, SlotOK
<1>1. cur.src \in Sources /\ cur.attempts \in Nat
    BY <1>0 DEF Passes
<1>2. CASE ~(again /\ Earned(cur))
    BY <1>2 DEF PassOver
<1>3. CASE again /\ Earned(cur)
  <2>1. PICK d \in Delays : retries' = InsertAt(retries, cur.slot,
            [src |-> cur.src, attempts |-> cur.attempts + 1, ready |-> t + d])
      BY <1>3 DEF PassOver, Scheduled
  <2> DEFINE e == [src |-> cur.src, attempts |-> cur.attempts + 1, ready |-> t + d]
  <2>7. retries' = InsertAt(retries, cur.slot, e)
      BY <2>1
  <2>2. e \in Retries /\ e.src = cur.src /\ e.attempts = cur.attempts + 1
      BY <1>1, AttemptLoopAssumption DEF Retries
  <2> HIDE DEF e
  <2>3. /\ retries' \in Seq(Retries) /\ Len(retries') = Len(retries) + 1
        /\ \A j \in 1..Len(retries) + 1 :
             retries'[j] = IF j < cur.slot THEN retries[j]
                           ELSE IF j = cur.slot THEN e ELSE retries[j - 1]
    <3>1. cur.slot \in 1..Len(retries) + 1 /\ e \in Retries
        BY <1>0, <2>2
    <3>2. /\ InsertAt(retries, cur.slot, e) \in Seq(Retries)
          /\ Len(InsertAt(retries, cur.slot, e)) = Len(retries) + 1
          /\ \A j \in 1..Len(retries) + 1 :
               InsertAt(retries, cur.slot, e)[j] =
                 IF j < cur.slot THEN retries[j]
                 ELSE IF j = cur.slot THEN e ELSE retries[j - 1]
      <4>1. ASSUME NEW i \in 1..Len(retries) + 1, NEW x \in Retries
            PROVE  /\ InsertAt(retries, i, x) \in Seq(Retries)
                   /\ Len(InsertAt(retries, i, x)) = Len(retries) + 1
                   /\ \A j \in 1..Len(retries) + 1 :
                        InsertAt(retries, i, x)[j] =
                          IF j < i THEN retries[j]
                          ELSE IF j = i THEN x ELSE retries[j - 1]
          BY ONLY <1>0, Inserted
      <4> QED
          BY ONLY <3>1, <4>1
    <3> QED
        BY ONLY <2>7, <3>2
  <2>4. DOMAIN retries' = 1..Len(retries) + 1 /\ DOMAIN retries = 1..Len(retries)
      BY <1>0, <2>3
  <2>5. retries'[cur.slot] = e
      BY <1>0, <2>3
  <2>6. ASSUME NEW j \in DOMAIN retries', j # cur.slot
        PROVE  /\ (IF j < cur.slot THEN j ELSE j - 1) \in DOMAIN retries
               /\ retries'[j] = retries[IF j < cur.slot THEN j ELSE j - 1]
      BY <1>0, <2>3, <2>4, <2>6
  <2> QED
      BY <1>3, <2>2, <2>4, <2>5, <2>6
<1> QED
    BY <1>2, <1>3

\* What is left of the retry queue when a retry starts.
LEMMA AfterRetry ==
    ASSUME Typed, NEW i \in DOMAIN retries, Retry(i)
    PROVE  \A j \in DOMAIN retries' :
             /\ (IF j < i THEN j ELSE j + 1) \in DOMAIN retries \ {i}
             /\ retries'[j] = retries[IF j < i THEN j ELSE j + 1]
<1>0. retries \in Seq(Retries) /\ i \in 1..Len(retries) /\ Len(retries) \in Nat
    BY DEF Typed, TypeOK
<1>1. /\ retries' \in Seq(Retries) /\ Len(retries') = Len(retries) - 1
      /\ \A j \in 1..Len(retries) - 1 :
           retries'[j] = IF j < i THEN retries[j] ELSE retries[j + 1]
    BY <1>0, Removed DEF Retry
<1>2. DOMAIN retries' = 1..Len(retries) - 1 /\ DOMAIN retries = 1..Len(retries)
    BY <1>0, <1>1
<1> QED
    BY <1>0, <1>1, <1>2

\* From the first fallback stage on no step adds a retry, whatever the plan.
THEOREM FallbackIsFinal == Spec => FallbackSchedulesNothing
<1> DEFINE Kept == \A i \in DOMAIN retries' :
                     \E j \in DOMAIN retries : retries'[i] = retries[j]
<1>1. ASSUME Typed, [Next]_vars, active PROVE Kept
  <2>1. ASSUME retries' = retries PROVE Kept
      BY <2>1
  <2>2. ASSUME NEW i \in DOMAIN retries, Retry(i) PROVE Kept
      BY <1>1, <2>2, AfterRetry
  <2>3. ASSUME NEW again, NEW t \in Nat, pc \in {"select", "contact"},
               PassOver(again, t)
        PROVE  Kept
      BY <1>1, <2>1, <2>3, AfterPass DEF Earned
  <2>4. CASE NoKey
      BY <1>1, <2>3, <2>4 DEF NoKey, Typed, TypeOK
  <2>5. ASSUME NEW d \in Durations, NEW again \in BOOLEAN, Failed(d, again)
        PROVE  Kept
    <3>1. clock' \in Nat
        BY <1>1, <2>5, AttemptLoopAssumption DEF Failed, Answer, Typed, TypeOK
    <3> QED
        BY <2>3, <2>5, <3>1 DEF Failed, Answer
  <2> QED
      BY <1>1, <2>1, <2>2, <2>4, <2>5 DEF Next, Loop, First, Probe, Fallback,
         GiveUp, Contact, Answered, KeyFailed, RateLimited, Rotate, Hangup, plan, vars
<1> HIDE DEF Kept
<1>2. Typed /\ [Next]_vars => [active => Kept]_vars
    BY <1>1
<1>3. Spec => []Typed
    BY InitTyped, TypedStep, PTL DEF Spec
<1> QED
    BY <1>2, <1>3, PTL DEF Spec, FallbackSchedulesNothing, Kept

-----------------------------------------------------------------------------
(* The count of the contacts with a source. *)

\* A pass is under way.
Running == pc \in {"select", "contact"}

\* Nobody contacts the same source from two places at once: the candidates
\* still queued, the retries, the pending probe and the pass under way all
\* concern different sources.
Apart ==
    /\ \A i, j \in DOMAIN queue : queue[i] = queue[j] => i = j
    /\ \A i, j \in DOMAIN retries : retries[i].src = retries[j].src => i = j
    /\ \A i \in DOMAIN queue, j \in DOMAIN retries : queue[i] # retries[j].src
    /\ \A i \in DOMAIN queue : queue[i] # probe
    /\ \A j \in DOMAIN retries : retries[j].src # probe
    /\ Running =>
         /\ cur.src # probe
         /\ \A i \in DOMAIN queue : queue[i] # cur.src
         /\ \A j \in DOMAIN retries : retries[j].src # cur.src

\* What each of them knows of the passes made over its source.
Tally ==
    /\ \A s \in Sources \ attempted : passes[s] = 0
    /\ \A i \in DOMAIN queue : passes[queue[i]] = 0
    /\ \A j \in DOMAIN retries :
         /\ retries[j].src \in attempted
         /\ passes[retries[j].src] = retries[j].attempts
    /\ probe # NoSource => passes[probe] = IF guard THEN 1 ELSE 0
    /\ Running =>
         passes[cur.src] = cur.attempts + IF cur.reached THEN 1 ELSE 0

\* What a pass under way says of itself.
Sound ==
    Running =>
        /\ cur.half => guard
        /\ cur.half \/ cur.kind \in {"first", "fallback"} => cur.attempts = 0
        /\ cur.kind = "fallback" => active
        /\ cur.kind = "probe" => cur.half
        /\ cur.reached => cur.src \in attempted
        /\ pc = "contact" \/ cur.bare => cur.reached

Counted == Apart /\ Tally /\ Sound

LEMMA InitCounted == Init => Counted
<1> SUFFICES ASSUME Init PROVE Counted
    OBVIOUS
<1>1. PICK p \in Plans : queue = p.ordered /\ probe = p.probe
    BY DEF Init
<1>2. /\ p.ordered \in Seq(Sources)
      /\ \A i, j \in DOMAIN p.ordered :
           p.ordered[i] # p.probe /\ (p.ordered[i] = p.ordered[j] => i = j)
      /\ p.probe \in Sources \cup {NoSource}
    BY AttemptLoopAssumption
<1>3. /\ retries = <<>> /\ DOMAIN retries = {} /\ pc = "choose" /\ ~Running
      /\ guard = FALSE /\ attempted = {} /\ passes = [s \in Sources |-> 0]
    BY DEF Init, Running
<1>4. Apart
    BY <1>1, <1>2, <1>3 DEF Apart
<1>5. Tally
  <2>1. \A i \in DOMAIN queue : queue[i] \in Sources
      BY <1>1, <1>2
  <2> QED
      BY <1>1, <1>2, <1>3, <2>1 DEF Tally
<1>6. Sound
    BY <1>3 DEF Sound
<1> QED
    BY <1>4, <1>5, <1>6 DEF Counted

LEMMA CountedStep == Typed /\ Counted /\ [Next]_vars => Counted'
<1> SUFFICES ASSUME Typed, Counted, [Next]_vars PROVE Counted'
    OBVIOUS
<1> USE AttemptLoopAssumption
<1>0. /\ TypeOK /\ SlotOK /\ Apart /\ Tally /\ Sound
      /\ queue \in Seq(Sources) /\ DOMAIN queue = 1..Len(queue)
      /\ Len(queue) \in Nat
      /\ retries \in Seq(Retries) /\ DOMAIN retries = 1..Len(retries)
      /\ Len(retries) \in Nat
      /\ passes \in [Sources -> Nat] /\ attempted \subseteq Sources
      /\ Running => cur \in Passes /\ cur.src \in Sources /\ cur.attempts \in Nat
    BY DEF Typed, TypeOK, Counted, Running, Passes
<1>20. /\ \A i \in DOMAIN queue : queue[i] \in Sources
      /\ \A j \in DOMAIN retries : /\ retries[j] \in Retries
                                    /\ retries[j].src \in Sources
                                    /\ retries[j].attempts \in Nat
  <2>1. \A i \in DOMAIN queue : queue[i] \in Sources
      BY <1>0
  <2>2. \A j \in DOMAIN retries : retries[j] \in Retries
      BY <1>0
  <2> QED
      BY <2>1, <2>2 DEF Retries
<1>1. CASE First
  <2>1. /\ Head(queue) = queue[1] /\ 1 \in DOMAIN queue
        /\ \A i \in DOMAIN Tail(queue) : /\ i + 1 \in DOMAIN queue /\ i + 1 # 1
                                          /\ i \in Nat
                                          /\ Tail(queue)[i] = queue[i + 1]
      BY <1>0, <1>1 DEF First
  <2>2. /\ pc' = "select" /\ Running' /\ ~Running
        /\ cur'.src = queue[1] /\ cur'.kind = "first" /\ cur'.half = FALSE
        /\ cur'.attempts = 0 /\ cur'.bare = FALSE /\ cur'.reached = FALSE
      BY <1>1, <2>1 DEF First, Enter, Running
  <2>3. /\ queue' = Tail(queue)
        /\ UNCHANGED <<retries, probe, guard, active, attempted, passes>>
      BY <1>1 DEF First
  <2>4. Apart'
    <3>1. ASSUME NEW i \in DOMAIN Tail(queue), NEW j \in DOMAIN Tail(queue),
                 Tail(queue)[i] = Tail(queue)[j]
          PROVE  i = j
      <4>1. i + 1 = j + 1
          BY <1>0, <2>1, <3>1 DEF Apart
      <4>2. i \in Nat /\ j \in Nat
          BY <2>1
      <4> QED
          BY <4>1, <4>2
    <3>2. ASSUME NEW i \in DOMAIN Tail(queue)
          PROVE  /\ Tail(queue)[i] # queue[1] /\ Tail(queue)[i] # probe
                 /\ \A j \in DOMAIN retries : Tail(queue)[i] # retries[j].src
      <4>1. /\ i + 1 \in DOMAIN queue /\ i + 1 # 1 /\ 1 \in DOMAIN queue
            /\ Tail(queue)[i] = queue[i + 1]
          BY <2>1
      <4>2. queue[i + 1] # queue[1]
          BY <1>0, <4>1 DEF Apart
      <4>3. /\ queue[i + 1] # probe
            /\ \A j \in DOMAIN retries : queue[i + 1] # retries[j].src
          BY <1>0, <4>1 DEF Apart
      <4> QED
          BY <4>1, <4>2, <4>3
    <3>3. /\ queue[1] # probe
          /\ \A j \in DOMAIN retries : retries[j].src # queue[1]
        BY <1>0, <2>1 DEF Apart
    <3> QED
        BY <1>0, <2>2, <2>3, <3>1, <3>2, <3>3 DEF Apart
  <2>5. Tally'
      BY <1>0, <1>20, <2>1, <2>2, <2>3 DEF Tally
  <2>6. Sound'
      BY <2>2 DEF Sound
  <2> QED
      BY <2>4, <2>5, <2>6 DEF Counted
<1>2. ASSUME NEW i \in DOMAIN retries, Retry(i) PROVE Counted'
  <2>1. \A j \in DOMAIN retries' :
           /\ (IF j < i THEN j ELSE j + 1) \in DOMAIN retries \ {i}
           /\ retries'[j] = retries[IF j < i THEN j ELSE j + 1]
      BY <1>2, AfterRetry
  <2>2. /\ pc' = "select" /\ Running' /\ ~Running
        /\ cur'.src = retries[i].src /\ cur'.kind = "retry" /\ cur'.half = FALSE
        /\ cur'.attempts = retries[i].attempts /\ cur'.bare = FALSE
        /\ cur'.reached = FALSE
      BY <1>2 DEF Retry, Enter, Running
  <2>3. /\ queue = <<>> /\ DOMAIN queue = {}
        /\ UNCHANGED <<queue, probe, guard, active, attempted, passes>>
      BY <1>0, <1>2 DEF Retry
  <2>4. DOMAIN retries' \subseteq Nat
    <3>1. retries' \in Seq(Retries)
        BY TypedStep DEF Typed, TypeOK
    <3> QED
        BY <3>1
  <2>5. \A j \in DOMAIN retries' :
           \E k \in DOMAIN retries : k # i /\ retries'[j] = retries[k]
      BY <2>1
  <2>6. Apart'
    <3>1. ASSUME NEW j \in DOMAIN retries', NEW k \in DOMAIN retries',
                 retries'[j].src = retries'[k].src
          PROVE  j = k
      <4>1. (IF j < i THEN j ELSE j + 1) = (IF k < i THEN k ELSE k + 1)
          BY <1>0, <2>1, <3>1 DEF Apart
      <4> QED
          BY <1>0, <2>4, <4>1
    <3>2. \A j \in DOMAIN retries' : /\ retries'[j].src # probe'
                                     /\ retries'[j].src # cur'.src
        BY <1>0, <2>2, <2>3, <2>5 DEF Apart
    <3>3. cur'.src # probe'
        BY <1>0, <2>2, <2>3 DEF Apart
    <3> QED
        BY <2>3, <3>1, <3>2, <3>3 DEF Apart
  <2>7. Tally'
      BY <1>0, <1>20, <2>2, <2>3, <2>5 DEF Tally
  <2>8. Sound'
      BY <2>2 DEF Sound
  <2> QED
      BY <2>6, <2>7, <2>8 DEF Counted
<1>3. ASSUME UNCHANGED <<queue, retries, probe, guard, active, attempted, passes>>,
             ~Running'
      PROVE  Counted'
  <2>1. Apart'
      BY <1>0, <1>3 DEF Apart
  <2>2. Tally'
      BY <1>0, <1>3 DEF Tally
  <2> QED
      BY <1>3, <2>1, <2>2 DEF Counted, Sound
<1>4. ASSUME NEW got \in BOOLEAN, Probe(got) PROVE Counted'
  <2>1. /\ queue = <<>> /\ DOMAIN queue = {} /\ probe \in Sources
        /\ guard \in BOOLEAN /\ guard' = (guard \/ got) /\ ~Running
        /\ probe' = NoSource
        /\ UNCHANGED <<queue, retries, active, attempted, passes>>
      BY <1>0, <1>4 DEF Probe, Drained, Acquired, Running, TypeOK
  <2>2. Apart'
    <3>1. Running' => cur'.src = probe
        BY <1>4, <2>1 DEF Probe, Enter, Running
    <3> QED
        BY <1>0, <1>20, <2>1, <3>1 DEF Apart
  <2>3. Tally'
    <3>1. Running' => /\ cur'.src = probe /\ cur'.attempts = 0
                      /\ cur'.reached = guard
        BY <1>4, <2>1 DEF Probe, Enter, Running
    <3> QED
        BY <1>0, <1>20, <2>1, <3>1 DEF Tally
  <2>4. Sound'
    <3>1. Running' => /\ cur'.half /\ guard' /\ cur'.attempts = 0
                      /\ cur'.kind = (IF active THEN "fallback" ELSE "probe")
                      /\ pc' = "select" /\ cur'.bare = FALSE
                      /\ cur'.src = probe /\ cur'.reached = guard
        BY <1>4, <2>1 DEF Probe, Enter, Running
    <3>2. guard => probe \in attempted
        BY <1>0, <2>1 DEF Tally
    <3> QED
        BY <2>1, <3>1, <3>2 DEF Sound
  <2> QED
      BY <2>2, <2>3, <2>4 DEF Counted
<1>5. ASSUME NEW got \in BOOLEAN, Fallback(got) PROVE Counted'
  <2> DEFINE f == Head(fallback)
  <2>1. /\ queue = <<>> /\ DOMAIN queue = {} /\ probe = NoSource /\ ~Running
        /\ UNCHANGED <<queue, retries, probe, attempted, passes>>
      BY <1>0, <1>5 DEF Fallback, Drained, Running
  <2>2. f.src \in Sources /\ f.half \in BOOLEAN
    <3>1. f \in Stages
        BY <1>0, <1>5 DEF Fallback, TypeOK
    <3> QED
        BY <3>1 DEF Stages
  <2>3. CASE /\ f.src \notin attempted /\ active'
             /\ Enter(f.src, "fallback", f.half, 0, Len(retries) + 1, FALSE)
             /\ f.half => guard'
    <3>1. /\ pc' = "select" /\ Running' /\ cur'.src = f.src
          /\ cur'.kind = "fallback" /\ cur'.half = f.half /\ cur'.attempts = 0
          /\ cur'.bare = FALSE /\ cur'.reached = FALSE
        BY <2>3 DEF Enter, Running
    <3> HIDE DEF f
    <3>2. Apart'
        BY <1>0, <1>20, <2>1, <2>2, <2>3, <3>1 DEF Apart, Tally
    <3>3. Tally'
        BY <1>0, <1>20, <2>1, <2>2, <2>3, <3>1 DEF Tally
    <3>4. Sound'
        BY <2>3, <3>1 DEF Sound
    <3> QED
        BY <3>2, <3>3, <3>4 DEF Counted
  <2>4. CASE UNCHANGED <<pc, cur>>
    <3>1. Running' = FALSE
        BY <2>1, <2>4 DEF Running
    <3>2. Apart'
        BY <1>0, <2>1, <3>1 DEF Apart
    <3>3. Tally'
        BY <1>0, <2>1, <3>1 DEF Tally
    <3> QED
        BY <3>1, <3>2, <3>3 DEF Counted, Sound
  <2> QED
      BY <1>5, <2>3, <2>4 DEF Fallback
<1>6. CASE GiveUp \/ Hangup
  <2>1. ~Running' /\ UNCHANGED <<plan, attempted, passes>>
      BY <1>6 DEF GiveUp, Hangup, Running
  <2> QED
      BY <1>3, <2>1 DEF plan
<1>7. CASE Contact
  <2>1. /\ Running /\ Running' /\ cur \in Passes /\ cur.src \in Sources
        /\ cur.attempts \in Nat /\ cur.reached \in BOOLEAN /\ pc' = "contact"
      BY <1>0, <1>7 DEF Contact, Running, Passes
  <2>2. /\ cur'.src = cur.src /\ cur'.kind = cur.kind /\ cur'.half = cur.half
        /\ cur'.attempts = cur.attempts /\ cur'.bare = cur.bare
        /\ cur'.reached = TRUE
      BY <1>7, <2>1 DEF Contact, Passes
  <2>3. /\ UNCHANGED <<queue, retries, probe, guard, active>>
        /\ attempted' = attempted \cup {cur.src}
      BY <1>7 DEF Contact, Remembered, plan
  <2>4. /\ passes'[cur.src] = cur.attempts + 1
        /\ \A s \in Sources \ {cur.src} : passes'[s] = passes[s]
    <3>1. CASE cur.reached
        BY <1>0, <1>7, <2>1, <3>1 DEF Contact, Tally
    <3>2. CASE ~cur.reached
        BY <1>0, <1>7, <2>1, <3>2 DEF Contact, Tally
    <3> QED
        BY <3>1, <3>2
  <2>5. Apart'
      BY <1>0, <2>1, <2>2, <2>3 DEF Apart
  <2>6. Tally'
    <3>1. \A i \in DOMAIN queue : queue[i] \in Sources \ {cur.src}
        BY <1>0, <1>20, <2>1 DEF Apart
    <3>2. \A j \in DOMAIN retries : retries[j].src \in Sources \ {cur.src}
        BY <1>0, <1>20, <2>1 DEF Apart
    <3>3. probe # NoSource => probe \in Sources \ {cur.src}
        BY <1>0, <2>1 DEF Apart, TypeOK
    <3> QED
        BY <1>0, <2>1, <2>2, <2>3, <2>4, <3>1, <3>2, <3>3 DEF Tally
  <2>7. Sound'
      BY <1>0, <2>1, <2>2, <2>3 DEF Sound
  <2> QED
      BY <2>5, <2>6, <2>7 DEF Counted
<1>8. ASSUME NEW again \in BOOLEAN, NEW t \in Nat, Running, PassOver(again, t),
             again => cur.reached, UNCHANGED <<attempted, passes>>
      PROVE  Counted'
  <2>1. /\ ~Running' /\ UNCHANGED <<queue, probe, guard, active>>
      BY <1>8 DEF PassOver, Running
  <2>2. CASE retries' = retries
      BY <1>3, <1>8, <2>1, <2>2
  <2>3. CASE /\ Earned(cur) /\ again
             /\ DOMAIN retries' = 1..Len(retries) + 1
             /\ retries'[cur.slot].src = cur.src
             /\ retries'[cur.slot].attempts = cur.attempts + 1
             /\ \A j \in DOMAIN retries' : j # cur.slot =>
                  /\ (IF j < cur.slot THEN j ELSE j - 1) \in DOMAIN retries
                  /\ retries'[j] = retries[IF j < cur.slot THEN j ELSE j - 1]
    <3>1. cur.slot \in Nat
        BY <1>0, <1>8 DEF Passes
    <3>2. ASSUME NEW j \in DOMAIN retries', j # cur.slot
          PROVE  \E k \in DOMAIN retries : retries'[j] = retries[k]
        BY <2>3, <3>2
    <3>3. /\ cur.src \in attempted /\ passes[cur.src] = cur.attempts + 1
        BY <1>0, <1>8, <2>3 DEF Sound, Tally
    <3>4. Apart'
      <4>1. ASSUME NEW j \in DOMAIN retries', NEW k \in DOMAIN retries',
                   retries'[j].src = retries'[k].src, j # cur.slot
            PROVE  j = k
        <5>1. k # cur.slot
            BY <1>0, <1>8, <2>3, <3>2, <4>1 DEF Apart
        <5>2. (IF j < cur.slot THEN j ELSE j - 1) = (IF k < cur.slot THEN k ELSE k - 1)
            BY <1>0, <2>3, <4>1, <5>1 DEF Apart
        <5>3. j \in Nat /\ k \in Nat
            BY <1>0, <2>3
        <5> QED
            BY <3>1, <4>1, <5>1, <5>2, <5>3
      <4>2. ASSUME NEW j \in DOMAIN retries', NEW k \in DOMAIN retries',
                   retries'[j].src = retries'[k].src
            PROVE  j = k
          BY <4>1, <4>2
      <4>3. ASSUME NEW j \in DOMAIN retries'
            PROVE  /\ retries'[j].src # probe
                   /\ \A i \in DOMAIN queue : queue[i] # retries'[j].src
          BY <1>0, <1>8, <2>3, <3>2 DEF Apart
      <4> QED
          BY <1>0, <2>1, <4>2, <4>3 DEF Apart
    <3>5. Tally'
      <4>1. ASSUME NEW j \in DOMAIN retries'
            PROVE  /\ retries'[j].src \in attempted
                   /\ passes[retries'[j].src] = retries'[j].attempts
          BY <1>0, <2>3, <3>2, <3>3 DEF Tally
      <4> QED
          BY <1>0, <1>8, <2>1, <4>1 DEF Tally
    <3> QED
        BY <2>1, <3>4, <3>5 DEF Counted, Sound
  <2>4. pc \in {"select", "contact"}
      BY <1>8 DEF Running
  <2> QED
      BY <1>8, <2>2, <2>3, <2>4, AfterPass
<1>9. CASE NoKey
  <2>1. Running /\ clock \in Nat /\ cur.bare \in BOOLEAN
      BY <1>0, <1>9 DEF NoKey, Running, TypeOK, Passes
  <2>2. cur.bare => cur.reached
      BY <1>0, <2>1 DEF Sound
  <2> QED
      BY <1>8, <1>9, <2>1, <2>2 DEF NoKey
<1>10. ASSUME NEW d \in Durations, Answered(d) PROVE Counted'
  <2>1. ~Running' /\ UNCHANGED <<plan, attempted, passes>>
      BY <1>10 DEF Answered, Answer, Running
  <2> QED
      BY <1>3, <2>1 DEF plan
<1>11. ASSUME NEW d \in Durations, Answer(d), NEW bare \in BOOLEAN, Rotate(bare)
       PROVE  Counted'
  <2>1. /\ Running /\ pc = "contact" /\ cur.reached /\ cur \in Passes
        /\ cur.src \in Sources /\ cur.attempts \in Nat
        /\ UNCHANGED <<queue, retries, guard, active, attempted, passes>>
      BY <1>0, <1>11 DEF Answer, Rotate, Running, Sound
  <2>2. CASE cur.half /\ pc' = "choose" /\ probe' = cur.src
    <3>1. ~Running' /\ guard /\ cur.attempts = 0
        BY <1>0, <2>1, <2>2 DEF Running, Sound
    <3>2. Apart'
        BY <1>0, <2>1, <2>2, <3>1 DEF Apart
    <3>3. Tally'
        BY <1>0, <2>1, <2>2, <3>1 DEF Tally
    <3> QED
        BY <3>1, <3>2, <3>3 DEF Counted, Sound
  <2>3. CASE /\ pc' = "select" /\ UNCHANGED probe
             /\ cur' = [cur EXCEPT
                  !.bare = bare,
                  !.slot = IF mode = "streaming" THEN Len(retries) + 1 ELSE @]
    <3>1. /\ Running' /\ cur'.src = cur.src /\ cur'.kind = cur.kind
          /\ cur'.half = cur.half /\ cur'.attempts = cur.attempts
          /\ cur'.reached = cur.reached
        BY <2>1, <2>3 DEF Running, Passes
    <3>2. Apart'
        BY <1>0, <2>1, <2>3, <3>1 DEF Apart
    <3>3. Tally'
        BY <1>0, <2>1, <2>3, <3>1 DEF Tally
    <3>4. Sound'
        BY <1>0, <2>1, <3>1 DEF Sound
    <3> QED
        BY <3>2, <3>3, <3>4 DEF Counted
  <2> QED
      BY <1>11, <2>2, <2>3 DEF Rotate
<1>12. ASSUME NEW d \in Durations, KeyFailed(d) \/ RateLimited(d) PROVE Counted'
    BY <1>11, <1>12 DEF KeyFailed, RateLimited
<1>13. ASSUME NEW d \in Durations, NEW again \in BOOLEAN, Failed(d, again)
       PROVE  Counted'
  <2>1. /\ Running /\ cur.reached /\ clock' \in Nat
        /\ UNCHANGED <<attempted, passes>>
      BY <1>0, <1>13 DEF Failed, Answer, Running, Sound, TypeOK
  <2> QED
      BY <1>8, <1>13, <2>1 DEF Failed
<1>14. CASE UNCHANGED vars
  <2>1. /\ UNCHANGED <<queue, retries, probe, guard, active, attempted, passes,
                      pc, cur>>
      BY <1>14 DEF vars, plan
  <2>2. Apart' /\ Tally' /\ Sound'
      BY <1>0, <2>1 DEF Apart, Tally, Sound, Running
  <2> QED
      BY <2>2 DEF Counted
<1> QED
    BY <1>1, <1>2, <1>4, <1>5, <1>6, <1>7, <1>9, <1>10, <1>12, <1>13, <1>14
    DEF Next, Loop

\* The fallback queue contacts only sources the request has not contacted yet,
\* and each once, even if a streaming retry is still outstanding.
THEOREM FallbackIsFresh == Spec => []FallbackOnce
<1>1. ASSUME Typed, Counted PROVE FallbackOnce
  <2>1. SUFFICES ASSUME pc = "contact", cur.kind = "fallback"
                 PROVE  passes[cur.src] = 1
      BY DEF FallbackOnce
  <2>2. Running /\ cur.reached /\ cur.attempts = 0
      BY <1>1, <2>1 DEF Counted, Sound, Running
  <2> QED
      BY <1>1, <2>2 DEF Counted, Tally
<1>2. Init => Typed /\ Counted
    BY InitTyped, InitCounted
<1>3. Typed /\ Counted /\ [Next]_vars => (Typed /\ Counted)'
    BY TypedStep, CountedStep
<1> QED
    BY <1>1, <1>2, <1>3, PTL DEF Spec

\* No pass is left that would be one too many.
Bounded ==
    /\ PassBudget
    /\ \A j \in DOMAIN retries : retries[j].attempts <= MaxRetries
    /\ Running => cur.attempts <= MaxRetries


LEMMA BoundedStep ==
    ASSUME MaxRetries >= 1
    PROVE  Typed /\ Counted /\ Bounded /\ [Next]_vars => Bounded'
<1> SUFFICES ASSUME Typed, Counted, Bounded, [Next]_vars PROVE Bounded'
    OBVIOUS
<1> USE AttemptLoopAssumption
<1>0. /\ TypeOK /\ Sound /\ Tally /\ MaxRetries \in Nat
      /\ passes \in [Sources -> Nat]
      /\ Running => cur \in Passes /\ cur.src \in Sources /\ cur.attempts \in Nat
    BY DEF Typed, TypeOK, Counted, Running, Passes
<1>1. ASSUME UNCHANGED <<passes, retries>>,
             Running' => cur'.attempts <= MaxRetries
      PROVE  Bounded'
    BY <1>1 DEF Bounded, PassBudget
<1>2. CASE First
    BY <1>0, <1>1, <1>2 DEF First, Enter
<1>3. ASSUME NEW i \in DOMAIN retries, Retry(i) PROVE Bounded'
  <2>1. \A j \in DOMAIN retries' :
           \E k \in DOMAIN retries : retries'[j] = retries[k]
      BY <1>3, AfterRetry
  <2>2. cur'.attempts = retries[i].attempts /\ UNCHANGED passes
      BY <1>3 DEF Retry, Enter
  <2> QED
      BY <2>1, <2>2 DEF Bounded, PassBudget
<1>4. ASSUME NEW got \in BOOLEAN, Probe(got) PROVE Bounded'
  <2>1. /\ UNCHANGED <<passes, retries>>
        /\ Running' => cur'.attempts = 0
      BY <1>4 DEF Probe, Enter, Running
  <2> QED
      BY <1>0, <1>1, <2>1
<1>5. ASSUME NEW got \in BOOLEAN, Fallback(got) PROVE Bounded'
  <2>1. /\ UNCHANGED <<passes, retries>>
        /\ Running' => cur'.attempts = 0
      BY <1>5 DEF Fallback, Enter, Running
  <2> QED
      BY <1>0, <1>1, <2>1
<1>6. CASE GiveUp \/ Hangup
    BY <1>1, <1>6 DEF GiveUp, Hangup, plan, Running
<1>7. CASE Contact
  <2>1. /\ Running /\ UNCHANGED retries /\ cur'.attempts = cur.attempts
      BY <1>0, <1>7 DEF Contact, plan, Running, Passes
  <2>2. /\ passes'[cur.src] <= 1 + MaxRetries
        /\ \A s \in Sources \ {cur.src} : passes'[s] = passes[s]
    <3>1. cur.attempts <= MaxRetries /\ passes[cur.src] <= 1 + MaxRetries
        BY <1>0, <2>1 DEF Bounded, PassBudget
    <3>2. CASE cur.reached
        BY <1>7, <3>1, <3>2 DEF Contact
    <3>3. CASE ~cur.reached
      <4>1. passes[cur.src] = cur.attempts
          BY <1>0, <2>1, <3>3 DEF Tally
      <4> QED
          BY <1>0, <1>7, <2>1, <3>1, <3>3, <4>1 DEF Contact
    <3> QED
        BY <3>2, <3>3
  <2> QED
      BY <2>1, <2>2 DEF Bounded, PassBudget
<1>8. ASSUME NEW again \in BOOLEAN, NEW t \in Nat, Running, PassOver(again, t),
             UNCHANGED passes
      PROVE  Bounded'
  <2>1. ~Running' /\ pc \in {"select", "contact"}
      BY <1>8 DEF PassOver, Running
  <2>2. CASE retries' = retries
      BY <1>1, <1>8, <2>1, <2>2
  <2>3. CASE /\ Earned(cur)
             /\ retries'[cur.slot].attempts = cur.attempts + 1
             /\ \A j \in DOMAIN retries' : j # cur.slot =>
                  /\ (IF j < cur.slot THEN j ELSE j - 1) \in DOMAIN retries
                  /\ retries'[j] = retries[IF j < cur.slot THEN j ELSE j - 1]
    <3>1. cur.attempts + 1 <= MaxRetries
        BY <1>0, <1>8, <2>3, MaxRetries >= 1 DEF Earned, Sound
    <3>2. \A j \in DOMAIN retries' : retries'[j].attempts <= MaxRetries
        BY <2>3, <3>1 DEF Bounded
    <3> QED
        BY <1>8, <2>1, <3>2 DEF Bounded, PassBudget
  <2> QED
      BY <1>8, <2>1, <2>2, <2>3, AfterPass
<1>9. CASE NoKey
  <2>1. Running /\ clock \in Nat /\ cur.bare \in BOOLEAN
      BY <1>0, <1>9 DEF NoKey, Running, TypeOK, Passes
  <2> QED
      BY <1>8, <1>9, <2>1 DEF NoKey
<1>10. ASSUME NEW d \in Durations, Answered(d) PROVE Bounded'
    BY <1>1, <1>10 DEF Answered, Answer, plan, Running
<1>11. ASSUME NEW d \in Durations, Answer(d), NEW bare \in BOOLEAN, Rotate(bare)
       PROVE  Bounded'
  <2>1. Running /\ cur \in Passes /\ UNCHANGED <<passes, retries>>
      BY <1>0, <1>11 DEF Answer, Rotate, Running
  <2>2. Running' => cur'.attempts = cur.attempts
      BY <1>11, <2>1 DEF Rotate, Running, Passes
  <2> QED
      BY <1>1, <2>1, <2>2 DEF Bounded
<1>12. ASSUME NEW d \in Durations, KeyFailed(d) \/ RateLimited(d) PROVE Bounded'
    BY <1>11, <1>12 DEF KeyFailed, RateLimited
<1>13. ASSUME NEW d \in Durations, NEW again \in BOOLEAN, Failed(d, again)
       PROVE  Bounded'
  <2>1. /\ Running /\ clock' \in Nat /\ UNCHANGED passes
      BY <1>0, <1>13 DEF Failed, Answer, Running, TypeOK
  <2> QED
      BY <1>8, <1>13, <2>1 DEF Failed
<1>14. CASE UNCHANGED vars
    BY <1>14 DEF vars, plan, Bounded, PassBudget, Running
<1> QED
    BY <1>2, <1>3, <1>4, <1>5, <1>6, <1>7, <1>9, <1>10, <1>12, <1>13, <1>14
    DEF Next, Loop

\* Once retries are allowed at all, no source is contacted in more than
\* 1 + MaxRetries passes of a request, for any plan and any answers.
THEOREM ContactsAreBounded == MaxRetries >= 1 => (Spec => []PassBudget)
<1> SUFFICES ASSUME MaxRetries >= 1 PROVE Spec => []PassBudget
    OBVIOUS
<1>1. Init => Typed /\ Counted /\ Bounded
  <2>1. Init => Bounded
      BY AttemptLoopAssumption DEF Init, Bounded, PassBudget, Running
  <2> QED
      BY <2>1, InitTyped, InitCounted
<1>2. Typed /\ Counted /\ Bounded /\ [Next]_vars => (Typed /\ Counted /\ Bounded)'
    BY TypedStep, CountedStep, BoundedStep
<1>3. Bounded => PassBudget
    BY DEF Bounded
<1> QED
    BY <1>1, <1>2, <1>3, PTL DEF Spec

-----------------------------------------------------------------------------
(* The order of the stages. *)

\* How far the buffered loop has come.
Ordered ==
    mode = "buffered" =>
        /\ stage >= 2 => queue = <<>>
        /\ stage >= 3 => over
        /\ stage = 4 => active
        /\ active => over
        /\ over => queue = <<>>
        /\ Running =>
             /\ stage <= Rank[cur.kind]
             /\ cur.kind # "first" => queue = <<>>
             /\ cur.kind \in {"probe", "fallback"} => over
             /\ cur.kind = "fallback" => active

LEMMA OrderedStep == Typed /\ Counted /\ Ordered /\ [Next]_vars => Ordered'
<1> SUFFICES ASSUME Typed, Counted, Ordered, [Next]_vars, mode' = "buffered"
             PROVE  Ordered'
    BY DEF Ordered
<1> USE AttemptLoopAssumption
<1>0. /\ mode = "buffered" /\ TypeOK /\ Sound
      /\ Running => cur \in Passes /\ cur.kind \in DOMAIN Rank
    BY DEF Typed, TypeOK, Counted, Running, Passes, Next, Loop, First, Retry, Probe,
       Fallback, GiveUp, Contact, NoKey, Answered, KeyFailed, RateLimited, Failed,
       Answer, Hangup, vars
<1>1. /\ stage \in 1..4
      /\ stage >= 2 => queue = <<>>
      /\ stage >= 3 => over
      /\ stage = 4 => active
      /\ active => over
      /\ over => queue = <<>>
      /\ Running =>
           /\ stage <= Rank[cur.kind]
           /\ cur.kind # "first" => queue = <<>>
           /\ cur.kind \in {"probe", "fallback"} => over
           /\ cur.kind = "fallback" => active
    BY <1>0 DEF Ordered, TypeOK
<1>2. /\ Rank["first"] = 1 /\ Rank["retry"] = 2 /\ Rank["probe"] = 3
      /\ Rank["fallback"] = 4
    BY DEF Rank
<1>3. ASSUME ~Running', UNCHANGED <<queue, over, active, stage>> PROVE Ordered'
    BY <1>1, <1>3 DEF Ordered
<1>4. CASE First
  <2>1. queue # <<>> /\ stage = 1 /\ ~over /\ ~active
      BY <1>1, <1>4 DEF First
  <2>2. /\ cur'.kind = "first" /\ UNCHANGED <<over, active, stage>>
      BY <1>4 DEF First, Enter
  <2> QED
      BY <1>2, <2>1, <2>2 DEF Ordered
<1>5. ASSUME NEW i \in DOMAIN retries, Retry(i) PROVE Ordered'
  <2>1. queue = <<>> /\ stage <= 2 /\ ~over /\ ~active
      BY <1>1, <1>5 DEF Retry
  <2>2. /\ cur'.kind = "retry" /\ UNCHANGED <<queue, over, active, stage>>
      BY <1>5 DEF Retry, Enter
  <2>3. stage' <= Rank[cur'.kind]
      BY <1>2, <2>1, <2>2
  <2>4. ~(stage' >= 3) /\ stage' # 4
      BY <1>1, <2>1, <2>2
  <2> QED
      BY <2>1, <2>2, <2>3, <2>4 DEF Ordered
<1>6. ASSUME NEW got \in BOOLEAN, Probe(got) PROVE Ordered'
  <2>1. /\ queue = <<>> /\ over' /\ UNCHANGED <<queue, active, stage>>
      BY <1>0, <1>6 DEF Probe, Drained, LeavesRetries
  <2>2. Running' => cur'.kind = IF active THEN "fallback" ELSE "probe"
      BY <1>6 DEF Probe, Enter, Running
  <2> QED
      BY <1>1, <1>2, <2>1, <2>2 DEF Ordered
<1>7. ASSUME NEW got \in BOOLEAN, Fallback(got) PROVE Ordered'
  <2>1. /\ queue = <<>> /\ over' /\ UNCHANGED <<queue, stage>>
      BY <1>0, <1>7 DEF Fallback, Drained, LeavesRetries
  <2>2. /\ active => active'
        /\ Running' => cur'.kind = "fallback" /\ active'
      BY <1>7 DEF Fallback, Enter, Running
  <2> QED
      BY <1>1, <1>2, <2>1, <2>2 DEF Ordered
<1>8. CASE GiveUp \/ Hangup
    BY <1>3, <1>8 DEF GiveUp, Hangup, plan, Running
<1>9. CASE Contact
  <2>1. /\ Running /\ cur'.kind = cur.kind /\ stage' = Rank[cur.kind]
        /\ UNCHANGED <<queue, over, active>>
      BY <1>0, <1>9 DEF Contact, plan, Running, Passes
  <2>2. cur.kind \in {"first", "retry", "probe", "fallback"}
      BY <1>0, <2>1, RankDomain
  <2> QED
      BY <1>1, <1>2, <2>1, <2>2 DEF Ordered
<1>10. CASE NoKey
    BY <1>3, <1>10 DEF NoKey, PassOver, Running
<1>11. ASSUME NEW d \in Durations, Answered(d) PROVE Ordered'
    BY <1>3, <1>11 DEF Answered, Answer, plan, Running
<1>12. ASSUME NEW d \in Durations, Answer(d), NEW bare \in BOOLEAN, Rotate(bare)
       PROVE  Ordered'
  <2>1. Running /\ cur \in Passes /\ UNCHANGED <<queue, over, active, stage>>
      BY <1>0, <1>12 DEF Answer, Rotate, Running
  <2>2. Running' => cur'.kind = cur.kind
      BY <1>12, <2>1 DEF Rotate, Running, Passes
  <2> QED
      BY <1>1, <2>1, <2>2 DEF Ordered
<1>13. ASSUME NEW d \in Durations, KeyFailed(d) \/ RateLimited(d) PROVE Ordered'
    BY <1>12, <1>13 DEF KeyFailed, RateLimited
<1>14. ASSUME NEW d \in Durations, NEW again \in BOOLEAN, Failed(d, again)
       PROVE  Ordered'
    BY <1>3, <1>14 DEF Failed, Answer, PassOver, Running
<1>15. CASE UNCHANGED vars
    BY <1>1, <1>15 DEF vars, plan, Ordered, Running
<1> QED
    BY <1>4, <1>5, <1>6, <1>7, <1>8, <1>9, <1>10, <1>11, <1>13, <1>14, <1>15
    DEF Next, Loop

\* The buffered loop never contacts a source in an earlier stage than the last
\* one: all first passes, then retries, then the probe, then the fallback queue.
THEOREM BufferedStagesInOrder == Spec => BufferedInOrder
<1> DEFINE Inv == Typed /\ Counted /\ Ordered
<1>1. Init => Inv
  <2>1. Init => Ordered
      BY DEF Init, Ordered, Running
  <2> QED
      BY <2>1, InitTyped, InitCounted
<1>2. Inv /\ [Next]_vars => Inv'
    BY TypedStep, CountedStep, OrderedStep
<1>3. Inv /\ [Next]_vars => [mode = "buffered" => stage' >= stage]_vars
  <2> SUFFICES ASSUME Inv, Next, mode = "buffered" PROVE stage' >= stage
      BY DEF vars
  <2>1. /\ mode = "buffered" /\ stage \in 1..4 /\ Ordered
      BY DEF Typed, TypeOK
  <2>2. CASE Contact
      BY <2>1, <2>2 DEF Contact, Ordered, Running
  <2>3. CASE stage' = stage
      BY <2>1, <2>3
  <2> QED
      BY <2>2, <2>3 DEF Next, Loop, First, Retry, Probe, Fallback, GiveUp, NoKey,
         Answered, KeyFailed, RateLimited, Failed, Answer, Hangup
<1> HIDE DEF Inv
<1> QED
    BY <1>1, <1>2, <1>3, PTL DEF Spec, BufferedInOrder
=============================================================================
