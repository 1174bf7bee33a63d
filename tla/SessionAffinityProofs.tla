------------------------ MODULE SessionAffinityProofs ------------------------
(***************************************************************************)
(* Proofs about SessionAffinity, for all providers, keys, requests and     *)
(* candidate sets, and every threshold, capacity and timeout.              *)
(***************************************************************************)
EXTENDS SessionAffinity, FiniteSetTheorems, TLAPS

Tables(t) == DOMAIN t \subseteq Keys /\ \A k \in DOMAIN t : t[k] \in Bindings

\* What a request that still stands by a binding knows of it.
Agrees(q, t) ==
    q.kept => /\ q.key \in DOMAIN t
              /\ q.eligible => Head(q.order) = t[q.key].provider

Agreement == \A r \in Requests : Agrees(req[r], table)

\* The misses of a binding are requests that ended elsewhere in a row.
MissesCounted == \A k \in DOMAIN table : table[k].misses <= streak[k]

IInv == TypeOK /\ WithinCapacity /\ Agreement /\ MissesCounted

-----------------------------------------------------------------------------
LEMMA ShuffledOrder ==
    ASSUME NEW C \in CandidateSets, NEW s \in SetToSeqs(C)
    PROVE  /\ s \in Seq(Providers) /\ s # <<>> /\ Head(s) \in Providers
<1>0. C \in SUBSET Providers /\ C # {} /\ IsFiniteSet(Providers)
  BY SessionAffinityAssumption
<1>1. C \subseteq Providers /\ C # {} /\ IsFiniteSet(C)
  BY <1>0, FS_Subset
<1>2. Cardinality(C) \in Nat /\ Cardinality(C) # 0
  BY <1>1, FS_CardinalityType, FS_EmptySet
<1>3. s \in [1..Cardinality(C) -> C]
  BY DEF SetToSeqs
<1>4. s \in Seq(C) /\ Len(s) = Cardinality(C)
  BY <1>2, <1>3
<1>5. s \in Seq(Providers)
  BY <1>1, <1>2, <1>3
<1>6. Head(s) = s[1] /\ s[1] \in C
  BY <1>2, <1>3, <1>4
<1> QED BY <1>1, <1>2, <1>4, <1>5, <1>6

\* A bound candidate goes to the front.
LEMMA BoundFirstOrder ==
    ASSUME NEW s \in Seq(Providers), NEW p \in Providers
    PROVE  /\ BoundFirst(s, p) \in Seq(Providers)
           /\ Contains(s, p) => Head(BoundFirst(s, p)) = p
<1> DEFINE i == Position(s, p)
           a == SubSeq(s, 1, i - 1)
           b == SubSeq(s, i + 1, Len(s))
<1>1. ASSUME Contains(s, p)
      PROVE  <<p>> \o RemoveAt(s, i) \in Seq(Providers)
             /\ Head(<<p>> \o RemoveAt(s, i)) = p
  <2>1. i \in 1..Len(s)
    BY <1>1 DEF Contains, Position
  <2>2. a \in Seq(Providers)
    BY <2>1
  <2>3. b \in Seq(Providers)
    BY <2>1
  <2>4. a \o b \in Seq(Providers)
    <3> HIDE DEF a, b
    <3> QED BY <2>2, <2>3
  <2>5. RemoveAt(s, i) \in Seq(Providers)
    BY <2>4 DEF RemoveAt
  <2> HIDE DEF i
  <2> QED BY <2>5
<1> QED BY <1>1 DEF BoundFirst

\* Pruning drops entries and changes none.
LEMMA LiveTable ==
    /\ DOMAIN Live = {k \in DOMAIN table : now - table[k].used <= Timeout}
    /\ \A k \in DOMAIN Live : Live[k] = table[k]
BY DEF Live, Restrict

LEMMA SettledBinding ==
    ASSUME NEW b \in Bindings, NEW e \in BOOLEAN, NEW p \in Providers, now \in Nat
    PROVE  /\ Settled(b, e, p) \in Bindings
           /\ Settled(b, e, p).misses <= b.misses + 1
           /\ b.provider = p => Settled(b, e, p).misses = 0
           /\ Settled(b, e, p).provider # b.provider =>
                /\ Settled(b, e, p).misses = 0
                /\ ~e \/ b.misses + 1 >= MissThreshold
<1>1. MissThreshold \in Nat \ {0}
  BY SessionAffinityAssumption
<1>2. /\ Fresh(p) \in Bindings /\ Fresh(p).misses = 0 /\ Fresh(p).provider = p
  BY <1>1 DEF Fresh, Bindings
<1>3. b.misses \in Nat
  BY <1>1 DEF Bindings
<1>4. CASE ~e \/ b.provider = p \/ b.misses + 1 >= MissThreshold
  <2>1. Settled(b, e, p) = Fresh(p)
    BY <1>4 DEF Settled
  <2> QED BY <1>2, <1>3, <1>4, <2>1
<1>5. CASE ~(~e \/ b.provider = p \/ b.misses + 1 >= MissThreshold)
  <2> DEFINE n == [b EXCEPT !.misses = @ + 1, !.used = now]
  <2>1. Settled(b, e, p) = n
    BY <1>5 DEF Settled
  <2>2. b.misses + 1 \in 0..(MissThreshold - 1)
    BY <1>1, <1>3, <1>5
  <2>3. n \in Bindings /\ n.misses = b.misses + 1 /\ n.provider = b.provider
    BY <2>2 DEF Bindings
  <2> HIDE DEF n
  <2> QED BY <1>3, <1>5, <2>1, <2>3
<1> QED BY <1>4, <1>5

\* What pruning leaves is a table within the capacity.
LEMMA LiveBounded ==
    ASSUME IInv
    PROVE  /\ Tables(Live) /\ IsFiniteSet(DOMAIN table)
           /\ DOMAIN Live \in SUBSET DOMAIN table
           /\ IsFiniteSet(DOMAIN Live) /\ Cardinality(DOMAIN Live) \in Nat
           /\ Cardinality(DOMAIN Live) <= Cardinality(DOMAIN table)
           /\ Cardinality(DOMAIN Live) <= Capacity
           /\ Cardinality(DOMAIN table) \in Nat
<1>1. IsFiniteSet(Keys) /\ Capacity \in Nat
  BY SessionAffinityAssumption
<1>2. DOMAIN table \in SUBSET Keys
  BY DEF IInv, TypeOK
<1>3. IsFiniteSet(DOMAIN table)
  BY <1>1, <1>2, FS_Subset
<1>4. Tables(Live) /\ DOMAIN Live \in SUBSET DOMAIN table
  BY LiveTable DEF IInv, TypeOK, Tables
<1>5. /\ IsFiniteSet(DOMAIN Live)
      /\ Cardinality(DOMAIN Live) <= Cardinality(DOMAIN table)
  BY <1>3, <1>4, FS_Subset
<1>6. Cardinality(DOMAIN Live) \in Nat /\ Cardinality(DOMAIN table) \in Nat
  BY <1>3, <1>5, FS_CardinalityType
<1>7. Cardinality(DOMAIN table) <= Capacity
  BY DEF IInv, WithinCapacity
<1> QED BY <1>1, <1>3, <1>4, <1>5, <1>6, <1>7

\* What is left after making room: the live entries, but for one of the oldest
\* when the table is full.
LEMMA RoomMade ==
    ASSUME IInv, NEW t \in Room(Live)
    PROVE  /\ Tables(t) /\ DOMAIN t \subseteq DOMAIN Live /\ IsFiniteSet(DOMAIN t)
           /\ \A k \in DOMAIN t : t[k] = Live[k]
           /\ Cardinality(DOMAIN t) \in Nat /\ Cardinality(DOMAIN t) + 1 <= Capacity
           /\ \A k \in DOMAIN Live \ DOMAIN t :
                /\ k \in Oldest(Live)
                /\ Cardinality(DOMAIN t) + 1 = Capacity
                /\ DOMAIN Live = DOMAIN table
<1>1. Capacity \in Nat
  BY SessionAffinityAssumption
<1>2. CASE Cardinality(DOMAIN Live) >= Capacity
  <2>1. PICK o \in Oldest(Live) : t = Restrict(Live, DOMAIN Live \ {o})
    BY <1>2 DEF Room
  <2>2. DOMAIN t = DOMAIN Live \ {o} /\ \A k \in DOMAIN t : t[k] = Live[k]
    BY <2>1 DEF Restrict
  <2>3. o \in DOMAIN Live
    BY DEF Oldest
  <2>4. /\ IsFiniteSet(DOMAIN Live \ {o})
        /\ Cardinality(DOMAIN Live \ {o}) = Cardinality(DOMAIN Live) - 1
    BY <2>3, LiveBounded, FS_RemoveElement
  <2>5. Cardinality(DOMAIN Live \ {o}) \in Nat
    BY <2>4, FS_CardinalityType
  <2>6. Cardinality(DOMAIN Live) = Capacity /\ Cardinality(DOMAIN table) = Capacity
    BY <1>1, <1>2, LiveBounded DEF IInv, WithinCapacity
  <2>7. DOMAIN Live = DOMAIN table
    BY <2>6, LiveBounded, FS_Subset
  <2>8. Cardinality(DOMAIN t) + 1 = Capacity
    BY <1>1, <2>2, <2>4, <2>5, <2>6
  <2>9. Tables(t)
    BY <2>2, LiveBounded DEF Tables
  <2> QED BY <1>1, <2>2, <2>3, <2>4, <2>5, <2>7, <2>8, <2>9
<1>3. CASE ~(Cardinality(DOMAIN Live) >= Capacity)
  <2>1. t = Live
    BY <1>3 DEF Room
  <2> QED BY <1>1, <1>3, <2>1, LiveBounded
<1> QED BY <1>2, <1>3

\* A new binding fits into the room made for it.
LEMMA InsertedTable ==
    ASSUME IInv, NEW t \in Room(Live), NEW k \in Keys, NEW p \in Providers
    PROVE  /\ Tables(Inserted(t, k, p)) /\ DOMAIN Inserted(t, k, p) = DOMAIN t \cup {k}
           /\ Inserted(t, k, p)[k] = Fresh(p)
           /\ \A l \in DOMAIN t \ {k} : Inserted(t, k, p)[l] = t[l]
           /\ Cardinality(DOMAIN Inserted(t, k, p)) <= Capacity
<1>1. Fresh(p) \in Bindings
  BY SessionAffinityAssumption DEF Fresh, Bindings, IInv, TypeOK
<1>2. /\ DOMAIN Inserted(t, k, p) = DOMAIN t \cup {k}
      /\ Inserted(t, k, p)[k] = Fresh(p)
      /\ \A l \in DOMAIN t \ {k} : Inserted(t, k, p)[l] = t[l]
  BY DEF Inserted
<1>3. Tables(Inserted(t, k, p))
  BY <1>1, <1>2, RoomMade DEF Tables
<1>4. Cardinality(DOMAIN t \cup {k}) <= Capacity
  <2>1. /\ IsFiniteSet(DOMAIN t) /\ Cardinality(DOMAIN t) \in Nat
        /\ Cardinality(DOMAIN t) + 1 <= Capacity
    BY RoomMade
  <2>2. Cardinality(DOMAIN t \cup {k}) \in {Cardinality(DOMAIN t), Cardinality(DOMAIN t) + 1}
    BY <2>1, FS_AddElement
  <2> QED BY <2>1, <2>2, SessionAffinityAssumption
<1> QED BY <1>2, <1>3, <1>4

\* The table after a settlement.
LEMMA SettledTable ==
    ASSUME IInv, NEW r \in Requests, NEW p \in Providers
    PROVE  /\ Tables(AfterSettle(r, p))
           /\ Cardinality(DOMAIN AfterSettle(r, p)) <= Capacity
           /\ DOMAIN AfterSettle(r, p) \in {DOMAIN Live, DOMAIN table}
           /\ \A k \in DOMAIN AfterSettle(r, p) :
                AfterSettle(r, p)[k] =
                  IF k = req[r].key /\ k # NoKey
                  THEN Settled(Live[k], req[r].eligible, p) ELSE table[k]
           /\ req[r].key # NoKey => DOMAIN AfterSettle(r, p) = DOMAIN Live
<1> DEFINE k == req[r].key
           e == req[r].eligible
<1>1. e \in BOOLEAN /\ now \in Nat /\ NoKey \notin Keys
  BY SessionAffinityAssumption DEF IInv, TypeOK, ReqStates
<1>2. CASE k = NoKey
  <2>1. AfterSettle(r, p) = table
    BY <1>2 DEF AfterSettle
  <2>2. Tables(table) /\ Cardinality(DOMAIN table) <= Capacity
    BY DEF IInv, TypeOK, WithinCapacity, Tables
  <2> QED BY <1>2, <2>1, <2>2
<1>3. CASE k # NoKey /\ k \notin DOMAIN Live
  <2>1. AfterSettle(r, p) = Live
    BY <1>3 DEF AfterSettle, TableSettled
  <2> QED BY <1>3, <2>1, LiveBounded, LiveTable
<1>4. CASE k # NoKey /\ k \in DOMAIN Live
  <2>1. AfterSettle(r, p) = [Live EXCEPT ![k] = Settled(@, e, p)]
    BY <1>4 DEF AfterSettle, TableSettled
  <2>2. Settled(Live[k], e, p) \in Bindings
    BY <1>1, <1>4, LiveBounded, SettledBinding DEF Tables
  <2>3. /\ DOMAIN AfterSettle(r, p) = DOMAIN Live
        /\ AfterSettle(r, p)[k] = Settled(Live[k], e, p)
        /\ \A l \in DOMAIN Live \ {k} : AfterSettle(r, p)[l] = Live[l]
    BY <1>4, <2>1
  <2>4. Tables(AfterSettle(r, p))
    BY <2>2, <2>3, LiveBounded DEF Tables
  <2>5. Cardinality(DOMAIN AfterSettle(r, p)) <= Capacity
    BY <2>3, LiveBounded
  <2>6. \A l \in DOMAIN AfterSettle(r, p) :
          AfterSettle(r, p)[l] =
            IF l = k /\ l # NoKey THEN Settled(Live[l], e, p) ELSE table[l]
    BY <1>4, <2>3, LiveTable
  <2> QED BY <2>3, <2>4, <2>5, <2>6
<1> QED BY <1>2, <1>3, <1>4

\* When the table and one request change, the other requests that still stand
\* by their bindings agree with the new table.
LEMMA OthersAgree ==
    ASSUME IInv, NEW next, NEW r \in Requests, NEW q \in ReqStates,
           Becomes(next, r, q), Agrees(q, next)
    PROVE  table' = next /\ req' \in [Requests -> ReqStates] /\ Agreement'
<1>1. table' = next
  BY DEF Becomes
<1>2. ASSUME NEW s \in Requests
      PROVE  req'[s] \in ReqStates /\ Agrees(req'[s], next)
  <2>1. CASE s = r
    BY <2>1 DEF Becomes
  <2>2. CASE s # r
    <3> DEFINE n == [req[s] EXCEPT !.kept = @ /\ Stands(req[s].key, next)]
    <3>1. req'[s] = n
      BY <2>2 DEF Becomes
    <3>2. req[s] \in ReqStates /\ Agrees(req[s], table)
      BY DEF IInv, TypeOK, Agreement
    <3>3. n \in ReqStates /\ n.key = req[s].key /\ n.order = req[s].order
          /\ n.eligible = req[s].eligible
      BY <3>2 DEF ReqStates, Stands
    <3>4. n.kept => req[s].kept /\ Stands(req[s].key, next)
      BY <3>2 DEF ReqStates
    <3>5. Agrees(n, next)
      <4> HIDE DEF n
      <4> QED BY <3>2, <3>3, <3>4 DEF Agrees, Stands
    <3> QED BY <3>1, <3>3, <3>5
  <2> QED BY <2>1, <2>2
<1>3. req' \in [Requests -> ReqStates]
  BY <1>2 DEF Becomes
<1> QED BY <1>1, <1>2, <1>3 DEF Agreement

-----------------------------------------------------------------------------
LEMMA RestingState == Resting \in ReqStates /\ ~Resting.kept
BY DEF Resting, ReqStates

LEMMA InitInvariant == Init => IInv
<1> SUFFICES ASSUME Init PROVE IInv
  OBVIOUS
<1>1. DOMAIN table = {}
  BY DEF Init
<1>2. TypeOK
  BY <1>1, RestingState DEF Init, TypeOK
<1>3. WithinCapacity
  BY <1>1, FS_EmptySet, SessionAffinityAssumption DEF WithinCapacity
<1>4. Agreement
  BY RestingState DEF Init, Agreement, Agrees
<1>5. MissesCounted
  BY <1>1 DEF MissesCounted
<1> QED BY <1>2, <1>3, <1>4, <1>5 DEF IInv

\* A request changes and no binding does.
LEMMA RequestOnly ==
    ASSUME IInv, NEW r \in Requests, NEW q \in ReqStates, ~q.kept,
           req' = [req EXCEPT ![r] = q], UNCHANGED <<now, table, streak, answered>>
    PROVE  IInv'
<1>1. TypeOK'
  BY DEF IInv, TypeOK
<1>2. Agreement'
  <2> SUFFICES ASSUME NEW s \in Requests
               PROVE  Agrees(req'[s], table)
    BY DEF Agreement
  <2>1. CASE s = r
    BY <2>1 DEF IInv, TypeOK, Agrees
  <2>2. CASE s # r
    BY <2>2 DEF IInv, TypeOK, Agreement
  <2> QED BY <2>1, <2>2
<1>3. WithinCapacity' /\ MissesCounted'
  BY DEF IInv, WithinCapacity, MissesCounted
<1> QED BY <1>1, <1>2, <1>3 DEF IInv

LEMMA PlainInvariant ==
    ASSUME IInv, NEW r \in Requests, NEW s \in Seq(Providers), ResolvePlain(r, s)
    PROVE  IInv'
<1>1. Asks(NoKey, s, FALSE) \in ReqStates /\ ~Asks(NoKey, s, FALSE).kept
  BY DEF Asks, ReqStates
<1> QED BY <1>1, RequestOnly DEF ResolvePlain

LEMMA BoundInvariant ==
    ASSUME IInv, NEW r \in Requests, NEW k \in Keys, NEW s \in Seq(Providers),
           ResolveBound(r, k, s)
    PROVE  IInv'
<1> DEFINE p == Live[k].provider
           next == [Live EXCEPT ![k].used = now]
           q == Asks(k, BoundFirst(s, p), Contains(s, p))
<1>1. /\ k \in DOMAIN Live /\ Becomes(next, r, q)
      /\ UNCHANGED <<now, streak, answered>>
  BY DEF ResolveBound
<1>2. Live[k] \in Bindings /\ now \in Nat
  BY <1>1, LiveBounded DEF Tables, IInv, TypeOK
<1>3. p \in Providers
  BY <1>2 DEF Bindings
<1>4. /\ DOMAIN next = DOMAIN Live
      /\ next[k] \in Bindings /\ next[k].provider = p
      /\ next[k].misses = Live[k].misses
      /\ \A l \in DOMAIN Live \ {k} : next[l] = Live[l]
  BY <1>1, <1>2 DEF Bindings
<1>5. BoundFirst(s, p) \in Seq(Providers)
      /\ (Contains(s, p) => Head(BoundFirst(s, p)) = p)
  BY <1>3, BoundFirstOrder
<1>6. Contains(s, p) \in BOOLEAN
  BY DEF Contains
<1>7. q \in ReqStates /\ q.key = k /\ q.order = BoundFirst(s, p)
      /\ q.eligible = Contains(s, p)
  BY <1>5, <1>6 DEF Asks, ReqStates
<1>8. Agrees(q, next)
  <2> HIDE DEF q, next, p
  <2> QED BY <1>1, <1>4, <1>5, <1>7 DEF Agrees
<1>9. table' = next /\ req' \in [Requests -> ReqStates] /\ Agreement'
  BY <1>1, <1>7, <1>8, OthersAgree
<1>10. Tables(next)
  <2> HIDE DEF next
  <2> QED BY <1>4, LiveBounded DEF Tables
<1>11. TypeOK'
  BY <1>1, <1>9, <1>10 DEF IInv, TypeOK, Tables
<1>12. WithinCapacity'
  BY <1>4, <1>9, LiveBounded DEF WithinCapacity
<1>13. MissesCounted'
  <2> HIDE DEF next
  <2> QED BY <1>1, <1>4, <1>9, LiveTable DEF MissesCounted, IInv
<1> QED BY <1>9, <1>11, <1>12, <1>13 DEF IInv

LEMMA FirstInvariant ==
    ASSUME IInv, NEW r \in Requests, NEW k \in Keys, NEW s \in Seq(Providers),
           Head(s) \in Providers, ResolveFirst(r, k, s)
    PROVE  IInv'
<1> DEFINE q == Asks(k, s, TRUE)
<1>1. PICK t \in Room(Live) : Becomes(Inserted(t, k, Head(s)), r, q)
  BY DEF ResolveFirst
<1>2. /\ UNCHANGED <<now, answered>>
      /\ streak' = [streak EXCEPT ![k] = 0]
  BY DEF ResolveFirst
<1> DEFINE next == Inserted(t, k, Head(s))
<1>3. /\ Tables(next) /\ DOMAIN next = DOMAIN t \cup {k}
      /\ next[k] = Fresh(Head(s))
      /\ \A l \in DOMAIN t \ {k} : next[l] = t[l]
      /\ Cardinality(DOMAIN next) <= Capacity
  BY InsertedTable
<1> HIDE DEF next
<1>4. q \in ReqStates /\ q.key = k /\ q.order = s
  BY DEF Asks, ReqStates
<1>5. Agrees(q, next)
  <2>1. Fresh(Head(s)).provider = Head(s)
    BY DEF Fresh
  <2> HIDE DEF q
  <2> QED BY <1>3, <1>4, <2>1 DEF Agrees
<1>6. table' = next /\ req' \in [Requests -> ReqStates] /\ Agreement'
  BY <1>1, <1>4, <1>5, OthersAgree DEF next
<1>7. TypeOK'
  BY <1>2, <1>3, <1>6 DEF IInv, TypeOK, Tables
<1>8. WithinCapacity'
  BY <1>3, <1>6 DEF WithinCapacity
<1>9. MissesCounted'
  <2> SUFFICES ASSUME NEW l \in DOMAIN next
               PROVE  next[l].misses <= streak'[l]
    BY <1>6 DEF MissesCounted
  <2>1. CASE l = k
    BY <1>2, <1>3, <2>1 DEF Fresh, IInv, TypeOK
  <2>2. CASE l # k
    <3>1. l \in DOMAIN t /\ next[l] = table[l] /\ l \in DOMAIN table
      BY <1>3, <2>2, RoomMade, LiveTable
    <3>2. table[l].misses <= streak[l] /\ streak'[l] = streak[l]
      BY <1>2, <2>2, <3>1 DEF IInv, MissesCounted, TypeOK
    <3> QED BY <3>1, <3>2
  <2> QED BY <2>1, <2>2
<1> QED BY <1>6, <1>7, <1>8, <1>9 DEF IInv

LEMMA SettleInvariant ==
    ASSUME IInv, NEW r \in Requests, NEW p \in Providers, Settle(r, p),
           answered' \in BOOLEAN
    PROVE  IInv'
<1> DEFINE k == req[r].key
           e == req[r].eligible
           next == AfterSettle(r, p)
<1>1. /\ Becomes(next, r, Resting) /\ UNCHANGED now
      /\ streak' = IF k = NoKey THEN streak
                   ELSE [streak EXCEPT ![k] = Streak(k, p, next)]
  BY DEF Settle
<1>2. table' = next /\ req' \in [Requests -> ReqStates] /\ Agreement'
  BY <1>1, RestingState, OthersAgree DEF Agrees
<1>3. /\ k \in Keys \cup {NoKey} /\ e \in BOOLEAN /\ now \in Nat
      /\ streak \in [Keys -> Nat] /\ NoKey \notin Keys
  BY SessionAffinityAssumption DEF IInv, TypeOK, ReqStates
<1>4. Streak(k, p, next) \in Nat \/ k = NoKey
  BY <1>3 DEF Streak
<1>5. streak' \in [Keys -> Nat]
  BY <1>1, <1>3, <1>4
<1>6. TypeOK'
  BY <1>1, <1>2, <1>5, SettledTable DEF IInv, TypeOK, Tables
<1>7. WithinCapacity'
  BY <1>2, SettledTable DEF WithinCapacity
<1>8. MissesCounted'
  <2> SUFFICES ASSUME NEW l \in DOMAIN next
               PROVE  next[l].misses <= streak'[l]
    BY <1>2 DEF MissesCounted
  <2>1. l \in DOMAIN table /\ l \in Keys
    BY SettledTable, LiveBounded DEF Tables
  <2>2. table[l].misses <= streak[l] /\ table[l] \in Bindings
    BY <2>1 DEF IInv, MissesCounted, TypeOK
  <2>3. CASE l # k
    <3>1. next[l] = table[l] /\ streak'[l] = streak[l]
      BY <1>1, <1>3, <2>1, <2>3, SettledTable
    <3> QED BY <2>2, <3>1
  <2>4. CASE l = k
    <3> DEFINE n == Settled(table[l], e, p)
    <3>1. l # NoKey /\ l \in DOMAIN Live /\ Live[l] = table[l]
      BY <1>3, <2>1, <2>4, SettledTable, LiveTable
    <3>2. next[l] = n
      BY <2>4, <3>1, SettledTable
    <3>3. streak'[l] = Streak(l, p, next)
      BY <1>1, <1>3, <2>1, <2>4, <3>1
    <3>4. /\ n.misses <= table[l].misses + 1
          /\ table[l].provider = p => n.misses = 0
          /\ n.provider # table[l].provider => n.misses = 0
      BY <1>3, <2>2, SettledBinding
    <3>5. CASE Stands(l, next) /\ table[l].provider # p
      <4>1. streak'[l] = streak[l] + 1
        BY <3>3, <3>5 DEF Streak
      <4>2. table[l].misses \in Nat /\ streak[l] \in Nat
        BY <1>3, <2>1, <2>2 DEF Bindings
      <4>3. n.misses \in Nat
        BY <1>3, <2>2, SettledBinding, SessionAffinityAssumption DEF Bindings
      <4> HIDE DEF n
      <4> QED BY <2>2, <3>2, <3>4, <4>1, <4>2, <4>3
    <3>6. CASE ~(Stands(l, next) /\ table[l].provider # p)
      <4>1. streak'[l] = 0
        BY <3>3, <3>6 DEF Streak
      <4>2. n.misses = 0
        BY <2>1, <3>1, <3>2, <3>4, <3>6 DEF Stands
      <4> QED BY <3>2, <4>1, <4>2
    <3> QED BY <3>5, <3>6
  <2> QED BY <2>3, <2>4
<1> QED BY <1>2, <1>6, <1>7, <1>8 DEF IInv

LEMMA NextInvariant ==
    ASSUME IInv, [Next]_vars
    PROVE  IInv'
<1>1. CASE Tick
  BY <1>1 DEF Tick, IInv, TypeOK, WithinCapacity, Agreement, MissesCounted
<1>2. ASSUME NEW r \in Requests, Resolve(r)
      PROVE  IInv'
  <2>0. PICK C \in CandidateSets : \E s \in SetToSeqs(C) :
          \/ ResolvePlain(r, s)
          \/ \E k \in Keys : ResolveBound(r, k, s)
          \/ \E k \in Keys : ResolveFirst(r, k, s)
    BY <1>2 DEF Resolve
  <2>1. PICK s \in SetToSeqs(C) :
          \/ ResolvePlain(r, s)
          \/ \E k \in Keys : ResolveBound(r, k, s)
          \/ \E k \in Keys : ResolveFirst(r, k, s)
    BY <2>0
  <2>2. s \in Seq(Providers) /\ Head(s) \in Providers
    BY ShuffledOrder
  <2> QED BY <2>1, <2>2, PlainInvariant, BoundInvariant, FirstInvariant
<1>3. ASSUME NEW r \in Requests, Drop(r)
      PROVE  IInv'
  BY <1>3, RestingState, RequestOnly DEF Drop
<1>4. ASSUME NEW r \in Requests, NEW p \in Providers, Serve(r, p)
      PROVE  IInv'
  BY <1>4, SettleInvariant DEF Serve
<1>5. ASSUME NEW r \in Requests, NEW p \in Providers, Fail(r, p)
      PROVE  IInv'
  BY <1>5, SettleInvariant DEF Fail
<1>6. CASE UNCHANGED vars
  BY <1>6 DEF vars, IInv, TypeOK, WithinCapacity, Agreement, MissesCounted
<1> QED BY <1>1, <1>2, <1>3, <1>4, <1>5, <1>6 DEF Next

THEOREM Invariant == Spec => []IInv
BY InitInvariant, NextInvariant, PTL DEF Spec

\* Every reachable state of the table and of the requests is well-typed; in
\* particular no binding carries as many misses as the threshold.
THEOREM TypeCorrect == Spec => []TypeOK
BY Invariant, PTL DEF IInv

\* The binding table holds at most Capacity entries.
THEOREM TableBounded == Spec => []WithinCapacity
BY Invariant, PTL DEF IInv

\* Overlapping requests of a session that still stand by its binding and found
\* it eligible try the same provider first.
THEOREM OverlapAgrees == Spec => []SameFirst
<1>1. IInv => SameFirst
  BY DEF IInv, Agreement, Agrees, SameFirst
<1> QED BY <1>1, Invariant, PTL

-----------------------------------------------------------------------------
\* A request that arrives does not move a live binding.  It drops idle entries,
\* and at most one of the oldest when it brings a key and the table is full.
LEMMA ResolvedTable ==
    ASSUME IInv, NEW r \in Requests, Resolve(r)
    PROVE  /\ \A k \in DOMAIN table \cap DOMAIN table' :
                \/ table'[k].provider = table[k].provider
                \/ now - table[k].used > Timeout
           /\ \A k \in DOMAIN table \ DOMAIN table' :
                \/ now - table[k].used > Timeout
                \/ /\ Cardinality(DOMAIN table') = Capacity
                   /\ \A l \in DOMAIN table' \cap DOMAIN table :
                        table[k].used <= table[l].used
<1>0. PICK C \in CandidateSets : \E s \in SetToSeqs(C) :
        \/ ResolvePlain(r, s)
        \/ \E k \in Keys : ResolveBound(r, k, s)
        \/ \E k \in Keys : ResolveFirst(r, k, s)
  BY DEF Resolve
<1>1. PICK s \in SetToSeqs(C) :
        \/ ResolvePlain(r, s)
        \/ \E k \in Keys : ResolveBound(r, k, s)
        \/ \E k \in Keys : ResolveFirst(r, k, s)
  BY <1>0
<1>2. s \in Seq(Providers) /\ Head(s) \in Providers
  BY ShuffledOrder
<1>3. \A k \in DOMAIN table : table[k].used \in Nat /\ now \in Nat /\ Timeout \in Nat
  BY SessionAffinityAssumption DEF IInv, TypeOK, Bindings
<1>4. CASE ResolvePlain(r, s)
  BY <1>4 DEF ResolvePlain
<1>5. ASSUME NEW k \in Keys, ResolveBound(r, k, s)
      PROVE  /\ DOMAIN table' = DOMAIN Live
             /\ \A l \in DOMAIN Live : table'[l].provider = table[l].provider
  <2>1. k \in DOMAIN Live /\ table' = [Live EXCEPT ![k].used = now]
    BY <1>5 DEF ResolveBound, Becomes
  <2>2. Live[k] \in Bindings
    BY <2>1, LiveBounded DEF Tables
  <2>3. \A l \in DOMAIN Live : table'[l].provider = Live[l].provider
    BY <2>1, <2>2 DEF Bindings
  <2> QED BY <2>1, <2>3, LiveTable
<1>6. CASE \E k \in Keys : ResolveBound(r, k, s)
  <2>1. /\ DOMAIN table' = DOMAIN Live
        /\ \A l \in DOMAIN Live : table'[l].provider = table[l].provider
    BY <1>5, <1>6
  <2>2. \A l \in DOMAIN table \ DOMAIN Live : now - table[l].used > Timeout
    BY <1>3, LiveTable
  <2>3. DOMAIN Live \subseteq DOMAIN table
    BY LiveTable
  <2> QED BY <2>1, <2>2, <2>3
<1>7. ASSUME NEW k \in Keys, ResolveFirst(r, k, s)
      PROVE  /\ \A l \in DOMAIN table \cap DOMAIN table' :
                  \/ table'[l].provider = table[l].provider
                  \/ now - table[l].used > Timeout
             /\ \A l \in DOMAIN table \ DOMAIN table' :
                  \/ now - table[l].used > Timeout
                  \/ /\ Cardinality(DOMAIN table') = Capacity
                     /\ \A m \in DOMAIN table' \cap DOMAIN table :
                          table[l].used <= table[m].used
  <2>1. PICK t \in Room(Live) : table' = Inserted(t, k, Head(s))
    BY <1>7 DEF ResolveFirst, Becomes
  <2> DEFINE next == Inserted(t, k, Head(s))
  <2>2. /\ DOMAIN next = DOMAIN t \cup {k}
        /\ \A l \in DOMAIN t \ {k} : next[l] = t[l]
        /\ Cardinality(DOMAIN next) <= Capacity
    BY <1>2, InsertedTable
  <2>3. /\ DOMAIN table' = DOMAIN t \cup {k}
        /\ \A l \in DOMAIN t \ {k} : table'[l] = t[l]
        /\ Cardinality(DOMAIN table') <= Capacity
    <3> HIDE DEF next
    <3>1. table' = next
      BY <2>1 DEF next
    <3> QED BY <3>1, <2>2
  <2>4. k \notin DOMAIN Live
    BY <1>7 DEF ResolveFirst
  <2>5. ASSUME NEW l \in DOMAIN table \cap DOMAIN table'
        PROVE  \/ table'[l].provider = table[l].provider
               \/ now - table[l].used > Timeout
    <3>1. CASE l = k
      BY <1>3, <2>4, <2>5, <3>1, LiveTable
    <3>2. CASE l # k
      BY <2>3, <2>5, <3>2, RoomMade, LiveTable
    <3> QED BY <3>1, <3>2
  <2>6. ASSUME NEW l \in DOMAIN table \ DOMAIN table',
               ~(now - table[l].used > Timeout)
        PROVE  /\ Cardinality(DOMAIN table') = Capacity
               /\ \A m \in DOMAIN table' \cap DOMAIN table :
                    table[l].used <= table[m].used
    <3>1. l \in DOMAIN Live \ DOMAIN t
      BY <1>3, <2>3, <2>6, LiveTable
    <3>2. /\ l \in Oldest(Live) /\ DOMAIN Live = DOMAIN table
          /\ Cardinality(DOMAIN t) + 1 = Capacity
          /\ IsFiniteSet(DOMAIN t) /\ DOMAIN t \subseteq DOMAIN Live
      BY <3>1, RoomMade
    <3>3. Cardinality(DOMAIN t \cup {k}) = Cardinality(DOMAIN t) + 1
      BY <2>4, <3>2, FS_AddElement
    <3>4. \A m \in DOMAIN Live : Live[l].used <= Live[m].used
      BY <3>2 DEF Oldest
    <3> QED BY <2>3, <3>1, <3>2, <3>3, <3>4, LiveTable
  <2> QED BY <2>5, <2>6
<1> QED BY <1>1, <1>4, <1>6, <1>7

\* A request that ends drops idle entries only, and moves at most the binding
\* of its own key.
LEMMA SettleStep ==
    ASSUME IInv, NEW r \in Requests, NEW p \in Providers, Settle(r, p)
    PROVE  /\ Ended(r)
           /\ \A k \in DOMAIN table \ DOMAIN table' : now - table[k].used > Timeout
           /\ \A k \in DOMAIN table \cap DOMAIN table' :
                table'[k].provider # table[k].provider =>
                   /\ k = req[r].key
                   /\ ~req[r].eligible \/ streak[k] + 1 >= MissThreshold
<1>1. InFlight(r) /\ Becomes(AfterSettle(r, p), r, Resting)
  BY DEF Settle
<1>2. table' = AfterSettle(r, p) /\ Ended(r)
  BY <1>1 DEF Becomes, Ended
<1>3. /\ now \in Nat /\ Timeout \in Nat /\ req[r].eligible \in BOOLEAN
      /\ NoKey \notin Keys /\ MissThreshold \in Nat /\ DOMAIN table \subseteq Keys
  BY SessionAffinityAssumption DEF IInv, TypeOK, ReqStates
<1>4. \A k \in DOMAIN table \ DOMAIN table' : now - table[k].used > Timeout
  <2> SUFFICES ASSUME NEW k \in DOMAIN table \ DOMAIN table'
               PROVE  now - table[k].used > Timeout
    OBVIOUS
  <2>1. k \notin DOMAIN Live
    BY <1>2, SettledTable
  <2>2. table[k].used \in Nat
    BY DEF IInv, TypeOK, Bindings
  <2> QED BY <1>3, <2>1, <2>2, LiveTable
<1>5. ASSUME NEW k \in DOMAIN table \cap DOMAIN table',
             table'[k].provider # table[k].provider
      PROVE  /\ k = req[r].key
             /\ ~req[r].eligible \/ streak[k] + 1 >= MissThreshold
  <2>1. k = req[r].key /\ k # NoKey /\ table'[k] = Settled(Live[k], req[r].eligible, p)
    BY <1>2, <1>5, SettledTable
  <2>2. Live[k] = table[k]
    BY <1>2, <2>1, SettledTable, LiveTable
  <2>3. table[k] \in Bindings /\ table[k].misses <= streak[k] /\ streak[k] \in Nat
    BY <1>3 DEF IInv, TypeOK, MissesCounted
  <2>4. ~req[r].eligible \/ table[k].misses + 1 >= MissThreshold
    BY <1>3, <1>5, <2>1, <2>2, <2>3, SettledBinding
  <2>5. table[k].misses \in Nat
    BY <1>3, <2>3 DEF Bindings
  <2> QED BY <1>3, <2>1, <2>3, <2>4, <2>5
<1> QED BY <1>2, <1>4, <1>5

\* A live binding moves at the end of a request that did not find it eligible,
\* or at the threshold of consecutive requests that ended elsewhere.
THEOREM BindingsMoveWhenEarned == Spec => MovesAreEarned
<1> DEFINE Earned(k) == \E r \in Requests :
                          /\ Ended(r) /\ req[r].key = k
                          /\ ~req[r].eligible \/ streak[k] + 1 >= MissThreshold
<1>1. ASSUME IInv, [Next]_vars, NEW k \in Keys, Moved(k)
      PROVE  Earned(k)
  <2>0. /\ k \in DOMAIN table \cap DOMAIN table'
        /\ ~(now - table[k].used > Timeout)
        /\ table'[k].provider # table[k].provider
    <3>1. table[k].used \in Nat /\ now \in Nat /\ Timeout \in Nat
      BY <1>1, SessionAffinityAssumption DEF Moved, IInv, TypeOK, Bindings
    <3> QED BY <1>1, <3>1 DEF Moved
  <2>1. CASE Tick \/ (\E r \in Requests : Drop(r)) \/ UNCHANGED vars
    BY <2>0, <2>1 DEF Tick, Drop, vars
  <2>2. CASE \E r \in Requests : Resolve(r)
    BY <1>1, <2>0, <2>2, ResolvedTable
  <2>3. ASSUME NEW r \in Requests, NEW p \in Providers, Settle(r, p)
        PROVE  Earned(k)
    BY <1>1, <2>0, <2>3, SettleStep
  <2>4. CASE \E r \in Requests, p \in Providers : Serve(r, p) \/ Fail(r, p)
    BY <2>3, <2>4 DEF Serve, Fail
  <2> QED BY <1>1, <2>1, <2>2, <2>4 DEF Next
<1>2. IInv /\ [Next]_vars => [\A k \in Keys : Moved(k) => Earned(k)]_vars
  BY <1>1
<1> QED BY <1>2, Invariant, PTL DEF Spec, MovesAreEarned

\* An entry is lost to idleness, or to a new key when the table is full and no
\* entry that stays is older.
THEOREM EvictionTakesOldest == Spec => OnlyOldestLost
<1> DEFINE Lost == \A k \in DOMAIN table \ DOMAIN table' :
                     \/ now - table[k].used > Timeout
                     \/ /\ Cardinality(DOMAIN table') = Capacity
                        /\ \A l \in DOMAIN table' \cap DOMAIN table :
                             table[k].used <= table[l].used
<1>1. ASSUME IInv, [Next]_vars
      PROVE  Lost
  <2>1. CASE Tick \/ (\E r \in Requests : Drop(r)) \/ UNCHANGED vars
    BY <2>1 DEF Tick, Drop, vars
  <2>2. CASE \E r \in Requests : Resolve(r)
    BY <1>1, <2>2, ResolvedTable
  <2>3. ASSUME NEW r \in Requests, NEW p \in Providers, Settle(r, p)
        PROVE  Lost
    BY <1>1, <2>3, SettleStep
  <2>4. CASE \E r \in Requests, p \in Providers : Serve(r, p) \/ Fail(r, p)
    BY <2>3, <2>4 DEF Serve, Fail
  <2> QED BY <1>1, <2>1, <2>2, <2>4 DEF Next
<1>2. IInv /\ [Next]_vars => [Lost]_vars
  BY <1>1
<1> QED BY <1>2, Invariant, PTL DEF Spec, OnlyOldestLost

\* Whatever changes the table leaves no idle entry in it: the one that is there again
\* is new, and of the request that brought its key.
LEMMA OnlyRenewed ==
    ASSUME IInv, [Next]_vars, table' # table,
           NEW k \in DOMAIN table \cap DOMAIN table', now - table[k].used > Timeout
    PROVE  \E r \in Requests :
              /\ ~InFlight(r) /\ req'[r].key = k
              /\ table'[k].provider = Head(req'[r].order)
<1>1. k \notin DOMAIN Live /\ now \in Nat /\ Timeout \in Nat /\ table[k].used \in Nat
  <2>1. now \in Nat /\ Timeout \in Nat /\ table[k].used \in Nat
    BY SessionAffinityAssumption DEF IInv, TypeOK, Bindings
  <2> QED BY <2>1, LiveTable
<1>2. CASE Tick \/ (\E r \in Requests : Drop(r)) \/ UNCHANGED vars
  BY <1>2 DEF Tick, Drop, vars
<1>3. ASSUME NEW r \in Requests, NEW p \in Providers, Settle(r, p)
      PROVE  FALSE
  <2>1. table' = AfterSettle(r, p)
    BY <1>3 DEF Settle, Becomes
  <2>2. req[r].key # NoKey
    BY <2>1 DEF AfterSettle
  <2> QED BY <1>1, <2>1, <2>2, SettledTable
<1>4. ASSUME NEW r \in Requests, NEW C \in CandidateSets, NEW s \in SetToSeqs(C),
             NEW l \in Keys, ResolveBound(r, l, s)
      PROVE  FALSE
  <2>1. DOMAIN table' = DOMAIN Live
    BY <1>4 DEF ResolveBound, Becomes
  <2> QED BY <1>1, <2>1
<1>5. ASSUME NEW r \in Requests, NEW C \in CandidateSets, NEW s \in SetToSeqs(C),
             NEW l \in Keys, ResolveFirst(r, l, s)
      PROVE  /\ ~InFlight(r) /\ req'[r].key = k
             /\ table'[k].provider = Head(req'[r].order)
  <2>1. PICK t \in Room(Live) : Becomes(Inserted(t, l, Head(s)), r, Asks(l, s, TRUE))
    BY <1>5 DEF ResolveFirst
  <2>2. Head(s) \in Providers
    BY ShuffledOrder
  <2>3. /\ DOMAIN table' = DOMAIN t \cup {l} /\ table'[l] = Fresh(Head(s))
        /\ DOMAIN t \subseteq DOMAIN Live
    BY <2>1, <2>2, InsertedTable, RoomMade DEF Becomes
  <2>4. k = l
    BY <1>1, <2>3
  <2>5. req'[r] = Asks(l, s, TRUE)
    BY <2>1 DEF Becomes
  <2> QED BY <1>5, <2>3, <2>4, <2>5 DEF ResolveFirst, Asks, Fresh
<1>6. ASSUME NEW r \in Requests, Resolve(r)
      PROVE  /\ ~InFlight(r) /\ req'[r].key = k
             /\ table'[k].provider = Head(req'[r].order)
  <2>1. PICK C \in CandidateSets : \E s \in SetToSeqs(C) :
          \/ ResolvePlain(r, s)
          \/ \E l \in Keys : ResolveBound(r, l, s)
          \/ \E l \in Keys : ResolveFirst(r, l, s)
    BY <1>6 DEF Resolve
  <2>2. PICK s \in SetToSeqs(C) : \E l \in Keys : ResolveFirst(r, l, s)
    BY <1>4, <2>1 DEF ResolvePlain
  <2> QED BY <1>5, <2>2
<1> QED BY <1>2, <1>3, <1>6 DEF Next, Serve, Fail

\* An idle binding is forgotten, never revived by a late request.
THEOREM IdleBindingsAreForgotten == Spec => IdleIsForgotten
<1> DEFINE Forgotten ==
      \A k \in DOMAIN table \cap DOMAIN table' :
         now - table[k].used > Timeout /\ table' # table =>
            \E r \in Requests :
                /\ ~InFlight(r) /\ req'[r].key = k
                /\ table'[k].provider = Head(req'[r].order)
<1>1. IInv /\ [Next]_vars => [Forgotten]_vars
  BY OnlyRenewed
<1> QED BY <1>1, Invariant, PTL DEF Spec, IdleIsForgotten
=============================================================================
