-------------------------- MODULE WeightedScheduler --------------------------
(***************************************************************************)
(* The smooth weighted round robin that orders the candidates of ordinary  *)
(* gateway requests (ai_gateway/selection/scheduling.rs).                  *)
(*                                                                         *)
(* The scheduler's map lives as long as the process, one entry for each    *)
(* provider and scope; a scope is a requested local model and an inbound   *)
(* protocol.  A request works on the configuration it read when it         *)
(* arrived, while the user removes, creates and weighs providers.          *)
(***************************************************************************)
EXTENDS Integers, SequencesExt

CONSTANTS
    Providers,      \* provider ids, numbered in the order of the strings
    Weights,        \* the weights the user gives each provider
    Scopes,         \* local models and protocols
    CandidateSets,  \* the candidate sets a request of each scope may find
    Requests,       \* requests being selected for
    Removable       \* the providers the user removes and creates again

ASSUME WeightedSchedulerAssumption ==
    /\ Providers \subseteq Nat
    /\ IsFiniteSet(Providers)
    /\ Weights \in [Providers -> (SUBSET (Nat \ {0})) \ {{}}]
    /\ \A p \in Providers : IsFiniteSet(Weights[p])
    /\ CandidateSets \in [Scopes -> SUBSET ((SUBSET Providers) \ {{}})]
    /\ Removable \subseteq Providers
    /\ IsFiniteSet(Requests)

AbsoluteValue(n) == IF n < 0 THEN -n ELSE n

VARIABLES
    current,    \* current weights, a map from the keys seen so far
    providers,  \* the providers of the published configuration
    weight,     \* the weight of each in the published configuration
    snap,       \* what each request waiting for its order has read
    turns,      \* times each key came first in the round of its scope, for
                \* scopes that always find the same candidates (history)
    passed      \* times each key was a candidate since it came first (history)

vars == <<current, providers, weight, snap, turns, passed>>

AnyWeight == UNION {Weights[p] : p \in Providers}
ScopedKeys == Providers \X Scopes

\* What a request has read: the weights of its candidates.
Idle == [scope |-> "none", cands |-> [p \in {} |-> 1]]
Snapshots == {Idle} \cup
    [scope : Scopes, cands : UNION {[C -> AnyWeight] : C \in (SUBSET Providers) \ {{}}}]

TypeOK ==
    /\ DOMAIN current \subseteq ScopedKeys
    /\ \A k \in DOMAIN current : current[k] \in Int
    /\ providers \subseteq Providers
    /\ weight \in [Providers -> AnyWeight]
    /\ snap \in [Requests -> Snapshots]
    /\ turns \in [ScopedKeys -> Nat]
    /\ passed \in [ScopedKeys -> Nat]

-----------------------------------------------------------------------------
\* W gives each of the candidates its weight.
Total(W) == SumFunctionOnSet(W, DOMAIN W)

Entry(k) == IF k \in DOMAIN current THEN current[k] ELSE 0

\* A mistake: a provider has one entry for all models and protocols.
KeysOf_Unscoped(W, s) == (DOMAIN W) \X {"none"}

\* The accounting keys of candidates.
KeysOf(W, s) == (DOMAIN W) \X {s}

\* Step 1: every candidate gains its weight.
Accrued(W, s) ==
    [k \in DOMAIN current \cup KeysOf(W, s) |->
        Entry(k) + IF k \in KeysOf(W, s) THEN W[k[1]] ELSE 0]

\* The larger current weight first, the smaller id on a tie.
Before(cw, k, l) == cw[k] > cw[l] \/ (cw[k] = cw[l] /\ k[1] < l[1])

\* Step 2: the first candidate.
Primary(W, s) ==
    CHOOSE k \in KeysOf(W, s) : \A l \in KeysOf(W, s) \ {k} :
        Before(Accrued(W, s), k, l)

\* A mistake: the first candidate pays its own weight, not the total.
Charged_Own(W, s) ==
    [Accrued(W, s) EXCEPT ![Primary(W, s)] = @ - W[Primary(W, s)[1]]]

\* Step 3: the first candidate pays the total weight.
Charged(W, s) ==
    [Accrued(W, s) EXCEPT ![Primary(W, s)] = @ - Total(W)]

\* The keys K, each before those that come after it.
Ranked(K, cw) ==
    CHOOSE order \in SetToSeqs(K) :
        \A i, j \in DOMAIN order : i < j => Before(cw, order[i], order[j])

\* A mistake: the first candidate is listed among the rest again.
Order_Repeated(W, s) ==
    IF Cardinality(DOMAIN W) = 1 THEN SetToSeq(DOMAIN W)
    ELSE LET all == Ranked(KeysOf(W, s), Charged(W, s))
         IN <<Primary(W, s)[1]>> \o [i \in 1..Cardinality(DOMAIN W) |-> all[i][1]]

\* Steps 4 and 5: the rest follows by what it has left.
Order(W, s) ==
    IF Cardinality(DOMAIN W) = 1 THEN SetToSeq(DOMAIN W)
    ELSE LET rest == Ranked(KeysOf(W, s) \ {Primary(W, s)}, Charged(W, s))
         IN [i \in 1..Cardinality(DOMAIN W) |->
                IF i = 1 THEN Primary(W, s)[1] ELSE rest[i - 1][1]]

\* A mistake: the turn is taken on a copy of the map that is not stored.
Schedule_Lost(W, s) == current' = current

\* weighted_candidates: a lone candidate is not charged.
Schedule(W, s) ==
    current' = IF Cardinality(DOMAIN W) = 1 THEN current ELSE Charged(W, s)

-----------------------------------------------------------------------------
Init ==
    /\ current = [k \in {} |-> 0]
    /\ providers = Providers
    /\ weight \in [Providers -> AnyWeight]
    /\ \A p \in Providers : weight[p] \in Weights[p]
    /\ snap = [r \in Requests |-> Idle]
    /\ turns = [k \in ScopedKeys |-> 0]
    /\ passed = [k \in ScopedKeys |-> 0]

\* The request reads the configuration and derives its candidates from it.
ReadConfig(r) ==
    /\ snap[r] = Idle
    /\ \E s \in Scopes : \E C \in CandidateSets[s] :
         /\ C \subseteq providers
         /\ snap' = [snap EXCEPT ![r] = [scope |-> s, cands |-> Restrict(weight, C)]]
    /\ UNCHANGED <<current, providers, weight, turns, passed>>

\* Whose turn it is in the round of scope s, a round being as many selections
\* as the candidates weigh together.
Counted(W, s) ==
    LET over == SumFunctionOnSet(turns, Providers \X {s}) >= Total(W) IN
    [k \in ScopedKeys |->
        IF k[2] # s \/ CandidateSets[s] # {DOMAIN W} THEN turns[k]
        ELSE (IF over THEN 0 ELSE turns[k])
             + IF k[1] = Order(W, s)[1] THEN 1 ELSE 0]

PassedOver(W, s) ==
    [k \in ScopedKeys |->
        IF k \notin (DOMAIN W) \X {s} THEN passed[k]
        ELSE IF k[1] = Order(W, s)[1] THEN 0 ELSE passed[k] + 1]

\* The request asks for its order, in one critical section.
Select(r) ==
    LET W == snap[r].cands
        s == snap[r].scope
    IN /\ snap[r] # Idle
       /\ Schedule(W, s)
       /\ turns' = Counted(W, s)
       /\ passed' = PassedOver(W, s)
       /\ snap' = [snap EXCEPT ![r] = Idle]
       /\ UNCHANGED <<providers, weight>>

\* The request is answered before it needs an order.
Reject(r) ==
    /\ snap[r] # Idle
    /\ snap' = [snap EXCEPT ![r] = Idle]
    /\ UNCHANGED <<current, providers, weight, turns, passed>>

\* A mistake: the whole map is cleared.
Pruned_All(p) == [k \in {} |-> 0]

\* prune_weighted_scheduler
Pruned(p) == Restrict(current, {k \in DOMAIN current : k[1] # p})

\* A configuration without p is published, then its entries are pruned, all
\* under the write lock.
RemoveProvider(p) ==
    /\ p \in providers \cap Removable
    /\ providers' = providers \ {p}
    /\ current' = Pruned(p)
    /\ passed' = [k \in ScopedKeys |-> IF k[1] = p THEN 0 ELSE passed[k]]
    /\ UNCHANGED <<weight, snap, turns>>

CreateProvider(p) ==
    /\ p \notin providers
    /\ providers' = providers \cup {p}
    /\ weight' \in {[weight EXCEPT ![p] = w] : w \in Weights[p]}
    /\ UNCHANGED <<current, snap, turns, passed>>

\* The user gives p another weight; the scheduler is not told.
Weigh(p) ==
    /\ p \in providers
    /\ weight' \in {[weight EXCEPT ![p] = w] : w \in Weights[p] \ {weight[p]}}
    /\ passed' = [k \in ScopedKeys |-> IF k[1] = p THEN 0 ELSE passed[k]]
    /\ UNCHANGED <<current, providers, snap, turns>>

Next ==
    \/ \E r \in Requests : ReadConfig(r) \/ Select(r) \/ Reject(r)
    \/ \E p \in Providers : RemoveProvider(p) \/ CreateProvider(p) \/ Weigh(p)

Spec == Init /\ [][Next]_vars

-----------------------------------------------------------------------------
\* In a scope that always finds the same candidates with the same weights no
\* candidate takes more turns of a round than it weighs, so over a round each
\* takes exactly its weight: whatever the other scopes select in between, and
\* whichever other providers the user removes or weighs anew.
FairShare ==
    \A s \in Scopes, C \in SUBSET (Providers \ Removable) :
        CandidateSets[s] = {C} /\ (\A p \in C : Cardinality(Weights[p]) = 1) =>
            \A p \in C : turns[<<p, s>>] <= weight[p]

\* The most that all providers together ever weigh.
Heaviest == [p \in Providers |-> Max(Weights[p])]

\* However the candidates come and go and change their weights, and whatever
\* credit or debt a removed provider takes with it, nobody is ever more in
\* credit or in debt than all providers together weigh, once for each other
\* provider: what many candidate sets leave behind does not pile up, no i64 is
\* exhausted.
NoDrift ==
    \A k \in DOMAIN current :
        AbsoluteValue(current[k]) <= (Cardinality(Providers) - 1) * Total(Heaviest)

\* However the candidates come and go and change their weights, what a candidate
\* would have gained while it was passed over stays within the way from the
\* deepest debt to the highest credit, and the turns of requests that had read
\* a lower weight of it: it comes first before long.
NoStarvation ==
    \A k \in ScopedKeys :
        passed[k] * weight[k[1]] <= 2 * ((Cardinality(Providers) - 1) * Total(Heaviest))
                                    + Cardinality(Requests) * Heaviest[k[1]]
=============================================================================
