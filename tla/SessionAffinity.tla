--------------------------- MODULE SessionAffinity ---------------------------
(***************************************************************************)
(* Session affinity: the table that makes the requests of one client       *)
(* session and model try the same provider first                           *)
(* (ai_gateway/selection/session.rs, applied in runtime_http/routing.rs).  *)
(*                                                                         *)
(* A request touches the table twice, each time in one critical section:   *)
(* when its candidates are ordered and when it has ended.  In between any  *)
(* number of other requests do the same.                                   *)
(***************************************************************************)
EXTENDS Integers, SequencesExt

CONSTANTS
    Providers,      \* provider ids
    NoProvider,
    Keys,           \* a session and a local model
    NoKey,          \* a request without a session or without a model
    Requests,
    CandidateSets,  \* the candidates a request may find eligible
    MissThreshold,  \* SESSION_BINDING_MISS_THRESHOLD
    Capacity,       \* SESSION_BINDING_CAPACITY
    Timeout,        \* SESSION_BINDING_IDLE_TIMEOUT
    MaxTime         \* bound on the clock

ASSUME SessionAffinityAssumption ==
    /\ NoProvider \notin Providers /\ NoKey \notin Keys
    /\ IsFiniteSet(Providers) /\ IsFiniteSet(Keys)
    /\ CandidateSets \subseteq (SUBSET Providers) \ {{}}
    /\ MissThreshold \in Nat \ {0} /\ Capacity \in Nat \ {0}
    /\ Timeout \in Nat /\ MaxTime \in Nat

VARIABLES
    now,
    table,   \* the bindings, a map from some of the keys
    req,     \* what each request in flight remembers
    streak,  \* requests of a key that ended elsewhere since its binding last
             \* moved or was hit (history)
    answered \* the last request that ended was answered by an upstream (history)

vars == <<now, table, req, streak, answered>>

Bindings == [provider : Providers, misses : 0..(MissThreshold - 1), used : Nat]

Resting == [key |-> NoKey, order |-> <<>>, eligible |-> FALSE, kept |-> FALSE]

\* The order tried, whether the binding was among the candidates
\* (bound_was_eligible), and whether it has stood since (history).
ReqStates ==
    [key : Keys \cup {NoKey}, order : Seq(Providers),
     eligible : BOOLEAN, kept : BOOLEAN]

TypeOK ==
    /\ now \in Nat
    /\ DOMAIN table \subseteq Keys
    /\ \A k \in DOMAIN table : table[k] \in Bindings
    /\ req \in [Requests -> ReqStates]
    /\ streak \in [Keys -> Nat]
    /\ answered \in BOOLEAN

-----------------------------------------------------------------------------
\* A mistake: an entry is kept for ever.
Live_Always == table

\* prune_expired: what is left once idle entries are dropped.
Live ==
    Restrict(table, {k \in DOMAIN table : now - table[k].used <= Timeout})

Fresh(p) == [provider |-> p, misses |-> 0, used |-> now]

\* min_by_key(last_used): any of the oldest on a tie.
Oldest(t) == {k \in DOMAIN t : \A l \in DOMAIN t : t[k].used <= t[l].used}

\* A mistake: any entry makes room for a new one.
Room_Any(t) ==
    IF Cardinality(DOMAIN t) >= Capacity
    THEN {Restrict(t, DOMAIN t \ {k}) : k \in DOMAIN t}
    ELSE {t}

\* A mistake: the table is only shrunk once it is over its capacity.
Room_Late(t) ==
    IF Cardinality(DOMAIN t) > Capacity
    THEN {Restrict(t, DOMAIN t \ {k}) : k \in Oldest(t)}
    ELSE {t}

\* evict_least_recently_used
Room(t) ==
    IF Cardinality(DOMAIN t) >= Capacity
    THEN {Restrict(t, DOMAIN t \ {k}) : k \in Oldest(t)}
    ELSE {t}

\* A mistake: the order is left as it is.
BoundFirst_Not(order, p) == order

Position(order, p) == CHOOSE i \in DOMAIN order : order[i] = p

\* reorder_bound_first
BoundFirst(order, p) ==
    IF Contains(order, p)
    THEN <<p>> \o RemoveAt(order, Position(order, p))
    ELSE order

\* A mistake: a request served by the bound provider leaves the misses.
Settled_Kept(b, eligible, p) ==
    IF ~eligible \/ (b.provider # p /\ b.misses + 1 >= MissThreshold)
    THEN Fresh(p)
    ELSE [b EXCEPT !.misses = IF b.provider = p THEN @ ELSE @ + 1, !.used = now]

\* A mistake: the binding moves one miss too late.
Settled_Late(b, eligible, p) ==
    IF ~eligible \/ b.provider = p \/ b.misses >= MissThreshold
    THEN Fresh(p)
    ELSE [b EXCEPT !.misses = @ + 1, !.used = now]

\* A binding after a request that ended on p.
Settled(b, eligible, p) ==
    IF ~eligible \/ b.provider = p \/ b.misses + 1 >= MissThreshold
    THEN Fresh(p)
    ELSE [b EXCEPT !.misses = @ + 1, !.used = now]

\* The table after a request of key k that ended on p.
TableSettled(k, eligible, p) ==
    IF k \in DOMAIN Live
    THEN [Live EXCEPT ![k] = Settled(@, eligible, p)]
    ELSE Live

-----------------------------------------------------------------------------
Init ==
    /\ now = 0
    /\ table = [k \in {} |-> Fresh(NoProvider)]
    /\ req = [r \in Requests |-> Resting]
    /\ streak = [k \in Keys |-> 0]
    /\ answered = FALSE

Tick ==
    /\ now < MaxTime
    /\ now' = now + 1
    /\ UNCHANGED <<table, req, streak, answered>>

InFlight(r) == req[r].order # <<>>

\* Whether k is bound as before in the next table.
Stands(k, next) ==
    /\ k \in DOMAIN Live /\ k \in DOMAIN next
    /\ next[k].provider = table[k].provider

\* The table becomes next and request r becomes q; the others see what became
\* of their bindings.
Becomes(next, r, q) ==
    /\ table' = next
    /\ req' = [s \in Requests |->
         IF s = r THEN q
         ELSE [req[s] EXCEPT !.kept = @ /\ Stands(req[s].key, next)]]

Asks(k, order, eligible) ==
    [key |-> k, order |-> order, eligible |-> eligible, kept |-> k # NoKey]

\* resolve_order of a request that has no key.
ResolvePlain(r, shuffled) ==
    /\ ~InFlight(r)
    /\ req' = [req EXCEPT ![r] = Asks(NoKey, shuffled, FALSE)]
    /\ UNCHANGED <<now, table, streak, answered>>

\* resolve_order of a request whose key is bound.
ResolveBound(r, k, shuffled) ==
    /\ ~InFlight(r) /\ k \in DOMAIN Live
    /\ LET p == Live[k].provider IN
       Becomes([Live EXCEPT ![k].used = now], r,
               Asks(k, BoundFirst(shuffled, p), Contains(shuffled, p)))
    /\ UNCHANGED <<now, streak, answered>>

Inserted(t, k, p) ==
    [l \in DOMAIN t \cup {k} |-> IF l = k THEN Fresh(p) ELSE t[l]]

\* resolve_order of the first request of a key: it is bound to the candidate
\* that happens to come first.
ResolveFirst(r, k, shuffled) ==
    /\ ~InFlight(r) /\ k \notin DOMAIN Live
    /\ \E t \in Room(Live) :
         Becomes(Inserted(t, k, Head(shuffled)), r, Asks(k, shuffled, TRUE))
    /\ streak' = [streak EXCEPT ![k] = 0]
    /\ UNCHANGED <<now, answered>>

Resolve(r) ==
    \E C \in CandidateSets : \E shuffled \in SetToSeqs(C) :
        \/ ResolvePlain(r, shuffled)
        \/ \E k \in Keys : ResolveBound(r, k, shuffled)
        \/ \E k \in Keys : ResolveFirst(r, k, shuffled)

\* The table after request r, whose last attempt was on p.
AfterSettle(r, p) ==
    IF req[r].key = NoKey THEN table
    ELSE TableSettled(req[r].key, req[r].eligible, p)

\* One more request that ended elsewhere, or none.
Streak(k, p, next) ==
    IF Stands(k, next) /\ table[k].provider # p THEN streak[k] + 1 ELSE 0

\* settle, after a request whose last attempt was on p, a candidate or the row
\* it probed.
Settle(r, p) ==
    LET k == req[r].key
        next == AfterSettle(r, p)
    IN /\ InFlight(r)
       /\ Becomes(next, r, Resting)
       /\ streak' = IF k = NoKey THEN streak
                    ELSE [streak EXCEPT ![k] = Streak(k, p, next)]
       /\ UNCHANGED now

\* The request was answered by p.
Serve(r, p) == Settle(r, p) /\ answered' = TRUE

\* Every provider failed, p was the last one tried: the request is settled as
\* if p had served it.
Fail(r, p) == Settle(r, p) /\ answered' = FALSE

\* The client went away, or no provider had a usable key: nothing is settled.
Drop(r) ==
    /\ InFlight(r)
    /\ req' = [req EXCEPT ![r] = Resting]
    /\ UNCHANGED <<now, table, streak, answered>>

Next ==
    \/ Tick
    \/ \E r \in Requests : Resolve(r) \/ Drop(r)
    \/ \E r \in Requests, p \in Providers : Serve(r, p) \/ Fail(r, p)

Spec == Init /\ [][Next]_vars

-----------------------------------------------------------------------------
\* Requests of one session and model that overlap try the same provider first
\* as long as nothing has replaced, dropped or evicted the binding, in whatever
\* order they were scheduled and whichever candidates each found.
SameFirst ==
    \A r, s \in Requests :
        /\ req[r].kept /\ req[s].kept /\ req[r].key = req[s].key
        /\ req[r].eligible /\ req[s].eligible
        => Head(req[r].order) = Head(req[s].order)

\* The table never outgrows its capacity.
WithinCapacity == Cardinality(DOMAIN table) <= Capacity

\* An entry is only lost to idleness, or to a new key when the table is full
\* and no live entry is older.
OnlyOldestLost ==
    [][\A k \in DOMAIN table \ DOMAIN table' :
         \/ now - table[k].used > Timeout
         \/ /\ Cardinality(DOMAIN table') = Capacity
            /\ \A l \in DOMAIN table' \cap DOMAIN table :
                 table[k].used <= table[l].used]_vars

\* k was live, and is bound to another provider after the step.
Moved(k) ==
    /\ k \in DOMAIN table /\ now - table[k].used <= Timeout
    /\ k \in DOMAIN table' /\ table'[k].provider # table[k].provider

Ended(r) == InFlight(r) /\ req'[r] = Resting

\* A live binding moves at the end of a request that did not find it eligible,
\* or at the threshold of consecutive requests that ended elsewhere.
MovesAreEarned ==
    [][\A k \in Keys : Moved(k) =>
         \E r \in Requests :
            /\ Ended(r) /\ req[r].key = k
            /\ ~req[r].eligible \/ streak[k] + 1 >= MissThreshold]_vars

\* An idle binding is forgotten, never revived by a late request.
IdleIsForgotten ==
    [][\A k \in DOMAIN table \cap DOMAIN table' :
         now - table[k].used > Timeout /\ table' # table =>
            \E r \in Requests :
                /\ ~InFlight(r) /\ req'[r].key = k
                /\ table'[k].provider = Head(req'[r].order)]_vars

\* "a binding migrates to the serving provider": a live binding moves at the end
\* of a request that was served.  One that every provider failed moves it too.
MigratesToServing == [][(\E k \in Keys : Moved(k)) => answered']_vars
=============================================================================
