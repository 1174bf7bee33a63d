--------------------------- MODULE GatewaySelection ---------------------------
(***************************************************************************)
(* Which provider an ordinary request tries first: the weighted scheduler  *)
(* and the session table put together as runtime_http/routing.rs does.     *)
(* The order is computed inside the table's critical section, and it is    *)
(* computed, and charged for, whether or not the session is bound already. *)
(***************************************************************************)
EXTENDS WeightedScheduler

CONSTANTS
    NoProvider, Keys, NoKey, MissThreshold, Capacity, Timeout, MaxTime,
    PlainRequests,  \* of clients that send no session
    SessionRounds   \* rounds over which the new sessions are counted

ASSUME GatewaySelectionAssumption == SessionRounds \in Nat \ {0}

VARIABLES
    now, table, req, streak, answered,  \* of SessionAffinity
    begun   \* sessions of each scope bound to each provider at their first request,
            \* for scopes that always find the same candidates (history)

Affinity == INSTANCE SessionAffinity
    WITH CandidateSets <- UNION {CandidateSets[s] : s \in Scopes}

affinityVars == <<now, table, req, streak, answered>>
selectionVars == <<vars, affinityVars, begun>>

SelectionInit == Init /\ Affinity!Init /\ begun = [k \in ScopedKeys |-> 0]

\* The request reads the configuration and derives its candidates.
Arrive(r) ==
    /\ ~Affinity!InFlight(r)
    /\ ReadConfig(r)
    /\ UNCHANGED <<affinityVars, begun>>

\* A request without a session is tried in the scheduler's order.
SelectPlain(r) ==
    /\ r \in PlainRequests
    /\ Select(r)
    /\ Affinity!ResolvePlain(r, Order(snap[r].cands, snap[r].scope))
    /\ UNCHANGED begun

\* A request of a bound session takes the scheduler's turn as well.
SelectBound(r, k) ==
    /\ r \notin PlainRequests
    /\ Select(r)
    /\ Affinity!ResolveBound(r, k, Order(snap[r].cands, snap[r].scope))
    /\ UNCHANGED begun

\* The count of the new sessions starts again after SessionRounds rounds.
Begun(W, s) ==
    LET over == SumFunctionOnSet(begun, Providers \X {s}) >= SessionRounds * Total(W) IN
    [k \in ScopedKeys |->
        IF k[2] # s \/ CandidateSets[s] # {DOMAIN W} THEN begun[k]
        ELSE (IF over THEN 0 ELSE begun[k])
             + IF k[1] = Order(W, s)[1] THEN 1 ELSE 0]

\* The first request of a session is bound to the scheduler's first.
SelectFirst(r, k) ==
    /\ r \notin PlainRequests
    /\ Select(r)
    /\ Affinity!ResolveFirst(r, k, Order(snap[r].cands, snap[r].scope))
    /\ begun' = Begun(snap[r].cands, snap[r].scope)

TurnAway(r) == Reject(r) /\ UNCHANGED <<affinityVars, begun>>

\* The request ends, or time passes.
Affine ==
    /\ \/ Affinity!Tick
       \/ \E r \in Requests : Affinity!Drop(r)
       \/ \E r \in Requests, p \in Providers : Affinity!Serve(r, p) \/ Affinity!Fail(r, p)
    /\ UNCHANGED <<vars, begun>>

\* The user edits the providers.
Edit ==
    /\ \E p \in Providers :
        RemoveProvider(p) \/ CreateProvider(p) \/ Weigh(p)
    /\ UNCHANGED <<affinityVars, begun>>

SelectionNext ==
    \/ \E r \in Requests : Arrive(r) \/ SelectPlain(r) \/ TurnAway(r)
    \/ \E r \in Requests, k \in Keys : SelectBound(r, k) \/ SelectFirst(r, k)
    \/ Affine
    \/ Edit

SelectionSpec == SelectionInit /\ [][SelectionNext]_selectionVars

-----------------------------------------------------------------------------
\* The session table put on top of the scheduler is a session table over some order
\* of the candidates, whatever the scheduler has been charged with meanwhile and
\* whichever candidates the request has read.
TableSpec == Affinity!Spec

\* 2026-09-20-api-gateway-weighted-routing.md:19: a new session is bound to what
\* weighted_candidates puts first, "ensuring long-lived sessions distribute across
\* provider accounts in exact proportion to their configured weights over time".
\* Where the candidates and their weights do not change, no provider is bound to
\* more new sessions of SessionRounds rounds than are its share.
SessionsFollowWeights ==
    \A s \in Scopes, C \in SUBSET (Providers \ Removable) :
        CandidateSets[s] = {C} /\ (\A p \in C : Cardinality(Weights[p]) = 1) =>
            \A p \in C : begun[<<p, s>>] <= SessionRounds * weight[p]
=============================================================================
