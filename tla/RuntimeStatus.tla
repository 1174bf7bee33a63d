---------------------------- MODULE RuntimeStatus ----------------------------
(***************************************************************************)
(* lib/runtimeStatus.ts: the status of one service, shared by every view.  *)
(* Events bring it, a missing payload asks for it, views ask when they     *)
(* mount, and pages publish what they have read themselves.                *)
(*                                                                         *)
(* The status is the version of the service it was taken from.  A fetch    *)
(* carries whether its sequence number is the current one.                 *)
(***************************************************************************)
EXTENDS Integers, Sequences

CONSTANTS Fetches,    \* bound on the fetches under way at once
          Readers,    \* the pages that publish what they read
          NoFetch,
          MaxTurns,   \* bound on the changes of the service
          MaxEvents   \* bound on the events under way

RuntimeStatusAssumption ==
    /\ NoFetch \notin Fetches
    /\ MaxTurns \in Nat /\ MaxEvents \in Nat

None == -1
Turns == 0..MaxTurns

FetchStates == [pc : {"idle", "asked", "answered"}, latest : BOOLEAN,
                seen : Turns \cup {None}]

VARIABLES
    turn,      \* the version of the service
    payloads,  \* the payloads of the events on their way, None for a missing one
    data, loading, failed,  \* the entry that is shown
    joinable,  \* entry.inFlight
    queued,    \* entry.fallbackQueued
    fetches,
    readers    \* what a page has read and not published yet

entry == <<data, loading, failed>>
vars == <<turn, payloads, entry, joinable, queued, fetches, readers>>

IdleFetch == [pc |-> "idle", latest |-> FALSE, seen |-> None]

Init ==
    /\ turn = 0 /\ payloads = <<>>
    /\ data = None /\ loading = FALSE /\ failed = FALSE
    /\ joinable = NoFetch /\ queued = FALSE
    /\ fetches = [f \in Fetches |-> IdleFetch]
    /\ readers = [p \in Readers |-> None]

\* The fetches after the sequence number has been raised.
Outdated == [f \in Fetches |-> [fetches[f] EXCEPT !.latest = FALSE]]

\* The service changes and says so, with its status or without.
Change(payload) ==
    /\ turn < MaxTurns /\ Len(payloads) < MaxEvents
    /\ turn' = turn + 1
    /\ payloads' = Append(payloads, IF payload THEN turn + 1 ELSE None)
    /\ UNCHANGED <<entry, joinable, queued, fetches, readers>>

\* publishRuntimeStatus of a valid payload.
Published(v) ==
    /\ data' = v /\ loading' = FALSE /\ failed' = FALSE
    /\ fetches' = Outdated

\* The listener of the events; a missing payload queues one fallback.
Event ==
    /\ payloads # <<>> /\ payloads' = Tail(payloads)
    /\ IF Head(payloads) = None
       THEN queued' = TRUE /\ UNCHANGED <<entry, fetches>>
       ELSE Published(Head(payloads)) /\ UNCHANGED queued
    /\ UNCHANGED <<turn, joinable, readers>>

\* refreshRuntimeStatus joins the fetch under way, unless it is forced.
Refresh(f, force) ==
    IF joinable # NoFetch /\ ~force
    THEN UNCHANGED <<entry, joinable, fetches>>
    ELSE /\ fetches[f].pc = "idle"
         /\ fetches' = [Outdated EXCEPT ![f] = [pc |-> "asked", latest |-> TRUE,
                                                seen |-> None]]
         /\ joinable' = f /\ loading' = TRUE
         /\ UNCHANGED <<data, failed>>

\* A view mounts, or its user asks for a fresh status.
Ask(f, force) ==
    /\ Refresh(f, force)
    /\ UNCHANGED <<turn, payloads, queued, readers>>

\* The queued fallback.
Fallback(f) ==
    /\ queued /\ queued' = FALSE
    /\ Refresh(f, FALSE)
    /\ UNCHANGED <<turn, payloads, readers>>

Answer(f, ok) ==
    /\ fetches[f].pc = "asked"
    /\ fetches' = [fetches EXCEPT ![f].pc = "answered",
                                  ![f].seen = IF ok THEN turn ELSE None]
    /\ UNCHANGED <<turn, payloads, entry, joinable, queued, readers>>

\* A mistake: a reply is applied without asking whether it was overtaken.
Land_AlwaysApplied(f) ==
    /\ fetches[f].pc = "answered"
    /\ IF fetches[f].seen # None
       THEN data' = fetches[f].seen /\ loading' = FALSE /\ failed' = FALSE
       ELSE loading' = FALSE /\ failed' = TRUE /\ UNCHANGED data
    /\ joinable' = IF joinable = f THEN NoFetch ELSE joinable
    /\ fetches' = [fetches EXCEPT ![f] = IdleFetch]
    /\ UNCHANGED <<turn, payloads, queued, readers>>

\* The reply of a fetch.  Only the latest number applies; the fetch others may
\* join is forgotten by itself alone.
Land(f) ==
    LET d == fetches[f] IN
    /\ d.pc = "answered"
    /\ \/ ~d.latest /\ UNCHANGED entry
       \/ d.latest /\ d.seen # None /\ data' = d.seen /\ loading' = FALSE /\ failed' = FALSE
       \/ d.latest /\ d.seen = None /\ loading' = FALSE /\ failed' = TRUE /\ UNCHANGED data
    /\ joinable' = IF joinable = f THEN NoFetch ELSE joinable
    /\ fetches' = [fetches EXCEPT ![f] = IdleFetch]
    /\ UNCHANGED <<turn, payloads, queued, readers>>

\* A page reads the status by itself and publishes it when all it has read is in.
PageReads(p) ==
    /\ readers[p] = None /\ readers' = [readers EXCEPT ![p] = turn]
    /\ UNCHANGED <<turn, payloads, entry, joinable, queued, fetches>>

PagePublishes(p) ==
    /\ readers[p] # None /\ Published(readers[p])
    /\ readers' = [readers EXCEPT ![p] = None]
    /\ UNCHANGED <<turn, payloads, joinable, queued>>

Next ==
    \/ \E payload \in BOOLEAN : Change(payload)
    \/ Event
    \/ \E f \in Fetches :
        \/ Fallback(f) \/ Land(f)
        \/ \E b \in BOOLEAN : Ask(f, b) \/ Answer(f, b)
    \/ \E p \in Readers : PageReads(p) \/ PagePublishes(p)

Spec == Init /\ [][Next]_vars

-----------------------------------------------------------------------------
TypeOK ==
    /\ turn \in Turns /\ payloads \in Seq(Turns \cup {None})
    /\ data \in Turns \cup {None} /\ loading \in BOOLEAN /\ failed \in BOOLEAN
    /\ joinable \in Fetches \cup {NoFetch} /\ queued \in BOOLEAN
    /\ fetches \in [Fetches -> FetchStates]
    /\ readers \in [Readers -> Turns \cup {None}]

\* What shows as loading is loading: however events, forced fetches and pages
\* overtake a fetch, the entry never waits for a reply that will not end it.
LoadingIsFetched ==
    loading => \E f \in Fetches : fetches[f].pc # "idle" /\ fetches[f].latest

\* The comment of refreshRuntimeStatus: a late older response does not overwrite
\* newer state, though events and forced fetches may have come between.
RepliesNeverGoBack ==
    [][data' < data => \A f \in Fetches : fetches'[f].pc = fetches[f].pc]_vars
=============================================================================
