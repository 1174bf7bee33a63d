---------------------------- MODULE WorkspacePage ----------------------------
(***************************************************************************)
(* The page of the workspaces: hooks/useWorkspaceDetail.ts and the         *)
(* commands of Workspaces/index.tsx and useWorkspaceDialogs.ts that go on  *)
(* with it.  It shows the detail and the sessions of the active workspace, *)
(* each read under a sequence number of its own.  A command, once it has   *)
(* returned, goes on with the workspace that was active when it began,     *)
(* which need not be the active one any more.                              *)
(*                                                                         *)
(* What is shown is named by the workspace it was read from.  The requests *)
(* under way are a bag: each says whether its number is the current one.   *)
(***************************************************************************)
EXTENDS Integers, Bags

CONSTANTS Workspaces, NoWorkspace,
          MaxRequests,  \* bound on the requests under way at once
          MaxTasks      \* bound on the commands under way at once

WorkspacePageAssumption ==
    NoWorkspace \notin Workspaces /\ MaxRequests \in Nat /\ MaxTasks \in Nat

Places == Workspaces \cup {NoWorkspace}

\* A pause keeps the spinner of the sessions turning for its least duration.  A
\* request of the detail may go on with the sessions.
Request == [kind : {"detail", "sessions", "pause"}, of : Workspaces, live : BOOLEAN,
            silent : BOOLEAN, on : BOOLEAN]
\* A command, the workspace it is about, the active one when it began, and
\* whether the sessions were shown.
Task == [kind : {"refresh", "save", "bind"}, of : Workspaces, from : Places,
         on : BOOLEAN]

VARIABLES
    onSessions,  \* activeTab = "sessions"
    active, detail, sessions,  \* activeWorkspaceId, activeDetail, activeSessions
    detailLoading, sessionsLoading,
    requests, tasks,
    strayed,     \* history: a command went on for another than the active workspace
    idleSpin     \* history: the tab of the sessions was selected and nothing read

shownHere == <<active, detail, sessions>>
turning == <<detailLoading, sessionsLoading>>
vars == <<onSessions, shownHere, turning, requests, tasks, strayed, idleSpin>>

Init ==
    /\ onSessions = TRUE
    /\ active = NoWorkspace /\ detail = NoWorkspace /\ sessions = NoWorkspace
    /\ detailLoading = FALSE /\ sessionsLoading = FALSE
    /\ requests = EmptyBag /\ tasks = EmptyBag
    /\ strayed = FALSE /\ idleSpin = FALSE

\* The bag with one more, and with one less.
And(bag, e) == bag (+) SetToBag({e})
Less(bag, e) == bag (-) SetToBag({e})

\* The requests after some of the sequence numbers have been raised: those of them
\* become like the earlier ones.
Copies(r, bag) == IF r \in BagToSet(bag) THEN bag[r] ELSE 0
Lowered(r, kinds) == [r EXCEPT !.live = @ /\ r.kind \notin kinds]
Raised(bag, kinds) ==
    [r \in {Lowered(q, kinds) : q \in BagToSet(bag)} |->
        Copies(r, bag) + (IF ~r.live /\ r.kind \in kinds
                          THEN Copies([r EXCEPT !.live = TRUE], bag) ELSE 0)]
OfSessions == {"sessions", "pause"}

\* The bag after the sessions have been asked for.
Asked(bag, w, silent) ==
    And(Raised(bag, OfSessions),
        [kind |-> "sessions", of |-> w, live |-> TRUE, silent |-> silent, on |-> FALSE])

\* The effect that reads the sessions of the active workspace, when what it
\* depends on has changed.
Effect(changed, bag, loading) ==
    /\ IF changed /\ onSessions' /\ active' # NoWorkspace
       THEN /\ requests' = Asked(bag, active', FALSE)
            /\ sessionsLoading' = TRUE /\ idleSpin' = FALSE
       ELSE /\ requests' = bag /\ sessionsLoading' = loading
            /\ UNCHANGED idleSpin
    /\ BagCardinality(requests') <= MaxRequests

\* A mistake: a switch leaves the sessions' requests counting.
Superseded_DetailOnly(switching) == {"detail"}

\* The numbers that a read of the detail raises.
Superseded(switching) == {"detail"} \cup (IF switching THEN OfSessions ELSE {})

\* loadWorkspaceDetail for a caller that takes `from' for the active workspace.
\* A switch clears the page; the filters it resets may be what the effect sees
\* change.
LoadDetail(w, from, view, on) ==
    LET switching == w # from
        bag == And(Raised(requests, Superseded(switching)),
                   [kind |-> "detail", of |-> w, live |-> TRUE, silent |-> FALSE,
                    on |-> on])
    IN
    /\ detailLoading' = TRUE /\ active' = w
    /\ detail' = IF view THEN w ELSE IF switching THEN NoWorkspace ELSE detail
    /\ sessions' = IF switching THEN NoWorkspace ELSE sessions
    /\ \E query \in {FALSE, switching} :
        Effect(active' # active \/ query, bag,
               IF switching THEN FALSE ELSE sessionsLoading)

-----------------------------------------------------------------------------
\* The user opens a workspace of the list, which shows as long as no detail does.
Open(w) ==
    /\ detail = NoWorkspace /\ onSessions' = TRUE
    /\ LoadDetail(w, active, TRUE, FALSE)
    /\ UNCHANGED <<tasks, strayed>>

\* clearActiveWorkspace, by the user's way back or because the workspace is gone.
\* The requests under way still count.
Leave ==
    /\ <<active, detail>> # <<NoWorkspace, NoWorkspace>>
    /\ active' = NoWorkspace /\ detail' = NoWorkspace /\ sessions' = NoWorkspace
    /\ UNCHANGED <<onSessions, turning, requests, tasks, strayed, idleSpin>>

\* handleSelectTab: the spinner of the sessions turns before they are read, and
\* they are read only if the tab changes.
SelectSessions ==
    /\ detail # NoWorkspace /\ onSessions' = TRUE
    /\ UNCHANGED shownHere
    /\ IF onSessions \/ active = NoWorkspace
       THEN sessionsLoading' = TRUE /\ idleSpin' = TRUE /\ UNCHANGED requests
       ELSE Effect(TRUE, requests, TRUE)
    /\ UNCHANGED <<detailLoading, tasks, strayed>>

SelectOther ==
    /\ detail # NoWorkspace /\ onSessions /\ onSessions' = FALSE
    /\ UNCHANGED <<shownHere, turning, requests, tasks, strayed, idleSpin>>

\* The page comes back into view, or a filter of the sessions changes.
Requery ==
    /\ onSessions /\ active # NoWorkspace
    /\ UNCHANGED <<onSessions, shownHere>>
    /\ Effect(TRUE, requests, sessionsLoading)
    /\ UNCHANGED <<detailLoading, tasks, strayed>>

\* A command that will refresh the active workspace (a session is deleted,
\* renamed, launched; the list is read again), save a workspace or bind a server.
Begin(kind, w) ==
    /\ kind # "save" => w = active
    /\ BagCardinality(tasks) < MaxTasks
    /\ tasks' = And(tasks, [kind |-> kind, of |-> w, from |-> active,
                            on |-> kind = "refresh" /\ onSessions])
    /\ UNCHANGED <<onSessions, shownHere, turning, requests, strayed, idleSpin>>

\* What a command goes on with.
GoesOn(k) ==
    /\ tasks' = Less(tasks, k) /\ UNCHANGED onSessions
    /\ strayed' = (strayed \/ k.from # active)
    /\ IF k.kind = "bind"
       THEN /\ detail' = k.of
            /\ UNCHANGED <<active, sessions, turning, requests, idleSpin>>
       ELSE LoadDetail(k.of, k.from, k.kind = "save", k.on)

Fails(k) ==
    /\ tasks' = Less(tasks, k)
    /\ UNCHANGED <<onSessions, shownHere, turning, requests, strayed, idleSpin>>

-----------------------------------------------------------------------------
Without(r) == Less(requests, r)

\* The reply of the detail.  A refresh asks for the sessions next, whether the
\* reply still counted or not.
DetailDone(r, ok) ==
    LET on == IF r.on THEN Asked(Without(r), r.of, TRUE) ELSE Without(r)
    IN
    /\ r.kind = "detail" /\ UNCHANGED <<onSessions, sessions, tasks>>
    /\ IF r.live /\ ok THEN active' = r.of /\ detail' = r.of ELSE UNCHANGED <<active, detail>>
    /\ detailLoading' = (detailLoading /\ ~r.live)
    /\ Effect(active' # active, on, sessionsLoading)
    /\ strayed' = (strayed \/ (r.on /\ r.of # active'))

\* The reply of the sessions.
SessionsDone(r, ok) ==
    /\ r.kind = "sessions"
    /\ sessions' = IF r.live /\ ok THEN r.of ELSE sessions
    /\ requests' = IF r.live /\ ~r.silent
                   THEN And(Without(r), [r EXCEPT !.kind = "pause"])
                   ELSE Without(r)
    /\ sessionsLoading' = (sessionsLoading /\ ~(r.live /\ r.silent))
    /\ UNCHANGED <<onSessions, active, detail, detailLoading, tasks, strayed, idleSpin>>

PauseDone(r) ==
    /\ r.kind = "pause"
    /\ requests' = Without(r)
    /\ sessionsLoading' = (sessionsLoading /\ ~r.live)
    /\ UNCHANGED <<onSessions, shownHere, detailLoading, tasks, strayed, idleSpin>>

Next ==
    \/ \E w \in Workspaces :
        Open(w) \/ \E kind \in {"refresh", "save", "bind"} : Begin(kind, w)
    \/ Leave \/ SelectSessions \/ SelectOther \/ Requery
    \/ \E k \in BagToSet(tasks) : GoesOn(k) \/ Fails(k)
    \/ \E r \in BagToSet(requests) :
        PauseDone(r) \/ \E ok \in BOOLEAN : DetailDone(r, ok) \/ SessionsDone(r, ok)

Spec == Init /\ [][Next]_vars

-----------------------------------------------------------------------------
TypeOK ==
    /\ {active, detail, sessions} \subseteq Places
    /\ {onSessions, detailLoading, sessionsLoading, strayed, idleSpin} \subseteq BOOLEAN
    /\ IsABag(requests) /\ BagToSet(requests) \subseteq Request
    /\ IsABag(tasks) /\ BagToSet(tasks) \subseteq Task

\* Detail and sessions are those of the active workspace, however quickly the user
\* goes from one to another and however late the replies are, unless a command went
\* on for a workspace that is no longer active.  Without an active one nothing of
\* the sessions shows.
OwnWorkspaceOnly ==
    ~strayed /\ active # NoWorkspace => {detail, sessions} \subseteq {active, NoWorkspace}

\* Of the two spinners, each turns only while a reply is awaited that will stop it,
\* unless the tab of the sessions was selected while it was shown.
WorkspaceSpinnersStop ==
    /\ detailLoading =>
        \E r \in BagToSet(requests) : r.kind = "detail" /\ r.live
    /\ sessionsLoading /\ ~idleSpin =>
        \E r \in BagToSet(requests) : r.kind \in OfSessions /\ r.live
=============================================================================
