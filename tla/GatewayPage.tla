----------------------------- MODULE GatewayPage -----------------------------
(***************************************************************************)
(* The AI gateway page of the front end: hooks/useAiGatewayPageData.ts and *)
(* the commands of hooks/useAiGatewayPageActions.ts.  The page shows the   *)
(* configuration and the status it has read last; replies come late and    *)
(* out of order, and a generation number tells which of them still count.  *)
(*                                                                         *)
(* The native side is a version that grows with every change.  The gateway *)
(* broadcasts its own changes; those the user commands come back with the  *)
(* command.  A read has a flag for each number it carries, true as long as *)
(* the number is the current one, instead of the numbers.                  *)
(***************************************************************************)
EXTENDS Integers, FiniteSets

CONSTANTS Reads,       \* bound on the reads under way at once
          First,       \* the read a page starts with
          Commands,    \* bound on the commands under way at once
          MaxChanges,  \* bound on the changes of the configuration
          MaxHidden    \* bound on the times the page is hidden

GatewayPageAssumption ==
    /\ First \in Reads
    /\ MaxChanges \in Nat /\ MaxHidden \in Nat

Versions == 0..MaxChanges

\* What is read: everything (load), what a change of the configuration can
\* affect (runConfigScoped, allowed a follow-up or being one), the status
\* (refreshTodayUsage), the status after a command (applyConfig), the same
\* after a provider was saved.
Kinds == {"page", "scoped", "follow", "today", "apply", "save"}
OfConfig == {"page", "scoped", "follow"}

ReadStates == [pc : {"idle", "asked", "answered"}, kind : Kinds, live : BOOLEAN,
               slive : BOOLEAN, seen : Versions]
CommandStates == [pc : {"idle", "sent", "done"}, seen : Versions]

VARIABLES
    version,   \* of the configuration and the status on the native side
    events,    \* the broadcasts on their way
    shownConfig, shownStatus,     \* the versions shown
    visible,
    inFlight, pending,  \* configInFlightRef, configPendingRef
    reads, commands,
    loadError,  \* the last read of the configuration has failed
    hidden,     \* how often the page has been hidden
    saved       \* history: a provider was saved

page == <<shownConfig, shownStatus>>
scoped == <<inFlight, pending>>
vars == <<version, events, page, visible, scoped, loadError, reads, commands, hidden,
          saved>>

IdleRead == [pc |-> "idle", kind |-> "page", live |-> FALSE, slive |-> FALSE,
             seen |-> 0]
IdleCommand == [pc |-> "idle", seen |-> 0]
NewRead(kind) == [pc |-> "asked", kind |-> kind, live |-> TRUE, slive |-> TRUE,
                  seen |-> 0]

Init ==
    /\ version = 0 /\ events = 0
    /\ shownConfig = 0 /\ shownStatus = 0
    /\ visible = TRUE /\ inFlight = FALSE /\ pending = FALSE
    /\ reads = [r \in Reads |-> IF r = First THEN NewRead("page") ELSE IdleRead]
    /\ commands = [c \in Commands |-> IdleCommand]
    /\ loadError = FALSE /\ hidden = 0 /\ saved = FALSE

\* The reads after the generation of the status has been raised, and that of the
\* configuration with it.
Superseded(withConfig) ==
    [r \in Reads |-> [reads[r] EXCEPT !.live = @ /\ ~withConfig, !.slive = FALSE]]

\* The place of the next read.  Places are all alike.
Room == \E r \in Reads : reads[r].pc = "idle"
Place == CHOOSE r \in Reads : reads[r].pc = "idle"

\* A new read raises the generations it carries.
Started(kind) ==
    /\ Room
    /\ reads' = [Superseded(kind # "today") EXCEPT ![Place] = NewRead(kind)]

-----------------------------------------------------------------------------
\* The native side: a change of the gateway's own, which it broadcasts, the
\* answer to a read, a command of the user's.
Change ==
    /\ version < MaxChanges
    /\ version' = version + 1 /\ events' = events + 1
    /\ UNCHANGED <<page, visible, scoped, loadError, reads, commands, hidden, saved>>

Answer(r) ==
    /\ reads[r].pc = "asked"
    /\ reads' = [reads EXCEPT ![r].pc = "answered", ![r].seen = version]
    /\ UNCHANGED <<version, events, page, visible, scoped, loadError, commands, hidden,
                   saved>>

Send(c) ==
    /\ commands[c].pc = "idle" /\ visible
    /\ commands' = [commands EXCEPT ![c].pc = "sent"]
    /\ UNCHANGED <<version, events, page, visible, scoped, loadError, reads, hidden,
                   saved>>

Execute(c) ==
    /\ commands[c].pc = "sent" /\ version < MaxChanges
    /\ version' = version + 1
    /\ commands' = [commands EXCEPT ![c] = [pc |-> "done", seen |-> version + 1]]
    /\ UNCHANGED <<events, page, visible, scoped, loadError, reads, hidden, saved>>

\* A command that answers with something else is followed by a read of the
\* configuration, whose answer is applied like that of the others.
Reread(c) ==
    /\ commands[c].pc = "done" /\ commands[c].seen # version
    /\ commands' = [commands EXCEPT ![c].seen = version]
    /\ UNCHANGED <<version, events, page, visible, scoped, loadError, reads, hidden,
                   saved>>

CommandFails(c) ==
    /\ commands[c].pc = "sent"
    /\ commands' = [commands EXCEPT ![c] = IdleCommand]
    /\ UNCHANGED <<version, events, page, visible, scoped, loadError, reads, hidden,
                   saved>>

-----------------------------------------------------------------------------
\* loadConfigScoped: a hidden page, and one that reads already, only remember
\* that there is more to read.
LoadScoped ==
    IF ~visible \/ inFlight
    THEN /\ pending' = TRUE
         /\ UNCHANGED <<inFlight, loadError, reads>>
    ELSE /\ Started("scoped")
         /\ inFlight' = TRUE /\ pending' = FALSE /\ loadError' = FALSE

\* The listener of the broadcast.
Broadcast ==
    /\ events > 0 /\ events' = events - 1
    /\ LoadScoped
    /\ UNCHANGED <<version, page, visible, commands, hidden, saved>>

\* The reply of a command that answers with the configuration; applyConfig
\* reads the status next.
Apply(c) ==
    /\ commands[c].pc = "done"
    /\ shownConfig' = commands[c].seen
    /\ Started("apply")
    /\ commands' = [commands EXCEPT ![c] = IdleCommand]
    /\ UNCHANGED <<version, events, shownStatus, visible, scoped, loadError, hidden, saved>>

\* handleSaveProvider: the same, but its read of the status is not guarded.
Saved(c) ==
    /\ commands[c].pc = "done"
    /\ shownConfig' = commands[c].seen
    /\ Started("save")
    /\ commands' = [commands EXCEPT ![c] = IdleCommand]
    /\ saved' = TRUE
    /\ UNCHANGED <<version, events, shownStatus, visible, scoped, loadError, hidden>>

\* handleSavePool: the configuration, and no read but that of the pools.
PoolSaved(c) ==
    /\ commands[c].pc = "done"
    /\ shownConfig' = commands[c].seen
    /\ reads' = Superseded(TRUE)
    /\ commands' = [commands EXCEPT ![c] = IdleCommand]
    /\ UNCHANGED <<version, events, shownStatus, visible, scoped, loadError, hidden,
                   saved>>

\* handleUpsertTemplate: the configuration is read anew.
TemplateSaved(c) ==
    /\ commands[c].pc = "done"
    /\ LoadScoped
    /\ commands' = [commands EXCEPT ![c] = IdleCommand]
    /\ UNCHANGED <<version, events, page, visible, hidden, saved>>

\* refreshTodayUsage, by the interval, the focus of the window or the user.
Today ==
    /\ visible
    /\ Started("today")
    /\ UNCHANGED <<version, events, page, visible, scoped, loadError, commands, hidden,
                   saved>>

\* The page is hidden, and comes back with a full read.
Hide ==
    /\ visible /\ hidden < MaxHidden
    /\ visible' = FALSE /\ hidden' = hidden + 1
    /\ reads' = Superseded(TRUE)
    /\ UNCHANGED <<version, events, page, scoped, loadError, commands, saved>>

Show ==
    /\ ~visible /\ visible' = TRUE /\ loadError' = FALSE
    /\ Started("page")
    /\ UNCHANGED <<version, events, page, scoped, commands, hidden, saved>>

-----------------------------------------------------------------------------
\* What a reply puts on the page, if it still counts.
Shows(r, ok) ==
    LET d == reads[r] IN
    /\ shownConfig' = IF ok /\ d.live /\ d.kind \in OfConfig THEN d.seen
                     ELSE shownConfig
    /\ shownStatus' = IF /\ ok
                         /\ \/ d.kind = "save"
                            \/ d.kind = "today" /\ d.slive
                            \/ d.live /\ d.slive
                      THEN d.seen ELSE shownStatus

\* And whether an error stays on it.
Failed(r, ok) ==
    loadError \/ (~ok /\ reads[r].kind \in OfConfig /\ reads[r].live)

\* The end of a full read, of a read of the status, or of one after a command.
Land(r, ok) ==
    /\ reads[r].pc = "answered" /\ reads[r].kind \notin {"scoped", "follow"}
    /\ Shows(r, ok) /\ loadError' = Failed(r, ok)
    /\ reads' = [reads EXCEPT ![r] = IdleRead]
    /\ UNCHANGED <<version, events, visible, scoped, commands, hidden, saved>>

\* runConfigScoped reads once more what was broadcast meanwhile, if it is allowed
\* to, and nothing has superseded it.
FollowUp(r) ==
    reads[r].kind = "scoped" /\ pending /\ visible /\ reads[r].live

\* The end of a scoped read; the one that follows begins without an error.
LandScoped(r, ok) ==
    /\ reads[r].pc = "answered" /\ reads[r].kind \in {"scoped", "follow"}
    /\ Shows(r, ok) /\ loadError' = (~FollowUp(r) /\ Failed(r, ok))
    /\ inFlight' = FALSE /\ pending' = FALSE
    /\ reads' = IF FollowUp(r)
                THEN [Superseded(TRUE) EXCEPT ![r] = NewRead("follow")]
                ELSE [reads EXCEPT ![r] = IdleRead]
    /\ UNCHANGED <<version, events, visible, commands, hidden, saved>>

Native ==
    \/ Change
    \/ \E c \in Commands : Send(c) \/ Execute(c) \/ Reread(c) \/ CommandFails(c)

Next ==
    \/ Native \/ Broadcast \/ Today \/ Hide \/ Show
    \/ \E c \in Commands : Apply(c) \/ Saved(c) \/ PoolSaved(c) \/ TemplateSaved(c)
    \/ \E r \in Reads :
        Answer(r) \/ \E ok \in BOOLEAN : Land(r, ok) \/ LandScoped(r, ok)

Spec == Init /\ [][Next]_vars

-----------------------------------------------------------------------------
TypeOK ==
    /\ version \in Versions /\ events \in 0..MaxChanges
    /\ shownConfig \in Versions /\ shownStatus \in Versions
    /\ visible \in BOOLEAN /\ inFlight \in BOOLEAN /\ pending \in BOOLEAN
    /\ reads \in [Reads -> ReadStates] /\ commands \in [Commands -> CommandStates]
    /\ hidden \in 0..MaxHidden /\ loadError \in BOOLEAN /\ saved \in BOOLEAN

\* However the replies of reads, commands and broadcasts overtake one another and
\* however often the page is hidden, no read brings back an older configuration
\* than the page has shown, only the reply of a command may; nor an older status,
\* as long as no provider was saved, which reads the status without a number.
ReadsNeverGoBack ==
    [][/\ shownConfig' < shownConfig =>
            \E c \in Commands : commands[c].pc = "done" /\ commands'[c].pc = "idle"
       /\ shownStatus' < shownStatus => saved]_vars

\* A scoped read that is superseded or fails still makes room for the next one:
\* broadcasts are never put off for a read that nobody does.
NeverLockedOut ==
    inFlight => \E r \in Reads : reads[r].pc # "idle" /\ reads[r].kind = "scoped"

\* Everything is read and answered, and the last read succeeded.
Quiet ==
    /\ visible /\ events = 0 /\ ~loadError
    /\ \A r \in Reads : reads[r].pc = "idle"
    /\ \A c \in Commands : commands[c].pc = "idle"

\* The comment at useAiGatewayPageData.ts:425: what the gateway broadcasts shows
\* without a change of tabs or a restart.
BroadcastsShow == Quiet => shownConfig = version
=============================================================================
