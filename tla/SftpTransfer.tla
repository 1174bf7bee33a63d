---------------------------- MODULE SftpTransfer ----------------------------
(***************************************************************************)
(* One task of the SFTP tool: the card that the panel of transfers shows   *)
(* (quickSftp/actions/transferActions.ts, QuickSftpTool.tsx) and the       *)
(* commands behind it (src-tauri/src/sftp/transfer.rs).  The card follows  *)
(* the events of the task, and the replies of the commands, which are not  *)
(* ordered with the events.  A retry runs under the id of its task, so     *)
(* that two attempts may share the entry of the running transfers and the  *)
(* partial file.                                                           *)
(***************************************************************************)
EXTENDS Integers, Sequences

CONSTANTS Attempts,   \* bound on the attempts under way at once
          NoAttempt,
          MaxEvents,  \* bound on the events on their way
          MaxCancels  \* bound on the cancellations under way at once

SftpTransferAssumption ==
    NoAttempt \notin Attempts /\ MaxEvents \in Nat /\ MaxCancels \in Nat

CardStatuses == {"transferring", "completed", "error", "cancelled"}
Card == [status : CardStatuses \cup {"none"}, retry : BOOLEAN]
NoCard == [status |-> "none", retry |-> FALSE]

\* An attempt has been called, streams, has come to the end of its stream, has
\* failed or succeeded and not replied yet.  Its stream is the whole file or not, and
\* another attempt may have written to the same file.
AttemptStates == [pc : {"idle", "called", "streaming", "ended", "failed", "succeeded"},
                  whole : BOOLEAN, shared : BOOLEAN]
IdleAttempt == [pc |-> "idle", whole |-> TRUE, shared |-> FALSE]

VARIABLES
    download,    \* the task downloads
    card,        \* its card: the status, and whether it can be retried
    registered,  \* the attempt whose child get_active_transfers() holds
    attempts,
    events,      \* the statuses on their way
    cancels,     \* the cancellations called, and those to reply
    file,        \* the target: as it was, the whole file, or a part of one
    disturbed,   \* history: the task was cancelled, or two attempts overlapped
    cleared,     \* history: the card was cleared
    unannounced  \* history: an attempt failed without an event

now == <<download, card>>
histories == <<disturbed, cleared, unannounced>>
vars == <<now, registered, attempts, events, cancels, file, histories>>

Init ==
    /\ download \in BOOLEAN /\ card = NoCard
    /\ registered = NoAttempt
    /\ attempts = [a \in Attempts |-> IdleAttempt]
    /\ events = <<>> /\ cancels = [called |-> 0, done |-> 0]
    /\ file = "old"
    /\ disturbed = FALSE /\ cleared = FALSE /\ unannounced = FALSE

Is(a, pc) == attempts[a].pc = pc
Goes(a, pc) == attempts' = [attempts EXCEPT ![a].pc = pc]
Emit(status) == Len(events) < MaxEvents /\ events' = Append(events, status)
Forget == registered' = NoAttempt

\* The command of a new attempt is called and the card shows it.
Call(a) ==
    /\ Is(a, "idle")
    /\ attempts' = [attempts EXCEPT ![a] = [IdleAttempt EXCEPT !.pc = "called"]]
    /\ card' = [status |-> "transferring", retry |-> TRUE]
    /\ disturbed' = (disturbed \/ \E b \in Attempts \ {a} : ~Is(b, "idle"))
    /\ UNCHANGED <<download, registered, events, cancels, file, cleared, unannounced>>

\* handleDownloadFile and handleUploadFiles, once for a task; handleRetryTransfer,
\* which a failed card with the parameters of its call offers.
Begin(a) == card.status = "none" /\ ~cleared /\ \A b \in Attempts : Is(b, "idle") /\ Call(a)
Retry(a) == card.status = "error" /\ card.retry /\ Call(a)

\* handleCancelTransfer, offered while the card shows a transfer.
Cancel ==
    /\ card.status = "transferring" /\ cancels.called + cancels.done < MaxCancels
    /\ cancels' = [cancels EXCEPT !.called = @ + 1]
    /\ UNCHANGED <<now, registered, attempts, events, file, histories>>

\* Clears the card of a task that is not transferring.
Clear ==
    /\ card.status \in CardStatuses \ {"transferring"}
    /\ card' = NoCard /\ cleared' = TRUE
    /\ UNCHANGED <<download, registered, attempts, events, cancels, file, disturbed,
                   unannounced>>

-----------------------------------------------------------------------------
\* sftp_cancel_transfer takes the child, kills it and says so, be there a child or
\* not.
CancelRuns ==
    /\ cancels.called > 0
    /\ cancels' = [called |-> cancels.called - 1, done |-> cancels.done + 1]
    /\ Forget /\ Emit("cancelled") /\ disturbed' = TRUE
    /\ attempts' = [a \in Attempts |->
            [attempts[a] EXCEPT !.whole = @ /\ ~(a = registered /\ Is(a, "streaming"))]]
    /\ UNCHANGED <<now, file, cleared, unannounced>>

\* sftp_download_file, sftp_upload_file: what may fail before a child runs.
FailsEarly(a) ==
    /\ Is(a, "called") /\ Goes(a, "failed")
    /\ UNCHANGED <<now, registered, events, cancels, file, histories>>

\* The file is created and the child registered, over those of an earlier attempt.
Spawn(a) ==
    /\ Is(a, "called") /\ registered' = a
    /\ LET others == {b \in Attempts : Is(b, "streaming") \/ Is(b, "ended")} IN
       attempts' = [b \in Attempts |->
            CASE b = a -> [attempts[a] EXCEPT !.pc = "streaming", !.shared = others # {}]
              [] b \in others -> [attempts[b] EXCEPT !.shared = TRUE]
              [] OTHER -> attempts[b]]
    /\ UNCHANGED <<now, events, cancels, file, histories>>

Progress(a) ==
    /\ Is(a, "streaming") /\ Emit("transferring")
    /\ UNCHANGED <<now, registered, attempts, cancels, file, histories>>

\* The local file of an upload cannot be opened: the child stays behind, and has
\* opened the remote file.
OpenFails(a) ==
    /\ Is(a, "streaming") /\ ~download /\ Goes(a, "failed")
    /\ file' = "part" /\ unannounced' = TRUE
    /\ UNCHANGED <<now, registered, events, cancels, disturbed, cleared>>

\* A read or a write of the stream fails; an upload has written a part.
StreamFails(a) ==
    /\ Is(a, "streaming") /\ Goes(a, "failed") /\ Forget /\ Emit("error")
    /\ file' = IF download THEN file ELSE "part"
    /\ UNCHANGED <<now, cancels, histories>>

\* The end of the stream, which may be that of a broken connection.
StreamEnds(a, whole) ==
    /\ Is(a, "streaming")
    /\ whole => attempts[a].whole
    /\ attempts' = [attempts EXCEPT ![a].pc = "ended", ![a].whole = whole]
    /\ UNCHANGED <<now, registered, events, cancels, file, histories>>

\* The child that is registered is taken out and waited for.  Its exit tells whether
\* its stream was whole, which may not be this one's.
ExitFails(a) ==
    /\ Is(a, "ended") /\ registered # NoAttempt
    /\ registered = a => ~attempts[a].whole
    /\ Forget /\ Goes(a, "failed") /\ Emit("error")
    /\ file' = IF download THEN file ELSE "part"
    /\ UNCHANGED <<now, cancels, histories>>

\* The exit is a success, or there is no child to wait for.
Exits(a) == registered = a => attempts[a].whole

\* The partial file becomes the target.
Finish(a) ==
    /\ Is(a, "ended") /\ Exits(a)
    /\ Forget /\ Goes(a, "succeeded") /\ Emit("completed")
    /\ file' = IF attempts[a].whole /\ ~attempts[a].shared THEN "whole" ELSE "part"
    /\ UNCHANGED <<now, cancels, histories>>

RenameFails(a) ==
    /\ Is(a, "ended") /\ download /\ Exits(a)
    /\ Forget /\ Goes(a, "failed") /\ unannounced' = TRUE
    /\ UNCHANGED <<now, events, cancels, file, disturbed, cleared>>

-----------------------------------------------------------------------------
\* A mistake: what a retry needs goes with the event.
Event_ForgetsCall ==
    /\ events # <<>> /\ events' = Tail(events)
    /\ card' = [status |-> Head(events), retry |-> FALSE]
    /\ UNCHANGED <<download, registered, attempts, cancels, file, histories>>

\* The listener of the progress: an event replaces the card, and puts one back that
\* was cleared; what a retry needs is kept.
Event ==
    /\ events # <<>> /\ events' = Tail(events)
    /\ card' = [card EXCEPT !.status = Head(events)]
    /\ UNCHANGED <<download, registered, attempts, cancels, file, histories>>

\* The rejection of the command shows, on whatever the card is by now; a success
\* shows by its event.
Replied(a) ==
    /\ attempts[a].pc \in {"failed", "succeeded"}
    /\ card' = IF Is(a, "failed") THEN [status |-> "error", retry |-> TRUE] ELSE card
    /\ attempts' = [attempts EXCEPT ![a] = IdleAttempt]
    /\ UNCHANGED <<download, registered, events, cancels, file, histories>>

CancelReplied ==
    /\ cancels.done > 0 /\ cancels' = [cancels EXCEPT !.done = @ - 1]
    /\ card' = IF card.status = "none" THEN card ELSE [card EXCEPT !.status = "cancelled"]
    /\ UNCHANGED <<download, registered, attempts, events, file, histories>>

Next ==
    \/ \E a \in Attempts :
        \/ Begin(a) \/ Retry(a) \/ FailsEarly(a) \/ Spawn(a) \/ Progress(a)
        \/ OpenFails(a) \/ StreamFails(a) \/ ExitFails(a) \/ Finish(a) \/ RenameFails(a)
        \/ Replied(a) \/ \E whole \in BOOLEAN : StreamEnds(a, whole)
    \/ Cancel \/ Clear \/ CancelRuns \/ Event \/ CancelReplied

Spec == Init /\ [][Next]_vars

-----------------------------------------------------------------------------
TypeOK ==
    /\ download \in BOOLEAN /\ card \in Card
    /\ registered \in Attempts \cup {NoAttempt}
    /\ attempts \in [Attempts -> AttemptStates]
    /\ events \in Seq(CardStatuses)
    /\ cancels \in [called : 0..MaxCancels, done : 0..MaxCancels]
    /\ file \in {"old", "whole", "part"}
    /\ {disturbed, cleared, unannounced} \subseteq BOOLEAN

\* A download that fails leaves the local file as it was: it is replaced by a whole
\* file only, unless the user cancelled the task or retried it while the attempt
\* before had not replied.
FailureKeepsFile == download /\ file = "part" => disturbed

\* A task that failed offers its retry, whatever events and replies came in between,
\* unless the card was cleared meanwhile.
RetryOffered == card.status = "error" => card.retry \/ cleared

\* A card shows a transfer only while something is on its way that will end it,
\* unless an attempt failed without an event.
CardsEnd ==
    card.status = "transferring" /\ ~unannounced =>
        \/ \E a \in Attempts : ~Is(a, "idle")
        \/ events # <<>> \/ cancels.called + cancels.done > 0
=============================================================================
