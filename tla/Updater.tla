------------------------------- MODULE Updater -------------------------------
(***************************************************************************)
(* The application updater: the front end's module of lib/updater.ts (one  *)
(* state, one pending update, one check in flight per transport epoch) and *)
(* the native entries of src-tauri/src/updater.rs that hold the update     *)
(* handle and its verified bytes.  A command is three steps: the call, its *)
(* effect in the native process and its reply; other calls fall between.   *)
(*                                                                         *)
(* Versions are numbers; 0 stands for "none".  An update's id names its    *)
(* version, so the id is the version.  The schedulers and the dialogs that *)
(* call the module are its environment.                                    *)
(***************************************************************************)
EXTENDS Integers

CONSTANTS Checks,      \* bound on the checks under way at once, stale ones too
          Downloads,   \* bound on the downloads under way at once
          NoCheck,     \* no check in flight
          MaxRelease,  \* bound on the releases
          MaxEpoch     \* bound on the changes of the proxy

UpdaterAssumption ==
    /\ NoCheck \notin Checks
    /\ MaxRelease \in Nat /\ MaxEpoch \in Nat

None == 0
Failed == -1
Versions == 0..MaxRelease
Statuses == {"idle", "checking", "available", "downloading", "downloaded",
             "installing", "error"}

CheckStates == [pc : {"idle", "asked", "answered", "fallback"},
                epoch : 0..MaxEpoch, seen : Versions \cup {Failed}]
DownloadStates == [pc : {"idle", "asked", "fetching", "stored", "failed"},
                   id : Versions, byUser : BOOLEAN]

VARIABLES
    status, checking, installable, manifest, \* state
    pending,    \* pendingUpdate
    flight,     \* inFlightCheckPromise
    epoch,      \* checkEpoch
    checks, downloads,
    installs,   \* the ids of the install commands under way
    entry,      \* the native entry: an id and whether its bytes are verified
    running     \* the version that runs

front == <<status, checking, installable, manifest, pending, flight, epoch>>
vars == <<front, checks, downloads, installs, entry, running>>

IdleCheck == [pc |-> "idle", epoch |-> 0, seen |-> None]
IdleDownload == [pc |-> "idle", id |-> None, byUser |-> FALSE]
NoEntry == [id |-> None, verified |-> FALSE]

Init ==
    /\ status = "idle" /\ checking = FALSE /\ installable = FALSE
    /\ manifest = None /\ pending = None
    /\ flight = NoCheck /\ epoch = 0
    /\ checks = [c \in Checks |-> IdleCheck]
    /\ downloads = [d \in Downloads |-> IdleDownload]
    /\ installs = {} /\ entry = NoEntry
    /\ running = 0

\* What is offered: the versions newer than what runs.  The endpoint and GitHub
\* may offer any of them, and an older one after the user has left the beta
\* channel or a release was withdrawn.
Offered == {v \in Versions : v > running}

\* A check that was started before the transport changed.
Stale(c) == checks[c].epoch # epoch

-----------------------------------------------------------------------------
\* checkForUpdates: within the throttle window, or while a check is in flight,
\* a call starts nothing.  The window may have ended at any time, so a call that
\* it throttles is no step of the model.
Check(c) ==
    /\ checks[c].pc = "idle"
    /\ flight = NoCheck
    /\ checks' = [checks EXCEPT ![c] = [pc |-> "asked", epoch |-> epoch,
                                        seen |-> None]]
    /\ flight' = c
    /\ status' = "checking" /\ checking' = TRUE
    /\ UNCHANGED <<installable, manifest, pending, epoch, downloads,
                   installs, entry, running>>

\* app_updater_check: the endpoint fails, or answers, and what was found replaces
\* every earlier entry.
Look(c) ==
    /\ checks[c].pc = "asked"
    /\ \E v \in Offered \cup {None, Failed} :
        /\ checks' = [checks EXCEPT ![c].pc = "answered", ![c].seen = v]
        /\ entry' = IF v = Failed THEN entry ELSE [id |-> v, verified |-> FALSE]
    /\ UNCHANGED <<front, downloads, installs, running>>

\* The end of a check of the current transport.
Publish(c, st, v, inst) ==
    /\ status' = st /\ manifest' = v /\ installable' = inst
    /\ pending' = (IF inst THEN v ELSE None)
    /\ checking' = FALSE /\ flight' = NoCheck
    /\ checks' = [checks EXCEPT ![c] = IdleCheck]
    /\ UNCHANGED epoch

\* A mistake: the error leaves the check shown.
PublishError_StillChecking(c) ==
    /\ status' = "error" /\ flight' = NoCheck
    /\ checks' = [checks EXCEPT ![c] = IdleCheck]
    /\ UNCHANGED <<checking, manifest, installable, pending, epoch>>

\* A failed check leaves the update it knew of as it was.
PublishError(c) ==
    /\ status' = "error" /\ checking' = FALSE /\ flight' = NoCheck
    /\ checks' = [checks EXCEPT ![c] = IdleCheck]
    /\ UNCHANGED <<manifest, installable, pending, epoch>>

\* The reply of a check that the transport has outlived is dropped.
Drop(c) ==
    /\ checks[c].pc \in {"answered", "fallback"} /\ Stale(c)
    /\ checks' = [checks EXCEPT ![c] = IdleCheck]
    /\ UNCHANGED <<front, downloads, installs, entry, running>>

\* The reply of app_updater_check; GitHub is asked when a check that is not
\* silent found nothing, and when the endpoint or the network failed.  Nothing
\* but this step depends on whether the check is silent.
Reply(c, silent) ==
    LET k == checks[c] IN
    /\ k.pc = "answered" /\ ~Stale(c)
    /\ \/ k.seen \notin {None, Failed} /\ Publish(c, "available", k.seen, TRUE)
       \/ k.seen = None /\ silent /\ Publish(c, "idle", None, FALSE)
       \/ k.seen = Failed /\ PublishError(c)
       \/ /\ k.seen = Failed \/ (k.seen = None /\ ~silent)
          /\ checks' = [checks EXCEPT ![c].pc = "fallback"]
          /\ UNCHANGED front
    /\ UNCHANGED <<downloads, installs, entry, running>>

\* The answer of GitHub: an update to open in the browser, none, or a failure,
\* which the check that found nothing ignores.
Fallback(c) ==
    /\ checks[c].pc = "fallback" /\ ~Stale(c)
    /\ \/ \E v \in Offered : Publish(c, "available", v, FALSE)
       \/ Publish(c, "idle", None, FALSE)
       \/ checks[c].seen = Failed /\ PublishError(c)
    /\ UNCHANGED <<downloads, installs, entry, running>>

\* A mistake: the check under way keeps counting.
Invalidate_SameEpoch ==
    /\ flight # NoCheck
    /\ flight' = NoCheck /\ checking' = FALSE
    /\ status' = IF status = "checking" THEN "idle" ELSE status
    /\ UNCHANGED <<installable, manifest, pending, epoch, checks, downloads,
                   installs, entry, running>>

\* invalidateUpdaterTransport: the proxy has changed.
Invalidate ==
    /\ epoch < MaxEpoch
    /\ epoch' = epoch + 1
    /\ flight' = NoCheck /\ checking' = FALSE
    /\ status' = IF status = "checking" THEN "idle" ELSE status
    /\ UNCHANGED <<installable, manifest, pending, checks, downloads, installs,
                   entry, running>>

-----------------------------------------------------------------------------
\* downloadUpdateIfAvailable, by a scheduler or by the user, whose click on a
\* downloaded update installs it instead.
Download(d, byUser) ==
    /\ downloads[d].pc = "idle"
    /\ pending # None /\ installable /\ status \notin {"downloading", "installing"}
    /\ byUser => status # "downloaded"
    /\ status' = "downloading"
    /\ downloads' = [downloads EXCEPT ![d] = [pc |-> "asked", id |-> pending,
                                              byUser |-> byUser]]
    /\ UNCHANGED <<checking, installable, manifest, pending, flight, epoch,
                   checks, installs, entry, running>>

\* app_updater_download: the handle is looked up and kept for the transfer.
LookUp(d) ==
    /\ downloads[d].pc = "asked"
    /\ downloads' = [downloads EXCEPT
         ![d].pc = IF entry.id = downloads[d].id THEN "fetching" ELSE "failed"]
    /\ UNCHANGED <<front, checks, installs, entry, running>>

\* The bytes are verified and stored, if their entry is still there.
Fetched(d) ==
    /\ downloads[d].pc = "fetching"
    /\ downloads' = [downloads EXCEPT ![d].pc = "stored"]
    /\ entry' = IF entry.id = downloads[d].id
                THEN [entry EXCEPT !.verified = TRUE] ELSE entry
    /\ UNCHANGED <<front, checks, installs, running>>

FetchFails(d) ==
    /\ downloads[d].pc = "fetching"
    /\ downloads' = [downloads EXCEPT ![d].pc = "failed"]
    /\ UNCHANGED <<front, checks, installs, entry, running>>

\* A mistake: nobody asks whether an update still waits to be installed.
Downloaded_NoPending(d) ==
    /\ downloads[d].pc = "stored"
    /\ IF downloads[d].byUser
       THEN status' = "installing" /\ installs' = installs \cup {pending}
       ELSE status' = "downloaded" /\ UNCHANGED installs
    /\ downloads' = [downloads EXCEPT ![d] = IdleDownload]
    /\ UNCHANGED <<checking, installable, manifest, pending, flight, epoch,
                   checks, entry, running>>

\* The reply of app_updater_download.  A download the user asked for goes on to
\* install the pending update.
Downloaded(d) ==
    /\ downloads[d].pc = "stored"
    /\ IF downloads[d].byUser /\ pending # None
       THEN status' = "installing" /\ installs' = installs \cup {pending}
       ELSE status' = "downloaded" /\ UNCHANGED installs
    /\ downloads' = [downloads EXCEPT ![d] = IdleDownload]
    /\ UNCHANGED <<checking, installable, manifest, pending, flight, epoch,
                   checks, entry, running>>

DownloadFailed(d) ==
    /\ downloads[d].pc = "failed"
    /\ status' = "error"
    /\ downloads' = [downloads EXCEPT ![d] = IdleDownload]
    /\ UNCHANGED <<checking, installable, manifest, pending, flight, epoch,
                   checks, installs, entry, running>>

\* installDownloadedUpdate.
Install ==
    /\ pending # None /\ status = "downloaded"
    /\ status' = "installing" /\ installs' = installs \cup {pending}
    /\ UNCHANGED <<checking, installable, manifest, pending, flight, epoch,
                   checks, downloads, entry, running>>

\* app_updater_install needs the verified bytes of just this id; then the
\* application starts anew.
Relaunch(id) ==
    /\ id \in installs /\ entry = [id |-> id, verified |-> TRUE]
    /\ running' = id
    /\ status' = "idle" /\ checking' = FALSE /\ installable' = FALSE
    /\ manifest' = None /\ pending' = None
    /\ flight' = NoCheck /\ epoch' = 0
    /\ checks' = [c \in Checks |-> IdleCheck]
    /\ downloads' = [d \in Downloads |-> IdleDownload]
    /\ installs' = {} /\ entry' = NoEntry

InstallFails(id) ==
    /\ id \in installs
    /\ status' = "error" /\ installs' = installs \ {id}
    /\ UNCHANGED <<checking, installable, manifest, pending, flight, epoch,
                   checks, downloads, entry, running>>

-----------------------------------------------------------------------------
CheckStep(c) ==
    \/ Look(c) \/ Drop(c) \/ Fallback(c)
    \/ \E silent \in BOOLEAN : Reply(c, silent)
DownloadStep(d) ==
    LookUp(d) \/ Fetched(d) \/ FetchFails(d) \/ Downloaded(d) \/ DownloadFailed(d)

Next ==
    \/ \E c \in Checks : Check(c)
    \/ \E c \in Checks : CheckStep(c)
    \/ \E d \in Downloads, byUser \in BOOLEAN : Download(d, byUser)
    \/ \E d \in Downloads : DownloadStep(d)
    \/ \E id \in installs : Relaunch(id) \/ InstallFails(id)
    \/ Install \/ Invalidate

Spec == Init /\ [][Next]_vars

-----------------------------------------------------------------------------
TypeOK ==
    /\ status \in Statuses /\ checking \in BOOLEAN /\ installable \in BOOLEAN
    /\ manifest \in Versions /\ pending \in Versions
    /\ flight \in Checks \cup {NoCheck} /\ epoch \in 0..MaxEpoch
    /\ checks \in [Checks -> CheckStates]
    /\ downloads \in [Downloads -> DownloadStates]
    /\ installs \subseteq Versions \ {None}
    /\ entry \in [id : Versions, verified : BOOLEAN]
    /\ running \in Versions

\* However checks are started, throttled, joined and invalidated, at most one
\* check of the present transport is under way, and the callers who ask
\* meanwhile join that one.
OneFlight ==
    \A c \in Checks : checks[c].pc # "idle" /\ ~Stale(c) => flight = c

\* The spinner: the application shows that it checks for updates only while a
\* check is under way that will publish its end, whatever checks were
\* invalidated, failed or fell back meanwhile.
CheckingHasFlight ==
    checking \/ status = "checking" =>
        /\ flight # NoCheck
        /\ checks[flight].pc # "idle" /\ ~Stale(flight)

\* What the user would install is the version the application shows: an
\* installable update is pending, and the pending update is the one in the
\* manifest, through fallbacks to GitHub, failures and late downloads.
PendingIsShown ==
    /\ installable <=> pending # None
    /\ pending # None => pending = manifest
=============================================================================
