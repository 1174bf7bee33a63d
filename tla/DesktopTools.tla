----------------------------- MODULE DesktopTools -----------------------------
(* The parts of the desktop application and of its tools that run without a page:
   each is an instance of its module, over variables of its own.                *)
EXTENDS Naturals, FiniteSets

CONSTANTS
    Checks, Downloads, NoCheck, MaxRelease, MaxEpoch,             \* Updater
    Sessions, NoSession, MaxArrivals,                             \* CacheObserver
    Users, Watchdog, Nobody, Threads, NoThread, MaxPanics,        \* SshTunnel
    Attempts, NoAttempt, MaxEvents, MaxCancels,                   \* SftpTransfer
    Clients, MaxPublications                                      \* ConfigStore

VARIABLES
    status, checking, installable, manifest, pending, flight, epoch, checks,
    downloads, installs, entry, running,
    arrived, open, session, ended, selected, parsed, peers, selectedSession,
    previous, deferred, verdict, with, past,
    desired, claim, locked, instance, threads, callers, panics, wanted, raced,
    download, card, registered, attempts, events, cancels, file, disturbed,
    cleared, unannounced,
    disk, cached, writeLock, calls, during

updater == <<status, checking, installable, manifest, pending, flight, epoch,
    checks, downloads, installs, entry, running>>
observer == <<arrived, open, session, ended, selected, parsed, peers,
    selectedSession, previous, deferred, verdict, with, past>>
tunnel == <<desired, claim, locked, instance, threads, callers, panics, wanted,
    raced>>
transfer == <<download, card, registered, attempts, events, cancels, file,
    disturbed, cleared, unannounced>>
store == <<disk, cached, writeLock, calls, during>>

Update == INSTANCE Updater
Observer == INSTANCE CacheObserver WITH MaxRequests <- MaxArrivals
Tunnel == INSTANCE SshTunnel
Transfer == INSTANCE SftpTransfer
Store == INSTANCE ConfigStore
=============================================================================
