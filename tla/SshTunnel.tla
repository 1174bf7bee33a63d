------------------------------ MODULE SshTunnel ------------------------------
(***************************************************************************)
(* One SSH tunnel: the commands that connect and disconnect it, the thread *)
(* that supervises its connection and the watchdog that starts it anew     *)
(* (ssh_tunnels/forwarding_runtime).  Four things are shared, each under a *)
(* lock of its own: the entry of the runtime manager, the start claim, the *)
(* set of desired tunnels, which says whether it should run, and the stop  *)
(* flag of each thread.  Tunnels do not affect one another.                *)
(*                                                                         *)
(* A step is what a command does under one lock.  The manager's lock is a  *)
(* variable only where a command takes another lock while holding it.      *)
(***************************************************************************)
EXTENDS Integers

CONSTANTS Users,      \* bound on the commands under way at once
          Watchdog, Nobody,
          Threads, NoThread,
          MaxPanics   \* bound on the threads that end unexpectedly

SshTunnelAssumption ==
    /\ Watchdog \notin Users /\ Nobody \notin Users \cup {Watchdog}
    /\ NoThread \notin Threads /\ MaxPanics \in Nat

Callers == Users \cup {Watchdog}

\* A thread before its connection is up, with it, in its back-off, ended.  What it
\* has said of its start, and whether its status is the terminal Error.
ThreadStates == [pc : {"trying", "up", "waiting", "ended"}, stop : BOOLEAN,
                 told : {"nothing", "connected", "failed"}, error : BOOLEAN]
CallerStates == [pc : {"idle", "replace", "join", "resolve", "insert", "reconcile",
                       "await", "abandon", "remove", "take", "drain", "seen",
                       "missing", "mark"},
                 thread : Threads \cup {NoThread}]

VARIABLES
    desired,   \* DESIRED_TUNNEL_IDS has the tunnel
    claim,     \* who holds the start claim
    locked,    \* the watchdog holds the manager's lock between two steps
    instance,  \* the manager's entry
    threads, callers,
    panics,
    wanted,    \* history: the user's last word was to connect
    raced      \* history: a disconnect fell into the watchdog's start

history == <<wanted, raced>>
vars == <<desired, claim, locked, instance, threads, callers, panics, history>>

Idle == [pc |-> "idle", thread |-> NoThread]
At(c, pc) == callers[c].pc = pc
Goes(c, pc, t) == callers' = [callers EXCEPT ![c] = [pc |-> pc, thread |-> t]]
ThreadOf(c) == callers[c].thread

Ended == [pc |-> "ended", stop |-> FALSE, told |-> "nothing", error |-> FALSE]

Init ==
    /\ desired = FALSE /\ claim = Nobody /\ locked = FALSE /\ instance = NoThread
    /\ threads = [t \in Threads |-> Ended]
    /\ callers = [c \in Callers |-> Idle]
    /\ panics = 0 /\ wanted = FALSE /\ raced = FALSE

\* The place of a new thread: one that has ended and that nothing refers to.
Unused == {t \in Threads : /\ threads[t].pc = "ended" /\ t # instance
                           /\ \A c \in Callers : ThreadOf(c) # t}

\* The entry is taken out of the manager, whose lock is released; the command then
\* tells its thread to stop, and joins it.
TakenOut(c, pc, done) ==
    /\ instance' = NoThread
    /\ IF instance = NoThread THEN Goes(c, done, NoThread) ELSE Goes(c, pc, instance)
    /\ UNCHANGED threads

\* The command has taken the thread out and has not told it to stop yet.
AboutToStop(c) == At(c, "replace") \/ At(c, "take")

-----------------------------------------------------------------------------
\* A mistake: the start claim of another is not respected.
BeginReplacing_Unclaimed(c) ==
    /\ At(c, "idle") /\ ~locked
    /\ claim' = c /\ desired' = TRUE /\ wanted' = TRUE
    /\ TakenOut(c, "replace", "resolve")
    /\ UNCHANGED <<locked, panics, raced>>

\* connect_internal, by the user or at the start of the application:
\* begin_tunnel_start replaces what runs.  A connect that finds the claim taken
\* fails.
BeginReplacing(c) ==
    /\ At(c, "idle") /\ ~locked /\ claim = Nobody
    /\ claim' = c /\ desired' = TRUE /\ wanted' = TRUE
    /\ TakenOut(c, "replace", "resolve")
    /\ UNCHANGED <<locked, panics, raced>>

\* The stop flag of the thread that was taken out, for a connect or a disconnect.
TellToStop(c) ==
    /\ AboutToStop(c)
    /\ threads' = [threads EXCEPT ![ThreadOf(c)].stop = TRUE]
    /\ Goes(c, IF At(c, "replace") THEN "join" ELSE "drain", ThreadOf(c))
    /\ UNCHANGED <<desired, claim, locked, instance, panics, history>>

\* The join of the thread, once it was told to stop.
Join(c) ==
    /\ At(c, "join") \/ At(c, "drain")
    /\ threads[ThreadOf(c)].pc = "ended"
    /\ Goes(c, IF At(c, "join") THEN "resolve" ELSE "idle", NoThread)
    /\ UNCHANGED <<desired, claim, locked, instance, threads, panics, history>>

\* connect_after_claim: the target does not resolve or no thread starts, and
\* abandon_tunnel_start releases the claim first and clears the flag next.
Abandon(c) ==
    /\ At(c, "resolve") /\ claim' = Nobody
    /\ Goes(c, "abandon", NoThread)
    /\ UNCHANGED <<desired, locked, instance, threads, panics, history>>

Abandoned(c) ==
    /\ At(c, "abandon") /\ desired' = FALSE
    /\ Goes(c, "idle", NoThread)
    /\ UNCHANGED <<claim, locked, instance, threads, panics, history>>

Spawn(c, t) ==
    /\ At(c, "resolve") /\ t \in Unused
    /\ threads' = [threads EXCEPT ![t] = [Ended EXCEPT !.pc = "trying"]]
    /\ Goes(c, "insert", t)
    /\ UNCHANGED <<desired, claim, locked, instance, panics, history>>

Insert(c) ==
    /\ At(c, "insert") /\ ~locked
    /\ instance' = ThreadOf(c)
    /\ Goes(c, "reconcile", ThreadOf(c))
    /\ UNCHANGED <<desired, claim, locked, threads, panics, history>>

\* A mistake: a start is not checked against the desired flag.
Reconcile_Trusting(c) ==
    /\ At(c, "reconcile") /\ ~locked /\ claim' = Nobody
    /\ Goes(c, "await", ThreadOf(c)) /\ UNCHANGED <<instance, threads>>
    /\ UNCHANGED <<desired, locked, panics, history>>

\* reconcile_started_tunnel_with_desired and finish_tunnel_start: what is no
\* longer desired is taken out again, and not joined.
Reconcile(c) ==
    /\ At(c, "reconcile") /\ ~locked /\ claim' = Nobody
    /\ \/ desired /\ Goes(c, "await", ThreadOf(c)) /\ UNCHANGED <<instance, threads>>
       \/ ~desired /\ Goes(c, "idle", NoThread) /\ instance' = NoThread
          /\ threads' = [t \in Threads |->
                 [threads[t] EXCEPT !.stop = @ \/ t = instance]]
    /\ UNCHANGED <<desired, locked, panics, history>>

\* The first result of the thread, or 20 seconds without one.  A connection that
\* is up sets the status of whatever is the manager's entry by now.
Await(c) ==
    /\ At(c, "await") /\ ~locked
    /\ \/ UNCHANGED threads
       \/ threads[ThreadOf(c)].told = "connected"
          /\ threads' = [t \in Threads |->
                 [threads[t] EXCEPT !.error = @ /\ t # instance]]
    /\ Goes(c, "idle", NoThread)
    /\ UNCHANGED <<desired, claim, locked, instance, panics, history>>

-----------------------------------------------------------------------------
\* disconnect_tunnel: the flag, then the entry, then the thread.
ClearDesired(c) ==
    /\ At(c, "idle")
    /\ desired' = FALSE /\ wanted' = FALSE /\ raced' = (raced \/ locked)
    /\ Goes(c, "remove", NoThread)
    /\ UNCHANGED <<claim, locked, instance, threads, panics>>

RemoveRuntime(c) ==
    /\ At(c, "remove") /\ ~locked
    /\ TakenOut(c, "take", "idle")
    /\ UNCHANGED <<desired, claim, locked, panics, history>>

-----------------------------------------------------------------------------
\* The watchdog reads the desired tunnels, then those that are busy.
WatchdogReads ==
    /\ At(Watchdog, "idle") /\ desired
    /\ Goes(Watchdog, "seen", NoThread)
    /\ UNCHANGED <<desired, claim, locked, instance, threads, panics, history>>

Busy == claim # Nobody \/ (instance # NoThread /\ threads[instance].pc # "ended")

WatchdogPicks ==
    /\ At(Watchdog, "seen") /\ ~locked
    /\ Goes(Watchdog, IF Busy THEN "idle" ELSE "missing", NoThread)
    /\ UNCHANGED <<desired, claim, locked, instance, threads, panics, history>>

\* connect_internal_if_missing: begin_tunnel_start asks under the manager's lock
\* whether the tunnel is still desired and missing, and marks it desired next.
BeginMissing ==
    /\ At(Watchdog, "missing") /\ ~locked
    /\ IF claim # Nobody \/ instance # NoThread \/ ~desired
       THEN Goes(Watchdog, "idle", NoThread) /\ UNCHANGED <<claim, locked>>
       ELSE /\ Goes(Watchdog, "mark", NoThread)
            /\ claim' = Watchdog /\ locked' = TRUE
    /\ UNCHANGED <<desired, instance, threads, panics, history>>

MarkDesired ==
    /\ At(Watchdog, "mark") /\ desired' = TRUE /\ locked' = FALSE
    /\ Goes(Watchdog, "resolve", NoThread)
    /\ UNCHANGED <<claim, instance, threads, panics, history>>

-----------------------------------------------------------------------------
\* ssh_tunnels_refresh_status reaps an entry whose thread has ended, unless its
\* status is Error.
Refresh ==
    /\ ~locked /\ instance # NoThread
    /\ threads[instance].pc = "ended" /\ ~threads[instance].error
    /\ instance' = NoThread
    /\ UNCHANGED <<desired, claim, locked, threads, callers, panics, history>>

\* start_local_runtime and its like: the connection is up.
Up(t) ==
    /\ threads[t].pc = "trying"
    /\ threads' = [threads EXCEPT ![t].pc = "up", ![t].told = "connected"]
    /\ UNCHANGED <<desired, claim, locked, instance, callers, panics, history>>

\* run_supervision: a failure that is tried again.
Backoff(t) ==
    /\ threads[t].pc = "trying" \/ (threads[t].pc = "up" /\ ~threads[t].stop)
    /\ threads' = [threads EXCEPT ![t].pc = "waiting",
            ![t].told = IF @ = "nothing" THEN "failed" ELSE @]
    /\ UNCHANGED <<desired, claim, locked, instance, callers, panics, history>>

TryAgain(t) ==
    /\ threads[t].pc = "waiting" /\ ~threads[t].stop
    /\ threads' = [threads EXCEPT ![t].pc = "trying"]
    /\ UNCHANGED <<desired, claim, locked, instance, callers, panics, history>>

\* run_supervision ends: it was told to stop, or failed for good.
End(t, error) ==
    LET th == threads[t] IN
    /\ \/ ~error /\ th.stop /\ th.pc # "ended"
       \/ error /\ (th.pc = "trying" \/ (th.pc = "up" /\ ~th.stop))
    /\ desired' = FALSE
    /\ threads' = [threads EXCEPT ![t].pc = "ended", ![t].error = error,
            ![t].told = IF error /\ @ = "nothing" THEN "failed" ELSE @]
    /\ UNCHANGED <<claim, locked, instance, callers, panics, history>>

Panic(t) ==
    /\ threads[t].pc # "ended" /\ panics < MaxPanics /\ panics' = panics + 1
    /\ threads' = [threads EXCEPT ![t].pc = "ended"]
    /\ UNCHANGED <<desired, claim, locked, instance, callers, history>>

-----------------------------------------------------------------------------
\* What a command that has begun does next.
Start(c) ==
    \/ TellToStop(c) \/ Join(c) \/ Abandon(c) \/ Abandoned(c) \/ Insert(c) \/ Reconcile(c) \/ Await(c)
    \/ \E t \in Threads : Spawn(c, t)

Watch == WatchdogReads \/ WatchdogPicks \/ BeginMissing \/ MarkDesired

Next ==
    \/ \E c \in Callers : Start(c)
    \/ \E c \in Users : BeginReplacing(c) \/ ClearDesired(c) \/ RemoveRuntime(c)
    \/ Watch \/ Refresh
    \/ \E t \in Threads :
        Up(t) \/ Backoff(t) \/ TryAgain(t) \/ Panic(t)
        \/ \E error \in BOOLEAN : End(t, error)

Spec == Init /\ [][Next]_vars

-----------------------------------------------------------------------------
TypeOK ==
    /\ desired \in BOOLEAN /\ claim \in Callers \cup {Nobody} /\ locked \in BOOLEAN
    /\ instance \in Threads \cup {NoThread}
    /\ threads \in [Threads -> ThreadStates]
    /\ callers \in [Callers -> CallerStates]
    /\ panics \in 0..MaxPanics /\ wanted \in BOOLEAN /\ raced \in BOOLEAN

Works(t) == threads[t].pc # "ended" /\ ~threads[t].stop

\* A command is about to tell t to stop.
Doomed(t) == \E c \in Callers : AboutToStop(c) /\ ThreadOf(c) = t

\* However connects, disconnects and restarts by the watchdog overlap, two
\* connections of a tunnel never work side by side, but for one that the command that
\* took it out of the manager is about to stop.  Whatever works is the manager's
\* entry, or about to become it or to be stopped: no connection is lost that a
\* disconnect will not find.
OneWorks ==
    /\ \A t, u \in Threads :
          Works(t) /\ Works(u) /\ ~Doomed(t) /\ ~Doomed(u) => t = u
    /\ \A t \in Threads : Works(t) =>
          \/ t = instance \/ Doomed(t)
          \/ \E c \in Callers : At(c, "insert") /\ ThreadOf(c) = t

\* A tunnel that the user has disconnected, and not connected since, is not left
\* running by a start that was under way, unless the disconnect fell between the
\* two locks of the watchdog's start.
DisconnectHolds ==
    /\ ~wanted /\ ~raced /\ claim = Nobody
    /\ \A c \in Callers : ~At(c, "remove") /\ ~At(c, "take")
    => \A t \in Threads : ~Works(t)

\* remote_spawn.rs:398: a connect replaces the running instance.  What it started
\* works or has failed by itself; it is not taken for one the user disconnected.
ReplacedRuns ==
    \A c \in Users : At(c, "reconcile") /\ threads[ThreadOf(c)].pc # "ended" => desired
=============================================================================
