------------------------- MODULE DesktopToolProofs -------------------------
(*************************************************************************)
(* What holds of the parts of the desktop application that run without a *)
(* page, for any number of users, threads, checks, attempts and clients: *)
(* of each, an inductive invariant and the properties of its module that *)
(* follow. Each is proved of the instance in DesktopTools, from the      *)
(* assumption its module makes on its constants.                         *)
(*************************************************************************)
EXTENDS DesktopTools, Integers, Sequences, WellFoundedInduction, TLAPS

-----------------------------------------------------------------------------
(***************************************************************************)
(* SshTunnel: one thread works at most, and a disconnect holds.            *)
(*                                                                         *)
(* The argument. The start claim is a lock: who replaces, joins, resolves, *)
(* inserts or reconciles holds it (ClaimHeld), and until he inserts, the   *)
(* manager has no entry (NoEntryYet), since all who insert need the claim  *)
(* and all others only take entries out. So a working thread is the entry, *)
(* the one thread that is about to be, or one that was taken out and is    *)
(* about to be told to stop (WorkIsKnown). For the disconnect: once the    *)
(* user's last word was to disconnect nobody sets the flag again but a     *)
(* watchdog that had the lock by then (MarksUnderLock, LockIsWanted,       *)
(* DesiredIsWanted), so what still works will be taken out by the command  *)
(* or by the start that brings it in, or told to stop (WorkIsAnswered).    *)
(***************************************************************************)
\* Where a caller holds the claim of the start.
Claiming == {"replace", "join", "resolve", "insert", "reconcile", "mark"}

\* Who is there holds it.
ClaimHeld == \A c \in Tunnel!Callers : callers[c].pc \in Claiming => claim = c

\* Until he inserts, the manager has no entry.
NoEntryYet ==
    \A c \in Tunnel!Callers :
        callers[c].pc \in Claiming \ {"reconcile"} => instance = NoThread

\* A thread that works is the entry, or about to be, or about to be told to stop.
WorkIsKnown ==
    \A t \in Threads : Tunnel!Works(t) =>
        \/ t = instance \/ Tunnel!Doomed(t)
        \/ \E c \in Tunnel!Callers : Tunnel!At(c, "insert") /\ Tunnel!ThreadOf(c) = t

\* What the watchdog and the flags say while the user means something else.
MarksUnderLock == Tunnel!At(Watchdog, "mark") => locked
\* The lock and the flag speak for the user, unless he has changed his mind since.
LockIsWanted == locked => wanted \/ raced
DesiredIsWanted == desired => wanted \/ raced

\* What still works against the user's last word will be taken out or stopped.
WorkIsAnswered ==
    ~wanted /\ ~raced => \A t \in Threads : Tunnel!Works(t) =>
        \/ Tunnel!Doomed(t) \/ \E u \in Users : Tunnel!At(u, "remove")
        \/ \E c \in Tunnel!Callers : callers[c].pc \in {"insert", "reconcile"}

\* What one thread at work needs, and what a disconnect needs besides.
TunnelInv == Tunnel!TypeOK /\ ClaimHeld /\ NoEntryYet /\ WorkIsKnown
HoldInv == TunnelInv /\ MarksUnderLock /\ LockIsWanted /\ DesiredIsWanted /\ WorkIsAnswered

-----------------------------------------------------------------------------
\* Where a caller is.
CallerPCs == {"idle", "replace", "join", "resolve", "insert", "reconcile", "await",
        "abandon", "remove", "take", "drain", "seen", "missing", "mark"}

\* A caller that goes on keeps its type.
LEMMA CallerGoesTyped ==
    ASSUME Tunnel!TypeOK, NEW c, NEW pc \in CallerPCs, NEW t \in Threads \cup {NoThread},
           Tunnel!Goes(c, pc, t)
    PROVE  callers' \in [Tunnel!Callers -> Tunnel!CallerStates]
<1>1. [pc |-> pc, thread |-> t] \in Tunnel!CallerStates
  BY DEF Tunnel!CallerStates, CallerPCs
<1>2. callers \in [Tunnel!Callers -> Tunnel!CallerStates] BY DEF Tunnel!TypeOK
<1> QED BY <1>1, <1>2 DEF Tunnel!Goes

\* So does a thread whose fields change to values of their types.
LEMMA ThreadFieldsTyped ==
    ASSUME NEW r \in Tunnel!ThreadStates, NEW pc \in {"trying", "up", "waiting", "ended"},
           NEW told \in {"nothing", "connected", "failed"}, NEW b \in BOOLEAN
    PROVE  /\ [r EXCEPT !.pc = pc] \in Tunnel!ThreadStates
           /\ [r EXCEPT !.told = told] \in Tunnel!ThreadStates
           /\ [r EXCEPT !.stop = b] \in Tunnel!ThreadStates
           /\ [r EXCEPT !.error = b] \in Tunnel!ThreadStates
           /\ r.pc \in {"trying", "up", "waiting", "ended"}
           /\ r.told \in {"nothing", "connected", "failed"}
           /\ r.stop \in BOOLEAN /\ r.error \in BOOLEAN
BY DEF Tunnel!ThreadStates

\* Each step keeps the types.
LEMMA TunnelTypeStep ==
    ASSUME Tunnel!SshTunnelAssumption, Tunnel!TypeOK, [Tunnel!Next]_(Tunnel!vars)
    PROVE  Tunnel!TypeOK'
<1> USE DEF CallerPCs
<1>0. /\ threads \in [Threads -> Tunnel!ThreadStates]
      /\ callers \in [Tunnel!Callers -> Tunnel!CallerStates]
      /\ instance \in Threads \cup {NoThread}
      /\ \A c \in Tunnel!Callers : Tunnel!ThreadOf(c) \in Threads \cup {NoThread}
      /\ Users \subseteq Tunnel!Callers /\ Watchdog \in Tunnel!Callers
  BY DEF Tunnel!TypeOK, Tunnel!CallerStates, Tunnel!ThreadOf, Tunnel!Callers
<1>e. Tunnel!Ended \in Tunnel!ThreadStates BY DEF Tunnel!Ended, Tunnel!ThreadStates
<1> DEFINE Typed == threads' \in [Threads -> Tunnel!ThreadStates]
<1>1. ASSUME NEW c \in Tunnel!Callers, Tunnel!Start(c) PROVE Tunnel!TypeOK'
  <2>1. CASE Tunnel!Join(c)
    BY <1>0, <2>1, CallerGoesTyped DEF Tunnel!Join, Tunnel!TypeOK, Tunnel!history
  <2>2. CASE Tunnel!Abandon(c)
    BY <1>0, <2>2, CallerGoesTyped DEF Tunnel!Abandon, Tunnel!TypeOK, Tunnel!history
  <2>3. CASE Tunnel!Abandoned(c)
    BY <1>0, <2>3, CallerGoesTyped DEF Tunnel!Abandoned, Tunnel!TypeOK, Tunnel!history
  <2>4. CASE Tunnel!Insert(c)
    BY <1>0, <2>4, CallerGoesTyped DEF Tunnel!Insert, Tunnel!TypeOK, Tunnel!history
  <2>5. CASE Tunnel!Reconcile(c)
    <3>1. Typed
      <4>1. \A t \in Threads : (threads[t].stop \/ t = instance) \in BOOLEAN OBVIOUS
      <4>2. \A t \in Threads :
                [threads[t] EXCEPT !.stop = @ \/ t = instance] \in Tunnel!ThreadStates
        BY <1>0, <4>1, ThreadFieldsTyped
      <4> QED BY <1>0, <2>5, <4>2 DEF Tunnel!Reconcile
    <3>2. callers' \in [Tunnel!Callers -> Tunnel!CallerStates]
      BY <1>0, <2>5, CallerGoesTyped DEF Tunnel!Reconcile
    <3> QED BY <1>0, <2>5, <3>1, <3>2 DEF Tunnel!Reconcile, Tunnel!TypeOK, Tunnel!history
  <2>6. CASE Tunnel!Await(c)
    <3>1. Typed
      <4>1. \A t \in Threads :
                [threads[t] EXCEPT !.error = @ /\ t # instance] \in Tunnel!ThreadStates
        BY <1>0, ThreadFieldsTyped
      <4> QED BY <1>0, <2>6, <4>1 DEF Tunnel!Await
    <3>2. callers' \in [Tunnel!Callers -> Tunnel!CallerStates]
      BY <1>0, <2>6, CallerGoesTyped DEF Tunnel!Await
    <3> QED BY <1>0, <2>6, <3>1, <3>2 DEF Tunnel!Await, Tunnel!TypeOK, Tunnel!history
  <2>7. ASSUME NEW t \in Threads, Tunnel!Spawn(c, t) PROVE Tunnel!TypeOK'
    <3>1. [Tunnel!Ended EXCEPT !.pc = "trying"] \in Tunnel!ThreadStates
      BY <1>e, ThreadFieldsTyped
    <3>2. Typed BY <1>0, <2>7, <3>1 DEF Tunnel!Spawn
    <3>3. callers' \in [Tunnel!Callers -> Tunnel!CallerStates]
      BY <1>0, <2>7, CallerGoesTyped DEF Tunnel!Spawn
    <3> QED BY <1>0, <2>7, <3>2, <3>3 DEF Tunnel!Spawn, Tunnel!TypeOK, Tunnel!history
  <2>8. CASE Tunnel!TellToStop(c)
    <3>1. \A t \in Threads : [threads[t] EXCEPT !.stop = TRUE] \in Tunnel!ThreadStates
      BY <1>0, ThreadFieldsTyped
    <3>2. Typed BY <1>0, <2>8, <3>1 DEF Tunnel!TellToStop
    <3>3. callers' \in [Tunnel!Callers -> Tunnel!CallerStates]
      BY <1>0, <2>8, CallerGoesTyped DEF Tunnel!TellToStop
    <3> QED BY <1>0, <2>8, <3>2, <3>3 DEF Tunnel!TellToStop, Tunnel!TypeOK, Tunnel!history
  <2> QED BY <1>1, <2>1, <2>2, <2>3, <2>4, <2>5, <2>6, <2>7, <2>8 DEF Tunnel!Start
<1>t. ASSUME NEW c \in Tunnel!Callers, NEW pc \in CallerPCs, NEW done \in CallerPCs,
             Tunnel!TakenOut(c, pc, done)
      PROVE  Typed /\ callers' \in [Tunnel!Callers -> Tunnel!CallerStates]
  BY <1>0, <1>t, CallerGoesTyped DEF Tunnel!TakenOut
<1>2. ASSUME NEW c \in Users,
             Tunnel!BeginReplacing(c) \/ Tunnel!ClearDesired(c) \/ Tunnel!RemoveRuntime(c)
      PROVE Tunnel!TypeOK'
  <2>1. CASE Tunnel!BeginReplacing(c)
    <3>1. Typed /\ callers' \in [Tunnel!Callers -> Tunnel!CallerStates]
      BY <1>0, <1>t, <2>1 DEF Tunnel!BeginReplacing
    <3> QED BY <1>0, <2>1, <3>1 DEF Tunnel!BeginReplacing, Tunnel!TakenOut, Tunnel!TypeOK
  <2>2. CASE Tunnel!ClearDesired(c)
    BY <1>0, <2>2, CallerGoesTyped DEF Tunnel!ClearDesired, Tunnel!TypeOK
  <2>3. CASE Tunnel!RemoveRuntime(c)
    <3>1. Typed /\ callers' \in [Tunnel!Callers -> Tunnel!CallerStates]
      BY <1>0, <1>t, <2>3 DEF Tunnel!RemoveRuntime
    <3> QED
      BY <1>0, <2>3, <3>1 DEF Tunnel!RemoveRuntime, Tunnel!TakenOut, Tunnel!TypeOK,
         Tunnel!history
  <2> QED BY <1>2, <2>1, <2>2, <2>3
<1>3. CASE Tunnel!Watch
  <2>1. CASE Tunnel!WatchdogReads
    BY <1>0, <2>1, CallerGoesTyped DEF Tunnel!WatchdogReads, Tunnel!TypeOK,
       Tunnel!history
  <2>2. CASE Tunnel!WatchdogPicks
    BY <1>0, <2>2, CallerGoesTyped DEF Tunnel!WatchdogPicks, Tunnel!TypeOK,
       Tunnel!history
  <2>3. CASE Tunnel!BeginMissing
    <3>1. callers' \in [Tunnel!Callers -> Tunnel!CallerStates]
      BY <1>0, <2>3, CallerGoesTyped DEF Tunnel!BeginMissing
    <3> QED BY <1>0, <2>3, <3>1 DEF Tunnel!BeginMissing, Tunnel!TypeOK, Tunnel!history
  <2>4. CASE Tunnel!MarkDesired
    BY <1>0, <2>4, CallerGoesTyped DEF Tunnel!MarkDesired, Tunnel!TypeOK, Tunnel!history
  <2> QED BY <1>3, <2>1, <2>2, <2>3, <2>4 DEF Tunnel!Watch
<1>4. CASE Tunnel!Refresh BY <1>4 DEF Tunnel!Refresh, Tunnel!TypeOK, Tunnel!history
<1>5. ASSUME NEW t \in Threads,
             Tunnel!Up(t) \/ Tunnel!Backoff(t) \/ Tunnel!TryAgain(t) \/ Tunnel!Panic(t)
             \/ \E error \in BOOLEAN : Tunnel!End(t, error)
      PROVE Tunnel!TypeOK'
  <2>0. threads[t] \in Tunnel!ThreadStates BY <1>0
  <2>1. CASE Tunnel!Up(t)
    <3>1. [[threads[t] EXCEPT !.pc = "up"] EXCEPT !.told = "connected"] \in Tunnel!ThreadStates
      BY <2>0, ThreadFieldsTyped
    <3>2. Typed BY <1>0, <2>1, <3>1 DEF Tunnel!Up
    <3> QED BY <2>1, <3>2 DEF Tunnel!Up, Tunnel!TypeOK, Tunnel!history
  <2>2. CASE Tunnel!Backoff(t)
    <3> DEFINE told == IF threads[t].told = "nothing" THEN "failed" ELSE threads[t].told
    <3>1. told \in {"nothing", "connected", "failed"} BY <2>0, ThreadFieldsTyped
    <3>2. [[threads[t] EXCEPT !.pc = "waiting"] EXCEPT !.told = told] \in Tunnel!ThreadStates
      BY <2>0, <3>1, ThreadFieldsTyped
    <3>3. threads' = [threads EXCEPT ![t] =
                         [[threads[t] EXCEPT !.pc = "waiting"] EXCEPT !.told = told]]
      BY <1>0, <2>2 DEF Tunnel!Backoff
    <3>4. Typed BY <1>0, <3>2, <3>3
    <3> QED BY <2>2, <3>4 DEF Tunnel!Backoff, Tunnel!TypeOK, Tunnel!history
  <2>3. CASE Tunnel!TryAgain(t)
    <3>1. [threads[t] EXCEPT !.pc = "trying"] \in Tunnel!ThreadStates
      BY <2>0, ThreadFieldsTyped
    <3>2. Typed BY <1>0, <2>3, <3>1 DEF Tunnel!TryAgain
    <3> QED BY <2>3, <3>2 DEF Tunnel!TryAgain, Tunnel!TypeOK, Tunnel!history
  <2>4. CASE Tunnel!Panic(t)
    <3>1. [threads[t] EXCEPT !.pc = "ended"] \in Tunnel!ThreadStates
      BY <2>0, ThreadFieldsTyped
    <3>2. Typed BY <1>0, <2>4, <3>1 DEF Tunnel!Panic
    <3>3. panics' \in 0..MaxPanics
      BY <2>4 DEF Tunnel!Panic, Tunnel!TypeOK, Tunnel!SshTunnelAssumption
    <3> QED BY <2>4, <3>2, <3>3 DEF Tunnel!Panic, Tunnel!TypeOK, Tunnel!history
  <2>5. ASSUME NEW error \in BOOLEAN, Tunnel!End(t, error) PROVE Tunnel!TypeOK'
    <3> DEFINE told == IF error /\ threads[t].told = "nothing" THEN "failed"
                       ELSE threads[t].told
               th == [[[threads[t] EXCEPT !.pc = "ended"] EXCEPT !.error = error]
                        EXCEPT !.told = told]
    <3>1. told \in {"nothing", "connected", "failed"} BY <2>0, ThreadFieldsTyped
    <3>2. th \in Tunnel!ThreadStates BY <2>0, <3>1, ThreadFieldsTyped
    <3>3. threads' = [threads EXCEPT ![t] = th] BY <1>0, <2>5 DEF Tunnel!End
    <3>4. Typed BY <1>0, <3>2, <3>3
    <3> QED BY <2>5, <3>4 DEF Tunnel!End, Tunnel!TypeOK, Tunnel!history
  <2> QED BY <1>5, <2>1, <2>2, <2>3, <2>4, <2>5
<1>6. CASE UNCHANGED Tunnel!vars BY <1>6 DEF Tunnel!vars, Tunnel!history, Tunnel!TypeOK
<1> QED BY <1>1, <1>2, <1>3, <1>4, <1>5, <1>6 DEF Tunnel!Next

\* Of any state the code starts in.
LEMMA TunnelTypeInit == ASSUME Tunnel!SshTunnelAssumption, Tunnel!Init PROVE Tunnel!TypeOK
<1>1. Tunnel!Ended \in Tunnel!ThreadStates BY DEF Tunnel!Ended, Tunnel!ThreadStates
<1>2. Tunnel!Idle \in Tunnel!CallerStates BY DEF Tunnel!Idle, Tunnel!CallerStates
<1>3. threads \in [Threads -> Tunnel!ThreadStates] /\ callers \in [Tunnel!Callers -> Tunnel!CallerStates]
  BY <1>1, <1>2 DEF Tunnel!Init
<1>4. panics \in 0..MaxPanics BY DEF Tunnel!Init, Tunnel!SshTunnelAssumption
<1> QED BY <1>3, <1>4 DEF Tunnel!Init, Tunnel!TypeOK

\* The types of the state of a tunnel, for any commands and threads.
THEOREM TunnelTypeCorrect ==
    ASSUME Tunnel!SshTunnelAssumption
    PROVE  Tunnel!Spec => []Tunnel!TypeOK
<1>1. Tunnel!Init => Tunnel!TypeOK BY TunnelTypeInit
<1>2. Tunnel!TypeOK /\ [Tunnel!Next]_(Tunnel!vars) => Tunnel!TypeOK' BY TunnelTypeStep
<1> QED BY <1>1, <1>2, PTL DEF Tunnel!Spec
-----------------------------------------------------------------------------
\* The invariant in the initial state.
LEMMA TunnelInit == ASSUME Tunnel!SshTunnelAssumption, Tunnel!Init PROVE HoldInv
<1>1. Tunnel!TypeOK BY TunnelTypeInit
<1>2. \A c \in Tunnel!Callers : callers[c].pc = "idle" BY DEF Tunnel!Init, Tunnel!Idle
<1>3. \A t \in Threads : ~Tunnel!Works(t) BY DEF Tunnel!Init, Tunnel!Ended, Tunnel!Works
<1>4. Watchdog \in Tunnel!Callers BY DEF Tunnel!Callers
<1> QED
  BY <1>1, <1>2, <1>3, <1>4 DEF Tunnel!Init, HoldInv, TunnelInv, ClaimHeld, NoEntryYet,
             WorkIsKnown, MarksUnderLock, LockIsWanted, DesiredIsWanted,
             WorkIsAnswered, Claiming, Tunnel!At

\* The start claim is a lock, and whoever holds it before the insertion finds the
\* manager without an entry.
LEMMA ClaimStep ==
    ASSUME Tunnel!SshTunnelAssumption, TunnelInv, [Tunnel!Next]_(Tunnel!vars)
    PROVE  ClaimHeld' /\ NoEntryYet'
<1> USE DEF ClaimHeld, NoEntryYet, Claiming, Tunnel!At, Tunnel!Goes
<1>0. Tunnel!TypeOK /\ ClaimHeld /\ NoEntryYet /\ Nobody \notin Tunnel!Callers
      /\ Users \subseteq Tunnel!Callers /\ Watchdog \in Tunnel!Callers
      /\ callers \in [Tunnel!Callers -> Tunnel!CallerStates]
  BY DEF TunnelInv, Tunnel!SshTunnelAssumption, Tunnel!Callers, Tunnel!TypeOK
<1>1. ASSUME NEW c \in Tunnel!Callers, Tunnel!Start(c) PROVE ClaimHeld' /\ NoEntryYet'
  <2>1. CASE Tunnel!Join(c) BY <1>0, <2>1 DEF Tunnel!Join
  <2>2. CASE Tunnel!Abandon(c) BY <1>0, <2>2 DEF Tunnel!Abandon
  <2>3. CASE Tunnel!Abandoned(c) BY <1>0, <2>3 DEF Tunnel!Abandoned
  <2>4. CASE Tunnel!Insert(c) BY <1>0, <2>4 DEF Tunnel!Insert
  <2>5. CASE Tunnel!Reconcile(c) BY <1>0, <2>5 DEF Tunnel!Reconcile
  <2>6. CASE Tunnel!Await(c) BY <1>0, <2>6 DEF Tunnel!Await
  <2>7. ASSUME NEW t \in Threads, Tunnel!Spawn(c, t) PROVE ClaimHeld' /\ NoEntryYet'
    BY <1>0, <2>7 DEF Tunnel!Spawn
  <2>8. CASE Tunnel!TellToStop(c)
    BY <1>0, <2>8 DEF Tunnel!TellToStop, Tunnel!AboutToStop
  <2> QED BY <1>1, <2>1, <2>2, <2>3, <2>4, <2>5, <2>6, <2>7, <2>8 DEF Tunnel!Start
<1>2. ASSUME NEW c \in Users,
             Tunnel!BeginReplacing(c) \/ Tunnel!ClearDesired(c) \/ Tunnel!RemoveRuntime(c)
      PROVE ClaimHeld' /\ NoEntryYet'
  <2>1. CASE Tunnel!BeginReplacing(c)
    BY <1>0, <2>1 DEF Tunnel!BeginReplacing, Tunnel!TakenOut
  <2>2. CASE Tunnel!ClearDesired(c) BY <1>0, <2>2 DEF Tunnel!ClearDesired
  <2>3. CASE Tunnel!RemoveRuntime(c)
    BY <1>0, <2>3 DEF Tunnel!RemoveRuntime, Tunnel!TakenOut
  <2> QED BY <1>2, <2>1, <2>2, <2>3
<1>3. CASE Tunnel!Watch
  <2>1. CASE Tunnel!WatchdogReads BY <1>0, <2>1 DEF Tunnel!WatchdogReads
  <2>2. CASE Tunnel!WatchdogPicks BY <1>0, <2>2 DEF Tunnel!WatchdogPicks
  <2>3. CASE Tunnel!BeginMissing BY <1>0, <2>3 DEF Tunnel!BeginMissing
  <2>4. CASE Tunnel!MarkDesired BY <1>0, <2>4 DEF Tunnel!MarkDesired
  <2> QED BY <1>3, <2>1, <2>2, <2>3, <2>4 DEF Tunnel!Watch
<1>4. CASE Tunnel!Refresh BY <1>0, <1>4 DEF Tunnel!Refresh
<1>5. ASSUME NEW t \in Threads,
             Tunnel!Up(t) \/ Tunnel!Backoff(t) \/ Tunnel!TryAgain(t) \/ Tunnel!Panic(t)
             \/ \E error \in BOOLEAN : Tunnel!End(t, error)
      PROVE ClaimHeld' /\ NoEntryYet'
  BY <1>0, <1>5 DEF Tunnel!Up, Tunnel!Backoff, Tunnel!TryAgain, Tunnel!Panic, Tunnel!End
<1>6. CASE UNCHANGED Tunnel!vars BY <1>0, <1>6 DEF Tunnel!vars
<1> QED BY <1>1, <1>2, <1>3, <1>4, <1>5, <1>6 DEF Tunnel!Next

\* Nothing but a start makes a thread work, which is then about to be the entry; and
\* who takes a thread out of the manager is about to stop it.
LEMMA KnownStep ==
    ASSUME Tunnel!SshTunnelAssumption, TunnelInv, [Tunnel!Next]_(Tunnel!vars)
    PROVE  WorkIsKnown'
<1> USE
  DEF WorkIsKnown, Tunnel!Works, Tunnel!At, Tunnel!ThreadOf, Tunnel!Goes, Tunnel!Doomed,
     Tunnel!AboutToStop
<1>0. /\ Tunnel!TypeOK /\ ClaimHeld /\ NoEntryYet /\ WorkIsKnown
      /\ NoThread \notin Threads
      /\ Users \subseteq Tunnel!Callers
      /\ Watchdog \in Tunnel!Callers
      /\ threads \in [Threads -> Tunnel!ThreadStates]
      /\ callers \in [Tunnel!Callers -> Tunnel!CallerStates]
  BY DEF TunnelInv, Tunnel!SshTunnelAssumption, Tunnel!Callers, Tunnel!TypeOK
<1>1. ASSUME NEW c \in Tunnel!Callers, Tunnel!Start(c) PROVE WorkIsKnown'
  <2>1. CASE Tunnel!Join(c) BY <1>0, <2>1 DEF Tunnel!Join
  <2>2. CASE Tunnel!Abandon(c) BY <1>0, <2>2 DEF Tunnel!Abandon
  <2>3. CASE Tunnel!Abandoned(c) BY <1>0, <2>3 DEF Tunnel!Abandoned
  <2>4. CASE Tunnel!Insert(c)
    BY <1>0, <2>4 DEF Tunnel!Insert, NoEntryYet, Claiming
  <2>5. CASE Tunnel!Reconcile(c)
    <3>1. CASE desired BY <1>0, <2>5, <3>1 DEF Tunnel!Reconcile
    <3>2. CASE ~desired
      <4>1. \A t \in Threads : Tunnel!Works(t)' => Tunnel!Works(t) /\ t # instance
        <5> TAKE t \in Threads
        <5> DEFINE b == threads[t].stop \/ t = instance
        <5>1. threads'[t] = [threads[t] EXCEPT !.stop = b]
          BY <2>5, <3>2 DEF Tunnel!Reconcile
        <5>2. threads[t] \in Tunnel!ThreadStates BY <1>0
        <5>3. threads'[t].pc = threads[t].pc /\ threads'[t].stop = b
          BY <5>1, <5>2 DEF Tunnel!ThreadStates
        <5>4. threads[t].stop \in BOOLEAN BY <5>2 DEF Tunnel!ThreadStates
        <5> QED BY <5>3, <5>4
      <4> QED BY <1>0, <2>5, <3>2, <4>1 DEF Tunnel!Reconcile
    <3> QED BY <3>1, <3>2
  <2>6. CASE Tunnel!Await(c)
    <3>1. \A t \in Threads : Tunnel!Works(t)' => Tunnel!Works(t)
      BY <1>0, <2>6 DEF Tunnel!Await, Tunnel!ThreadStates
    <3> QED BY <1>0, <2>6, <3>1 DEF Tunnel!Await
  <2>7. ASSUME NEW t \in Threads, Tunnel!Spawn(c, t) PROVE WorkIsKnown'
    <3>1. \A u \in Threads : u # t => (Tunnel!Works(u)' <=> Tunnel!Works(u))
      BY <1>0, <2>7 DEF Tunnel!Spawn
    <3> QED BY <1>0, <2>7, <3>1 DEF Tunnel!Spawn
  <2>8. CASE Tunnel!TellToStop(c)
    <3>1. \A t \in Threads :
            Tunnel!Works(t)' => Tunnel!Works(t) /\ t # callers[c].thread
      BY <1>0, <2>8 DEF Tunnel!TellToStop, Tunnel!ThreadStates
    <3> QED BY <1>0, <2>8, <3>1 DEF Tunnel!TellToStop
  <2> QED BY <1>1, <2>1, <2>2, <2>3, <2>4, <2>5, <2>6, <2>7, <2>8 DEF Tunnel!Start
<1>t. ASSUME NEW c \in Tunnel!Callers, NEW pc \in {"replace", "take"}, NEW done,
             Tunnel!TakenOut(c, pc, done), callers[c].pc \in {"idle", "remove"}
      PROVE  WorkIsKnown'
  <2>1. CASE instance = NoThread BY <1>0, <1>t, <2>1 DEF Tunnel!TakenOut
  <2>2. CASE instance # NoThread
    <3>1. callers'[c].pc = pc /\ callers'[c].thread = instance
      BY <1>0, <1>t, <2>2 DEF Tunnel!TakenOut
    <3>2. \A d \in Tunnel!Callers \ {c} : callers'[d] = callers[d]
      BY <1>0, <1>t, <2>2 DEF Tunnel!TakenOut
    <3>3. threads' = threads BY <1>t DEF Tunnel!TakenOut
    <3> QED BY <1>0, <1>t, <2>2, <3>1, <3>2, <3>3
  <2> QED BY <2>1, <2>2
<1>2. ASSUME NEW c \in Users,
             Tunnel!BeginReplacing(c) \/ Tunnel!ClearDesired(c) \/ Tunnel!RemoveRuntime(c)
      PROVE WorkIsKnown'
  <2>1. CASE Tunnel!BeginReplacing(c) BY <1>0, <1>t, <2>1 DEF Tunnel!BeginReplacing
  <2>2. CASE Tunnel!ClearDesired(c) BY <1>0, <2>2 DEF Tunnel!ClearDesired
  <2>3. CASE Tunnel!RemoveRuntime(c) BY <1>0, <1>t, <2>3 DEF Tunnel!RemoveRuntime
  <2> QED BY <1>2, <2>1, <2>2, <2>3
<1>3. CASE Tunnel!Watch
  <2>1. CASE Tunnel!WatchdogReads BY <1>0, <2>1 DEF Tunnel!WatchdogReads
  <2>2. CASE Tunnel!WatchdogPicks BY <1>0, <2>2 DEF Tunnel!WatchdogPicks
  <2>3. CASE Tunnel!BeginMissing BY <1>0, <2>3 DEF Tunnel!BeginMissing
  <2>4. CASE Tunnel!MarkDesired BY <1>0, <2>4 DEF Tunnel!MarkDesired
  <2> QED BY <1>3, <2>1, <2>2, <2>3, <2>4 DEF Tunnel!Watch
<1>4. CASE Tunnel!Refresh BY <1>0, <1>4 DEF Tunnel!Refresh
<1>5. ASSUME NEW t \in Threads,
             Tunnel!Up(t) \/ Tunnel!Backoff(t) \/ Tunnel!TryAgain(t) \/ Tunnel!Panic(t)
             \/ \E error \in BOOLEAN : Tunnel!End(t, error)
      PROVE WorkIsKnown'
  <2>1. \A u \in Threads : Tunnel!Works(u)' => Tunnel!Works(u)
    <3>0. \A u \in Threads : threads[u] \in Tunnel!ThreadStates BY <1>0
    <3>1. CASE Tunnel!Up(t) BY <1>0, <3>0, <3>1 DEF Tunnel!Up, Tunnel!ThreadStates
    <3>2. CASE Tunnel!Backoff(t)
      BY <1>0, <3>0, <3>2 DEF Tunnel!Backoff, Tunnel!ThreadStates
    <3>3. CASE Tunnel!TryAgain(t)
      BY <1>0, <3>0, <3>3 DEF Tunnel!TryAgain, Tunnel!ThreadStates
    <3>4. CASE Tunnel!Panic(t) BY <1>0, <3>0, <3>4 DEF Tunnel!Panic, Tunnel!ThreadStates
    <3>5. ASSUME NEW error \in BOOLEAN, Tunnel!End(t, error)
          PROVE  \A u \in Threads : Tunnel!Works(u)' => Tunnel!Works(u)
      BY <1>0, <3>0, <3>5 DEF Tunnel!End, Tunnel!ThreadStates
    <3> QED BY <1>5, <3>1, <3>2, <3>3, <3>4, <3>5
  <2>2. UNCHANGED <<instance, callers>>
    BY <1>5 DEF Tunnel!Up, Tunnel!Backoff, Tunnel!TryAgain, Tunnel!Panic, Tunnel!End
  <2>3. SUFFICES ASSUME NEW u \in Threads, Tunnel!Works(u)'
                 PROVE  \/ u = instance \/ Tunnel!Doomed(u)
                        \/ \E c \in Tunnel!Callers : Tunnel!At(c, "insert") /\ Tunnel!ThreadOf(c) = u
    BY <2>2
  <2> QED BY <1>0, <2>1, <2>3
<1>6. CASE UNCHANGED Tunnel!vars BY <1>0, <1>6 DEF Tunnel!vars
<1> QED BY <1>1, <1>2, <1>3, <1>4, <1>5, <1>6 DEF Tunnel!Next

\* Each step keeps what one thread at work needs.
LEMMA TunnelStep ==
    ASSUME Tunnel!SshTunnelAssumption, TunnelInv, [Tunnel!Next]_(Tunnel!vars)
    PROVE  TunnelInv'
BY TunnelTypeStep, ClaimStep, KnownStep DEF TunnelInv

\* So no two threads work at once but for those about to be stopped: both would be
\* the entry or about to be.
LEMMA InvOneWorks == ASSUME Tunnel!SshTunnelAssumption, TunnelInv PROVE Tunnel!OneWorks
<1>1. \A c \in Tunnel!Callers : Tunnel!At(c, "insert") => claim = c /\ instance = NoThread
  BY DEF TunnelInv, ClaimHeld, NoEntryYet, Claiming, Tunnel!At
<1>2. \A t, u \in Threads :
        Tunnel!Works(t) /\ Tunnel!Works(u) /\ ~Tunnel!Doomed(t) /\ ~Tunnel!Doomed(u) => t = u
  BY <1>1 DEF TunnelInv, WorkIsKnown, Tunnel!SshTunnelAssumption
<1> QED BY <1>2 DEF Tunnel!OneWorks, TunnelInv, WorkIsKnown

\* However connects, disconnects and restarts overlap, one thread of a tunnel works
\* at most besides those a command is about to stop, and a disconnect will find it:
\* for any number of commands.
THEOREM OneThreadWorks ==
    ASSUME Tunnel!SshTunnelAssumption
    PROVE  Tunnel!Spec => []Tunnel!OneWorks
<1>1. Tunnel!Init => TunnelInv BY TunnelInit DEF HoldInv
<1>2. TunnelInv /\ [Tunnel!Next]_(Tunnel!vars) => TunnelInv' BY TunnelStep
<1>3. TunnelInv => Tunnel!OneWorks BY InvOneWorks
<1> QED BY <1>1, <1>2, <1>3, PTL DEF Tunnel!Spec
-----------------------------------------------------------------------------
\* The flags, for short.
Flags == MarksUnderLock /\ LockIsWanted /\ DesiredIsWanted

\* The flag says so only if the user's last word was to connect, or if his
\* disconnect came while the watchdog had the lock.
LEMMA FlagsStep ==
    ASSUME Tunnel!SshTunnelAssumption, Tunnel!TypeOK, Flags, [Tunnel!Next]_(Tunnel!vars)
    PROVE  Flags'
<1> USE
  DEF Flags, MarksUnderLock, LockIsWanted, DesiredIsWanted, Tunnel!At, Tunnel!Goes,
     Tunnel!history
<1>0. /\ Watchdog \in Tunnel!Callers
      /\ Users \subseteq Tunnel!Callers
      /\ Watchdog \notin Users
      /\ callers \in [Tunnel!Callers -> Tunnel!CallerStates]
  BY DEF Tunnel!SshTunnelAssumption, Tunnel!Callers, Tunnel!TypeOK
<1>1. ASSUME NEW c \in Tunnel!Callers, Tunnel!Start(c) PROVE Flags'
  BY <1>0, <1>1
     DEF Tunnel!Start, Tunnel!Join, Tunnel!Abandon, Tunnel!Abandoned, Tunnel!Insert,
        Tunnel!Reconcile, Tunnel!Await, Tunnel!Spawn, Tunnel!TellToStop,
        Tunnel!AboutToStop
<1>2. ASSUME NEW c \in Users,
             Tunnel!BeginReplacing(c) \/ Tunnel!ClearDesired(c) \/ Tunnel!RemoveRuntime(c)
      PROVE Flags'
  <2>1. CASE Tunnel!BeginReplacing(c)
    BY <1>0, <2>1 DEF Tunnel!BeginReplacing, Tunnel!TakenOut
  <2>2. CASE Tunnel!ClearDesired(c) BY <1>0, <2>2 DEF Tunnel!ClearDesired
  <2>3. CASE Tunnel!RemoveRuntime(c)
    BY <1>0, <2>3 DEF Tunnel!RemoveRuntime, Tunnel!TakenOut
  <2> QED BY <1>2, <2>1, <2>2, <2>3
<1>3. CASE Tunnel!Watch
  BY <1>0, <1>3 DEF Tunnel!Watch, Tunnel!WatchdogReads, Tunnel!WatchdogPicks,
     Tunnel!BeginMissing, Tunnel!MarkDesired
<1>4. CASE Tunnel!Refresh BY <1>4 DEF Tunnel!Refresh
<1>5. ASSUME NEW t \in Threads,
             Tunnel!Up(t) \/ Tunnel!Backoff(t) \/ Tunnel!TryAgain(t) \/ Tunnel!Panic(t)
             \/ \E error \in BOOLEAN : Tunnel!End(t, error)
      PROVE Flags'
  <2>1. CASE Tunnel!Up(t) \/ Tunnel!Backoff(t) \/ Tunnel!TryAgain(t) \/ Tunnel!Panic(t)
    BY <2>1 DEF Tunnel!Up, Tunnel!Backoff, Tunnel!TryAgain, Tunnel!Panic
  <2>2. ASSUME NEW error \in BOOLEAN, Tunnel!End(t, error) PROVE Flags'
    BY <2>2 DEF Tunnel!End
  <2> QED BY <1>5, <2>1, <2>2
<1>6. CASE UNCHANGED Tunnel!vars BY <1>6 DEF Tunnel!vars
<1> QED BY <1>1, <1>2, <1>3, <1>4, <1>5, <1>6 DEF Tunnel!Next

\* What works after the user's disconnect will be taken out: by the disconnect, or
\* by the start that brings it in, which looks at the flag.
LEMMA AnsweredStep ==
    ASSUME Tunnel!SshTunnelAssumption, HoldInv, [Tunnel!Next]_(Tunnel!vars)
    PROVE  WorkIsAnswered'
<1> DEFINE Removing == \E u \in Users : Tunnel!At(u, "remove")
           Starting == \E c \in Tunnel!Callers : callers[c].pc \in {"insert", "reconcile"}
<1> USE
  DEF Tunnel!At, Tunnel!Goes, Tunnel!ThreadOf, Tunnel!history, Tunnel!Doomed,
     Tunnel!AboutToStop
<1>0. /\ Watchdog \in Tunnel!Callers
      /\ Users \subseteq Tunnel!Callers
      /\ Watchdog \notin Users
      /\ NoThread \notin Threads
      /\ callers \in [Tunnel!Callers -> Tunnel!CallerStates]
      /\ threads \in [Threads -> Tunnel!ThreadStates]
      /\ TunnelInv /\ Flags /\ WorkIsAnswered
  BY DEF Tunnel!SshTunnelAssumption, Tunnel!Callers, Tunnel!TypeOK, HoldInv, TunnelInv,
     Flags
<1>w. SUFFICES ASSUME ~wanted', ~raced', NEW t \in Threads, Tunnel!Works(t)'
               PROVE  Tunnel!Doomed(t)' \/ Removing' \/ Starting'
  BY DEF WorkIsAnswered
<1> DEFINE Answered == Tunnel!Doomed(t)' \/ Removing' \/ Starting'
<1>a. ASSUME ~wanted, ~raced, Tunnel!Works(t), Removing' \/ ~Removing,
             Starting' \/ ~Starting, Tunnel!Doomed(t)' \/ ~Tunnel!Doomed(t)
      PROVE  Answered
  BY <1>0, <1>a DEF WorkIsAnswered
<1>1. ASSUME NEW c \in Tunnel!Callers, Tunnel!Start(c) PROVE Answered
  <2>0. UNCHANGED Tunnel!history
    BY <1>1 DEF Tunnel!Start, Tunnel!Join, Tunnel!Abandon, Tunnel!Abandoned,
       Tunnel!Insert, Tunnel!Reconcile, Tunnel!Await, Tunnel!Spawn, Tunnel!TellToStop
  <2>r. callers[c].pc # "remove"
    BY <1>1 DEF Tunnel!Start, Tunnel!Join, Tunnel!Abandon, Tunnel!Abandoned,
       Tunnel!Insert, Tunnel!Reconcile, Tunnel!Await, Tunnel!Spawn, Tunnel!TellToStop
  <2>m. Removing => Removing'
    BY <1>0, <1>1, <2>r
       DEF Tunnel!Start, Tunnel!Join, Tunnel!Abandon, Tunnel!Abandoned, Tunnel!Insert,
          Tunnel!Reconcile, Tunnel!Await, Tunnel!Spawn, Tunnel!TellToStop
  <2>d. Tunnel!Works(t) /\ Tunnel!Doomed(t) => Tunnel!Doomed(t)'
    <3>1. CASE Tunnel!TellToStop(c)
      <4>1. t # callers[c].thread
        BY <1>0, <1>w, <3>1 DEF Tunnel!TellToStop, Tunnel!Works, Tunnel!ThreadStates
      <4> QED BY <1>0, <3>1, <4>1 DEF Tunnel!TellToStop
    <3>2. CASE ~Tunnel!TellToStop(c)
      <4>1. callers[c].pc \notin {"replace", "take"}
            /\ \A d \in Tunnel!Callers \ {c} : callers'[d] = callers[d]
        BY <1>0, <1>1, <3>2 DEF Tunnel!Start, Tunnel!Join, Tunnel!Abandon,
           Tunnel!Abandoned, Tunnel!Insert, Tunnel!Reconcile, Tunnel!Await, Tunnel!Spawn
      <4> QED BY <1>0, <4>1
    <3> QED BY <3>1, <3>2
  <2>1. CASE Tunnel!Join(c) \/ Tunnel!Abandon(c) \/ Tunnel!Abandoned(c)
    BY <1>0, <1>w, <1>a, <2>0, <2>m, <2>d, <2>1 DEF Tunnel!Join, Tunnel!Abandon,
       Tunnel!Abandoned, Tunnel!Works
  <2>2. CASE Tunnel!Insert(c) BY <1>0, <2>2 DEF Tunnel!Insert
  <2>3. CASE Tunnel!Reconcile(c)
    <3>1. ~desired
      BY <1>0, <1>w, <2>0 DEF Flags, DesiredIsWanted, Tunnel!history
    <3> DEFINE b == threads[t].stop \/ t = instance
    <3>2. threads'[t] = [threads[t] EXCEPT !.stop = b] BY <2>3, <3>1 DEF Tunnel!Reconcile
    <3>3. threads[t] \in Tunnel!ThreadStates BY <1>0
    <3>4. threads'[t].pc = threads[t].pc /\ threads'[t].stop = b
      BY <3>2, <3>3 DEF Tunnel!ThreadStates
    <3>5. threads[t].stop \in BOOLEAN BY <3>3 DEF Tunnel!ThreadStates
    <3>6. Tunnel!Works(t) /\ t # instance BY <1>w, <3>4, <3>5 DEF Tunnel!Works
    <3>d. CASE Tunnel!Doomed(t) BY <2>d, <3>6, <3>d
    <3> SUFFICES ASSUME ~Tunnel!Doomed(t) PROVE Answered BY <3>d
    <3>7. PICK d \in Tunnel!Callers : Tunnel!At(d, "insert")
      BY <1>0, <3>6 DEF TunnelInv, WorkIsKnown
    <3>8. claim = c /\ claim = d
      BY <1>0, <2>3, <3>7 DEF TunnelInv, ClaimHeld, Claiming, Tunnel!Reconcile
    <3> QED BY <2>3, <3>7, <3>8 DEF Tunnel!Reconcile
  <2>4. CASE Tunnel!Await(c)
    <3>1. Tunnel!Works(t)
      BY <1>0, <1>w, <2>4 DEF Tunnel!Await, Tunnel!Works, Tunnel!ThreadStates
    <3> QED BY <1>0, <1>w, <1>a, <2>0, <2>m, <2>d, <2>4, <3>1 DEF Tunnel!Await
  <2>5. ASSUME NEW u \in Threads, Tunnel!Spawn(c, u) PROVE Answered
    BY <1>0, <2>5 DEF Tunnel!Spawn
  <2>6. CASE Tunnel!TellToStop(c)
    <3>1. Tunnel!Works(t)
      BY <1>0, <1>w, <2>6 DEF Tunnel!TellToStop, Tunnel!Works, Tunnel!ThreadStates
    <3> QED BY <1>0, <1>w, <1>a, <2>0, <2>m, <2>d, <2>6, <3>1 DEF Tunnel!TellToStop
  <2> QED BY <1>1, <2>1, <2>2, <2>3, <2>4, <2>5, <2>6 DEF Tunnel!Start
<1>2. ASSUME NEW c \in Users,
             Tunnel!BeginReplacing(c) \/ Tunnel!ClearDesired(c) \/ Tunnel!RemoveRuntime(c)
      PROVE Answered
  <2>1. CASE Tunnel!BeginReplacing(c) BY <1>w, <2>1 DEF Tunnel!BeginReplacing
  <2>2. CASE Tunnel!ClearDesired(c) BY <1>0, <2>2 DEF Tunnel!ClearDesired
  <2>3. CASE Tunnel!RemoveRuntime(c)
    <3>1. instance' = NoThread BY <2>3 DEF Tunnel!RemoveRuntime, Tunnel!TakenOut
    <3>2. WorkIsKnown' BY KnownStep, <1>0
    <3> QED BY <1>0, <1>w, <3>1, <3>2 DEF WorkIsKnown
  <2> QED BY <1>2, <2>1, <2>2, <2>3
<1>3. CASE Tunnel!Watch
  <2>1. CASE Tunnel!WatchdogReads \/ Tunnel!WatchdogPicks
    BY <1>0, <1>w, <1>a, <2>1 DEF Tunnel!WatchdogReads, Tunnel!WatchdogPicks, Tunnel!Works
  <2>2. CASE Tunnel!BeginMissing
    BY <1>0, <1>w, <1>a, <2>2 DEF Tunnel!BeginMissing, Tunnel!Works
  <2>3. CASE Tunnel!MarkDesired
    BY <1>0, <1>w, <2>3 DEF Tunnel!MarkDesired, Flags, MarksUnderLock, LockIsWanted
  <2> QED BY <1>3, <2>1, <2>2, <2>3 DEF Tunnel!Watch
<1>4. CASE Tunnel!Refresh BY <1>0, <1>w, <1>a, <1>4 DEF Tunnel!Refresh, Tunnel!Works
<1>5. ASSUME NEW u \in Threads,
             Tunnel!Up(u) \/ Tunnel!Backoff(u) \/ Tunnel!TryAgain(u) \/ Tunnel!Panic(u)
             \/ \E error \in BOOLEAN : Tunnel!End(u, error)
      PROVE Answered
  <2>0. threads[t] \in Tunnel!ThreadStates BY <1>0
  <2>1. Tunnel!Works(t)
    <3>1. CASE Tunnel!Up(u)
      BY <1>0, <1>w, <2>0, <3>1 DEF Tunnel!Up, Tunnel!Works, Tunnel!ThreadStates
    <3>2. CASE Tunnel!Backoff(u)
      BY <1>0, <1>w, <2>0, <3>2 DEF Tunnel!Backoff, Tunnel!Works, Tunnel!ThreadStates
    <3>3. CASE Tunnel!TryAgain(u)
      BY <1>0, <1>w, <2>0, <3>3 DEF Tunnel!TryAgain, Tunnel!Works, Tunnel!ThreadStates
    <3>4. CASE Tunnel!Panic(u)
      BY <1>0, <1>w, <2>0, <3>4 DEF Tunnel!Panic, Tunnel!Works, Tunnel!ThreadStates
    <3>5. ASSUME NEW error \in BOOLEAN, Tunnel!End(u, error) PROVE Tunnel!Works(t)
      BY <1>0, <1>w, <2>0, <3>5 DEF Tunnel!End, Tunnel!Works, Tunnel!ThreadStates
    <3> QED BY <1>5, <3>1, <3>2, <3>3, <3>4, <3>5
  <2>2. UNCHANGED <<callers, Tunnel!history>>
    BY <1>5 DEF Tunnel!Up, Tunnel!Backoff, Tunnel!TryAgain, Tunnel!Panic, Tunnel!End
  <2> QED BY <1>w, <1>a, <2>1, <2>2
<1>6. CASE UNCHANGED Tunnel!vars BY <1>w, <1>a, <1>6 DEF Tunnel!vars, Tunnel!Works
<1> QED BY <1>1, <1>2, <1>3, <1>4, <1>5, <1>6 DEF Tunnel!Next

\* Once no start and no disconnect is under way, nothing works.
LEMMA HoldInvHolds ==
    ASSUME Tunnel!SshTunnelAssumption, HoldInv
    PROVE  Tunnel!DisconnectHolds
<1>1. SUFFICES ASSUME ~wanted, ~raced, claim = Nobody,
                      \A c \in Tunnel!Callers :
                          ~Tunnel!At(c, "remove") /\ ~Tunnel!At(c, "take"),
                      NEW t \in Threads, Tunnel!Works(t)
               PROVE  FALSE
  BY DEF Tunnel!DisconnectHolds
<1>2. PICK c \in Tunnel!Callers : callers[c].pc \in {"replace", "insert", "reconcile"}
  BY <1>1 DEF HoldInv, WorkIsAnswered, Tunnel!Callers, Tunnel!Doomed, Tunnel!AboutToStop,
     Tunnel!At
<1>3. claim = c BY <1>2 DEF HoldInv, TunnelInv, ClaimHeld, Claiming
<1> QED BY <1>1, <1>3 DEF Tunnel!SshTunnelAssumption, Tunnel!Callers

\* A disconnect that does not fall between the two locks of the watchdog's start
\* holds until the user connects again, for any number of commands and threads.
THEOREM DisconnectsHold ==
    ASSUME Tunnel!SshTunnelAssumption
    PROVE  Tunnel!Spec => []Tunnel!DisconnectHolds
<1>1. Tunnel!Init => HoldInv BY TunnelInit
<1>2. HoldInv /\ [Tunnel!Next]_(Tunnel!vars) => HoldInv'
  BY TunnelStep, FlagsStep, AnsweredStep DEF HoldInv, TunnelInv, Flags
<1>3. HoldInv => Tunnel!DisconnectHolds BY HoldInvHolds
<1> QED BY <1>1, <1>2, <1>3, PTL DEF Tunnel!Spec

-----------------------------------------------------------------------------
(*************************************************************************)
(* Updater: one check counts at a time, the spinner stops with it, and   *)
(* what waits to be installed is shown.                                  *)
(*                                                                       *)
(* The argument. A check remembers the epoch it was started in, which is *)
(* never a later one (EpochsPast), so a change of the proxy makes all of *)
(* them stale at once. Those that are not are the one in flight, and     *)
(* that gives both halves of the spinner: a check that is not stale will *)
(* end it and one that is stale is not waited for.                       *)
(*************************************************************************)
\* No check belongs to an epoch that has not come.
EpochsPast == \A c \in Checks : checks[c].pc # "idle" => checks[c].epoch <= epoch

\* The inductive invariant.
UpdaterInv == Update!TypeOK /\ EpochsPast /\ Update!OneFlight /\ Update!CheckingHasFlight /\ Update!PendingIsShown

-----------------------------------------------------------------------------
\* Where a check and a download are.
CheckPCs == {"idle", "asked", "answered", "fallback"}
DownloadPCs == {"idle", "asked", "fetching", "stored", "failed"}

\* What the provers need of the records.
LEMMA CheckTyped ==
    ASSUME NEW r \in Update!CheckStates, NEW pc \in CheckPCs,
           NEW v \in Update!Versions \cup {Update!Failed}
    PROVE  /\ [r EXCEPT !.pc = pc] \in Update!CheckStates
           /\ [r EXCEPT !.seen = v] \in Update!CheckStates
           /\ [[r EXCEPT !.pc = pc] EXCEPT !.seen = v] \in Update!CheckStates
BY DEF Update!CheckStates, CheckPCs

\* The fields of a check, and of a download that goes on.
LEMMA CheckFields ==
    ASSUME NEW r \in Update!CheckStates
    PROVE  /\ r.pc \in CheckPCs /\ r.epoch \in 0..MaxEpoch
           /\ r.seen \in Update!Versions \cup {Update!Failed}
BY DEF Update!CheckStates, CheckPCs

\* The fields of a download, which keeps them as it goes on.
LEMMA DownloadTyped ==
    ASSUME NEW r \in Update!DownloadStates, NEW pc \in DownloadPCs
    PROVE  /\ [r EXCEPT !.pc = pc] \in Update!DownloadStates
           /\ r.id \in Update!Versions /\ r.byUser \in BOOLEAN
BY DEF Update!DownloadStates, DownloadPCs

\* What is at rest is typed.
LEMMA UpdaterIdles ==
    ASSUME Update!UpdaterAssumption
    PROVE  /\ Update!IdleCheck \in Update!CheckStates
           /\ Update!IdleDownload \in Update!DownloadStates
           /\ Update!NoEntry \in [id : Update!Versions, verified : BOOLEAN]
           /\ Update!None \in Update!Versions /\ 0 \in 0..MaxEpoch
BY DEF Update!UpdaterAssumption, Update!IdleCheck, Update!IdleDownload, Update!NoEntry,
   Update!CheckStates,
       Update!DownloadStates, Update!Versions, Update!None, Update!Failed

\* A check that ends its flight publishes values of their types.
LEMMA PublishTyped ==
    ASSUME Update!UpdaterAssumption, Update!TypeOK, NEW c \in Checks,
           \/ \E st \in Update!Statuses, v \in Update!Versions, i \in BOOLEAN : Update!Publish(c, st, v, i)
           \/ Update!PublishError(c)
    PROVE  /\ status' \in Update!Statuses
           /\ checking' \in BOOLEAN
           /\ installable' \in BOOLEAN
           /\ manifest' \in Update!Versions /\ pending' \in Update!Versions
           /\ flight' \in Checks \cup {NoCheck} /\ epoch' \in 0..MaxEpoch
           /\ checks' \in [Checks -> Update!CheckStates]
<1>1. checks \in [Checks -> Update!CheckStates] /\ Update!IdleCheck \in Update!CheckStates /\ Update!None \in Update!Versions
  BY UpdaterIdles DEF Update!TypeOK
<1>2. checks' \in [Checks -> Update!CheckStates]
  BY <1>1 DEF Update!Publish, Update!PublishError
<1> QED
  BY <1>1, <1>2 DEF Update!Publish, Update!PublishError, Update!TypeOK, Update!Statuses

\* Each step keeps the types.
LEMMA UpdaterTypeStep ==
    ASSUME Update!UpdaterAssumption, Update!TypeOK, [Update!Next]_(Update!vars)
    PROVE  Update!TypeOK'
<1> USE DEF CheckPCs, DownloadPCs
<1> DEFINE Front == /\ status' \in Update!Statuses /\ checking' \in BOOLEAN
                    /\ installable' \in BOOLEAN
                    /\ manifest' \in Update!Versions /\ pending' \in Update!Versions
                    /\ flight' \in Checks \cup {NoCheck} /\ epoch' \in 0..MaxEpoch
<1>0. /\ checks \in [Checks -> Update!CheckStates]
      /\ downloads \in [Downloads -> Update!DownloadStates]
      /\ entry \in [id : Update!Versions, verified : BOOLEAN]
      /\ pending \in Update!Versions
      /\ running \in Update!Versions
      /\ epoch \in 0..MaxEpoch
      /\ Update!Offered \subseteq Update!Versions /\ Update!None \in Update!Versions
      /\ {"idle", "checking", "available", "downloading", "downloaded", "installing",
          "error"} \subseteq Update!Statuses
      /\ Update!IdleCheck \in Update!CheckStates
      /\ Update!IdleDownload \in Update!DownloadStates
  BY UpdaterIdles DEF Update!TypeOK, Update!Offered, Update!Statuses
<1>1. ASSUME NEW c \in Checks, Update!Check(c) PROVE Update!TypeOK'
  <2>1. [pc |-> "asked", epoch |-> epoch, seen |-> Update!None] \in Update!CheckStates
    BY <1>0 DEF Update!CheckStates
  <2>2. checks' \in [Checks -> Update!CheckStates] BY <1>0, <1>1, <2>1 DEF Update!Check
  <2> QED BY <1>0, <1>1, <2>2 DEF Update!Check, Update!TypeOK
<1>2. ASSUME NEW c \in Checks, Update!Look(c) PROVE Update!TypeOK'
  <2>1. PICK v \in Update!Offered \cup {Update!None, Update!Failed} :
          /\ checks' = [checks EXCEPT ![c].pc = "answered", ![c].seen = v]
          /\ entry' = IF v = Update!Failed THEN entry ELSE [id |-> v, verified |-> FALSE]
    BY <1>2 DEF Update!Look
  <2>2. [[checks[c] EXCEPT !.pc = "answered"] EXCEPT !.seen = v] \in Update!CheckStates
    BY <1>0, CheckTyped
  <2>3. checks' = [checks EXCEPT ![c] =
                      [[checks[c] EXCEPT !.pc = "answered"] EXCEPT !.seen = v]]
    BY <1>0, <2>1
  <2>4. checks' \in [Checks -> Update!CheckStates] BY <1>0, <2>2, <2>3
  <2>5. entry' \in [id : Update!Versions, verified : BOOLEAN] BY <1>0, <2>1
  <2> QED BY <1>2, <2>4, <2>5 DEF Update!Look, Update!front, Update!TypeOK
<1>3. ASSUME NEW c \in Checks, Update!Drop(c) PROVE Update!TypeOK'
  BY <1>0, <1>3 DEF Update!Drop, Update!front, Update!TypeOK
<1>4. ASSUME NEW c \in Checks, NEW silent \in BOOLEAN, Update!Reply(c, silent)
      PROVE  Update!TypeOK'
  <2>1. CASE UNCHANGED Update!front /\ checks' = [checks EXCEPT ![c].pc = "fallback"]
    <3>1. [checks[c] EXCEPT !.pc = "fallback"] \in Update!CheckStates BY <1>0, CheckTyped
    <3>2. checks' \in [Checks -> Update!CheckStates] BY <1>0, <2>1, <3>1
    <3> QED BY <1>4, <2>1, <3>2 DEF Update!Reply, Update!front, Update!TypeOK
  <2>2. CASE \/ \E st \in Update!Statuses, v \in Update!Versions, i \in BOOLEAN : Update!Publish(c, st, v, i)
             \/ Update!PublishError(c)
    <3>1. Front /\ checks' \in [Checks -> Update!CheckStates] BY <2>2, PublishTyped
    <3> QED BY <1>4, <3>1 DEF Update!Reply, Update!TypeOK
  <2>3. checks[c].seen \in Update!Versions \cup {Update!Failed} BY <1>0, CheckFields
  <2> QED BY <1>0, <1>4, <2>1, <2>2, <2>3 DEF Update!Reply
<1>5. ASSUME NEW c \in Checks, Update!Fallback(c) PROVE Update!TypeOK'
  <2>1. \/ \E st \in Update!Statuses, v \in Update!Versions, i \in BOOLEAN : Update!Publish(c, st, v, i)
        \/ Update!PublishError(c)
    BY <1>0, <1>5 DEF Update!Fallback
  <2>2. Front /\ checks' \in [Checks -> Update!CheckStates] BY <2>1, PublishTyped
  <2> QED BY <1>5, <2>2 DEF Update!Fallback, Update!TypeOK
<1>6. CASE Update!Invalidate
  <2>1. epoch' \in 0..MaxEpoch
    BY <1>0, <1>6 DEF Update!Invalidate, Update!UpdaterAssumption
  <2>2. status' \in Update!Statuses BY <1>0, <1>6 DEF Update!Invalidate, Update!TypeOK
  <2> QED BY <1>6, <2>1, <2>2 DEF Update!Invalidate, Update!TypeOK
<1>7. ASSUME NEW d \in Downloads, NEW byUser \in BOOLEAN, Update!Download(d, byUser)
      PROVE Update!TypeOK'
  <2>1. [pc |-> "asked", id |-> pending, byUser |-> byUser] \in Update!DownloadStates
    BY <1>0 DEF Update!DownloadStates
  <2>2. downloads' \in [Downloads -> Update!DownloadStates]
    BY <1>0, <1>7, <2>1 DEF Update!Download
  <2> QED BY <1>0, <1>7, <2>2 DEF Update!Download, Update!TypeOK
<1>8. ASSUME NEW d \in Downloads, Update!DownloadStep(d) PROVE Update!TypeOK'
  <2>0. downloads[d] \in Update!DownloadStates BY <1>0
  <2>1. CASE Update!LookUp(d)
    <3>1. [downloads[d] EXCEPT !.pc = "fetching"] \in Update!DownloadStates
          /\ [downloads[d] EXCEPT !.pc = "failed"] \in Update!DownloadStates
      BY <2>0, DownloadTyped
    <3>2. downloads' \in [Downloads -> Update!DownloadStates]
      BY <1>0, <2>1, <3>1 DEF Update!LookUp
    <3> QED BY <2>1, <3>2 DEF Update!LookUp, Update!front, Update!TypeOK
  <2>2. CASE Update!Fetched(d)
    <3>1. [downloads[d] EXCEPT !.pc = "stored"] \in Update!DownloadStates
      BY <2>0, DownloadTyped
    <3>2. downloads' \in [Downloads -> Update!DownloadStates]
      BY <1>0, <2>2, <3>1 DEF Update!Fetched
    <3>3. entry' \in [id : Update!Versions, verified : BOOLEAN]
      BY <1>0, <2>2 DEF Update!Fetched
    <3> QED BY <2>2, <3>2, <3>3 DEF Update!Fetched, Update!front, Update!TypeOK
  <2>3. CASE Update!FetchFails(d)
    <3>1. [downloads[d] EXCEPT !.pc = "failed"] \in Update!DownloadStates
      BY <2>0, DownloadTyped
    <3>2. downloads' \in [Downloads -> Update!DownloadStates]
      BY <1>0, <2>3, <3>1 DEF Update!FetchFails
    <3> QED BY <2>3, <3>2 DEF Update!FetchFails, Update!front, Update!TypeOK
  <2>4. CASE Update!Downloaded(d)
    <3>1. downloads' \in [Downloads -> Update!DownloadStates]
      BY <1>0, <2>4 DEF Update!Downloaded
    <3>2. installs' \subseteq Update!Versions \ {Update!None} /\ status' \in Update!Statuses
      BY <1>0, <2>4 DEF Update!Downloaded, Update!TypeOK
    <3> QED BY <2>4, <3>1, <3>2 DEF Update!Downloaded, Update!TypeOK
  <2>5. CASE Update!DownloadFailed(d)
    BY <1>0, <2>5 DEF Update!DownloadFailed, Update!TypeOK
  <2> QED BY <1>8, <2>1, <2>2, <2>3, <2>4, <2>5 DEF Update!DownloadStep
<1>9. CASE Update!Install BY <1>0, <1>9 DEF Update!Install, Update!TypeOK
<1>10. ASSUME NEW id \in installs, Update!Relaunch(id) \/ Update!InstallFails(id)
       PROVE  Update!TypeOK'
  <2>1. CASE Update!Relaunch(id)
    BY <1>0, <2>1, UpdaterIdles DEF Update!Relaunch, Update!TypeOK
  <2>2. CASE Update!InstallFails(id) BY <1>0, <2>2 DEF Update!InstallFails, Update!TypeOK
  <2> QED BY <1>10, <2>1, <2>2
<1>11. CASE UNCHANGED Update!vars BY <1>11 DEF Update!vars, Update!front, Update!TypeOK
<1> QED BY <1>1, <1>2, <1>3, <1>4, <1>5, <1>6, <1>7, <1>8, <1>9, <1>10, <1>11
     DEF Update!Next, Update!CheckStep
\* The invariant in the initial state.
LEMMA UpdaterInit == ASSUME Update!UpdaterAssumption, Update!Init PROVE UpdaterInv
<1>1. Update!TypeOK
  <2>1. 0 \in 0..MaxEpoch BY UpdaterIdles
  <2>2. checks \in [Checks -> Update!CheckStates] /\ downloads \in [Downloads -> Update!DownloadStates]
        /\ entry \in [id : Update!Versions, verified : BOOLEAN] /\ Update!None \in Update!Versions
        /\ running \in Update!Versions
    BY UpdaterIdles DEF Update!Init, Update!None
  <2> QED BY <2>1, <2>2 DEF Update!Init, Update!TypeOK, Update!Statuses
<1>2. \A c \in Checks : checks[c].pc = "idle" BY DEF Update!Init, Update!IdleCheck
<1> QED
  BY <1>1, <1>2 DEF Update!Init, UpdaterInv, EpochsPast, Update!OneFlight,
     Update!CheckingHasFlight,
             Update!PendingIsShown, Update!None

\* Each step keeps the one flight and the epochs.
LEMMA FlightStep ==
    ASSUME Update!UpdaterAssumption, Update!TypeOK, EpochsPast, Update!OneFlight,
           Update!CheckingHasFlight, [Update!Next]_(Update!vars)
    PROVE  EpochsPast' /\ Update!OneFlight' /\ Update!CheckingHasFlight'
<1> USE DEF EpochsPast, Update!OneFlight, Update!CheckingHasFlight, Update!Stale
<1> DEFINE Goal == EpochsPast' /\ Update!OneFlight' /\ Update!CheckingHasFlight'
<1>0. /\ checks \in [Checks -> Update!CheckStates] /\ NoCheck \notin Checks
      /\ epoch \in Int /\ MaxEpoch \in Nat
      /\ flight \in Checks \cup {NoCheck}
      /\ \A c \in Checks : checks[c].epoch \in Int
  BY CheckFields DEF Update!TypeOK, Update!UpdaterAssumption
<1>1. ASSUME NEW c \in Checks, Update!Check(c) PROVE Goal
  <2>1. checks'[c] = [pc |-> "asked", epoch |-> epoch, seen |-> Update!None]
        /\ \A d \in Checks \ {c} : checks'[d] = checks[d]
    BY <1>0, <1>1 DEF Update!Check
  <2> QED BY <1>0, <1>1, <2>1 DEF Update!Check
\* A check that goes on, and one that ends.
<1>g. ASSUME NEW c \in Checks, checks[c].pc # "idle",
             \A d \in Checks \ {c} : checks'[d] = checks[d],
             checks'[c].pc # "idle", checks'[c].epoch = checks[c].epoch,
             UNCHANGED Update!front
      PROVE  Goal
  BY <1>0, <1>g DEF Update!front
<1>e. ASSUME NEW c \in Checks, checks[c].pc # "idle", ~Update!Stale(c),
             \A d \in Checks \ {c} : checks'[d] = checks[d],
             checks'[c].pc = "idle", epoch' = epoch, flight' = NoCheck,
             checking' = FALSE, status' # "checking"
      PROVE  Goal
  BY <1>0, <1>e
<1>p. ASSUME NEW c \in Checks, checks[c].pc # "idle", ~Update!Stale(c),
             \/ \E st \in {"available", "idle"}, v \in Update!Versions, i \in BOOLEAN :
                    Update!Publish(c, st, v, i)
             \/ Update!PublishError(c)
      PROVE  Goal
  <2>1. checks'[c].pc = "idle" /\ \A d \in Checks \ {c} : checks'[d] = checks[d]
    BY <1>0, <1>p DEF Update!Publish, Update!PublishError, Update!IdleCheck
  <2>2. epoch' = epoch /\ flight' = NoCheck /\ checking' = FALSE /\ status' # "checking"
    BY <1>p DEF Update!Publish, Update!PublishError
  <2> QED BY <1>e, <1>p, <2>1, <2>2
<1>2. ASSUME NEW c \in Checks, Update!Look(c) PROVE Goal
  <2>1. PICK v : checks' = [checks EXCEPT ![c].pc = "answered", ![c].seen = v]
    BY <1>2 DEF Update!Look
  <2>2. checks[c] \in Update!CheckStates BY <1>0
  <2>3. /\ checks'[c].pc = "answered" /\ checks'[c].epoch = checks[c].epoch
        /\ \A d \in Checks \ {c} : checks'[d] = checks[d]
    BY <1>0, <2>1, <2>2 DEF Update!CheckStates
  <2> QED BY <1>2, <1>g, <2>3 DEF Update!Look
<1>3. ASSUME NEW c \in Checks, Update!Drop(c) PROVE Goal
  <2>1. checks'[c].pc = "idle" /\ \A d \in Checks \ {c} : checks'[d] = checks[d]
    BY <1>0, <1>3 DEF Update!Drop, Update!IdleCheck
  <2> QED BY <1>0, <1>3, <2>1 DEF Update!Drop, Update!front
<1>4. ASSUME NEW c \in Checks, NEW silent \in BOOLEAN, Update!Reply(c, silent) PROVE Goal
  <2>0. checks[c].pc # "idle" /\ ~Update!Stale(c) BY <1>4 DEF Update!Reply
  <2>1. CASE UNCHANGED Update!front /\ checks' = [checks EXCEPT ![c].pc = "fallback"]
    <3>1. checks[c] \in Update!CheckStates BY <1>0
    <3>2. /\ checks'[c].pc = "fallback" /\ checks'[c].epoch = checks[c].epoch
          /\ \A d \in Checks \ {c} : checks'[d] = checks[d]
      BY <1>0, <2>1, <3>1 DEF Update!CheckStates
    <3> QED BY <1>g, <2>0, <2>1, <3>2
  <2>2. CASE \/ \E st \in {"available", "idle"}, v \in Update!Versions, i \in BOOLEAN :
                    Update!Publish(c, st, v, i)
             \/ Update!PublishError(c)
    BY <1>p, <2>0, <2>2
  <2>3. checks[c].seen \in Update!Versions \cup {Update!Failed} /\ Update!None \in Update!Versions
    BY <1>0, CheckFields, UpdaterIdles
  <2> QED BY <1>4, <2>1, <2>2, <2>3 DEF Update!Reply
<1>5. ASSUME NEW c \in Checks, Update!Fallback(c) PROVE Goal
  <2>0. checks[c].pc # "idle" /\ ~Update!Stale(c) BY <1>5 DEF Update!Fallback
  <2>1. \/ \E st \in {"available", "idle"}, v \in Update!Versions, i \in BOOLEAN :
               Update!Publish(c, st, v, i)
        \/ Update!PublishError(c)
    BY <1>5, UpdaterIdles DEF Update!Fallback, Update!Offered
  <2> QED BY <1>p, <2>0, <2>1
<1>6. CASE Update!Invalidate BY <1>0, <1>6 DEF Update!Invalidate
<1>7. ASSUME NEW d \in Downloads, NEW byUser \in BOOLEAN, Update!Download(d, byUser)
      PROVE  Goal
  BY <1>0, <1>7 DEF Update!Download
<1>8. ASSUME NEW d \in Downloads, Update!DownloadStep(d) PROVE Goal
  BY <1>0, <1>8 DEF Update!DownloadStep, Update!LookUp, Update!Fetched,
     Update!FetchFails, Update!Downloaded,
     Update!DownloadFailed, Update!front
<1>9. CASE Update!Install BY <1>0, <1>9 DEF Update!Install
<1>10. ASSUME NEW id \in installs, Update!Relaunch(id) \/ Update!InstallFails(id)
       PROVE  Goal
  <2>1. CASE Update!Relaunch(id)
    <3>1. \A c \in Checks : checks'[c].pc = "idle"
      BY <2>1 DEF Update!Relaunch, Update!IdleCheck
    <3> QED BY <2>1, <3>1 DEF Update!Relaunch
  <2>2. CASE Update!InstallFails(id) BY <1>0, <2>2 DEF Update!InstallFails
  <2> QED BY <1>10, <2>1, <2>2
<1>11. CASE UNCHANGED Update!vars BY <1>0, <1>11 DEF Update!vars, Update!front
<1> QED BY <1>1, <1>2, <1>3, <1>4, <1>5, <1>6, <1>7, <1>8, <1>9, <1>10, <1>11
     DEF Update!Next, Update!CheckStep

\* Only the end of a check, and a new start, touch what is pending or shown.
LEMMA PendingStep ==
    ASSUME Update!UpdaterAssumption, Update!TypeOK, Update!PendingIsShown,
           [Update!Next]_(Update!vars)
    PROVE  Update!PendingIsShown'
<1> USE DEF Update!PendingIsShown
<1>p. ASSUME NEW c \in Checks,
             \/ \E st \in Update!Statuses, v \in Update!Versions, i \in BOOLEAN :
                    Update!Publish(c, st, v, i) /\ (i => v # Update!None)
             \/ Update!PublishError(c)
      PROVE  Update!PendingIsShown'
  BY <1>p DEF Update!Publish, Update!PublishError
<1>0. /\ Update!None \in Update!Versions
      /\ "available" \in Update!Statuses
      /\ "idle" \in Update!Statuses
      /\ \A c \in Checks : checks[c].seen \in Update!Versions \cup {Update!Failed}
  BY UpdaterIdles, CheckFields DEF Update!TypeOK, Update!Statuses
<1>1. ASSUME NEW c \in Checks, Update!Check(c)
      PROVE  Update!PendingIsShown' BY <1>1 DEF Update!Check
<1>2. ASSUME NEW c \in Checks, Update!CheckStep(c) PROVE Update!PendingIsShown'
  <2>1. CASE Update!Look(c) \/ Update!Drop(c)
    BY <2>1 DEF Update!Look, Update!Drop, Update!front
  <2>2. CASE Update!Fallback(c) BY <1>0, <1>p, <2>2 DEF Update!Fallback, Update!Offered
  <2>3. ASSUME NEW silent \in BOOLEAN, Update!Reply(c, silent)
        PROVE  Update!PendingIsShown'
    <3>1. CASE UNCHANGED Update!front BY <3>1 DEF Update!front
    <3>2. CASE \/ /\ checks[c].seen \notin {Update!None, Update!Failed}
                  /\ Update!Publish(c, "available", checks[c].seen, TRUE)
               \/ Update!Publish(c, "idle", Update!None, FALSE) \/ Update!PublishError(c)
      BY <1>0, <1>p, <3>2
    <3> QED BY <2>3, <3>1, <3>2 DEF Update!Reply
  <2> QED BY <1>2, <2>1, <2>2, <2>3 DEF Update!CheckStep
<1>3. CASE Update!Invalidate BY <1>3 DEF Update!Invalidate
<1>4. ASSUME NEW d \in Downloads, NEW byUser \in BOOLEAN, Update!Download(d, byUser)
      PROVE Update!PendingIsShown'
  BY <1>4 DEF Update!Download
<1>5. ASSUME NEW d \in Downloads, Update!DownloadStep(d) PROVE Update!PendingIsShown'
  BY <1>5 DEF Update!DownloadStep, Update!LookUp, Update!Fetched, Update!FetchFails,
     Update!Downloaded, Update!DownloadFailed, Update!front
<1>6. CASE Update!Install BY <1>6 DEF Update!Install
<1>7. ASSUME NEW id \in installs, Update!Relaunch(id) \/ Update!InstallFails(id)
      PROVE Update!PendingIsShown'
  BY <1>7 DEF Update!Relaunch, Update!InstallFails, Update!None
<1>8. CASE UNCHANGED Update!vars BY <1>8 DEF Update!vars, Update!front
<1> QED BY <1>1, <1>2, <1>3, <1>4, <1>5, <1>6, <1>7, <1>8 DEF Update!Next

\* All of it holds in every state.
LEMMA AlwaysUpdaterInv ==
    ASSUME Update!UpdaterAssumption
    PROVE  Update!Spec => []UpdaterInv
<1>1. Update!Init => UpdaterInv BY UpdaterInit
<1>2. UpdaterInv /\ [Update!Next]_(Update!vars) => UpdaterInv'
  BY UpdaterTypeStep, FlightStep, PendingStep DEF UpdaterInv
<1> QED BY <1>1, <1>2, PTL DEF Update!Spec

\* The types of the updater's state and of its native entry, for any calls.
THEOREM UpdaterTypeCorrect ==
    ASSUME Update!UpdaterAssumption
    PROVE  Update!Spec => []Update!TypeOK
<1>1. UpdaterInv => Update!TypeOK BY DEF UpdaterInv
<1> QED BY <1>1, AlwaysUpdaterInv, PTL

\* However many checks the changes of the proxy leave behind, one at most is of the
\* present transport, and it is the one that callers join.
THEOREM OneCheckAtATime ==
    ASSUME Update!UpdaterAssumption
    PROVE  Update!Spec => []Update!OneFlight
<1>1. UpdaterInv => Update!OneFlight BY DEF UpdaterInv
<1> QED BY <1>1, AlwaysUpdaterInv, PTL

\* The application never shows a check that nobody will end.
THEOREM SpinnerHasFlight ==
    ASSUME Update!UpdaterAssumption
    PROVE  Update!Spec => []Update!CheckingHasFlight
<1>1. UpdaterInv => Update!CheckingHasFlight BY DEF UpdaterInv
<1> QED BY <1>1, AlwaysUpdaterInv, PTL

\* What an install would install is what the application shows.
THEOREM PendingShown ==
    ASSUME Update!UpdaterAssumption
    PROVE  Update!Spec => []Update!PendingIsShown
<1>1. UpdaterInv => Update!PendingIsShown BY DEF UpdaterInv
<1> QED BY <1>1, AlwaysUpdaterInv, PTL

-----------------------------------------------------------------------------
(*************************************************************************)
(* SftpTransfer: a failed download leaves the target as it was, a failed *)
(* transfer can be tried again, and a card that transfers will end.      *)
(*                                                                       *)
(* The argument. Until the task is cancelled or an attempt begins before *)
(* another has replied, which disturbed remembers, one attempt at most   *)
(* is under way (OneAttempt), so that the child that is registered and   *)
(* the file that is written are its own (OwnChild), and only a whole     *)
(* file becomes the target. A card that was not cleared keeps the call   *)
(* it was made for (NotBegun, CallKept), which is what a retry repeats.  *)
(* And the last event on its way says that the transfer goes on only     *)
(* while an attempt writes that will say how it ended (LastEvent,        *)
(* EndComes).                                                            *)
(*************************************************************************)
\* An attempt that is under way, one that writes its file, and one of which an event
\* will still come.
Busy(a) == attempts[a].pc # "idle"
Writing(a) == attempts[a].pc \in {"streaming", "ended"}
Announcing(a) == attempts[a].pc \in {"called", "streaming", "ended", "failed"}

\* Every cancellation called is there until its reply is taken.
CancelsBounded == cancels.called + cancels.done <= MaxCancels
\* As long as nothing disturbed the task, one attempt at most is under way, and the
\* one that writes has its own child and its own file.
OneAttempt == ~disturbed => \A a, b \in Attempts : Busy(a) /\ Busy(b) => a = b
OwnChild ==
    ~disturbed => \A a \in Attempts : Writing(a) => registered = a /\ ~attempts[a].shared
\* A task without a card that was not cleared has not begun; one with a card keeps
\* what a retry needs.
NotBegun ==
    ~cleared /\ card.status = "none" =>
        /\ \A a \in Attempts : ~Busy(a)
        /\ events = <<>> /\ cancels.called = 0 /\ cancels.done = 0
CallKept == ~cleared /\ card.status # "none" => card.retry
\* What an attempt says last is not that it goes on, unless it does.
LastEvent ==
    ~unannounced /\ events # <<>> /\ events[Len(events)] = "transferring" =>
        \E a \in Attempts : Writing(a)
\* And a card that is shown as going on has an attempt that will say how it ends.
EndComes ==
    ~unannounced /\ events = <<>> /\ card.status = "transferring" =>
        \E a \in Attempts : Announcing(a)

\* The inductive invariant.
TransferInv ==
    /\ Transfer!TypeOK
    /\ CancelsBounded
    /\ OneAttempt
    /\ OwnChild
    /\ Transfer!FailureKeepsFile
    /\ NotBegun /\ CallKept /\ LastEvent /\ EndComes

\* Where an attempt is.
AttemptPCs == {"idle", "called", "streaming", "ended", "failed", "succeeded"}

\* The attempts after one of them has gone on.
LEMMA AttemptMoved ==
    ASSUME Transfer!TypeOK, NEW a \in Attempts, NEW pc \in AttemptPCs, Transfer!Goes(a, pc)
    PROVE  /\ attempts' \in [Attempts -> Transfer!AttemptStates]
           /\ attempts'[a].pc = pc
           /\ attempts'[a].whole = attempts[a].whole
           /\ attempts'[a].shared = attempts[a].shared
           /\ \A b \in Attempts \ {a} : attempts'[b] = attempts[b]
<1>1. attempts \in [Attempts -> Transfer!AttemptStates] BY DEF Transfer!TypeOK
<1>2. attempts' = [attempts EXCEPT ![a] = [attempts[a] EXCEPT !.pc = pc]]
  BY DEF Transfer!Goes
<1> DEFINE new == [attempts[a] EXCEPT !.pc = pc]
<1>3. /\ new \in Transfer!AttemptStates /\ new.pc = pc
      /\ new.whole = attempts[a].whole /\ new.shared = attempts[a].shared
  BY <1>1 DEF Transfer!AttemptStates, AttemptPCs
<1> HIDE DEF new
<1>4. attempts' = [attempts EXCEPT ![a] = new] BY <1>2 DEF new
<1> QED BY <1>1, <1>3, <1>4

\* The events after one more.
LEMMA EventEmitted ==
    ASSUME Transfer!TypeOK, NEW said \in Transfer!CardStatuses, Transfer!Emit(said)
    PROVE  /\ events' \in Seq(Transfer!CardStatuses) /\ events' # <<>>
           /\ events'[Len(events')] = said
<1>1. events \in Seq(Transfer!CardStatuses) /\ events' = Append(events, said)
  BY DEF Transfer!TypeOK, Transfer!Emit
<1> QED BY <1>1

\* The invariant in the initial state.
LEMMA TransferInit ==
    ASSUME Transfer!SftpTransferAssumption, Transfer!Init
    PROVE  TransferInv
<1>1. Transfer!IdleAttempt \in Transfer!AttemptStates /\ Transfer!IdleAttempt.pc = "idle"
  BY DEF Transfer!IdleAttempt, Transfer!AttemptStates
<1>2. /\ attempts \in [Attempts -> Transfer!AttemptStates]
      /\ \A a \in Attempts : attempts[a].pc = "idle"
  BY <1>1 DEF Transfer!Init
<1>3. cancels \in [called : 0..MaxCancels, done : 0..MaxCancels] /\ card \in Transfer!Card
  BY DEF Transfer!Init, Transfer!NoCard, Transfer!Card, Transfer!SftpTransferAssumption
<1>4. Transfer!TypeOK
  <2>1. events \in Seq(Transfer!CardStatuses) BY DEF Transfer!Init
  <2>2. /\ {disturbed, cleared, unannounced} \subseteq BOOLEAN
        /\ download \in BOOLEAN /\ registered \in Attempts \cup {NoAttempt}
        /\ file \in {"old", "whole", "part"}
    BY DEF Transfer!Init
  <2> QED BY <1>2, <1>3, <2>1, <2>2 DEF Transfer!TypeOK
<1>5. CancelsBounded BY DEF Transfer!Init, CancelsBounded, Transfer!SftpTransferAssumption
<1> QED
  BY <1>2, <1>4, <1>5 DEF Transfer!Init, TransferInv, OneAttempt, OwnChild,
     Transfer!FailureKeepsFile,
     NotBegun, CallKept, LastEvent, EndComes, Busy, Writing, Announcing, Transfer!NoCard

\* The user's side: a call, a cancellation, clearing the card.
LEMMA CallStep ==
    ASSUME TransferInv, NEW a \in Attempts, Transfer!Begin(a) \/ Transfer!Retry(a)
    PROVE  TransferInv'
<1>0. /\ Transfer!TypeOK
      /\ CancelsBounded
      /\ OneAttempt
      /\ OwnChild
      /\ Transfer!FailureKeepsFile
      /\ NotBegun /\ CallKept /\ LastEvent /\ EndComes
  BY DEF TransferInv
<1>1. Transfer!Call(a) BY DEF Transfer!Begin, Transfer!Retry
<1> DEFINE new == [Transfer!IdleAttempt EXCEPT !.pc = "called"]
<1>2. new \in Transfer!AttemptStates /\ new.pc = "called"
  BY DEF Transfer!IdleAttempt, Transfer!AttemptStates
<1>3. attempts' = [attempts EXCEPT ![a] = new] /\ attempts[a].pc = "idle"
  BY <1>1 DEF Transfer!Call, Transfer!Is
<1> HIDE DEF new
<1>4. /\ attempts' \in [Attempts -> Transfer!AttemptStates] /\ attempts'[a].pc = "called"
      /\ \A b \in Attempts \ {a} : attempts'[b] = attempts[b]
  BY <1>0, <1>2, <1>3 DEF Transfer!TypeOK
<1>5. /\ card' = [status |-> "transferring", retry |-> TRUE]
      /\ disturbed' = (disturbed \/ \E b \in Attempts \ {a} : attempts[b].pc # "idle")
      /\ UNCHANGED <<download, registered, events, cancels, file, cleared, unannounced>>
  BY <1>1 DEF Transfer!Call, Transfer!Is
<1>6. card' \in Transfer!Card /\ card'.status = "transferring" /\ card'.retry = TRUE
  BY <1>5 DEF Transfer!Card, Transfer!CardStatuses
<1>7. Transfer!TypeOK' BY <1>0, <1>4, <1>5, <1>6 DEF Transfer!TypeOK
<1>8. CancelsBounded' /\ Transfer!FailureKeepsFile'
  BY <1>0, <1>5 DEF CancelsBounded, Transfer!FailureKeepsFile, Transfer!TypeOK
<1>9. OneAttempt' /\ OwnChild'
  BY <1>0, <1>3, <1>4, <1>5 DEF OneAttempt, OwnChild, Busy, Writing, Transfer!TypeOK
<1>10. NotBegun' /\ CallKept' BY <1>6 DEF NotBegun, CallKept
<1>11. LastEvent' /\ EndComes'
  BY <1>0, <1>3, <1>4, <1>5 DEF LastEvent, EndComes, Writing, Announcing
<1> QED BY <1>7, <1>8, <1>9, <1>10, <1>11 DEF TransferInv

\* A cancellation that is called, and its reply, touch nothing that is promised.
LEMMA CancelStep ==
    ASSUME TransferInv, Transfer!SftpTransferAssumption,
           Transfer!Cancel \/ Transfer!CancelReplied
    PROVE  TransferInv'
<1>0. /\ Transfer!TypeOK
      /\ CancelsBounded
      /\ OneAttempt
      /\ OwnChild
      /\ Transfer!FailureKeepsFile
      /\ NotBegun /\ CallKept /\ LastEvent /\ EndComes
  BY DEF TransferInv
<1>1. cancels.called \in 0..MaxCancels /\ cancels.done \in 0..MaxCancels
  BY <1>0 DEF Transfer!TypeOK
<1>2. CASE Transfer!Cancel
  <2>1. /\ card.status = "transferring" /\ cancels.called + cancels.done < MaxCancels
        /\ cancels' = [cancels EXCEPT !.called = @ + 1]
        /\ UNCHANGED <<download, card, registered, attempts, events, file, disturbed,
                       cleared, unannounced>>
    BY <1>2 DEF Transfer!Cancel, Transfer!now, Transfer!histories
  <2>2. /\ cancels' \in [called : 0..MaxCancels, done : 0..MaxCancels]
        /\ cancels'.called = cancels.called + 1 /\ cancels'.done = cancels.done
    BY <1>0, <1>1, <2>1 DEF Transfer!TypeOK, Transfer!SftpTransferAssumption
  <2>3. Transfer!TypeOK' BY <1>0, <2>1, <2>2 DEF Transfer!TypeOK
  <2>4. CancelsBounded'
    BY <1>1, <2>1, <2>2 DEF CancelsBounded, Transfer!SftpTransferAssumption
  <2> QED
    BY <1>0, <2>1, <2>3, <2>4 DEF TransferInv, OneAttempt, OwnChild,
       Transfer!FailureKeepsFile,
       NotBegun, CallKept, LastEvent, EndComes, Busy, Writing, Announcing
<1>3. CASE Transfer!CancelReplied
  <2>1. /\ cancels.done > 0 /\ cancels' = [cancels EXCEPT !.done = @ - 1]
        /\ card' = IF card.status = "none" THEN card
                   ELSE [card EXCEPT !.status = "cancelled"]
        /\ UNCHANGED <<download, registered, attempts, events, file, disturbed,
                       cleared, unannounced>>
    BY <1>3 DEF Transfer!CancelReplied, Transfer!histories
  <2>2. /\ cancels' \in [called : 0..MaxCancels, done : 0..MaxCancels]
        /\ cancels'.called = cancels.called /\ cancels'.done = cancels.done - 1
    BY <1>0, <1>1, <2>1 DEF Transfer!TypeOK, Transfer!SftpTransferAssumption
  <2>3. /\ card' \in Transfer!Card /\ card'.retry = card.retry
        /\ card'.status = IF card.status = "none" THEN "none" ELSE "cancelled"
    BY <1>0, <2>1 DEF Transfer!TypeOK, Transfer!Card, Transfer!CardStatuses
  <2>4. Transfer!TypeOK' BY <1>0, <2>1, <2>2, <2>3 DEF Transfer!TypeOK
  <2>5. CancelsBounded'
    BY <1>0, <1>1, <2>1, <2>2 DEF CancelsBounded, Transfer!SftpTransferAssumption
  <2>6. NotBegun' BY <1>0, <1>1, <2>1, <2>2, <2>3 DEF NotBegun, Busy
  <2>7. CallKept' /\ EndComes' BY <1>0, <2>1, <2>3 DEF CallKept, EndComes
  <2> QED
    BY <1>0, <2>1, <2>4, <2>5, <2>6, <2>7 DEF TransferInv, OneAttempt, OwnChild,
       Transfer!FailureKeepsFile, LastEvent, Busy, Writing
<1> QED BY <1>2, <1>3

\* A card that is cleared is promised nothing any more.
LEMMA ClearStep == ASSUME TransferInv, Transfer!Clear PROVE TransferInv'
<1>0. /\ Transfer!TypeOK
      /\ CancelsBounded
      /\ OneAttempt
      /\ OwnChild
      /\ Transfer!FailureKeepsFile
      /\ NotBegun /\ CallKept /\ LastEvent /\ EndComes
  BY DEF TransferInv
<1>1. /\ card' = Transfer!NoCard /\ cleared' = TRUE
      /\ UNCHANGED <<download, registered, attempts, events, cancels, file, disturbed,
                     unannounced>>
  BY DEF Transfer!Clear
<1>2. card' \in Transfer!Card /\ card'.status = "none"
  BY <1>1 DEF Transfer!NoCard, Transfer!Card
<1>3. Transfer!TypeOK' BY <1>0, <1>1, <1>2 DEF Transfer!TypeOK
<1> QED
  BY <1>0, <1>1, <1>2, <1>3 DEF TransferInv, CancelsBounded, OneAttempt, OwnChild,
     Transfer!FailureKeepsFile, NotBegun, CallKept, LastEvent, EndComes, Busy, Writing

\* A step of one attempt that is under way, which may write a part of the file only
\* if it is not alone or does not download, forgets the child only if it stops
\* writing, and says something else when it does.
LEMMA AttemptKeeps ==
    ASSUME TransferInv, Transfer!TypeOK', NEW a \in Attempts, Busy(a), Busy(a)',
           attempts'[a].shared = attempts[a].shared,
           \A b \in Attempts \ {a} : attempts'[b] = attempts[b],
           UNCHANGED <<download, card, cancels, disturbed, cleared>>,
           Transfer!FailureKeepsFile',
           \/ ~Writing(a)'
           \/ Writing(a) /\ UNCHANGED registered,
           unannounced => unannounced',
           \/ unannounced'
           \/ events' # <<>> /\ events'[Len(events')] # "transferring"
           \/ Writing(a)'
           \/ ~Writing(a) /\ Announcing(a)' /\ UNCHANGED events
    PROVE  TransferInv'
<1>0. /\ Transfer!TypeOK
      /\ CancelsBounded
      /\ OneAttempt
      /\ OwnChild
      /\ Transfer!FailureKeepsFile
      /\ NotBegun /\ CallKept /\ LastEvent /\ EndComes
  BY DEF TransferInv
<1>1. CancelsBounded' BY <1>0 DEF CancelsBounded
<1>2. OneAttempt' BY <1>0 DEF OneAttempt, Busy
<1>3. OwnChild'
  <2> SUFFICES ASSUME ~disturbed, NEW b \in Attempts, Writing(b)'
               PROVE  registered' = b /\ ~attempts'[b].shared
    BY DEF OwnChild
  <2>1. b = a BY <1>0 DEF OneAttempt, Busy, Writing
  <2>2. Writing(a) /\ UNCHANGED registered BY <2>1
  <2> QED BY <1>0, <2>1, <2>2 DEF OwnChild
<1>4. NotBegun' /\ CallKept' BY <1>0 DEF NotBegun, CallKept, Busy
<1>5. LastEvent' BY <1>0 DEF LastEvent, Writing
<1>6. EndComes' BY <1>0 DEF EndComes, Announcing, Writing
<1> QED BY <1>1, <1>2, <1>3, <1>4, <1>5, <1>6 DEF TransferInv

\* The steps of an attempt: what it writes is its own, and what it says last is how
\* it ends.
LEMMA AttemptStep ==
    ASSUME Transfer!SftpTransferAssumption, TransferInv, NEW a \in Attempts,
           NEW whole \in BOOLEAN,
           \/ Transfer!FailsEarly(a) \/ Transfer!Progress(a) \/ Transfer!OpenFails(a) \/ Transfer!StreamFails(a)
           \/ Transfer!StreamEnds(a, whole) \/ Transfer!ExitFails(a) \/ Transfer!Finish(a) \/ Transfer!RenameFails(a)
    PROVE  TransferInv'
<1>0. /\ Transfer!TypeOK
      /\ CancelsBounded
      /\ OneAttempt
      /\ OwnChild
      /\ Transfer!FailureKeepsFile
      /\ NotBegun /\ CallKept /\ LastEvent /\ EndComes
  BY DEF TransferInv
<1>1. CASE Transfer!FailsEarly(a)
  <2>1. /\ attempts[a].pc = "called" /\ Transfer!Goes(a, "failed")
        /\ UNCHANGED <<download, card, registered, events, cancels, file, disturbed,
                       cleared, unannounced>>
    BY <1>1 DEF Transfer!FailsEarly, Transfer!Is, Transfer!now, Transfer!histories
  <2>2. /\ attempts' \in [Attempts -> Transfer!AttemptStates]
        /\ attempts'[a].pc = "failed"
        /\ attempts'[a].shared = attempts[a].shared
        /\ \A b \in Attempts \ {a} : attempts'[b] = attempts[b]
    BY <1>0, <2>1, AttemptMoved DEF AttemptPCs
  <2>3. Transfer!TypeOK' /\ Transfer!FailureKeepsFile'
    BY <1>0, <2>1, <2>2 DEF Transfer!TypeOK, Transfer!FailureKeepsFile
  <2> QED BY <2>1, <2>2, <2>3, AttemptKeeps DEF Busy, Writing, Announcing
<1>2. CASE Transfer!Progress(a)
  <2>1. /\ attempts[a].pc = "streaming" /\ Transfer!Emit("transferring")
        /\ UNCHANGED <<download, card, registered, attempts, cancels, file, disturbed,
                       cleared, unannounced>>
    BY <1>2 DEF Transfer!Progress, Transfer!Is, Transfer!now, Transfer!histories
  <2>2. events' \in Seq(Transfer!CardStatuses)
    BY <1>0, <2>1, EventEmitted DEF Transfer!CardStatuses
  <2>3. Transfer!TypeOK' /\ Transfer!FailureKeepsFile'
    BY <1>0, <2>1, <2>2 DEF Transfer!TypeOK, Transfer!FailureKeepsFile
  <2> QED BY <2>1, <2>2, <2>3, AttemptKeeps DEF Busy, Writing, Announcing
<1>3. CASE Transfer!OpenFails(a)
  <2>1. /\ attempts[a].pc = "streaming" /\ ~download /\ Transfer!Goes(a, "failed")
        /\ file' = "part" /\ unannounced' = TRUE
        /\ UNCHANGED <<download, card, registered, events, cancels, disturbed, cleared>>
    BY <1>3 DEF Transfer!OpenFails, Transfer!Is, Transfer!now
  <2>2. /\ attempts' \in [Attempts -> Transfer!AttemptStates]
        /\ attempts'[a].pc = "failed"
        /\ attempts'[a].shared = attempts[a].shared
        /\ \A b \in Attempts \ {a} : attempts'[b] = attempts[b]
    BY <1>0, <2>1, AttemptMoved DEF AttemptPCs
  <2>3. Transfer!TypeOK' /\ Transfer!FailureKeepsFile'
    BY <1>0, <2>1, <2>2 DEF Transfer!TypeOK, Transfer!FailureKeepsFile
  <2> QED BY <2>1, <2>2, <2>3, AttemptKeeps DEF Busy, Writing, Announcing
<1>4. CASE Transfer!StreamEnds(a, whole)
  <2>1. /\ attempts[a].pc = "streaming"
        /\ attempts' = [attempts EXCEPT ![a].pc = "ended", ![a].whole = whole]
        /\ UNCHANGED <<download, card, registered, events, cancels, file, disturbed,
                       cleared, unannounced>>
    BY <1>4 DEF Transfer!StreamEnds, Transfer!Is, Transfer!now, Transfer!histories
  <2> DEFINE new == [attempts[a] EXCEPT !.pc = "ended", !.whole = whole]
  <2>2. /\ new \in Transfer!AttemptStates /\ new.pc = "ended"
        /\ new.shared = attempts[a].shared
    BY <1>0 DEF Transfer!TypeOK, Transfer!AttemptStates
  <2>3. attempts' = [attempts EXCEPT ![a] = new] BY <1>0, <2>1 DEF Transfer!TypeOK
  <2> HIDE DEF new
  <2>4. /\ attempts' \in [Attempts -> Transfer!AttemptStates] /\ attempts'[a].pc = "ended"
        /\ attempts'[a].shared = attempts[a].shared
        /\ \A b \in Attempts \ {a} : attempts'[b] = attempts[b]
    BY <1>0, <2>2, <2>3 DEF Transfer!TypeOK
  <2>5. Transfer!TypeOK' /\ Transfer!FailureKeepsFile'
    BY <1>0, <2>1, <2>4 DEF Transfer!TypeOK, Transfer!FailureKeepsFile
  <2> QED BY <2>1, <2>4, <2>5, AttemptKeeps DEF Busy, Writing, Announcing
<1>5. CASE Transfer!StreamFails(a) \/ Transfer!ExitFails(a)
  <2>1. /\ attempts[a].pc \in {"streaming", "ended"} /\ Transfer!Goes(a, "failed")
        /\ registered' = NoAttempt /\ Transfer!Emit("error")
        /\ file' = IF download THEN file ELSE "part"
        /\ UNCHANGED <<download, card, cancels, disturbed, cleared, unannounced>>
    BY <1>5 DEF Transfer!StreamFails, Transfer!ExitFails, Transfer!Forget, Transfer!Is,
       Transfer!now, Transfer!histories
  <2>2. /\ attempts' \in [Attempts -> Transfer!AttemptStates]
        /\ attempts'[a].pc = "failed"
        /\ attempts'[a].shared = attempts[a].shared
        /\ \A b \in Attempts \ {a} : attempts'[b] = attempts[b]
    BY <1>0, <2>1, AttemptMoved DEF AttemptPCs
  <2>3. /\ events' \in Seq(Transfer!CardStatuses) /\ events' # <<>>
        /\ events'[Len(events')] = "error"
    BY <1>0, <2>1, EventEmitted DEF Transfer!CardStatuses
  <2>4. Transfer!TypeOK' /\ Transfer!FailureKeepsFile'
    BY <1>0, <2>1, <2>2, <2>3 DEF Transfer!TypeOK, Transfer!FailureKeepsFile
  <2> QED BY <2>1, <2>2, <2>3, <2>4, AttemptKeeps DEF Busy, Writing, Announcing
<1>6. CASE Transfer!Finish(a)
  <2>1. /\ attempts[a].pc = "ended" /\ (registered = a => attempts[a].whole)
        /\ registered' = NoAttempt
        /\ Transfer!Goes(a, "succeeded")
        /\ Transfer!Emit("completed")
        /\ file' = IF attempts[a].whole /\ ~attempts[a].shared THEN "whole" ELSE "part"
        /\ UNCHANGED <<download, card, cancels, disturbed, cleared, unannounced>>
    BY <1>6 DEF Transfer!Finish, Transfer!Exits, Transfer!Forget, Transfer!Is,
       Transfer!now, Transfer!histories
  <2>2. /\ attempts' \in [Attempts -> Transfer!AttemptStates]
        /\ attempts'[a].pc = "succeeded"
        /\ attempts'[a].shared = attempts[a].shared
        /\ \A b \in Attempts \ {a} : attempts'[b] = attempts[b]
    BY <1>0, <2>1, AttemptMoved DEF AttemptPCs
  <2>3. /\ events' \in Seq(Transfer!CardStatuses) /\ events' # <<>>
        /\ events'[Len(events')] = "completed"
    BY <1>0, <2>1, EventEmitted DEF Transfer!CardStatuses
  <2>4. ~disturbed => file' = "whole"
    BY <1>0, <2>1 DEF OwnChild, Writing
  <2>5. Transfer!TypeOK' /\ Transfer!FailureKeepsFile'
    BY <1>0, <2>1, <2>2, <2>3, <2>4 DEF Transfer!TypeOK, Transfer!FailureKeepsFile
  <2> QED BY <2>1, <2>2, <2>3, <2>5, AttemptKeeps DEF Busy, Writing, Announcing
<1>7. CASE Transfer!RenameFails(a)
  <2>1. /\ attempts[a].pc = "ended" /\ Transfer!Goes(a, "failed")
        /\ registered' = NoAttempt /\ unannounced' = TRUE
        /\ UNCHANGED <<download, card, events, cancels, file, disturbed, cleared>>
    BY <1>7 DEF Transfer!RenameFails, Transfer!Forget, Transfer!Is, Transfer!now
  <2>2. /\ attempts' \in [Attempts -> Transfer!AttemptStates]
        /\ attempts'[a].pc = "failed"
        /\ attempts'[a].shared = attempts[a].shared
        /\ \A b \in Attempts \ {a} : attempts'[b] = attempts[b]
    BY <1>0, <2>1, AttemptMoved DEF AttemptPCs
  <2>3. Transfer!TypeOK' /\ Transfer!FailureKeepsFile'
    BY <1>0, <2>1, <2>2 DEF Transfer!TypeOK, Transfer!FailureKeepsFile
  <2> QED BY <2>1, <2>2, <2>3, AttemptKeeps DEF Busy, Writing, Announcing
<1> QED BY <1>1, <1>2, <1>3, <1>4, <1>5, <1>6, <1>7

\* The child of an attempt is registered, over one of another attempt if there is one.
LEMMA SpawnStep ==
    ASSUME TransferInv, NEW a \in Attempts, Transfer!Spawn(a) PROVE TransferInv'
<1>0. /\ Transfer!TypeOK
      /\ CancelsBounded
      /\ OneAttempt
      /\ OwnChild
      /\ Transfer!FailureKeepsFile
      /\ NotBegun /\ CallKept /\ LastEvent /\ EndComes
  BY DEF TransferInv
<1> DEFINE others == {b \in Attempts : Transfer!Is(b, "streaming") \/ Transfer!Is(b, "ended")}
<1>1. /\ attempts[a].pc = "called" /\ registered' = a
      /\ attempts' = [b \in Attempts |->
            CASE b = a -> [attempts[a] EXCEPT !.pc = "streaming", !.shared = others # {}]
              [] b \in others -> [attempts[b] EXCEPT !.shared = TRUE]
              [] OTHER -> attempts[b]]
      /\ UNCHANGED <<download, card, events, cancels, file, disturbed, cleared,
                     unannounced>>
  BY DEF Transfer!Spawn, Transfer!Is, Transfer!now, Transfer!histories
<1>2. \A b \in Attempts : b \in others <=> Writing(b) BY DEF Transfer!Is, Writing
<1>3. ~disturbed => others = {}
  BY <1>0, <1>1, <1>2 DEF OneAttempt, Writing, Busy
<1> HIDE DEF others
<1> DEFINE new == [attempts[a] EXCEPT !.pc = "streaming", !.shared = others # {}]
           Other(b) == [attempts[b] EXCEPT !.shared = TRUE]
<1>4. new \in Transfer!AttemptStates /\ new.pc = "streaming" /\ new.shared = (others # {})
  BY <1>0 DEF Transfer!TypeOK, Transfer!AttemptStates
<1>5. ASSUME NEW b \in Attempts
      PROVE  /\ Other(b) \in Transfer!AttemptStates /\ Other(b).pc = attempts[b].pc
             /\ attempts[b] \in Transfer!AttemptStates
  <2>1. attempts[b] \in Transfer!AttemptStates BY <1>0 DEF Transfer!TypeOK
  <2> QED BY <2>1 DEF Transfer!AttemptStates
<1>6. attempts' = [b \in Attempts |->
          CASE b = a -> new [] b \in others -> Other(b) [] OTHER -> attempts[b]]
  BY <1>1
<1> HIDE DEF new, Other
<1>7. attempts'[a] = new /\ a \notin others BY <1>1, <1>2, <1>6 DEF Writing
<1>8. \A b \in Attempts \ {a} :
          attempts'[b] = IF b \in others THEN Other(b) ELSE attempts[b]
  BY <1>6
<1>9. attempts' \in [Attempts -> Transfer!AttemptStates] BY <1>4, <1>5, <1>6, <1>7, <1>8
<1>10. \A b \in Attempts \ {a} : attempts'[b].pc = attempts[b].pc BY <1>5, <1>8
<1>11. Transfer!TypeOK' BY <1>0, <1>1, <1>9 DEF Transfer!TypeOK
<1>12. OneAttempt' BY <1>0, <1>1, <1>4, <1>7, <1>10 DEF OneAttempt, Busy
<1>13. OwnChild'
  BY <1>0, <1>1, <1>2, <1>3, <1>4, <1>7, <1>10 DEF OwnChild, Writing
<1>14. LastEvent' /\ EndComes'
  BY <1>4, <1>7 DEF LastEvent, EndComes, Writing, Announcing
<1>15. CancelsBounded' /\ Transfer!FailureKeepsFile' /\ CallKept'
  BY <1>0, <1>1 DEF CancelsBounded, Transfer!FailureKeepsFile, CallKept
<1>16. NotBegun' BY <1>0, <1>1 DEF NotBegun, Busy
<1> QED BY <1>11, <1>12, <1>13, <1>14, <1>15, <1>16 DEF TransferInv

\* sftp_cancel_transfer, which may cut a stream short.
LEMMA CancelRunsStep ==
    ASSUME Transfer!SftpTransferAssumption, TransferInv, Transfer!CancelRuns
    PROVE  TransferInv'
<1>0. /\ Transfer!TypeOK
      /\ CancelsBounded
      /\ OneAttempt
      /\ OwnChild
      /\ Transfer!FailureKeepsFile
      /\ NotBegun /\ CallKept /\ LastEvent /\ EndComes
  BY DEF TransferInv
<1> DEFINE Cut(b) ==
        [attempts[b] EXCEPT !.whole = @ /\ ~(b = registered /\ Transfer!Is(b, "streaming"))]
<1>1. /\ cancels.called > 0
      /\ cancels' = [called |-> cancels.called - 1, done |-> cancels.done + 1]
      /\ registered' = NoAttempt /\ Transfer!Emit("cancelled") /\ disturbed' = TRUE
      /\ attempts' = [b \in Attempts |-> Cut(b)]
      /\ UNCHANGED <<download, card, file, cleared, unannounced>>
  BY DEF Transfer!CancelRuns, Transfer!Forget, Transfer!now
<1>2. ASSUME NEW b \in Attempts
      PROVE  Cut(b) \in Transfer!AttemptStates /\ Cut(b).pc = attempts[b].pc
  <2>1. attempts[b] \in Transfer!AttemptStates BY <1>0 DEF Transfer!TypeOK
  <2> DEFINE w == attempts[b].whole /\ ~(b = registered /\ Transfer!Is(b, "streaming"))
  <2>2. Cut(b) = [attempts[b] EXCEPT !.whole = w] OBVIOUS
  <2>3. w \in BOOLEAN BY <2>1 DEF Transfer!AttemptStates
  <2> HIDE DEF w
  <2> QED BY <2>1, <2>2, <2>3 DEF Transfer!AttemptStates
<1> HIDE DEF Cut
<1>3. attempts' \in [Attempts -> Transfer!AttemptStates] BY <1>1, <1>2
<1>4. \A b \in Attempts : attempts'[b].pc = attempts[b].pc BY <1>1, <1>2
<1>5. /\ events' \in Seq(Transfer!CardStatuses) /\ events' # <<>>
      /\ events'[Len(events')] = "cancelled"
  BY <1>0, <1>1, EventEmitted DEF Transfer!CardStatuses
<1>6. /\ cancels' \in [called : 0..MaxCancels, done : 0..MaxCancels]
      /\ cancels'.called = cancels.called - 1 /\ cancels'.done = cancels.done + 1
  BY <1>0, <1>1 DEF Transfer!TypeOK, CancelsBounded, Transfer!SftpTransferAssumption
<1>7. Transfer!TypeOK' BY <1>0, <1>1, <1>3, <1>5, <1>6 DEF Transfer!TypeOK
<1>8. CancelsBounded'
  BY <1>0, <1>6 DEF CancelsBounded, Transfer!TypeOK, Transfer!SftpTransferAssumption
<1>9. OneAttempt' /\ OwnChild' /\ Transfer!FailureKeepsFile' /\ LastEvent' /\ EndComes'
  BY <1>1, <1>5 DEF OneAttempt, OwnChild, Transfer!FailureKeepsFile, LastEvent, EndComes
<1>10. NotBegun' BY <1>0, <1>1 DEF NotBegun
<1>11. CallKept' BY <1>0, <1>1 DEF CallKept
<1> QED BY <1>7, <1>8, <1>9, <1>10, <1>11 DEF TransferInv

\* The card follows an event, whose last one is known.
LEMMA EventStep == ASSUME TransferInv, Transfer!Event PROVE TransferInv'
<1>0. /\ Transfer!TypeOK
      /\ CancelsBounded
      /\ OneAttempt
      /\ OwnChild
      /\ Transfer!FailureKeepsFile
      /\ NotBegun /\ CallKept /\ LastEvent /\ EndComes
  BY DEF TransferInv
<1>1. /\ events # <<>> /\ events' = Tail(events)
      /\ card' = [card EXCEPT !.status = Head(events)]
      /\ UNCHANGED <<download, registered, attempts, cancels, file, disturbed, cleared,
                     unannounced>>
  BY DEF Transfer!Event, Transfer!histories
<1>2. /\ events \in Seq(Transfer!CardStatuses) /\ Head(events) \in Transfer!CardStatuses
      /\ events' \in Seq(Transfer!CardStatuses)
  BY <1>0, <1>1 DEF Transfer!TypeOK
<1>3. /\ card' \in Transfer!Card
      /\ card'.status = Head(events)
      /\ card'.retry = card.retry
  BY <1>0, <1>1, <1>2 DEF Transfer!TypeOK, Transfer!Card
<1>4. events' # <<>> => events'[Len(events')] = events[Len(events)]
  <2> SUFFICES ASSUME events' # <<>> PROVE events'[Len(events')] = events[Len(events)]
    OBVIOUS
  <2>1. /\ Len(events) \in Nat /\ Len(events) > 0
        /\ Len(Tail(events)) = Len(events) - 1
    BY <1>1, <1>2
  <2>2. Len(events') > 0 BY <1>2
  <2>3. \A i \in 1..Len(events) - 1 : Tail(events)[i] = events[i + 1] BY <1>1, <1>2
  <2> QED BY <1>1, <2>1, <2>2, <2>3
<1>5. events' = <<>> => Head(events) = events[Len(events)]
  <2> SUFFICES ASSUME events' = <<>> PROVE Head(events) = events[Len(events)]
    OBVIOUS
  <2>1. Len(events) \in Nat /\ Len(Tail(events)) = Len(events) - 1 BY <1>1, <1>2
  <2>2. Len(Tail(events)) = 0
    <3>1. Tail(events) = <<>> BY <1>1
    <3>2. Len(<<>>) = 0 OBVIOUS
    <3> QED BY <3>1, <3>2, Zenon
  <2>3. Len(events) = 1 BY <2>1, <2>2
  <2> QED BY <1>2, <2>3
<1>6. Transfer!TypeOK' BY <1>0, <1>1, <1>2, <1>3 DEF Transfer!TypeOK
<1>7. NotBegun' BY <1>2, <1>3 DEF NotBegun, Transfer!CardStatuses
<1>8. CallKept' BY <1>0, <1>1, <1>3 DEF CallKept, NotBegun
<1>9. LastEvent' BY <1>0, <1>1, <1>4 DEF LastEvent, Writing
<1>10. EndComes' BY <1>0, <1>1, <1>3, <1>5 DEF EndComes, LastEvent, Writing, Announcing
<1> QED
  BY <1>0, <1>1, <1>6, <1>7, <1>8, <1>9, <1>10 DEF TransferInv, CancelsBounded,
     OneAttempt, OwnChild, Transfer!FailureKeepsFile, Busy, Writing

\* An attempt that has ended frees the task.
LEMMA RepliedStep ==
    ASSUME TransferInv, NEW a \in Attempts, Transfer!Replied(a) PROVE TransferInv'
<1>0. /\ Transfer!TypeOK
      /\ CancelsBounded
      /\ OneAttempt
      /\ OwnChild
      /\ Transfer!FailureKeepsFile
      /\ NotBegun /\ CallKept /\ LastEvent /\ EndComes
  BY DEF TransferInv
<1>1. /\ attempts[a].pc \in {"failed", "succeeded"}
      /\ card' = IF attempts[a].pc = "failed" THEN [status |-> "error", retry |-> TRUE]
                 ELSE card
      /\ attempts' = [attempts EXCEPT ![a] = Transfer!IdleAttempt]
      /\ UNCHANGED <<download, registered, events, cancels, file, disturbed, cleared,
                     unannounced>>
  BY DEF Transfer!Replied, Transfer!Is, Transfer!histories
<1>2. Transfer!IdleAttempt \in Transfer!AttemptStates /\ Transfer!IdleAttempt.pc = "idle"
  BY DEF Transfer!IdleAttempt, Transfer!AttemptStates
<1>3. /\ attempts' \in [Attempts -> Transfer!AttemptStates] /\ attempts'[a].pc = "idle"
      /\ \A b \in Attempts \ {a} : attempts'[b] = attempts[b]
  BY <1>0, <1>1, <1>2 DEF Transfer!TypeOK
<1>4. \/ attempts[a].pc = "failed" /\ card'.status = "error" /\ card'.retry = TRUE
      \/ attempts[a].pc = "succeeded" /\ card' = card
  BY <1>1
<1>5. card' \in Transfer!Card
  BY <1>0, <1>1 DEF Transfer!TypeOK, Transfer!Card, Transfer!CardStatuses
<1>6. Transfer!TypeOK' BY <1>0, <1>1, <1>3, <1>5 DEF Transfer!TypeOK
<1>7. OneAttempt' BY <1>0, <1>1, <1>3 DEF OneAttempt, Busy
<1>8. OwnChild' BY <1>0, <1>1, <1>3 DEF OwnChild, Writing
<1>9. NotBegun' /\ CallKept' BY <1>0, <1>1, <1>3, <1>4 DEF NotBegun, CallKept, Busy
<1>10. LastEvent' BY <1>0, <1>1, <1>3 DEF LastEvent, Writing
<1>11. EndComes' BY <1>0, <1>1, <1>3, <1>4 DEF EndComes, Announcing
<1> QED
  BY <1>0, <1>1, <1>6, <1>7, <1>8, <1>9, <1>10, <1>11 DEF TransferInv, CancelsBounded,
     Transfer!FailureKeepsFile

\* One step at a time.
LEMMA TransferStep ==
    ASSUME Transfer!SftpTransferAssumption, TransferInv, [Transfer!Next]_(Transfer!vars)
    PROVE  TransferInv'
<1>1. CASE \E a \in Attempts : Transfer!Begin(a) \/ Transfer!Retry(a) BY <1>1, CallStep
<1>2. CASE \E a \in Attempts : Transfer!Spawn(a) BY <1>2, SpawnStep
<1>3. CASE \E a \in Attempts, whole \in BOOLEAN :
              \/ Transfer!FailsEarly(a) \/ Transfer!Progress(a) \/ Transfer!OpenFails(a) \/ Transfer!StreamFails(a)
              \/ Transfer!StreamEnds(a, whole) \/ Transfer!ExitFails(a) \/ Transfer!Finish(a) \/ Transfer!RenameFails(a)
  BY <1>3, AttemptStep
<1>4. CASE \E a \in Attempts : Transfer!Replied(a) BY <1>4, RepliedStep
<1>5. CASE Transfer!Cancel \/ Transfer!CancelReplied BY <1>5, CancelStep
<1>6. CASE Transfer!Clear BY <1>6, ClearStep
<1>7. CASE Transfer!CancelRuns BY <1>7, CancelRunsStep
<1>8. CASE Transfer!Event BY <1>8, EventStep
<1>9. CASE UNCHANGED Transfer!vars
  BY <1>9 DEF Transfer!vars, Transfer!now, Transfer!histories, TransferInv,
     Transfer!TypeOK, CancelsBounded, OneAttempt,
     OwnChild, Transfer!FailureKeepsFile, NotBegun, CallKept, LastEvent, EndComes, Busy,
     Writing,
     Announcing
<1> QED BY <1>1, <1>2, <1>3, <1>4, <1>5, <1>6, <1>7, <1>8, <1>9 DEF Transfer!Next

\* All of it holds in every state.
THEOREM AlwaysTransferInv ==
    ASSUME Transfer!SftpTransferAssumption PROVE Transfer!Spec => []TransferInv
<1>1. Transfer!Init => TransferInv BY TransferInit
<1>2. TransferInv /\ [Transfer!Next]_(Transfer!vars) => TransferInv' BY TransferStep
<1> QED BY <1>1, <1>2, PTL DEF Transfer!Spec

\* It promises what the run checks: a failure leaves the target alone, a retry has
\* what it needs, and a card will end.
LEMMA TransferPromises ==
    ASSUME TransferInv
    PROVE  Transfer!FailureKeepsFile /\ Transfer!RetryOffered /\ Transfer!CardsEnd
<1>0. /\ Transfer!TypeOK
      /\ Transfer!FailureKeepsFile
      /\ CallKept
      /\ EndComes BY DEF TransferInv
<1>1. Transfer!RetryOffered BY <1>0 DEF Transfer!RetryOffered, CallKept
<1>2. Transfer!CardsEnd BY <1>0 DEF Transfer!CardsEnd, EndComes, Announcing, Transfer!Is
<1> QED BY <1>0, <1>1, <1>2

-----------------------------------------------------------------------------
(*************************************************************************)
(* ConfigStore: the configuration file, its cache and the callers that   *)
(* read and publish implement a register whose operations each take      *)
(* effect at one moment, and the cache never vouches for a content the   *)
(* file does not have.                                                   *)
(*                                                                       *)
(* The argument. Whoever writes holds the lock and knows what the file   *)
(* says (LockHeld, HoldersKnow), so a publication takes effect as the    *)
(* file is replaced. A reader takes no lock: during is the set of what   *)
(* the file has said since it began, and what a reader is going to       *)
(* answer is in it (ReadersSaw). That covers the cache because an        *)
(* identity it remembers is of a content the file had, and if it still   *)
(* has that identity, of the content it has (KeepsKnow, KeptIsSeen,      *)
(* CacheKnows). A legacy file is taken over under the lock before        *)
(* anybody relies on what it says.                                       *)
(*************************************************************************)
\* Where a call has the write lock.
Holding == Store!Writing \cup {"rewrite", "refresh"}

\* Who is there has it.
LockHeld == \A c \in Clients : calls[c].pc \in Holding => writeLock = c

\* A file that is not there has no content, and nothing to migrate.
NoFileSaysNothing == disk.id = Store!NoFile => disk.content = {} /\ ~disk.legacy

\* Who has the write lock knows the file, for nobody else of the application may
\* replace it.
HoldersKnow == \A c \in Clients :
    /\ calls[c].pc \in {"mutate", "rewrite", "refresh", "store"} =>
        calls[c].content = disk.content
    /\ Store!At(c, "publish") => calls[c].content \in {disk.content, Store!Edited(disk.content, c)}
    /\ Store!At(c, "mutate") => calls[c].legacy = disk.legacy
    /\ calls[c].pc \in {"refresh", "store"} => ~disk.legacy

\* What a read has in hand was in the file while it was going on.
ReadersSaw == \A c \in Clients :
    /\ calls[c].pc \in Store!Reading => disk.content \in during[c]
    /\ calls[c].pc \notin Store!Reading => during[c] = {}
    /\ Store!At(c, "absent") => {} \in during[c]
    /\ Store!At(c, "keep") => calls[c].content \in during[c]
    /\ Store!At(c, "lookup") /\ Store!Hit(calls[c].id) => cached.content \in during[c]

\* The number a read has taken is none of the future, and if it is the file's what was
\* read is the file's.
KeepsKnow == \A c \in Clients :
    /\ calls[c].pc \in {"read", "keep"} => calls[c].id <= disk.id
    /\ Store!At(c, "keep") /\ calls[c].id = disk.id =>
        calls[c].content = disk.content /\ ~disk.legacy

\* Two reads that have taken the same number have read the same file.
KeptIsSeen == \A c, d \in Clients :
    Store!At(c, "lookup") /\ Store!At(d, "keep") /\ calls[c].id = calls[d].id =>
        calls[d].content \in during[c]

\* The cache is of no future file.
CacheBehind == cached.id <= disk.id

\* The inductive invariant.
StoreInv ==
    /\ Store!TypeOK /\ LockHeld /\ NoFileSaysNothing /\ HoldersKnow /\ ReadersSaw
    /\ KeepsKnow /\ KeptIsSeen /\ CacheBehind /\ Store!CacheFresh

-----------------------------------------------------------------------------
\* Where a call is.
StorePCs == {"idle", "failed", "done"} \cup Store!Reading \cup Store!Writing

\* What a step leaves of the calls: one of them is replaced.
Becomes(c, pc, id, content, legacy) ==
    /\ calls' \in [Clients -> Store!CallStates]
    /\ \A d \in Clients \ {c} : calls'[d] = calls[d]
    /\ calls'[c].pc = pc /\ calls'[c].id = id
    /\ calls'[c].content = content /\ calls'[c].legacy = legacy

\* The types of the fields.
LEMMA StoreFields ==
    ASSUME Store!TypeOK, NEW c \in Clients
    PROVE  /\ calls[c].pc \in StorePCs /\ calls[c].id \in Store!Ids
           /\ calls[c].content \in Store!Contents /\ calls[c].legacy \in BOOLEAN
           /\ disk.id \in Store!Ids
           /\ disk.content \in Store!Contents
           /\ disk.legacy \in BOOLEAN
           /\ cached.id \in Store!Ids /\ cached.content \in Store!Contents
           /\ during[c] \in SUBSET Store!Contents
BY DEF Store!TypeOK, Store!CallStates, StorePCs

\* An empty configuration is one.
LEMMA IdleContent == {} \in Store!Contents
BY DEF Store!Contents

\* What is at rest is typed.
LEMMA StoreIdles ==
    ASSUME Store!ConfigStoreAssumption
    PROVE  /\ Store!NoFile \in Store!Ids /\ Store!NoFile + 1 \in Store!Ids
           /\ Store!IdleCall \in Store!CallStates /\ Store!IdleCall.pc = "idle"
           /\ Store!IdleCall.id = Store!NoFile
           /\ Store!IdleCall.legacy = FALSE
           /\ Store!IdleCall.content = {}
           /\ Store!NoEntry \in [id : Store!Ids, content : Store!Contents]
           /\ Store!NoEntry.id = Store!NoFile
BY DEF Store!NoFile, Store!Ids, Store!Contents, Store!IdleCall, Store!NoEntry,
   Store!CallStates, Store!ConfigStoreAssumption

\* One call is replaced by another.
LEMMA ReplacedCall ==
    ASSUME Store!TypeOK, NEW c \in Clients, NEW r \in Store!CallStates,
           calls' = [calls EXCEPT ![c] = r]
    PROVE  Becomes(c, r.pc, r.id, r.content, r.legacy)
BY DEF Store!TypeOK, Becomes

\* What going on leaves of a call,
LEMMA MovedFields ==
    ASSUME NEW r \in Store!CallStates, NEW pc \in StorePCs
    PROVE  /\ [r EXCEPT !.pc = pc] \in Store!CallStates
           /\ [r EXCEPT !.pc = pc].pc = pc
           /\ [r EXCEPT !.pc = pc].id = r.id
           /\ [r EXCEPT !.pc = pc].content = r.content
           /\ [r EXCEPT !.pc = pc].legacy = r.legacy
BY DEF Store!CallStates, StorePCs

\* What a new content leaves of a call,
LEMMA ChangedFields ==
    ASSUME NEW r \in Store!CallStates, NEW content \in Store!Contents
    PROVE  /\ [r EXCEPT !.content = content] \in Store!CallStates
           /\ [r EXCEPT !.content = content].pc = r.pc
           /\ [r EXCEPT !.content = content].id = r.id
           /\ [r EXCEPT !.content = content].content = content
           /\ [r EXCEPT !.content = content].legacy = r.legacy
BY DEF Store!CallStates

\* and a new number of the file.
LEMMA StampedFields ==
    ASSUME NEW r \in Store!CallStates, NEW id \in Store!Ids
    PROVE  /\ [r EXCEPT !.id = id] \in Store!CallStates
           /\ [r EXCEPT !.id = id].pc = r.pc
           /\ [r EXCEPT !.id = id].id = id
           /\ [r EXCEPT !.id = id].content = r.content
           /\ [r EXCEPT !.id = id].legacy = r.legacy
BY DEF Store!CallStates

\* A call that goes on and takes the number of the file,
LEMMA StampsBecomes ==
    ASSUME Store!TypeOK, NEW c \in Clients, NEW pc \in StorePCs, NEW id \in Store!Ids,
           calls' = [calls EXCEPT ![c].pc = pc, ![c].id = id]
    PROVE  Becomes(c, pc, id, calls[c].content, calls[c].legacy)
<1> DEFINE q == [calls[c] EXCEPT !.pc = pc]
           r == [q EXCEPT !.id = id]
<1>1. calls[c] \in Store!CallStates BY DEF Store!TypeOK
<1>2. /\ q \in Store!CallStates /\ q.pc = pc /\ q.id = calls[c].id
      /\ q.content = calls[c].content /\ q.legacy = calls[c].legacy
  BY <1>1, MovedFields
<1>3. calls' = [calls EXCEPT ![c] = r] BY DEF Store!TypeOK
<1> HIDE DEF q
<1>4. /\ r \in Store!CallStates /\ r.pc = q.pc /\ r.id = id
      /\ r.content = q.content /\ r.legacy = q.legacy
  BY <1>2, StampedFields
<1> HIDE DEF r
<1> QED BY <1>2, <1>3, <1>4, ReplacedCall

\* one that goes on,
LEMMA GoesBecomes ==
    ASSUME Store!TypeOK, NEW c \in Clients, NEW pc \in StorePCs, Store!Goes(c, pc)
    PROVE  Becomes(c, pc, calls[c].id, calls[c].content, calls[c].legacy)
<1> DEFINE r == [calls[c] EXCEPT !.pc = pc]
<1>1. calls[c] \in Store!CallStates BY DEF Store!TypeOK
<1>2. /\ r \in Store!CallStates /\ r.pc = pc /\ r.id = calls[c].id
      /\ r.content = calls[c].content /\ r.legacy = calls[c].legacy
  BY <1>1, MovedFields
<1>3. calls' = [calls EXCEPT ![c] = r] BY DEF Store!Goes, Store!TypeOK
<1> HIDE DEF r
<1> QED BY <1>2, <1>3, ReplacedCall

\* one that goes on with another content,
LEMMA GoesWithBecomes ==
    ASSUME Store!TypeOK, NEW c \in Clients, NEW pc \in StorePCs,
           NEW content \in Store!Contents,
           Store!GoesWith(c, pc, content)
    PROVE  Becomes(c, pc, calls[c].id, content, calls[c].legacy)
<1> DEFINE q == [calls[c] EXCEPT !.pc = pc]
           r == [q EXCEPT !.content = content]
<1>1. calls[c] \in Store!CallStates BY DEF Store!TypeOK
<1>2. /\ q \in Store!CallStates /\ q.pc = pc /\ q.id = calls[c].id
      /\ q.content = calls[c].content /\ q.legacy = calls[c].legacy
  BY <1>1, MovedFields
<1>3. calls' = [calls EXCEPT ![c] = r] BY DEF Store!GoesWith, Store!TypeOK
<1> HIDE DEF q
<1>4. /\ r \in Store!CallStates /\ r.pc = q.pc /\ r.id = q.id
      /\ r.content = content /\ r.legacy = q.legacy
  BY <1>2, ChangedFields
<1> HIDE DEF r
<1> QED BY <1>2, <1>3, <1>4, ReplacedCall

\* and one that ends with an answer.
LEMMA EndsBecomes ==
    ASSUME Store!ConfigStoreAssumption, Store!TypeOK, NEW c \in Clients,
           NEW answer \in Store!Contents,
           Store!Ends(c, answer)
    PROVE  Becomes(c, "done", Store!NoFile, answer, FALSE)
<1> DEFINE q == [Store!IdleCall EXCEPT !.pc = "done"]
           r == [q EXCEPT !.content = answer]
<1>1. "done" \in StorePCs BY DEF StorePCs
<1>2. /\ q \in Store!CallStates /\ q.pc = "done" /\ q.id = Store!IdleCall.id
      /\ q.legacy = Store!IdleCall.legacy
  BY <1>1, StoreIdles, MovedFields
<1>3. calls' = [calls EXCEPT ![c] = r] BY DEF Store!Ends
<1> HIDE DEF q
<1>4. /\ r \in Store!CallStates /\ r.pc = q.pc /\ r.id = q.id
      /\ r.content = answer /\ r.legacy = q.legacy
  BY <1>2, ChangedFields
<1> HIDE DEF r
<1> QED BY <1>2, <1>3, <1>4, StoreIdles, ReplacedCall

\* The configuration that a call works on is one.
LEMMA EditedTyped ==
    ASSUME NEW content \in Store!Contents, NEW c \in Clients
    PROVE  Store!Edited(content, c) \in Store!Contents
BY DEF Store!Contents, Store!Edited

\* What it does to the contents the readers have seen: one of them is through, or
\* the file is replaced.
Forgets(c) ==
    /\ during' \in [Clients -> SUBSET Store!Contents] /\ during'[c] = {}
    /\ \A d \in Clients \ {c} : during'[d] = during[d]

TurnsTo(content, legacy) ==
    /\ disk' \in [id : Store!Ids, content : Store!Contents, legacy : BOOLEAN]
    /\ disk'.id = disk.id + 1 /\ disk'.content = content /\ disk'.legacy = legacy
    /\ during' \in [Clients -> SUBSET Store!Contents]
    /\ \A d \in Clients : during'[d] =
            IF calls[d].pc \in Store!Reading THEN during[d] \cup {content} ELSE during[d]

\* A read that ends forgets what it has seen.
LEMMA EndsReadSeen ==
    ASSUME Store!TypeOK, NEW c \in Clients, NEW answer \in Store!Contents,
           Store!EndsRead(c, answer)
    PROVE  Forgets(c)
BY DEF Store!TypeOK, Store!EndsRead, Forgets

\* A file that is replaced is seen by all who read.
LEMMA ReplacedSeen ==
    ASSUME Store!ConfigStoreAssumption, Store!TypeOK, NEW content \in Store!Contents,
           NEW legacy \in BOOLEAN, Store!Replaced(content, legacy)
    PROVE  TurnsTo(content, legacy)
<1>1. disk.id + 1 \in Store!Ids
  BY DEF Store!TypeOK, Store!Replaced, Store!Ids, Store!ConfigStoreAssumption
<1>2. during \in [Clients -> SUBSET Store!Contents] BY DEF Store!TypeOK
<1> QED BY <1>1, <1>2 DEF Store!Replaced, TurnsTo

\* A call that fails is none any more.
LEMMA FailsBecomes ==
    ASSUME Store!ConfigStoreAssumption, Store!TypeOK, NEW c \in Clients, Store!Fails(c)
    PROVE  Becomes(c, "failed", Store!NoFile, {}, FALSE)
<1> DEFINE r == [Store!IdleCall EXCEPT !.pc = "failed"]
<1>1. "failed" \in StorePCs BY DEF StorePCs
<1>2. /\ r \in Store!CallStates /\ r.pc = "failed" /\ r.id = Store!IdleCall.id
      /\ r.content = Store!IdleCall.content /\ r.legacy = Store!IdleCall.legacy
  BY <1>1, StoreIdles, MovedFields
<1>3. calls' = [calls EXCEPT ![c] = r] BY DEF Store!Fails
<1> HIDE DEF r
<1> QED BY <1>2, <1>3, StoreIdles, ReplacedCall

\* The invariant in the initial state.
LEMMA StoreInit == ASSUME Store!ConfigStoreAssumption, Store!Init PROVE StoreInv
<1>1. Store!TypeOK
  <2>1. disk \in [id : Store!Ids, content : Store!Contents, legacy : BOOLEAN]
    <3>1. /\ 0 \in Store!Ids /\ 1 \in Store!Ids /\ FALSE \in BOOLEAN
      BY StoreIdles DEF Store!NoFile
    <3>2. CASE disk = [id |-> Store!NoFile, content |-> {}, legacy |-> FALSE]
      BY <3>1, <3>2, IdleContent DEF Store!NoFile
    <3>3. CASE disk \in [id : {1}, content : {{}}, legacy : BOOLEAN]
      BY <3>1, <3>3, IdleContent
    <3> QED BY <3>2, <3>3 DEF Store!Init
  <2>2. during \in [Clients -> SUBSET Store!Contents] BY DEF Store!Init
  <2>3. calls \in [Clients -> Store!CallStates] BY StoreIdles DEF Store!Init
  <2> QED BY <2>1, <2>2, <2>3, StoreIdles DEF Store!Init, Store!TypeOK
<1>2. \A c \in Clients : calls[c] = Store!IdleCall /\ during[c] = {} BY DEF Store!Init
<1>3. cached.id = Store!NoFile /\ disk.id \in {Store!NoFile, 1} /\ disk.content = {}
      /\ (disk.id = Store!NoFile => ~disk.legacy)
  BY DEF Store!Init, Store!NoEntry, Store!NoFile
<1> QED
  BY <1>1, <1>2, <1>3, StoreIdles DEF StoreInv, LockHeld, NoFileSaysNothing, HoldersKnow,
    ReadersSaw, KeepsKnow, KeptIsSeen, CacheBehind, Store!CacheFresh, Store!At, Store!Hit,
    Store!Reading,
    Store!Writing, Holding, Store!NoFile

\* One step per action, and under it one per conjunct.
LEMMA StoreStep ==
    ASSUME Store!ConfigStoreAssumption, StoreInv, [Store!Next]_(Store!vars)
    PROVE  StoreInv'
<1> USE DEF Store!Reading, Store!Writing, Holding, StorePCs, Store!NoFile
<1>0. /\ Store!TypeOK /\ LockHeld /\ NoFileSaysNothing /\ HoldersKnow /\ ReadersSaw
      /\ KeepsKnow /\ KeptIsSeen /\ CacheBehind /\ Store!CacheFresh
  BY DEF StoreInv
<1>a. /\ disk.id \in Store!Ids /\ disk.id \in Nat
      /\ disk.content \in Store!Contents /\ disk.legacy \in BOOLEAN
      /\ cached.id \in Store!Ids /\ cached.id \in Nat /\ cached.content \in Store!Contents
      /\ \A d \in Clients :
            /\ calls[d].pc \in StorePCs
            /\ calls[d].id \in Store!Ids
            /\ calls[d].id \in Nat
            /\ calls[d].content \in Store!Contents /\ calls[d].legacy \in BOOLEAN
            /\ during[d] \in SUBSET Store!Contents
  BY <1>0, StoreFields DEF Store!TypeOK, Store!Ids
<1>b. Nobody \notin Clients BY DEF Store!ConfigStoreAssumption
<1> USE <1>0, <1>a, <1>b
<1>1. ASSUME NEW c \in Clients, Store!BeginRead(c) PROVE StoreInv'
  <2>1. Becomes(c, IF disk.id = Store!NoFile THEN "absent" ELSE "lookup", disk.id,
              calls[c].content, calls[c].legacy)
    BY <1>1, StampsBecomes DEF Store!BeginRead
  <2>2. /\ Store!At(c, "idle")
        /\ disk' = disk
        /\ cached' = cached
        /\ writeLock' = writeLock
        /\ during' \in [Clients -> SUBSET Store!Contents] /\ during'[c] = {disk.content}
        /\ \A d \in Clients \ {c} : during'[d] = during[d]
    BY <1>1 DEF Store!BeginRead, Store!TypeOK
  <2>3. Store!TypeOK' BY <2>1, <2>2 DEF Becomes, Store!TypeOK
  <2>4. LockHeld' BY <2>1, <2>2 DEF Becomes, LockHeld, Store!At
  <2>5. NoFileSaysNothing' BY <2>1, <2>2 DEF Becomes, NoFileSaysNothing
  <2>6. HoldersKnow'
    BY <2>1, <2>2 DEF Becomes, HoldersKnow, LockHeld, Store!CacheFresh, NoFileSaysNothing,
       Store!At, Store!Hit
  <2>7. ReadersSaw'
    <3> SUFFICES ASSUME NEW d \in Clients PROVE ReadersSaw!(d)'
      BY DEF ReadersSaw
    <3>1. CASE d = c /\ disk.id = Store!NoFile
      BY <2>1, <2>2, <3>1 DEF Becomes, NoFileSaysNothing, Store!At
    <3>2. CASE d = c /\ disk.id # Store!NoFile
      BY <2>1, <2>2, <3>2 DEF Becomes, Store!CacheFresh, Store!At, Store!Hit
    <3>3. CASE d # c
      BY <2>1, <2>2, <3>3 DEF Becomes, ReadersSaw, Store!At, Store!Hit
    <3> QED BY <3>1, <3>2, <3>3
  <2>8. KeepsKnow' BY <2>1, <2>2 DEF Becomes, KeepsKnow, Store!At
  <2>9. KeptIsSeen' BY <2>1, <2>2 DEF Becomes, KeptIsSeen, ReadersSaw, KeepsKnow, Store!At
  <2>10. CacheBehind' BY <2>1, <2>2 DEF Becomes, CacheBehind, KeepsKnow, Store!At
  <2>11. Store!CacheFresh'
    BY <2>1, <2>2 DEF Becomes, Store!CacheFresh, KeepsKnow, CacheBehind, HoldersKnow,
       NoFileSaysNothing, Store!At, Store!Hit
  <2> QED BY <2>3, <2>4, <2>5, <2>6, <2>7, <2>8, <2>9, <2>10, <2>11 DEF StoreInv
<1>2. ASSUME NEW c \in Clients, Store!Absent(c) PROVE StoreInv'
  <2>1. Becomes(c, "done", Store!NoFile, {}, FALSE)
    BY <1>2, EndsBecomes, IdleContent DEF Store!Absent, Store!EndsRead
  <2>2. /\ Store!At(c, "absent")
        /\ disk' = disk
        /\ cached' = Store!NoEntry
        /\ cached' \in [id : Store!Ids, content : Store!Contents] /\ cached'.id = Store!NoFile
        /\ writeLock' = writeLock
        /\ Forgets(c)
    BY <1>2, EndsReadSeen, IdleContent, StoreIdles DEF Store!Absent
  <2>3. Store!TypeOK' BY <2>1, <2>2 DEF Becomes, Forgets, Store!TypeOK
  <2>4. LockHeld' BY <2>1, <2>2 DEF Becomes, Forgets, LockHeld, Store!At
  <2>5. NoFileSaysNothing' BY <2>1, <2>2 DEF Becomes, Forgets, NoFileSaysNothing
  <2>6. HoldersKnow'
    BY <2>1, <2>2 DEF Becomes, Forgets, HoldersKnow, LockHeld, Store!CacheFresh,
       NoFileSaysNothing, Store!At, Store!Hit
  <2>7. ReadersSaw'
    BY <2>1, <2>2 DEF Becomes, Forgets, ReadersSaw, KeptIsSeen, HoldersKnow,
       NoFileSaysNothing, Store!CacheFresh, Store!At, Store!Hit
  <2>8. KeepsKnow' BY <2>1, <2>2 DEF Becomes, Forgets, KeepsKnow, Store!At
  <2>9. KeptIsSeen'
    BY <2>1, <2>2 DEF Becomes, Forgets, KeptIsSeen, ReadersSaw, KeepsKnow, Store!At
  <2>10. CacheBehind' BY <2>1, <2>2 DEF Becomes, Forgets, CacheBehind, KeepsKnow, Store!At
  <2>11. Store!CacheFresh'
    BY <2>1, <2>2 DEF Becomes, Forgets, Store!CacheFresh, KeepsKnow, CacheBehind,
       HoldersKnow, NoFileSaysNothing, Store!At, Store!Hit
  <2> QED BY <2>3, <2>4, <2>5, <2>6, <2>7, <2>8, <2>9, <2>10, <2>11 DEF StoreInv
<1>3. ASSUME NEW c \in Clients, Store!Stat(c) PROVE StoreInv'
  <2>1. Becomes(c, "read", disk.id, calls[c].content, calls[c].legacy)
    BY <1>3, StampsBecomes DEF Store!Stat
  <2>2. /\ Store!At(c, "stat")
        /\ disk' = disk
        /\ cached' = cached
        /\ writeLock' = writeLock
        /\ during' = during
    BY <1>3 DEF Store!Stat
  <2>3. Store!TypeOK' BY <2>1, <2>2 DEF Becomes, Store!TypeOK
  <2>4. LockHeld' BY <2>1, <2>2 DEF Becomes, LockHeld, Store!At
  <2>5. NoFileSaysNothing' BY <2>1, <2>2 DEF Becomes, NoFileSaysNothing
  <2>6. HoldersKnow'
    BY <2>1, <2>2 DEF Becomes, HoldersKnow, LockHeld, Store!CacheFresh, NoFileSaysNothing,
       Store!At, Store!Hit
  <2>7. ReadersSaw'
    BY <2>1, <2>2 DEF Becomes, ReadersSaw, KeptIsSeen, HoldersKnow, NoFileSaysNothing,
       Store!CacheFresh, Store!At, Store!Hit
  <2>8. KeepsKnow' BY <2>1, <2>2 DEF Becomes, KeepsKnow, Store!At
  <2>9. KeptIsSeen' BY <2>1, <2>2 DEF Becomes, KeptIsSeen, ReadersSaw, KeepsKnow, Store!At
  <2>10. CacheBehind' BY <2>1, <2>2 DEF Becomes, CacheBehind, KeepsKnow, Store!At
  <2>11. Store!CacheFresh'
    BY <2>1, <2>2 DEF Becomes, Store!CacheFresh, KeepsKnow, CacheBehind, HoldersKnow,
       NoFileSaysNothing, Store!At, Store!Hit
  <2> QED BY <2>3, <2>4, <2>5, <2>6, <2>7, <2>8, <2>9, <2>10, <2>11 DEF StoreInv
<1>4. ASSUME NEW c \in Clients, Store!ReadFile(c) PROVE StoreInv'
  <2>1. Becomes(c, IF disk.legacy THEN "migrate" ELSE "keep", calls[c].id,
              disk.content, calls[c].legacy)
    BY <1>4, GoesWithBecomes DEF Store!ReadFile
  <2>2. /\ Store!At(c, "read")
        /\ disk' = disk
        /\ cached' = cached
        /\ writeLock' = writeLock
        /\ during' = during
    BY <1>4 DEF Store!ReadFile
  <2>3. Store!TypeOK' BY <2>1, <2>2 DEF Becomes, Store!TypeOK
  <2>4. LockHeld' BY <2>1, <2>2 DEF Becomes, LockHeld, Store!At
  <2>5. NoFileSaysNothing' BY <2>1, <2>2 DEF Becomes, NoFileSaysNothing
  <2>6. HoldersKnow'
    BY <2>1, <2>2 DEF Becomes, HoldersKnow, LockHeld, Store!CacheFresh, NoFileSaysNothing,
       Store!At, Store!Hit
  <2>7. ReadersSaw'
    BY <2>1, <2>2 DEF Becomes, ReadersSaw, KeptIsSeen, HoldersKnow, NoFileSaysNothing,
       Store!CacheFresh, Store!At, Store!Hit
  <2>8. KeepsKnow' BY <2>1, <2>2 DEF Becomes, KeepsKnow, Store!At
  <2>9. KeptIsSeen' BY <2>1, <2>2 DEF Becomes, KeptIsSeen, ReadersSaw, KeepsKnow, Store!At
  <2>10. CacheBehind' BY <2>1, <2>2 DEF Becomes, CacheBehind, KeepsKnow, Store!At
  <2>11. Store!CacheFresh'
    BY <2>1, <2>2 DEF Becomes, Store!CacheFresh, KeepsKnow, CacheBehind, HoldersKnow,
       NoFileSaysNothing, Store!At, Store!Hit
  <2> QED BY <2>3, <2>4, <2>5, <2>6, <2>7, <2>8, <2>9, <2>10, <2>11 DEF StoreInv
<1>5. ASSUME NEW c \in Clients, Store!Keep(c) PROVE StoreInv'
  <2>1. Becomes(c, "done", Store!NoFile, calls[c].content, FALSE)
    BY <1>5, EndsBecomes DEF Store!Keep, Store!EndsRead
  <2>2. /\ Store!At(c, "keep")
        /\ disk' = disk
        /\ cached' \in [id : Store!Ids, content : Store!Contents]
        /\ cached'.id = calls[c].id /\ cached'.content = calls[c].content
        /\ writeLock' = writeLock
        /\ Forgets(c)
    BY <1>5, EndsReadSeen DEF Store!Keep
  <2>3. Store!TypeOK' BY <2>1, <2>2 DEF Becomes, Forgets, Store!TypeOK
  <2>4. LockHeld' BY <2>1, <2>2 DEF Becomes, Forgets, LockHeld, Store!At
  <2>5. NoFileSaysNothing' BY <2>1, <2>2 DEF Becomes, Forgets, NoFileSaysNothing
  <2>6. HoldersKnow'
    BY <2>1, <2>2 DEF Becomes, Forgets, HoldersKnow, LockHeld, Store!CacheFresh,
       NoFileSaysNothing, Store!At, Store!Hit
  <2>7. ReadersSaw'
    BY <2>1, <2>2 DEF Becomes, Forgets, ReadersSaw, KeptIsSeen, HoldersKnow,
       NoFileSaysNothing, Store!CacheFresh, Store!At, Store!Hit
  <2>8. KeepsKnow' BY <2>1, <2>2 DEF Becomes, Forgets, KeepsKnow, Store!At
  <2>9. KeptIsSeen'
    BY <2>1, <2>2 DEF Becomes, Forgets, KeptIsSeen, ReadersSaw, KeepsKnow, Store!At
  <2>10. CacheBehind' BY <2>1, <2>2 DEF Becomes, Forgets, CacheBehind, KeepsKnow, Store!At
  <2>11. Store!CacheFresh'
    BY <2>1, <2>2 DEF Becomes, Forgets, Store!CacheFresh, KeepsKnow, CacheBehind,
       HoldersKnow, NoFileSaysNothing, Store!At, Store!Hit
  <2> QED BY <2>3, <2>4, <2>5, <2>6, <2>7, <2>8, <2>9, <2>10, <2>11 DEF StoreInv
<1>6. ASSUME NEW c \in Clients, Store!Migrate(c) PROVE StoreInv'
  <2>1. Becomes(c, IF disk.legacy THEN "rewrite" ELSE "refresh", calls[c].id,
              disk.content, calls[c].legacy)
    BY <1>6, GoesWithBecomes DEF Store!Migrate
  <2>2. /\ Store!At(c, "migrate") /\ writeLock = Nobody
        /\ disk' = disk
        /\ cached' = cached
        /\ writeLock' = c
        /\ during' = during
    BY <1>6 DEF Store!Migrate
  <2>3. Store!TypeOK' BY <2>1, <2>2 DEF Becomes, Store!TypeOK
  <2>4. LockHeld' BY <2>1, <2>2 DEF Becomes, LockHeld, Store!At
  <2>5. NoFileSaysNothing' BY <2>1, <2>2 DEF Becomes, NoFileSaysNothing
  <2>6. HoldersKnow'
    BY <2>1, <2>2 DEF Becomes, HoldersKnow, LockHeld, Store!CacheFresh, NoFileSaysNothing,
       Store!At, Store!Hit
  <2>7. ReadersSaw'
    BY <2>1, <2>2 DEF Becomes, ReadersSaw, KeptIsSeen, HoldersKnow, NoFileSaysNothing,
       Store!CacheFresh, Store!At, Store!Hit
  <2>8. KeepsKnow' BY <2>1, <2>2 DEF Becomes, KeepsKnow, Store!At
  <2>9. KeptIsSeen' BY <2>1, <2>2 DEF Becomes, KeptIsSeen, ReadersSaw, KeepsKnow, Store!At
  <2>10. CacheBehind' BY <2>1, <2>2 DEF Becomes, CacheBehind, KeepsKnow, Store!At
  <2>11. Store!CacheFresh'
    BY <2>1, <2>2 DEF Becomes, Store!CacheFresh, KeepsKnow, CacheBehind, HoldersKnow,
       NoFileSaysNothing, Store!At, Store!Hit
  <2> QED BY <2>3, <2>4, <2>5, <2>6, <2>7, <2>8, <2>9, <2>10, <2>11 DEF StoreInv
<1>7. ASSUME NEW c \in Clients, Store!Rewrite(c) PROVE StoreInv'
  <2>1. Becomes(c, "refresh", calls[c].id, calls[c].content, calls[c].legacy)
    BY <1>7, GoesBecomes DEF Store!Rewrite
  <2>2. /\ Store!At(c, "rewrite")
        /\ TurnsTo(calls[c].content, FALSE)
        /\ cached' = cached
        /\ writeLock' = writeLock
    BY <1>7, ReplacedSeen DEF Store!Rewrite
  <2>3. Store!TypeOK' BY <2>1, <2>2 DEF Becomes, TurnsTo, Store!TypeOK
  <2>4. LockHeld' BY <2>1, <2>2 DEF Becomes, TurnsTo, LockHeld, Store!At
  <2>5. NoFileSaysNothing' BY <2>1, <2>2 DEF Becomes, TurnsTo, NoFileSaysNothing
  <2>6. HoldersKnow'
    BY <2>1, <2>2 DEF Becomes, TurnsTo, HoldersKnow, LockHeld, Store!CacheFresh,
       NoFileSaysNothing, Store!At, Store!Hit
  <2>7. ReadersSaw'
    BY <2>1, <2>2 DEF Becomes, TurnsTo, ReadersSaw, KeptIsSeen, HoldersKnow,
       NoFileSaysNothing, Store!CacheFresh, Store!At, Store!Hit
  <2>8. KeepsKnow' BY <2>1, <2>2 DEF Becomes, TurnsTo, KeepsKnow, Store!At
  <2>9. KeptIsSeen'
    BY <2>1, <2>2 DEF Becomes, TurnsTo, KeptIsSeen, ReadersSaw, KeepsKnow, Store!At
  <2>10. CacheBehind' BY <2>1, <2>2 DEF Becomes, TurnsTo, CacheBehind, KeepsKnow, Store!At
  <2>11. Store!CacheFresh'
    BY <2>1, <2>2 DEF Becomes, TurnsTo, Store!CacheFresh, KeepsKnow, CacheBehind,
       HoldersKnow, NoFileSaysNothing, Store!At, Store!Hit
  <2> QED BY <2>3, <2>4, <2>5, <2>6, <2>7, <2>8, <2>9, <2>10, <2>11 DEF StoreInv
<1>8. ASSUME NEW c \in Clients, Store!RewriteFails(c) PROVE StoreInv'
  <2>1. Becomes(c, "done", Store!NoFile, calls[c].content, FALSE)
    BY <1>8, EndsBecomes DEF Store!RewriteFails, Store!EndsRead
  <2>2. /\ Store!At(c, "rewrite")
        /\ disk' = disk
        /\ cached' = cached
        /\ writeLock' = Nobody
        /\ Forgets(c)
    BY <1>8, EndsReadSeen DEF Store!RewriteFails
  <2>3. Store!TypeOK' BY <2>1, <2>2 DEF Becomes, Forgets, Store!TypeOK
  <2>4. LockHeld' BY <2>1, <2>2 DEF Becomes, Forgets, LockHeld, Store!At
  <2>5. NoFileSaysNothing' BY <2>1, <2>2 DEF Becomes, Forgets, NoFileSaysNothing
  <2>6. HoldersKnow'
    BY <2>1, <2>2 DEF Becomes, Forgets, HoldersKnow, LockHeld, Store!CacheFresh,
       NoFileSaysNothing, Store!At, Store!Hit
  <2>7. ReadersSaw'
    BY <2>1, <2>2 DEF Becomes, Forgets, ReadersSaw, KeptIsSeen, HoldersKnow,
       NoFileSaysNothing, Store!CacheFresh, Store!At, Store!Hit
  <2>8. KeepsKnow' BY <2>1, <2>2 DEF Becomes, Forgets, KeepsKnow, Store!At
  <2>9. KeptIsSeen'
    BY <2>1, <2>2 DEF Becomes, Forgets, KeptIsSeen, ReadersSaw, KeepsKnow, Store!At
  <2>10. CacheBehind' BY <2>1, <2>2 DEF Becomes, Forgets, CacheBehind, KeepsKnow, Store!At
  <2>11. Store!CacheFresh'
    BY <2>1, <2>2 DEF Becomes, Forgets, Store!CacheFresh, KeepsKnow, CacheBehind,
       HoldersKnow, NoFileSaysNothing, Store!At, Store!Hit
  <2> QED BY <2>3, <2>4, <2>5, <2>6, <2>7, <2>8, <2>9, <2>10, <2>11 DEF StoreInv
<1>9. ASSUME NEW c \in Clients, Store!BeginModify(c) PROVE StoreInv'
  <2>1. Becomes(c, "mutate", Store!NoFile, IF Store!Hit(disk.id) THEN cached.content ELSE disk.content,
              ~Store!Hit(disk.id) /\ disk.legacy)
    <3> DEFINE r == [pc |-> "mutate", id |-> Store!NoFile,
                     content |-> IF Store!Hit(disk.id) THEN cached.content ELSE disk.content,
                     legacy |-> ~Store!Hit(disk.id) /\ disk.legacy]
    <3>1. r \in Store!CallStates BY <1>a, StoreIdles DEF Store!CallStates
    <3>2. calls' = [calls EXCEPT ![c] = r] BY <1>9 DEF Store!BeginModify
    <3> QED BY <1>0, <3>1, <3>2, ReplacedCall
  <2>2. /\ Store!At(c, "idle") /\ writeLock = Nobody
        /\ disk' = disk
        /\ cached' = cached
        /\ writeLock' = c
        /\ during' = during
    BY <1>9 DEF Store!BeginModify
  <2>3. Store!TypeOK' BY <2>1, <2>2 DEF Becomes, Store!TypeOK
  <2>4. LockHeld' BY <2>1, <2>2 DEF Becomes, LockHeld, Store!At
  <2>5. NoFileSaysNothing' BY <2>1, <2>2 DEF Becomes, NoFileSaysNothing
  <2>6. HoldersKnow'
    BY <2>1, <2>2 DEF Becomes, HoldersKnow, LockHeld, Store!CacheFresh, NoFileSaysNothing,
       Store!At, Store!Hit
  <2>7. ReadersSaw'
    BY <2>1, <2>2 DEF Becomes, ReadersSaw, KeptIsSeen, HoldersKnow, NoFileSaysNothing,
       Store!CacheFresh, Store!At, Store!Hit
  <2>8. KeepsKnow' BY <2>1, <2>2 DEF Becomes, KeepsKnow, Store!At
  <2>9. KeptIsSeen' BY <2>1, <2>2 DEF Becomes, KeptIsSeen, ReadersSaw, KeepsKnow, Store!At
  <2>10. CacheBehind' BY <2>1, <2>2 DEF Becomes, CacheBehind, KeepsKnow, Store!At
  <2>11. Store!CacheFresh'
    BY <2>1, <2>2 DEF Becomes, Store!CacheFresh, KeepsKnow, CacheBehind, HoldersKnow,
       NoFileSaysNothing, Store!At, Store!Hit
  <2> QED BY <2>3, <2>4, <2>5, <2>6, <2>7, <2>8, <2>9, <2>10, <2>11 DEF StoreInv
<1>10. ASSUME NEW c \in Clients, Store!Change(c) PROVE StoreInv'
  <2>1. Becomes(c, "publish", calls[c].id, Store!Edited(calls[c].content, c), calls[c].legacy)
    BY <1>10, GoesWithBecomes, EditedTyped DEF Store!Change
  <2>2. /\ Store!At(c, "mutate")
        /\ disk' = disk
        /\ cached' = cached
        /\ writeLock' = writeLock
        /\ during' = during
    BY <1>10 DEF Store!Change
  <2>3. Store!TypeOK' BY <2>1, <2>2 DEF Becomes, Store!TypeOK
  <2>4. LockHeld' BY <2>1, <2>2 DEF Becomes, LockHeld, Store!At
  <2>5. NoFileSaysNothing' BY <2>1, <2>2 DEF Becomes, NoFileSaysNothing
  <2>6. HoldersKnow'
    BY <2>1, <2>2 DEF Becomes, HoldersKnow, LockHeld, Store!CacheFresh, NoFileSaysNothing,
       Store!At, Store!Hit
  <2>7. ReadersSaw'
    BY <2>1, <2>2 DEF Becomes, ReadersSaw, KeptIsSeen, HoldersKnow, NoFileSaysNothing,
       Store!CacheFresh, Store!At, Store!Hit
  <2>8. KeepsKnow' BY <2>1, <2>2 DEF Becomes, KeepsKnow, Store!At
  <2>9. KeptIsSeen' BY <2>1, <2>2 DEF Becomes, KeptIsSeen, ReadersSaw, KeepsKnow, Store!At
  <2>10. CacheBehind' BY <2>1, <2>2 DEF Becomes, CacheBehind, KeepsKnow, Store!At
  <2>11. Store!CacheFresh'
    BY <2>1, <2>2 DEF Becomes, Store!CacheFresh, KeepsKnow, CacheBehind, HoldersKnow,
       NoFileSaysNothing, Store!At, Store!Hit
  <2> QED BY <2>3, <2>4, <2>5, <2>6, <2>7, <2>8, <2>9, <2>10, <2>11 DEF StoreInv
<1>11. ASSUME NEW c \in Clients, Store!ChangeNothing(c) PROVE StoreInv'
  <2>1. Becomes(c, IF calls[c].legacy THEN "publish" ELSE "store", calls[c].id,
              calls[c].content, calls[c].legacy)
    BY <1>11, GoesBecomes DEF Store!ChangeNothing
  <2>2. /\ Store!At(c, "mutate")
        /\ disk' = disk
        /\ cached' = cached
        /\ writeLock' = writeLock
        /\ during' = during
    BY <1>11 DEF Store!ChangeNothing
  <2>3. Store!TypeOK' BY <2>1, <2>2 DEF Becomes, Store!TypeOK
  <2>4. LockHeld' BY <2>1, <2>2 DEF Becomes, LockHeld, Store!At
  <2>5. NoFileSaysNothing' BY <2>1, <2>2 DEF Becomes, NoFileSaysNothing
  <2>6. HoldersKnow'
    BY <2>1, <2>2 DEF Becomes, HoldersKnow, LockHeld, Store!CacheFresh, NoFileSaysNothing,
       Store!At, Store!Hit
  <2>7. ReadersSaw'
    BY <2>1, <2>2 DEF Becomes, ReadersSaw, KeptIsSeen, HoldersKnow, NoFileSaysNothing,
       Store!CacheFresh, Store!At, Store!Hit
  <2>8. KeepsKnow' BY <2>1, <2>2 DEF Becomes, KeepsKnow, Store!At
  <2>9. KeptIsSeen' BY <2>1, <2>2 DEF Becomes, KeptIsSeen, ReadersSaw, KeepsKnow, Store!At
  <2>10. CacheBehind' BY <2>1, <2>2 DEF Becomes, CacheBehind, KeepsKnow, Store!At
  <2>11. Store!CacheFresh'
    BY <2>1, <2>2 DEF Becomes, Store!CacheFresh, KeepsKnow, CacheBehind, HoldersKnow,
       NoFileSaysNothing, Store!At, Store!Hit
  <2> QED BY <2>3, <2>4, <2>5, <2>6, <2>7, <2>8, <2>9, <2>10, <2>11 DEF StoreInv
<1>12. ASSUME NEW c \in Clients, Store!Refuse(c) PROVE StoreInv'
  <2>1. Becomes(c, "failed", Store!NoFile, {}, FALSE)
    BY <1>12, FailsBecomes DEF Store!Refuse
  <2>2. /\ Store!At(c, "mutate")
        /\ disk' = disk
        /\ cached' = cached
        /\ writeLock' = Nobody
        /\ during' = during
    BY <1>12 DEF Store!Refuse, Store!Fails
  <2>3. Store!TypeOK' BY <2>1, <2>2 DEF Becomes, Store!TypeOK
  <2>4. LockHeld' BY <2>1, <2>2 DEF Becomes, LockHeld, Store!At
  <2>5. NoFileSaysNothing' BY <2>1, <2>2 DEF Becomes, NoFileSaysNothing
  <2>6. HoldersKnow'
    BY <2>1, <2>2 DEF Becomes, HoldersKnow, LockHeld, Store!CacheFresh, NoFileSaysNothing,
       Store!At, Store!Hit
  <2>7. ReadersSaw'
    BY <2>1, <2>2 DEF Becomes, ReadersSaw, KeptIsSeen, HoldersKnow, NoFileSaysNothing,
       Store!CacheFresh, Store!At, Store!Hit
  <2>8. KeepsKnow' BY <2>1, <2>2 DEF Becomes, KeepsKnow, Store!At
  <2>9. KeptIsSeen' BY <2>1, <2>2 DEF Becomes, KeptIsSeen, ReadersSaw, KeepsKnow, Store!At
  <2>10. CacheBehind' BY <2>1, <2>2 DEF Becomes, CacheBehind, KeepsKnow, Store!At
  <2>11. Store!CacheFresh'
    BY <2>1, <2>2 DEF Becomes, Store!CacheFresh, KeepsKnow, CacheBehind, HoldersKnow,
       NoFileSaysNothing, Store!At, Store!Hit
  <2> QED BY <2>3, <2>4, <2>5, <2>6, <2>7, <2>8, <2>9, <2>10, <2>11 DEF StoreInv
<1>13. ASSUME NEW c \in Clients, Store!Publish(c) PROVE StoreInv'
  <2>1. Becomes(c, "store", calls[c].id, calls[c].content, calls[c].legacy)
    BY <1>13, GoesBecomes DEF Store!Publish
  <2>2. /\ Store!At(c, "publish")
        /\ TurnsTo(calls[c].content, FALSE)
        /\ cached' = cached
        /\ writeLock' = writeLock
    BY <1>13, ReplacedSeen DEF Store!Publish
  <2>3. Store!TypeOK' BY <2>1, <2>2 DEF Becomes, TurnsTo, Store!TypeOK
  <2>4. LockHeld' BY <2>1, <2>2 DEF Becomes, TurnsTo, LockHeld, Store!At
  <2>5. NoFileSaysNothing' BY <2>1, <2>2 DEF Becomes, TurnsTo, NoFileSaysNothing
  <2>6. HoldersKnow'
    BY <2>1, <2>2 DEF Becomes, TurnsTo, HoldersKnow, LockHeld, Store!CacheFresh,
       NoFileSaysNothing, Store!At, Store!Hit
  <2>7. ReadersSaw'
    BY <2>1, <2>2 DEF Becomes, TurnsTo, ReadersSaw, KeptIsSeen, HoldersKnow,
       NoFileSaysNothing, Store!CacheFresh, Store!At, Store!Hit
  <2>8. KeepsKnow' BY <2>1, <2>2 DEF Becomes, TurnsTo, KeepsKnow, Store!At
  <2>9. KeptIsSeen'
    BY <2>1, <2>2 DEF Becomes, TurnsTo, KeptIsSeen, ReadersSaw, KeepsKnow, Store!At
  <2>10. CacheBehind' BY <2>1, <2>2 DEF Becomes, TurnsTo, CacheBehind, KeepsKnow, Store!At
  <2>11. Store!CacheFresh'
    BY <2>1, <2>2 DEF Becomes, TurnsTo, Store!CacheFresh, KeepsKnow, CacheBehind,
       HoldersKnow, NoFileSaysNothing, Store!At, Store!Hit
  <2> QED BY <2>3, <2>4, <2>5, <2>6, <2>7, <2>8, <2>9, <2>10, <2>11 DEF StoreInv
<1>14. ASSUME NEW c \in Clients, Store!PublishFails(c) PROVE StoreInv'
  <2>1. Becomes(c, "failed", Store!NoFile, {}, FALSE)
    BY <1>14, FailsBecomes DEF Store!PublishFails
  <2>2. /\ Store!At(c, "publish")
        /\ disk' = disk
        /\ cached' = cached
        /\ writeLock' = Nobody
        /\ during' = during
    BY <1>14 DEF Store!PublishFails, Store!Fails
  <2>3. Store!TypeOK' BY <2>1, <2>2 DEF Becomes, Store!TypeOK
  <2>4. LockHeld' BY <2>1, <2>2 DEF Becomes, LockHeld, Store!At
  <2>5. NoFileSaysNothing' BY <2>1, <2>2 DEF Becomes, NoFileSaysNothing
  <2>6. HoldersKnow'
    BY <2>1, <2>2 DEF Becomes, HoldersKnow, LockHeld, Store!CacheFresh, NoFileSaysNothing,
       Store!At, Store!Hit
  <2>7. ReadersSaw'
    BY <2>1, <2>2 DEF Becomes, ReadersSaw, KeptIsSeen, HoldersKnow, NoFileSaysNothing,
       Store!CacheFresh, Store!At, Store!Hit
  <2>8. KeepsKnow' BY <2>1, <2>2 DEF Becomes, KeepsKnow, Store!At
  <2>9. KeptIsSeen' BY <2>1, <2>2 DEF Becomes, KeptIsSeen, ReadersSaw, KeepsKnow, Store!At
  <2>10. CacheBehind' BY <2>1, <2>2 DEF Becomes, CacheBehind, KeepsKnow, Store!At
  <2>11. Store!CacheFresh'
    BY <2>1, <2>2 DEF Becomes, Store!CacheFresh, KeepsKnow, CacheBehind, HoldersKnow,
       NoFileSaysNothing, Store!At, Store!Hit
  <2> QED BY <2>3, <2>4, <2>5, <2>6, <2>7, <2>8, <2>9, <2>10, <2>11 DEF StoreInv
<1>15. ASSUME NEW c \in Clients, Store!Store(c) PROVE StoreInv'
  <2>1. Becomes(c, "done", Store!NoFile, calls[c].content, FALSE)
    BY <1>15, EndsBecomes DEF Store!Store, Store!EndsRead
  <2>2. /\ Store!At(c, "store") \/ Store!At(c, "refresh")
        /\ disk' = disk
        /\ cached' \in [id : Store!Ids, content : Store!Contents]
        /\ cached'.id = disk.id
        /\ cached'.id # Store!NoFile => cached'.content = calls[c].content
        /\ writeLock' = Nobody
        /\ Forgets(c)
    BY <1>15, EndsReadSeen, StoreIdles DEF Store!Store
  <2>3. Store!TypeOK' BY <2>1, <2>2 DEF Becomes, Forgets, Store!TypeOK
  <2>4. LockHeld' BY <2>1, <2>2 DEF Becomes, Forgets, LockHeld, Store!At
  <2>5. NoFileSaysNothing' BY <2>1, <2>2 DEF Becomes, Forgets, NoFileSaysNothing
  <2>6. HoldersKnow'
    BY <2>1, <2>2 DEF Becomes, Forgets, HoldersKnow, LockHeld, Store!CacheFresh,
       NoFileSaysNothing, Store!At, Store!Hit
  <2>7. ReadersSaw'
    BY <2>1, <2>2 DEF Becomes, Forgets, ReadersSaw, KeptIsSeen, HoldersKnow,
       NoFileSaysNothing, Store!CacheFresh, Store!At, Store!Hit
  <2>8. KeepsKnow' BY <2>1, <2>2 DEF Becomes, Forgets, KeepsKnow, Store!At
  <2>9. KeptIsSeen'
    BY <2>1, <2>2 DEF Becomes, Forgets, KeptIsSeen, ReadersSaw, KeepsKnow, Store!At
  <2>10. CacheBehind' BY <2>1, <2>2 DEF Becomes, Forgets, CacheBehind, KeepsKnow, Store!At
  <2>11. Store!CacheFresh'
    BY <2>1, <2>2 DEF Becomes, Forgets, Store!CacheFresh, KeepsKnow, CacheBehind,
       HoldersKnow, NoFileSaysNothing, Store!At, Store!Hit
  <2> QED BY <2>3, <2>4, <2>5, <2>6, <2>7, <2>8, <2>9, <2>10, <2>11 DEF StoreInv
<1>16. ASSUME NEW c \in Clients, Store!Return(c) PROVE StoreInv'
  <2>1. Becomes(c, "idle", Store!NoFile, {}, FALSE)
    BY <1>16, ReplacedCall, StoreIdles DEF Store!Return
  <2>2. /\ Store!At(c, "done") \/ Store!At(c, "failed")
        /\ disk' = disk
        /\ cached' = cached
        /\ writeLock' = writeLock
        /\ during' = during
    BY <1>16 DEF Store!Return
  <2>3. Store!TypeOK' BY <2>1, <2>2 DEF Becomes, Store!TypeOK
  <2>4. LockHeld' BY <2>1, <2>2 DEF Becomes, LockHeld, Store!At
  <2>5. NoFileSaysNothing' BY <2>1, <2>2 DEF Becomes, NoFileSaysNothing
  <2>6. HoldersKnow'
    BY <2>1, <2>2 DEF Becomes, HoldersKnow, LockHeld, Store!CacheFresh, NoFileSaysNothing,
       Store!At, Store!Hit
  <2>7. ReadersSaw'
    BY <2>1, <2>2 DEF Becomes, ReadersSaw, KeptIsSeen, HoldersKnow, NoFileSaysNothing,
       Store!CacheFresh, Store!At, Store!Hit
  <2>8. KeepsKnow' BY <2>1, <2>2 DEF Becomes, KeepsKnow, Store!At
  <2>9. KeptIsSeen' BY <2>1, <2>2 DEF Becomes, KeptIsSeen, ReadersSaw, KeepsKnow, Store!At
  <2>10. CacheBehind' BY <2>1, <2>2 DEF Becomes, CacheBehind, KeepsKnow, Store!At
  <2>11. Store!CacheFresh'
    BY <2>1, <2>2 DEF Becomes, Store!CacheFresh, KeepsKnow, CacheBehind, HoldersKnow,
       NoFileSaysNothing, Store!At, Store!Hit
  <2> QED BY <2>3, <2>4, <2>5, <2>6, <2>7, <2>8, <2>9, <2>10, <2>11 DEF StoreInv
<1>17. ASSUME NEW c \in Clients, Store!Lookup(c) PROVE StoreInv'
  <2>1. Store!At(c, "lookup") /\ disk' = disk /\ cached' = cached /\ writeLock' = writeLock
    BY <1>17 DEF Store!Lookup
  <2>2. CASE Store!Hit(calls[c].id)
    <3>1. Becomes(c, "done", Store!NoFile, cached.content, FALSE) /\ Forgets(c)
      BY <1>17, <2>2, EndsBecomes, EndsReadSeen DEF Store!Lookup, Store!EndsRead
    <3>2. Store!TypeOK' BY <2>1, <3>1 DEF Becomes, Forgets, TurnsTo, Store!TypeOK
    <3>3. LockHeld' BY <2>1, <3>1 DEF Becomes, Forgets, TurnsTo, LockHeld, Store!At
    <3>4. NoFileSaysNothing'
      BY <2>1, <3>1 DEF Becomes, Forgets, TurnsTo, NoFileSaysNothing
    <3>5. HoldersKnow'
      BY <2>1, <3>1 DEF Becomes, Forgets, TurnsTo, HoldersKnow, LockHeld,
         Store!CacheFresh,
         NoFileSaysNothing, Store!At, Store!Hit
    <3>6. ReadersSaw'
      BY <2>1, <3>1 DEF Becomes, Forgets, TurnsTo, ReadersSaw, KeptIsSeen,
         HoldersKnow, NoFileSaysNothing, Store!CacheFresh, Store!At, Store!Hit
    <3>7. KeepsKnow' BY <2>1, <3>1 DEF Becomes, Forgets, TurnsTo, KeepsKnow, Store!At
    <3>8. KeptIsSeen'
      BY <2>1, <3>1 DEF Becomes, Forgets, TurnsTo, KeptIsSeen, ReadersSaw, KeepsKnow,
         Store!At
    <3>9. CacheBehind'
      BY <2>1, <3>1 DEF Becomes, Forgets, TurnsTo, CacheBehind, KeepsKnow, Store!At
    <3>10. Store!CacheFresh'
      BY <2>1, <3>1 DEF Becomes, Forgets, TurnsTo, Store!CacheFresh, KeepsKnow,
         CacheBehind,
         HoldersKnow, NoFileSaysNothing, Store!At, Store!Hit
    <3> QED BY <3>2, <3>3, <3>4, <3>5, <3>6, <3>7, <3>8, <3>9, <3>10 DEF StoreInv
  <2>3. CASE ~Store!Hit(calls[c].id)
    <3>1. Becomes(c, "stat", calls[c].id, calls[c].content, calls[c].legacy) /\ during' = during
      BY <1>17, <2>3, GoesBecomes DEF Store!Lookup
    <3>2. Store!TypeOK' BY <2>1, <3>1 DEF Becomes, Forgets, TurnsTo, Store!TypeOK
    <3>3. LockHeld' BY <2>1, <3>1 DEF Becomes, Forgets, TurnsTo, LockHeld, Store!At
    <3>4. NoFileSaysNothing'
      BY <2>1, <3>1 DEF Becomes, Forgets, TurnsTo, NoFileSaysNothing
    <3>5. HoldersKnow'
      BY <2>1, <3>1 DEF Becomes, Forgets, TurnsTo, HoldersKnow, LockHeld,
         Store!CacheFresh,
         NoFileSaysNothing, Store!At, Store!Hit
    <3>6. ReadersSaw'
      BY <2>1, <3>1 DEF Becomes, Forgets, TurnsTo, ReadersSaw, KeptIsSeen,
         HoldersKnow, NoFileSaysNothing, Store!CacheFresh, Store!At, Store!Hit
    <3>7. KeepsKnow' BY <2>1, <3>1 DEF Becomes, Forgets, TurnsTo, KeepsKnow, Store!At
    <3>8. KeptIsSeen'
      BY <2>1, <3>1 DEF Becomes, Forgets, TurnsTo, KeptIsSeen, ReadersSaw, KeepsKnow,
         Store!At
    <3>9. CacheBehind'
      BY <2>1, <3>1 DEF Becomes, Forgets, TurnsTo, CacheBehind, KeepsKnow, Store!At
    <3>10. Store!CacheFresh'
      BY <2>1, <3>1 DEF Becomes, Forgets, TurnsTo, Store!CacheFresh, KeepsKnow,
         CacheBehind,
         HoldersKnow, NoFileSaysNothing, Store!At, Store!Hit
    <3> QED BY <3>2, <3>3, <3>4, <3>5, <3>6, <3>7, <3>8, <3>9, <3>10 DEF StoreInv
  <2> QED BY <2>2, <2>3
<1>18. ASSUME Store!Outside PROVE StoreInv'
  <2>1. PICK content \in Store!Contents, legacy \in BOOLEAN : Store!Replaced(content, legacy)
    BY <1>18 DEF Store!Outside
  <2>2. /\ TurnsTo(content, legacy)
        /\ cached' = cached /\ writeLock' = writeLock /\ calls' = calls
        /\ \A c \in Clients : calls[c].pc \notin Store!Writing \cup {"rewrite", "refresh"}
    BY <1>0, <2>1, <1>18, ReplacedSeen DEF Store!Outside
  <2>3. Store!TypeOK' BY <2>2 DEF Becomes, TurnsTo, Store!TypeOK
  <2>4. LockHeld' BY <2>2 DEF Becomes, TurnsTo, LockHeld, Store!At
  <2>5. NoFileSaysNothing' BY <2>2 DEF Becomes, TurnsTo, NoFileSaysNothing
  <2>6. HoldersKnow'
    BY <2>2 DEF Becomes, TurnsTo, HoldersKnow, LockHeld, Store!CacheFresh,
       NoFileSaysNothing, Store!At, Store!Hit
  <2>7. ReadersSaw'
    BY <2>2 DEF Becomes, TurnsTo, ReadersSaw, KeptIsSeen, HoldersKnow,
       NoFileSaysNothing, Store!CacheFresh, Store!At, Store!Hit
  <2>8. KeepsKnow' BY <2>2 DEF Becomes, TurnsTo, KeepsKnow, Store!At
  <2>9. KeptIsSeen'
    BY <2>2 DEF Becomes, TurnsTo, KeptIsSeen, ReadersSaw, KeepsKnow, Store!At
  <2>10. CacheBehind' BY <2>2 DEF Becomes, TurnsTo, CacheBehind, KeepsKnow, Store!At
  <2>11. Store!CacheFresh'
    BY <2>2 DEF Becomes, TurnsTo, Store!CacheFresh, KeepsKnow, CacheBehind, HoldersKnow,
       NoFileSaysNothing, Store!At, Store!Hit
  <2> QED BY <2>3, <2>4, <2>5, <2>6, <2>7, <2>8, <2>9, <2>10, <2>11 DEF StoreInv
<1>19. ASSUME Store!Crash PROVE StoreInv'
  <2>1. /\ disk' = disk /\ cached' = Store!NoEntry /\ writeLock' = Nobody
        /\ calls' \in [Clients -> Store!CallStates]
        /\ during' \in [Clients -> SUBSET Store!Contents]
        /\ \A c \in Clients : calls'[c] = Store!IdleCall /\ during'[c] = {}
    BY <1>19, StoreIdles DEF Store!Crash
  <2>3. Store!TypeOK' BY <2>1, StoreIdles DEF Store!TypeOK
  <2>4. LockHeld' BY <2>1, StoreIdles DEF LockHeld, Store!At
  <2>5. NoFileSaysNothing' BY <2>1, StoreIdles DEF NoFileSaysNothing
  <2>6. HoldersKnow'
    BY <2>1, StoreIdles DEF HoldersKnow, LockHeld, Store!CacheFresh, NoFileSaysNothing,
       Store!At,
       Store!Hit
  <2>7. ReadersSaw'
    BY <2>1, StoreIdles DEF ReadersSaw, KeptIsSeen, HoldersKnow, NoFileSaysNothing,
       Store!CacheFresh, Store!At, Store!Hit
  <2>8. KeepsKnow' BY <2>1, StoreIdles DEF KeepsKnow, Store!At
  <2>9. KeptIsSeen' BY <2>1, StoreIdles DEF KeptIsSeen, ReadersSaw, KeepsKnow, Store!At
  <2>10. CacheBehind' BY <2>1, StoreIdles DEF CacheBehind, KeepsKnow, Store!At
  <2>11. Store!CacheFresh'
    BY <2>1, StoreIdles DEF Store!CacheFresh, KeepsKnow, CacheBehind, HoldersKnow,
       NoFileSaysNothing, Store!At, Store!Hit
  <2> QED BY <2>3, <2>4, <2>5, <2>6, <2>7, <2>8, <2>9, <2>10, <2>11 DEF StoreInv
<1>20. CASE UNCHANGED Store!vars
  BY <1>0, <1>20 DEF Store!vars, StoreInv, Store!TypeOK, LockHeld, NoFileSaysNothing,
     HoldersKnow,
    ReadersSaw, KeepsKnow, KeptIsSeen, CacheBehind, Store!CacheFresh, Store!At, Store!Hit
<1> QED
  BY <1>1, <1>2, <1>3, <1>4, <1>5, <1>6, <1>7, <1>8, <1>9, <1>10, <1>11, <1>12, <1>13,
     <1>14, <1>15, <1>16, <1>17, <1>18, <1>19, <1>20 DEF Store!Next

\* All of it holds in every state.
THEOREM AlwaysStoreInv == ASSUME Store!ConfigStoreAssumption PROVE Store!Spec => []StoreInv
<1>1. Store!Init => StoreInv BY StoreInit
<1>2. StoreInv /\ [Store!Next]_(Store!vars) => StoreInv' BY StoreStep
<1> QED BY <1>1, <1>2, PTL DEF Store!Spec

-----------------------------------------------------------------------------
\* A call as the register sees it.
LEMMA PcSeen ==
    ASSUME NEW c \in Clients, calls[c].pc \in StorePCs
    PROVE  /\ calls[c].pc \in Store!Reading => Store!RegisterPc(c) = "reading"
           /\ calls[c].pc \in {"mutate", "publish"} => Store!RegisterPc(c) = "modifying"
           /\ calls[c].pc = "store" => Store!RegisterPc(c) = "done"
           /\ calls[c].pc \in {"idle", "done", "failed"} => Store!RegisterPc(c) = calls[c].pc
BY DEF Store!RegisterPc, Store!Reading, Store!Writing, StorePCs

\* The same of the state that comes.
LEMMA PcSeenNext ==
    ASSUME NEW c \in Clients, calls'[c].pc \in StorePCs
    PROVE  /\ calls'[c].pc \in Store!Reading => Store!RegisterPc(c)' = "reading"
           /\ calls'[c].pc \in {"mutate", "publish"} => Store!RegisterPc(c)' = "modifying"
           /\ calls'[c].pc = "store" => Store!RegisterPc(c)' = "done"
           /\ calls'[c].pc \in {"idle", "done", "failed"} => Store!RegisterPc(c)' = calls'[c].pc
BY DEF Store!RegisterPc, Store!Reading, Store!Writing, StorePCs

\* Calls that stay as they are are seen as before.
LEMMA SameCall ==
    ASSUME NEW c \in Clients, calls'[c] = calls[c], during'[c] = during[c]
    PROVE  Store!RegisterCalls'[c] = Store!RegisterCalls[c]
BY DEF Store!RegisterCalls, Store!RegisterCall, Store!RegisterPc

\* A step that changes no call, nor the content, is none of the register.
LEMMA Unseen ==
    ASSUME \A c \in Clients : Store!RegisterCalls'[c] = Store!RegisterCalls[c],
           disk'.content = disk.content
    PROVE  UNCHANGED Store!Register!vars
<1>1. Store!RegisterCalls' = Store!RegisterCalls BY DEF Store!RegisterCalls
<1> QED BY <1>1 DEF Store!Register!vars

\* A step that changes one call.
LEMMA OneSeen ==
    ASSUME NEW c \in Clients, NEW call,
           \A d \in Clients \ {c} : Store!RegisterCalls'[d] = Store!RegisterCalls[d],
           Store!RegisterCalls'[c] = call
    PROVE  Store!RegisterCalls' = [Store!RegisterCalls EXCEPT ![c] = call]
BY DEF Store!RegisterCalls

\* The initial states are initial states of the register.
LEMMA RegisterInit ==
    ASSUME Store!ConfigStoreAssumption, Store!Init
    PROVE  Store!Register!Init
<1>1. disk.content \in Store!Register!Contents
  BY DEF Store!Init, Store!Register!Contents
<1>2. \A c \in Clients : Store!RegisterCalls[c] = Store!Register!IdleCall
  <2> SUFFICES ASSUME NEW c \in Clients PROVE Store!RegisterCalls[c] = Store!Register!IdleCall OBVIOUS
  <2>1. calls[c] = Store!IdleCall /\ during[c] = {} BY DEF Store!Init
  <2>2. Store!RegisterPc(c) = "idle" BY <2>1, StoreIdles, PcSeen DEF StorePCs
  <2> QED
    BY <2>1, <2>2 DEF Store!Register!IdleCall, Store!Register!Call, Store!RegisterCalls,
       Store!RegisterCall
<1>3. Store!RegisterCalls = [c \in Clients |-> Store!Register!IdleCall]
  BY <1>2 DEF Store!RegisterCalls
<1> QED BY <1>1, <1>3 DEF Store!Register!Init

\* The end of a read is one of the register's: what it returns, the file has said.
LEMMA ReadEnds ==
    ASSUME NEW c \in Clients, calls[c].pc \in Store!Reading, NEW answer \in during[c],
           Becomes(c, "done", Store!NoFile, answer, FALSE), Forgets(c), disk' = disk
    PROVE  Store!Register!EndRead(c)
<1>1. \A d \in Clients \ {c} : Store!RegisterCalls'[d] = Store!RegisterCalls[d]
  BY SameCall DEF Becomes, Forgets
<1>2. Store!RegisterPc(c) = "reading" /\ Store!RegisterPc(c)' = "done"
  BY PcSeen, PcSeenNext DEF Becomes, Store!Reading, StorePCs
<1>3. Store!RegisterCalls'[c] = Store!Register!Answers(answer)
  BY <1>2 DEF Store!RegisterCalls, Store!RegisterCall, Becomes, Forgets,
     Store!Register!Answers,
     Store!Register!Call
<1>4. Store!RegisterCalls[c].pc = "reading" /\ Store!RegisterCalls[c].may = during[c]
  BY <1>2 DEF Store!RegisterCalls, Store!RegisterCall
<1>5. Store!RegisterCalls' = [Store!RegisterCalls EXCEPT ![c] = Store!Register!Answers(answer)]
  BY <1>1, <1>3, OneSeen
<1> QED BY <1>4, <1>5 DEF Store!Register!EndRead

\* A step that changes nothing of a call but what the register does not tell apart.
LEMMA Stutters ==
    ASSUME NEW c \in Clients, \A d \in Clients \ {c} : calls'[d] = calls[d],
           \A d \in Clients : during'[d] = during[d], disk'.content = disk.content,
           Store!RegisterPc(c)' = Store!RegisterPc(c),
           Store!RegisterPc(c) = "done" => calls'[c].content = calls[c].content
    PROVE  UNCHANGED Store!Register!vars
<1>1. \A d \in Clients \ {c} : Store!RegisterCalls'[d] = Store!RegisterCalls[d]
  BY SameCall
<1>2. Store!RegisterCalls'[c] = Store!RegisterCalls[c]
  BY DEF Store!RegisterCalls, Store!RegisterCall
<1> QED BY <1>1, <1>2, Unseen

\* A content that the file did not have joins what the readers may return.
LEMMA SeenByReaders ==
    ASSUME NEW d \in Clients, NEW content, NEW legacy, TurnsTo(content, legacy),
           calls[d].pc \in StorePCs, calls'[d] = calls[d]
    PROVE  Store!RegisterCalls'[d] = Store!Register!Seen(content)[d]
<1>1. Store!RegisterPc(d)' = Store!RegisterPc(d) BY DEF Store!RegisterPc
<1>2. Store!RegisterPc(d) = "reading" <=> calls[d].pc \in Store!Reading
  BY PcSeen DEF StorePCs, Store!Reading, Store!Writing
<1>3. Store!RegisterCalls[d].pc = Store!RegisterPc(d) /\ Store!RegisterCalls[d].may = during[d]
      /\ Store!RegisterCalls[d] = Store!RegisterCall(d)
  BY DEF Store!RegisterCalls, Store!RegisterCall
<1>4. CASE calls[d].pc \in Store!Reading
  <2>1. during'[d] = during[d] \cup {content} BY <1>4 DEF TurnsTo
  <2>2. Store!RegisterCalls'[d] = Store!Register!Call("reading", during[d] \cup {content}, {})
    BY <2>1, <1>1, <1>2, <1>4 DEF Store!RegisterCalls, Store!RegisterCall,
       Store!Register!Call
  <2>3. Store!RegisterCalls[d].answer = {}
    BY <1>2, <1>4 DEF Store!RegisterCalls, Store!RegisterCall
  <2> QED BY <2>2, <2>3, <1>2, <1>3, <1>4 DEF Store!Register!Seen
<1>5. CASE calls[d].pc \notin Store!Reading
  <2>1. during'[d] = during[d] BY <1>5 DEF TurnsTo
  <2>2. Store!RegisterCalls'[d] = Store!RegisterCalls[d] BY <2>1, SameCall
  <2> QED BY <2>2, <1>2, <1>3, <1>5 DEF Store!Register!Seen
<1> QED BY <1>4, <1>5

\* One that it had is one they may return already.
LEMMA SeenBefore ==
    ASSUME StoreInv, NEW legacy, TurnsTo(disk.content, legacy), NEW d \in Clients
    PROVE  during'[d] = during[d]
<1>1. calls[d].pc \in Store!Reading => disk.content \in during[d]
  BY DEF StoreInv, ReadersSaw
<1>2. during'[d] = IF calls[d].pc \in Store!Reading THEN during[d] \cup {disk.content}
                                              ELSE during[d]
  BY DEF TurnsTo
<1> QED BY <1>1, <1>2

\* Every step of the store is a step of the register, or none: the reads end with a
\* content they may see, a call that modifies does so when its file is published, and
\* all between is not seen.
LEMMA RegisterStep ==
    ASSUME Store!ConfigStoreAssumption, StoreInv, [Store!Next]_(Store!vars)
    PROVE  [Store!Register!Next]_(Store!Register!vars)
<1>0. /\ Store!TypeOK /\ LockHeld /\ NoFileSaysNothing /\ HoldersKnow /\ ReadersSaw
      /\ KeepsKnow /\ KeptIsSeen /\ CacheBehind /\ Store!CacheFresh
  BY DEF StoreInv
<1>a. /\ disk.id \in Store!Ids
      /\ disk.content \in Store!Contents
      /\ disk.legacy \in BOOLEAN
      /\ cached.content \in Store!Contents
      /\ \A d \in Clients :
            /\ calls[d].pc \in StorePCs /\ calls[d].id \in Store!Ids
            /\ calls[d].content \in Store!Contents /\ calls[d].legacy \in BOOLEAN
  BY <1>0, StoreFields DEF Store!TypeOK
<1>1. ASSUME NEW c \in Clients, Store!BeginRead(c) PROVE Store!Register!BeginRead(c)
  <2>1. Becomes(c, IF disk.id = Store!NoFile THEN "absent" ELSE "lookup", disk.id,
                calls[c].content, calls[c].legacy)
    BY <1>0, <1>a, <1>1, StampsBecomes DEF Store!BeginRead, StorePCs, Store!Reading
  <2>2. /\ Store!At(c, "idle") /\ disk' = disk /\ during'[c] = {disk.content}
        /\ \A d \in Clients \ {c} : during'[d] = during[d]
    BY <1>0, <1>1 DEF Store!BeginRead, Store!TypeOK
  <2>3. Store!RegisterPc(c) = "idle" /\ Store!RegisterPc(c)' = "reading"
    BY <1>a, <2>1, <2>2, PcSeen, PcSeenNext DEF Becomes, Store!At, StorePCs, Store!Reading
  <2>4. Store!RegisterCalls'[c] = Store!Register!Call("reading", {disk.content}, {})
    BY <2>2, <2>3 DEF Store!RegisterCalls, Store!RegisterCall, Store!Register!Call
  <2>5. Store!RegisterCalls' = [Store!RegisterCalls EXCEPT ![c] = Store!Register!Call("reading", {disk.content}, {})]
    BY <2>1, <2>2, <2>4, SameCall, OneSeen DEF Becomes
  <2>6. Store!RegisterCalls[c].pc = "idle"
    BY <2>3 DEF Store!RegisterCalls, Store!RegisterCall
  <2> QED BY <2>2, <2>5, <2>6 DEF Store!Register!BeginRead
<1>2. ASSUME NEW c \in Clients, Store!Absent(c) PROVE Store!Register!EndRead(c)
  <2>1. Becomes(c, "done", Store!NoFile, {}, FALSE) /\ Forgets(c)
    BY <1>0, <1>a, <1>2, EndsBecomes, EndsReadSeen, IdleContent DEF Store!Absent,
       Store!EndsRead
  <2>2. calls[c].pc = "absent" /\ disk' = disk BY <1>2 DEF Store!Absent, Store!At
  <2>3. {} \in during[c]
    BY <1>0, <2>2 DEF ReadersSaw, HoldersKnow, Store!Reading, Store!At
  <2> QED BY <2>1, <2>2, <2>3, ReadEnds DEF Store!Reading
<1>3. ASSUME NEW c \in Clients, Store!Keep(c) PROVE Store!Register!EndRead(c)
  <2>1. Becomes(c, "done", Store!NoFile, calls[c].content, FALSE) /\ Forgets(c)
    BY <1>0, <1>a, <1>3, EndsBecomes, EndsReadSeen, IdleContent DEF Store!Keep,
       Store!EndsRead
  <2>2. calls[c].pc = "keep" /\ disk' = disk BY <1>3 DEF Store!Keep, Store!At
  <2>3. calls[c].content \in during[c]
    BY <1>0, <2>2 DEF ReadersSaw, HoldersKnow, Store!Reading, Store!At
  <2> QED BY <2>1, <2>2, <2>3, ReadEnds DEF Store!Reading
<1>4. ASSUME NEW c \in Clients, Store!RewriteFails(c) PROVE Store!Register!EndRead(c)
  <2>1. Becomes(c, "done", Store!NoFile, calls[c].content, FALSE) /\ Forgets(c)
    BY <1>0, <1>a, <1>4, EndsBecomes, EndsReadSeen, IdleContent DEF Store!RewriteFails,
       Store!EndsRead
  <2>2. calls[c].pc = "rewrite" /\ disk' = disk BY <1>4 DEF Store!RewriteFails, Store!At
  <2>3. calls[c].content \in during[c]
    BY <1>0, <2>2 DEF ReadersSaw, HoldersKnow, Store!Reading, Store!At
  <2> QED BY <2>1, <2>2, <2>3, ReadEnds DEF Store!Reading
<1>5. ASSUME NEW c \in Clients, Store!Stat(c) PROVE UNCHANGED Store!Register!vars
  <2>1. Becomes(c, "read", disk.id, calls[c].content, calls[c].legacy)
    BY <1>0, <1>a, <1>5, StampsBecomes DEF Store!Stat, StorePCs, Store!Reading,
       Store!Writing
  <2>2. calls[c].pc = "stat" /\ disk' = disk /\ during' = during
    BY <1>5 DEF Store!Stat, Store!At
  <2>3. Store!RegisterPc(c) = "reading" /\ Store!RegisterPc(c)' = "reading"
    BY <1>a, <2>1, <2>2, PcSeen, PcSeenNext DEF Becomes, StorePCs, Store!Reading,
       Store!Writing
  <2> QED BY <2>1, <2>2, <2>3, Stutters DEF Becomes
<1>6. ASSUME NEW c \in Clients, Store!ReadFile(c) PROVE UNCHANGED Store!Register!vars
  <2>1. Becomes(c, IF disk.legacy THEN "migrate" ELSE "keep", calls[c].id,
              disk.content, calls[c].legacy)
    BY <1>0, <1>a, <1>6, GoesWithBecomes DEF Store!ReadFile, StorePCs, Store!Reading,
       Store!Writing
  <2>2. calls[c].pc = "read" /\ disk' = disk /\ during' = during
    BY <1>6 DEF Store!ReadFile, Store!At
  <2>3. Store!RegisterPc(c) = "reading" /\ Store!RegisterPc(c)' = "reading"
    BY <1>a, <2>1, <2>2, PcSeen, PcSeenNext DEF Becomes, StorePCs, Store!Reading,
       Store!Writing
  <2> QED BY <2>1, <2>2, <2>3, Stutters DEF Becomes
<1>7. ASSUME NEW c \in Clients, Store!Migrate(c) PROVE UNCHANGED Store!Register!vars
  <2>1. Becomes(c, IF disk.legacy THEN "rewrite" ELSE "refresh", calls[c].id,
              disk.content, calls[c].legacy)
    BY <1>0, <1>a, <1>7, GoesWithBecomes DEF Store!Migrate, StorePCs, Store!Reading,
       Store!Writing
  <2>2. calls[c].pc = "migrate" /\ disk' = disk /\ during' = during
    BY <1>7 DEF Store!Migrate, Store!At
  <2>3. Store!RegisterPc(c) = "reading" /\ Store!RegisterPc(c)' = "reading"
    BY <1>a, <2>1, <2>2, PcSeen, PcSeenNext DEF Becomes, StorePCs, Store!Reading,
       Store!Writing
  <2> QED BY <2>1, <2>2, <2>3, Stutters DEF Becomes
<1>8. ASSUME NEW c \in Clients, Store!Change(c) PROVE UNCHANGED Store!Register!vars
  <2>1. Becomes(c, "publish", calls[c].id, Store!Edited(calls[c].content, c), calls[c].legacy)
    BY <1>0, <1>a, <1>8, GoesWithBecomes, EditedTyped DEF Store!Change, StorePCs,
       Store!Reading, Store!Writing
  <2>2. calls[c].pc = "mutate" /\ disk' = disk /\ during' = during
    BY <1>8 DEF Store!Change, Store!At
  <2>3. Store!RegisterPc(c) = "modifying" /\ Store!RegisterPc(c)' = "modifying"
    BY <1>a, <2>1, <2>2, PcSeen, PcSeenNext DEF Becomes, StorePCs, Store!Reading,
       Store!Writing
  <2> QED BY <2>1, <2>2, <2>3, Stutters DEF Becomes
<1>9. ASSUME NEW c \in Clients, Store!Lookup(c)
      PROVE  [Store!Register!Next]_(Store!Register!vars)
  <2>1. calls[c].pc = "lookup" /\ disk' = disk BY <1>9 DEF Store!Lookup, Store!At
  <2>2. CASE Store!Hit(calls[c].id)
    <3>1. Becomes(c, "done", Store!NoFile, cached.content, FALSE) /\ Forgets(c)
      BY <1>0, <1>a, <1>9, <2>2, EndsBecomes, EndsReadSeen DEF Store!Lookup,
         Store!EndsRead
    <3>2. cached.content \in during[c] BY <1>0, <2>1, <2>2 DEF ReadersSaw, Store!At
    <3>3. Store!Register!EndRead(c) BY <2>1, <3>1, <3>2, ReadEnds DEF Store!Reading
    <3> QED BY <3>3 DEF Store!Register!Next
  <2>3. CASE ~Store!Hit(calls[c].id)
    <3>1. Becomes(c, "stat", calls[c].id, calls[c].content, calls[c].legacy) /\ during' = during
      BY <1>0, <1>a, <1>9, <2>3, GoesBecomes DEF Store!Lookup, StorePCs, Store!Reading
    <3>2. Store!RegisterPc(c) = "reading" /\ Store!RegisterPc(c)' = "reading"
      BY <1>a, <2>1, <3>1, PcSeen, PcSeenNext DEF Becomes, StorePCs, Store!Reading
    <3>3. UNCHANGED Store!Register!vars BY <2>1, <3>1, <3>2, Stutters DEF Becomes
    <3> QED BY <3>3
  <2> QED BY <2>2, <2>3
<1>10. ASSUME NEW c \in Clients, Store!Rewrite(c) PROVE UNCHANGED Store!Register!vars
  <2>1. Becomes(c, "refresh", calls[c].id, calls[c].content, calls[c].legacy)
    BY <1>0, <1>10, GoesBecomes DEF Store!Rewrite, StorePCs, Store!Reading
  <2>2. calls[c].pc = "rewrite" /\ calls[c].content = disk.content
    BY <1>0, <1>10 DEF Store!Rewrite, HoldersKnow, Store!At
  <2>3. TurnsTo(disk.content, FALSE)
    BY <1>0, <1>a, <1>10, <2>2, ReplacedSeen DEF Store!Rewrite
  <2>4. \A d \in Clients : during'[d] = during[d]
    BY <2>3, SeenBefore
  <2>5. Store!RegisterPc(c) = "reading" /\ Store!RegisterPc(c)' = "reading"
    BY <1>a, <2>1, <2>2, PcSeen, PcSeenNext DEF Becomes, StorePCs, Store!Reading
  <2> QED BY <2>1, <2>3, <2>4, <2>5, Stutters DEF Becomes, TurnsTo
<1>11. ASSUME NEW c \in Clients, Store!Store(c)
       PROVE  [Store!Register!Next]_(Store!Register!vars)
  <2>1. Becomes(c, "done", Store!NoFile, calls[c].content, FALSE) /\ Forgets(c) /\ disk' = disk
    BY <1>0, <1>a, <1>11, EndsBecomes, EndsReadSeen DEF Store!Store, Store!EndsRead
  <2>2. CASE Store!At(c, "refresh")
    <3>1. calls[c].content \in during[c]
      BY <1>0, <2>2 DEF ReadersSaw, HoldersKnow, Store!Reading, Store!At
    <3>2. Store!Register!EndRead(c)
      BY <2>1, <2>2, <3>1, ReadEnds DEF Store!At, Store!Reading
    <3> QED BY <3>2 DEF Store!Register!Next
  <2>3. CASE Store!At(c, "store")
    <3>1. \A d \in Clients : during'[d] = during[d]
      BY <1>0, <2>1, <2>3 DEF ReadersSaw, Forgets, Store!At, Store!Reading
    <3>2. Store!RegisterPc(c) = "done" /\ Store!RegisterPc(c)' = "done"
      BY <1>a, <2>1, <2>3, PcSeen, PcSeenNext DEF Becomes, Store!At, StorePCs,
         Store!Reading
    <3>3. UNCHANGED Store!Register!vars BY <2>1, <3>1, <3>2, Stutters DEF Becomes
    <3> QED BY <3>3
  <2> QED BY <1>11, <2>2, <2>3 DEF Store!Store
<1>12. ASSUME NEW c \in Clients, Store!BeginModify(c) PROVE Store!Register!BeginModify(c)
  <2>1. Becomes(c, "mutate", Store!NoFile, IF Store!Hit(disk.id) THEN cached.content ELSE disk.content,
              ~Store!Hit(disk.id) /\ disk.legacy)
    <3> DEFINE r == [pc |-> "mutate", id |-> Store!NoFile,
                     content |-> IF Store!Hit(disk.id) THEN cached.content ELSE disk.content,
                     legacy |-> ~Store!Hit(disk.id) /\ disk.legacy]
    <3>1. r \in Store!CallStates BY <1>a, StoreIdles DEF Store!CallStates, Store!Writing
    <3>2. calls' = [calls EXCEPT ![c] = r] BY <1>12 DEF Store!BeginModify
    <3> QED BY <1>0, <3>1, <3>2, ReplacedCall
  <2>2. Store!At(c, "idle") /\ disk' = disk /\ during' = during /\ during[c] = {}
    BY <1>0, <1>12 DEF Store!BeginModify, ReadersSaw, Store!At, Store!Reading
  <2>3. Store!RegisterPc(c) = "idle" /\ Store!RegisterPc(c)' = "modifying"
    BY <1>a, <2>1, <2>2, PcSeen, PcSeenNext DEF Becomes, Store!At, StorePCs,
       Store!Reading, Store!Writing
  <2>4. Store!RegisterCalls'[c] = Store!Register!Call("modifying", {}, {})
    BY <2>1, <2>2, <2>3 DEF Store!RegisterCalls, Store!RegisterCall, Becomes,
       Store!Register!Call
  <2>5. Store!RegisterCalls' = [Store!RegisterCalls EXCEPT ![c] = Store!Register!Call("modifying", {}, {})]
    BY <2>1, <2>2, <2>4, SameCall, OneSeen DEF Becomes
  <2>6. Store!RegisterCalls[c].pc = "idle"
    BY <2>3 DEF Store!RegisterCalls, Store!RegisterCall
  <2> QED BY <2>2, <2>5, <2>6 DEF Store!Register!BeginModify
<1>13. ASSUME NEW c \in Clients, Store!Refuse(c) PROVE Store!Register!Fail(c)
  <2>1. Becomes(c, "failed", Store!NoFile, {}, FALSE)
    BY <1>0, <1>a, <1>13, FailsBecomes DEF Store!Refuse, StorePCs, Store!Reading,
       Store!Writing, Store!Fails
  <2>2. Store!At(c, "mutate") /\ disk' = disk /\ during' = during /\ during[c] = {}
    BY <1>0, <1>13 DEF Store!Refuse, ReadersSaw, Store!At, Store!Reading, Store!Fails
  <2>3. Store!RegisterPc(c) = "modifying" /\ Store!RegisterPc(c)' = "failed"
    BY <1>a, <2>1, <2>2, PcSeen, PcSeenNext DEF Becomes, Store!At, StorePCs,
       Store!Reading, Store!Writing
  <2>4. Store!RegisterCalls'[c] = Store!Register!Call("failed", {}, {})
    BY <2>1, <2>2, <2>3 DEF Store!RegisterCalls, Store!RegisterCall, Becomes,
       Store!Register!Call
  <2>5. Store!RegisterCalls' = [Store!RegisterCalls EXCEPT ![c] = Store!Register!Call("failed", {}, {})]
    BY <2>1, <2>2, <2>4, SameCall, OneSeen DEF Becomes
  <2>6. Store!RegisterCalls[c].pc = "modifying"
    BY <2>3 DEF Store!RegisterCalls, Store!RegisterCall
  <2> QED BY <2>2, <2>5, <2>6 DEF Store!Register!Fail
<1>14. ASSUME NEW c \in Clients, Store!PublishFails(c) PROVE Store!Register!Fail(c)
  <2>1. Becomes(c, "failed", Store!NoFile, {}, FALSE)
    BY <1>0, <1>a, <1>14, FailsBecomes DEF Store!PublishFails, StorePCs, Store!Reading,
       Store!Writing, Store!Fails
  <2>2. Store!At(c, "publish") /\ disk' = disk /\ during' = during /\ during[c] = {}
    BY <1>0, <1>14 DEF Store!PublishFails, ReadersSaw, Store!At, Store!Reading,
       Store!Fails
  <2>3. Store!RegisterPc(c) = "modifying" /\ Store!RegisterPc(c)' = "failed"
    BY <1>a, <2>1, <2>2, PcSeen, PcSeenNext DEF Becomes, Store!At, StorePCs,
       Store!Reading, Store!Writing
  <2>4. Store!RegisterCalls'[c] = Store!Register!Call("failed", {}, {})
    BY <2>1, <2>2, <2>3 DEF Store!RegisterCalls, Store!RegisterCall, Becomes,
       Store!Register!Call
  <2>5. Store!RegisterCalls' = [Store!RegisterCalls EXCEPT ![c] = Store!Register!Call("failed", {}, {})]
    BY <2>1, <2>2, <2>4, SameCall, OneSeen DEF Becomes
  <2>6. Store!RegisterCalls[c].pc = "modifying"
    BY <2>3 DEF Store!RegisterCalls, Store!RegisterCall
  <2> QED BY <2>2, <2>5, <2>6 DEF Store!Register!Fail
<1>15. ASSUME NEW c \in Clients, Store!Return(c) PROVE Store!Register!Return(c)
  <2>1. Becomes(c, "idle", Store!NoFile, {}, FALSE)
    BY <1>0, <1>a, <1>15, ReplacedCall, StoreIdles DEF Store!Return, StorePCs,
       Store!Reading, Store!Writing
  <2>2. (Store!At(c, "done") \/ Store!At(c, "failed")) /\ disk' = disk /\ during' = during /\ during[c] = {}
    BY <1>0, <1>15 DEF Store!Return, ReadersSaw, Store!At, Store!Reading
  <2>3. Store!RegisterPc(c) \in {"done", "failed"} /\ Store!RegisterPc(c)' = "idle"
    BY <1>a, <2>1, <2>2, PcSeen, PcSeenNext DEF Becomes, Store!At, StorePCs,
       Store!Reading, Store!Writing
  <2>4. Store!RegisterCalls'[c] = Store!Register!IdleCall
    BY <2>1, <2>2, <2>3 DEF Store!RegisterCalls, Store!RegisterCall, Becomes,
       Store!Register!Call,
       Store!Register!IdleCall
  <2>5. Store!RegisterCalls' = [Store!RegisterCalls EXCEPT ![c] = Store!Register!IdleCall]
    BY <2>1, <2>2, <2>4, SameCall, OneSeen DEF Becomes
  <2>6. Store!RegisterCalls[c].pc \in {"done", "failed"}
    BY <2>3 DEF Store!RegisterCalls, Store!RegisterCall
  <2> QED BY <2>2, <2>5, <2>6 DEF Store!Register!Return
<1>16. ASSUME NEW c \in Clients, Store!ChangeNothing(c)
       PROVE  [Store!Register!Next]_(Store!Register!vars)
  <2>1. Becomes(c, IF calls[c].legacy THEN "publish" ELSE "store", calls[c].id,
                calls[c].content, calls[c].legacy)
    BY <1>0, <1>a, <1>16, GoesBecomes DEF Store!ChangeNothing, StorePCs, Store!Writing
  <2>2. /\ calls[c].pc = "mutate" /\ disk' = disk /\ during' = during /\ during[c] = {}
        /\ calls[c].content = disk.content
    BY <1>0, <1>16 DEF Store!ChangeNothing, ReadersSaw, HoldersKnow, Store!At,
       Store!Reading
  <2>3. Store!RegisterPc(c) = "modifying"
        /\ Store!RegisterPc(c)' = IF calls[c].legacy THEN "modifying" ELSE "done"
    BY <1>a, <2>1, <2>2, PcSeen, PcSeenNext DEF Becomes, StorePCs, Store!Reading,
       Store!Writing
  <2>4. CASE calls[c].legacy
    <3>1. UNCHANGED Store!Register!vars BY <2>1, <2>2, <2>3, <2>4, Stutters DEF Becomes
    <3> QED BY <3>1
  <2>5. CASE ~calls[c].legacy
    <3>1. Store!RegisterCalls'[c] = Store!Register!Answers(disk.content)
      BY <2>1, <2>2, <2>3, <2>5 DEF Store!RegisterCalls, Store!RegisterCall, Becomes,
         Store!Register!Call,
         Store!Register!Answers
    <3>2. Store!RegisterCalls' = [Store!RegisterCalls EXCEPT ![c] = Store!Register!Answers(disk.content)]
      BY <2>1, <2>2, <3>1, SameCall, OneSeen DEF Becomes
    <3>3. Store!RegisterCalls[c].pc = "modifying"
      BY <2>3 DEF Store!RegisterCalls, Store!RegisterCall
    <3>4. Store!Register!ModifyNothing(c)
      BY <2>2, <3>2, <3>3 DEF Store!Register!ModifyNothing
    <3> QED BY <3>4 DEF Store!Register!Next
  <2> QED BY <2>4, <2>5
<1>17. ASSUME NEW c \in Clients, Store!Publish(c)
       PROVE  [Store!Register!Next]_(Store!Register!vars)
  <2> DEFINE new == calls[c].content
  <2>1. Becomes(c, "store", calls[c].id, new, calls[c].legacy)
    BY <1>0, <1>17, GoesBecomes DEF Store!Publish, StorePCs, Store!Writing
  <2>2. TurnsTo(new, FALSE) BY <1>0, <1>a, <1>17, ReplacedSeen DEF Store!Publish
  <2>3. /\ calls[c].pc = "publish" /\ during[c] = {} /\ during'[c] = {}
        /\ new = disk.content \/ new = Store!Edited(disk.content, c)
    BY <1>0, <1>17, <2>2 DEF Store!Publish, ReadersSaw, HoldersKnow, TurnsTo, Store!At,
       Store!Reading
  <2>4. Store!RegisterPc(c) = "modifying" /\ Store!RegisterPc(c)' = "done"
    BY <1>a, <2>1, <2>3, PcSeen, PcSeenNext DEF Becomes, StorePCs, Store!Reading,
       Store!Writing
  <2>5. Store!RegisterCalls[c].pc = "modifying"
    BY <2>4 DEF Store!RegisterCalls, Store!RegisterCall
  <2>6. Store!RegisterCalls'[c] = Store!Register!Answers(new)
    BY <2>1, <2>3, <2>4 DEF Store!RegisterCalls, Store!RegisterCall, Becomes,
       Store!Register!Call,
       Store!Register!Answers
  <2>7. CASE new = disk.content
    <3>1. \A d \in Clients : during'[d] = during[d]
      BY <2>2, <2>7, SeenBefore
    <3>2. Store!RegisterCalls' = [Store!RegisterCalls EXCEPT ![c] = Store!Register!Answers(disk.content)]
      BY <2>1, <2>6, <2>7, <3>1, SameCall, OneSeen DEF Becomes
    <3>3. disk'.content = disk.content BY <2>2, <2>7 DEF TurnsTo
    <3>4. Store!Register!ModifyNothing(c)
      BY <2>5, <3>2, <3>3 DEF Store!Register!ModifyNothing
    <3> QED BY <3>4 DEF Store!Register!Next
  <2>8. CASE new = Store!Edited(disk.content, c)
    <3>1. disk'.content = Store!Register!Edited(disk.content, c)
      BY <2>2, <2>8 DEF TurnsTo, Store!Edited, Store!Register!Edited
    <3>2. \A d \in Clients \ {c} : Store!RegisterCalls'[d] = Store!Register!Seen(new)[d]
      BY <1>a, <2>1, <2>2, SeenByReaders DEF Becomes
    <3>3. disk'.content = new BY <2>2 DEF TurnsTo
    <3>4. Store!RegisterCalls' =
            [Store!Register!Seen(new) EXCEPT ![c] = Store!Register!Answers(new)]
      BY <2>6, <3>2 DEF Store!RegisterCalls, Store!Register!Seen
    <3>5. Store!Register!Modify(c) BY <2>5, <3>1, <3>3, <3>4 DEF Store!Register!Modify
    <3> QED BY <3>5 DEF Store!Register!Next
  <2> QED BY <2>3, <2>7, <2>8
<1>18. ASSUME Store!Outside PROVE Store!Register!Outside
  <2>1. PICK content \in Store!Contents, legacy \in BOOLEAN : Store!Replaced(content, legacy)
    BY <1>18 DEF Store!Outside
  <2>2. TurnsTo(content, legacy) /\ calls' = calls
    BY <1>0, <2>1, <1>18, ReplacedSeen DEF Store!Outside
  <2>3. \A c \in Clients : Store!RegisterCalls'[c] = Store!Register!Seen(content)[c]
    BY <1>a, <2>2, SeenByReaders
  <2>4. Store!RegisterCalls' = Store!Register!Seen(content)
    BY <2>3 DEF Store!RegisterCalls, Store!Register!Seen
  <2>5. disk'.content = content BY <2>2 DEF TurnsTo
  <2>6. \A c \in Clients : Store!RegisterCalls[c].pc # "modifying"
    <3> SUFFICES ASSUME NEW c \in Clients PROVE Store!RegisterCalls[c].pc # "modifying" OBVIOUS
    <3>1. calls[c].pc \notin {"mutate", "publish"}
      BY <1>18 DEF Store!Outside, Store!Writing
    <3>2. Store!RegisterPc(c) # "modifying"
      BY <1>a, <3>1, PcSeen DEF StorePCs, Store!Reading, Store!Writing
    <3> QED BY <3>2 DEF Store!RegisterCalls, Store!RegisterCall
  <2>7. content \in Store!Register!Contents BY DEF Store!Contents, Store!Register!Contents
  <2> QED BY <2>4, <2>5, <2>6, <2>7 DEF Store!Register!Outside
<1>19. ASSUME Store!Crash PROVE Store!Register!Crash
  <2>1. disk' = disk /\ \A c \in Clients : calls'[c] = Store!IdleCall /\ during'[c] = {}
    BY <1>19 DEF Store!Crash
  <2>2. ASSUME NEW c \in Clients PROVE Store!RegisterCalls'[c] = Store!Register!IdleCall
    <3>1. Store!RegisterPc(c)' = "idle" BY <2>1, StoreIdles, PcSeenNext DEF StorePCs
    <3> QED
      BY <2>1, <3>1 DEF Store!Register!IdleCall, Store!Register!Call,
         Store!RegisterCalls, Store!RegisterCall
  <2>3. Store!RegisterCalls' = [c \in Clients |-> Store!Register!IdleCall]
    BY <2>2 DEF Store!RegisterCalls
  <2> QED BY <2>1, <2>3 DEF Store!Register!Crash
<1>20. ASSUME UNCHANGED Store!vars PROVE UNCHANGED Store!Register!vars
  <2>1. disk' = disk /\ calls' = calls /\ during' = during BY <1>20 DEF Store!vars
  <2> QED BY <2>1, SameCall, Unseen
<1> QED
  BY <1>1, <1>2, <1>3, <1>4, <1>5, <1>6, <1>7, <1>8, <1>9, <1>10, <1>11, <1>12, <1>13,
     <1>14, <1>15, <1>16, <1>17, <1>18, <1>19, <1>20 DEF Store!Next, Store!Register!Next

-----------------------------------------------------------------------------
\* The types of the store, for any calls and files.
THEOREM StoreTypeCorrect ==
    ASSUME Store!ConfigStoreAssumption
    PROVE  Store!Spec => []Store!TypeOK
<1>1. StoreInv => Store!TypeOK BY DEF StoreInv
<1> QED BY <1>1, AlwaysStoreInv, PTL

\* What the cache vouches for is what the file says, as long as the application alone
\* writes it, in any order of reads, writes and failures.
THEOREM CacheIsFresh ==
    ASSUME Store!ConfigStoreAssumption
    PROVE  Store!Spec => []Store!CacheFresh
<1>1. StoreInv => Store!CacheFresh BY DEF StoreInv
<1> QED BY <1>1, AlwaysStoreInv, PTL

\* The store implements the register: whoever reads gets a content that was in the
\* file meanwhile, and no modification is lost.
THEOREM StoreIsARegister ==
    ASSUME Store!ConfigStoreAssumption
    PROVE  Store!Spec => Store!IsRegister
<1>1. Store!Init => Store!Register!Init BY RegisterInit
<1>2. StoreInv /\ [Store!Next]_(Store!vars) => [Store!Register!Next]_(Store!Register!vars)
  BY RegisterStep
<1> QED
  BY <1>1, <1>2, AlwaysStoreInv, PTL DEF Store!Spec, Store!IsRegister,
     Store!Register!Spec

-----------------------------------------------------------------------------
(*************************************************************************)
(* CacheObserver: no request that overlapped another is compared, a      *)
(* comparison is with the last parsed request that was over, and no      *)
(* report waits in vain.                                                 *)
(*                                                                       *)
(* The argument. The peers of a request are the requests of its session  *)
(* that it was under way with (PeersKnown), and a request is selected    *)
(* while it is under way only; so when no peer is under way any more,    *)
(* whether one of them was selected is known for good (VerdictsFinal).   *)
(* What waits for that waits in the order in which it has ended, after   *)
(* all that is reported (QueueInOrder), and of two selected requests     *)
(* that are not peers one was over when the other arrived: the last one  *)
(* reported is the last one that was over (BeforeIsLast), which is what  *)
(* a comparison needs.                                                   *)
(*************************************************************************)
\* What has a verdict, and what is known of it for good.
Reported(q) == verdict[q] # "none"
Settled(q) == verdict[q] \in {"overlap", "first", "compared"}

\* What was over when a request arrived is over.
PastIsOver == \A r \in Observer!Requests : /\ past[r] \subseteq 1..(r - 1) /\ past[r] \cap open = {}
                                           /\ r \notin 1..arrived => verdict[r] = "none"

\* The peers of a request are those of its session it was under way with.
PeersKnown == \A r, q \in 1..arrived :
    q \in peers[r] <=> session[q] = session[r] /\ Observer!Concurrent(r, q)

\* The selected requests are of one session.
OneConversation ==
    /\ \A r \in 1..arrived : session[r] \in Sessions
    /\ \A r \in selected : session[r] = selectedSession
    /\ selectedSession = NoSession => selected = {}

\* A verdict is out when the request and its peers are over, and will not change.
VerdictsFinal == \A r \in Observer!Requests : Reported(r) =>
    /\ r \in selected /\ r \notin open /\ peers[r] \cap open = {}
    /\ (verdict[r] = "overlap") <=> Observer!Overlapped(r)

\* What waits waits in the order in which it has ended, after all that is reported.
InOrder(queue, under) ==
    /\ \A i \in 1..Len(queue) :
        /\ queue[i] \in selected /\ queue[i] \notin under /\ ~Reported(queue[i])
        /\ \A q \in Observer!Requests : Reported(q) => queue[i] \notin past[q]
    /\ \A i, j \in 1..Len(queue) : i < j =>
        queue[i] # queue[j] /\ queue[j] \notin past[queue[i]]
QueueInOrder == InOrder(deferred, open)

\* The first of them waits for a request that is under way.
HeadWaits == deferred # <<>> => peers[deferred[1]] \cap open # {}

\* Of the settled requests the predecessor is the last.
LastKnown == previous # Observer!NoRequest =>
    /\ previous \in Observer!Requests /\ verdict[previous] \in {"first", "compared"}
    /\ \A q \in Observer!Requests : Settled(q) /\ q # previous => q \in past[previous]

\* The inductive invariant.
ObserverInv ==
    /\ Observer!TypeOK /\ PastIsOver /\ PeersKnown /\ OneConversation /\ VerdictsFinal
    /\ QueueInOrder /\ HeadWaits /\ LastKnown /\ Observer!ComparedWithLast
-----------------------------------------------------------------------------
\* Of some natural numbers there is a least.
LEMMA LeastOf ==
    ASSUME NEW S, S \subseteq Nat, S # {}
    PROVE  Observer!Min(S) \in S /\ \A y \in S : Observer!Min(S) <= y
<1>1. PICK x \in S : \A y \in S : ~(<<y, x>> \in OpToRel(<, Nat))
  BY NatLessThanWellFounded, WFMin
<1>2. ASSUME NEW y \in S
      PROVE  x <= y
  <2>1. x \in Nat /\ y \in Nat /\ <<y, x>> \in Nat \X Nat
    OBVIOUS
  <2>2. <<y, x>>[1] = y /\ <<y, x>>[2] = x
    OBVIOUS
  <2>3. y < x => <<y, x>> \in OpToRel(<, Nat)
    BY <2>1, <2>2, Zenon DEF OpToRel
  <2>4. ~(y < x)
    BY <1>1, <2>3
  <2> QED BY <2>1, <2>4
<1> QED BY <1>2 DEF Observer!Min

\* And of finitely many the greatest.
LEMMA GreatestOf ==
    ASSUME NEW n \in Nat, NEW S, S \subseteq 0..n, S # {}
    PROVE  Observer!Max(S) \in S /\ \A y \in S : y <= Observer!Max(S)
<1> DEFINE T == {n - x : x \in S}
<1>1. T \subseteq Nat /\ T # {}
  <2>1. ASSUME NEW x \in S
        PROVE  n - x \in Nat
    <3>1. x \in Int /\ x <= n
      OBVIOUS
    <3> QED BY <3>1
  <2>2. PICK x \in S : TRUE
    OBVIOUS
  <2>3. n - x \in T
    BY <2>2
  <2> QED BY <2>1, <2>3
<1>2. Observer!Min(T) \in T /\ \A y \in T : Observer!Min(T) <= y
  BY <1>1, LeastOf
<1>3. PICK x \in S : Observer!Min(T) = n - x
  BY <1>2
<1>4. \A y \in S : x >= y
  <2> SUFFICES ASSUME NEW y \in S PROVE x >= y
    OBVIOUS
  <2>1. n - x <= n - y
    BY <1>2, <1>3
  <2>2. x \in Int /\ y \in Int
    OBVIOUS
  <2> QED BY <2>1, <2>2
<1>5. \A y \in S : y \in Int
  OBVIOUS
<1>6. Observer!Max(S) \in S /\ \A y \in S : Observer!Max(S) >= y
  BY <1>4 DEF Observer!Max
<1> QED BY <1>5, <1>6

\* Where a flush stops: before the first that must wait.
LEMMA FlushStops ==
    ASSUME NEW S, NEW queue \in Seq(S), NEW under
    PROVE  /\ Observer!FlushLength(queue, under) \in 0..Len(queue)
           /\ \A i \in 1..Observer!FlushLength(queue, under) : Observer!PeersResolved(queue[i], under)
           /\ Observer!FlushLength(queue, under) < Len(queue) =>
                ~Observer!PeersResolved(queue[Observer!FlushLength(queue, under) + 1], under)
<1> DEFINE stuck == {i \in 1..Len(queue) : ~Observer!PeersResolved(queue[i], under)}
<1>1. Observer!FlushLength(queue, under) = IF stuck = {} THEN Len(queue) ELSE Observer!Min(stuck) - 1
  <2>1. DOMAIN queue = 1..Len(queue)
    OBVIOUS
  <2>2. {i \in DOMAIN queue : ~Observer!PeersResolved(queue[i], under)} = stuck
    BY <2>1
  <2> QED BY <2>2, Zenon DEF Observer!FlushLength
<1>2. Len(queue) \in Nat
  OBVIOUS
<1> HIDE DEF stuck
<1>3. CASE stuck = {}
  BY <1>1, <1>2, <1>3 DEF stuck
<1>4. CASE stuck # {}
  <2>1. stuck \subseteq Nat
    BY <1>2 DEF stuck
  <2>2. Observer!Min(stuck) \in stuck /\ \A i \in stuck : Observer!Min(stuck) <= i
    BY <1>4, <2>1, LeastOf
  <2>3. Observer!Min(stuck) \in 1..Len(queue) /\ ~Observer!PeersResolved(queue[Observer!Min(stuck)], under)
    BY <2>2 DEF stuck
  <2>4. \A i \in 1..Len(queue) : i < Observer!Min(stuck) => Observer!PeersResolved(queue[i], under)
    BY <2>2, <2>3 DEF stuck
  <2>5. Observer!FlushLength(queue, under) = Observer!Min(stuck) - 1
    BY <1>1, <1>4
  <2>6. Observer!FlushLength(queue, under) + 1 = Observer!Min(stuck)
    BY <2>3, <2>5
  <2>7. Observer!FlushLength(queue, under) \in 0..Len(queue)
    BY <1>2, <2>3, <2>5
  <2>8. \A i \in 1..Observer!FlushLength(queue, under) : Observer!PeersResolved(queue[i], under)
    BY <1>2, <2>3, <2>4, <2>5
  <2> QED BY <2>3, <2>6, <2>7, <2>8
<1> QED BY <1>3, <1>4

\* Two selected requests that are not peers were not under way together.
LEMMA ApartUnlessPeers ==
    ASSUME Observer!TypeOK, PeersKnown, OneConversation, NEW r \in selected,
           NEW q \in selected, r # q,
           ~Observer!Overlapped(r)
    PROVE  r \in past[q] \/ q \in past[r]
<1>1. r \in 1..arrived /\ q \in 1..arrived /\ session[q] = session[r]
  BY DEF Observer!TypeOK, OneConversation
<1>2. q \notin peers[r]
  BY DEF Observer!Overlapped
<1> QED BY <1>1, <1>2 DEF PeersKnown, Observer!Concurrent

-----------------------------------------------------------------------------
\* The invariant in the initial state.
LEMMA ObserverInit ==
    ASSUME Observer!CacheObserverAssumption, Observer!Init
    PROVE  ObserverInv
<1>1. Observer!TypeOK
  BY DEF Observer!Init, Observer!TypeOK, Observer!CacheObserverAssumption,
     Observer!Requests, Observer!NoRequest, Observer!Verdicts
<1>2. PastIsOver /\ PeersKnown /\ OneConversation
  BY DEF Observer!Init, PastIsOver, PeersKnown, OneConversation,
     Observer!CacheObserverAssumption, Observer!Requests
<1>3. VerdictsFinal /\ QueueInOrder /\ HeadWaits /\ LastKnown /\ Observer!ComparedWithLast
  BY DEF Observer!Init, VerdictsFinal, QueueInOrder, InOrder, HeadWaits, LastKnown,
     Observer!ComparedWithLast,
     Reported, Settled
<1> QED BY <1>1, <1>2, <1>3 DEF ObserverInv

\* A request that arrives is unknown to what is reported or waits.
LEMMA ArriveKeeps ==
    ASSUME Observer!CacheObserverAssumption, ObserverInv, NEW s \in Sessions,
           Observer!Arrive(s)
    PROVE  ObserverInv'
<1> USE DEF ObserverInv
<1> DEFINE r == arrived + 1
           inflight == {q \in open : session[q] = s}
<1>1. /\ arrived \in Nat /\ arrived < MaxArrivals /\ arrived' = r
      /\ open' = open \cup {r}
      /\ session' = [session EXCEPT ![r] = s]
      /\ peers' = [q \in Observer!Requests |->
                    IF q = r THEN inflight
                    ELSE IF q \in inflight THEN peers[q] \cup {r} ELSE peers[q]]
      /\ past' = [past EXCEPT ![r] = (1..arrived) \ open]
      /\ UNCHANGED <<ended, selected, parsed, selectedSession, Observer!reports>>
  BY DEF Observer!Arrive, Observer!TypeOK
<1>2. /\ MaxArrivals \in Nat
      /\ r \in Observer!Requests
      /\ r \notin 1..arrived
      /\ arrived' \in Nat
      /\ 1..arrived' = (1..arrived) \cup {r} /\ arrived' \in 0..MaxArrivals
      /\ 1..arrived \subseteq Observer!Requests /\ 1..(r - 1) = 1..arrived
  BY <1>1 DEF Observer!CacheObserverAssumption, Observer!Requests
<1> HIDE DEF r
<1>3. /\ session' \in [Observer!Requests -> Sessions \cup {NoSession}]
      /\ session'[r] = s /\ \A q \in Observer!Requests \ {r} : session'[q] = session[q]
  BY <1>1, <1>2 DEF Observer!TypeOK
<1>4. /\ past' \in [Observer!Requests -> SUBSET (1..arrived')]
      /\ past'[r] = (1..arrived) \ open
      /\ \A q \in Observer!Requests \ {r} : past'[q] = past[q]
  BY <1>1, <1>2 DEF Observer!TypeOK
<1>5. inflight \subseteq 1..arrived /\ \A q \in 1..arrived : q # r
  BY <1>2 DEF Observer!TypeOK
<1>6. /\ peers' \in [Observer!Requests -> SUBSET (1..arrived')]
      /\ peers'[r] = inflight
      /\ \A q \in Observer!Requests \ {r} : peers'[q] = peers[q] \cup (IF q \in inflight THEN {r} ELSE {})
  <2>1. peers \in [Observer!Requests -> SUBSET (1..arrived)]
    BY DEF Observer!TypeOK
  <2>2. \A q \in Observer!Requests : peers'[q] \in SUBSET (1..arrived')
    BY <1>1, <1>2, <1>5, <2>1
  <2> QED BY <1>1, <1>2, <2>1, <2>2
<1>7. Observer!TypeOK'
  <2>1. {open, ended, selected, parsed}' \subseteq SUBSET (1..arrived')
    BY <1>1, <1>2 DEF Observer!TypeOK
  <2>2. /\ (selectedSession \in Sessions \cup {NoSession})'
        /\ (previous \in {Observer!NoRequest} \cup 1..arrived)'
        /\ (verdict \in [Observer!Requests -> Observer!Verdicts])'
        /\ (with \in [Observer!Requests -> {Observer!NoRequest} \cup 1..arrived])'
    BY <1>1, <1>2 DEF Observer!TypeOK, Observer!reports
  <2>3. deferred' \in Seq(1..arrived')
    BY <1>1, <1>2 DEF Observer!TypeOK, Observer!reports
  <2> QED BY <1>2, <1>3, <1>4, <1>6, <2>1, <2>2, <2>3 DEF Observer!TypeOK
<1>8. PastIsOver'
  <2>1. ASSUME NEW q \in Observer!Requests
        PROVE  /\ past'[q] \subseteq 1..(q - 1) /\ past'[q] \cap open' = {}
               /\ q \notin 1..arrived' => verdict'[q] = "none"
    <3>1. CASE q = r
      BY <1>1, <1>2, <1>4, <3>1
    <3>2. CASE q # r
      <4>1. past[q] \subseteq 1..arrived
        BY DEF Observer!TypeOK
      <4> QED BY <1>1, <1>2, <1>4, <3>2, <4>1 DEF PastIsOver, Observer!reports
    <3> QED BY <3>1, <3>2
  <2> QED BY <2>1 DEF PastIsOver
<1>9. PeersKnown'
  <2>1. ASSUME NEW p \in 1..arrived', NEW q \in 1..arrived'
        PROVE  q \in peers'[p] <=> session'[q] = session'[p] /\ Observer!Concurrent(p, q)'
    <3>1. /\ p \in Observer!Requests
          /\ q \in Observer!Requests
          /\ p \in (1..arrived) \cup {r}
          /\ q \in (1..arrived) \cup {r}
      BY <1>2
    <3>2. \A x \in 1..arrived : past'[x] = past[x] /\ past[x] \subseteq 1..arrived
                                /\ session'[x] = session[x] /\ x # r
      BY <1>2, <1>3, <1>4, <1>5 DEF Observer!TypeOK
    <3>3. CASE p = r /\ q = r
      BY <1>5, <1>6, <3>3 DEF Observer!Concurrent
    <3>4. CASE p = r /\ q # r
      <4>1. q \in 1..arrived /\ r \notin past'[q]
        BY <1>2, <3>1, <3>2, <3>4
      <4>2. q \in peers'[p] <=> q \in open /\ session[q] = s
        BY <1>6, <3>4
      <4> QED BY <1>3, <1>4, <3>2, <3>4, <4>1, <4>2 DEF Observer!Concurrent
    <3>5. CASE p # r /\ q = r
      <4>1. p \in 1..arrived /\ r \notin past'[p] /\ r \notin peers[p]
        BY <1>2, <3>1, <3>2, <3>5 DEF Observer!TypeOK
      <4>2. q \in peers'[p] <=> p \in open /\ session[p] = s
        BY <1>6, <3>1, <3>5, <4>1
      <4> QED BY <1>3, <1>4, <3>2, <3>5, <4>1, <4>2 DEF Observer!Concurrent
    <3>6. CASE p # r /\ q # r
      <4>1. p \in 1..arrived /\ q \in 1..arrived
        BY <3>1, <3>6
      <4>2. q \in peers'[p] <=> q \in peers[p]
        BY <1>6, <3>1, <3>6
      <4> QED BY <3>2, <4>1, <4>2 DEF PeersKnown, Observer!Concurrent
    <3> QED BY <3>3, <3>4, <3>5, <3>6
  <2> QED BY <2>1 DEF PeersKnown
<1>10. OneConversation'
  BY <1>1, <1>2, <1>3, <1>5 DEF OneConversation, Observer!TypeOK
<1>11. \A q \in selected : q # r /\ q \in Observer!Requests
  BY <1>2 DEF Observer!TypeOK
<1>12. VerdictsFinal'
  <2>1. ASSUME NEW q \in Observer!Requests, Reported(q)
        PROVE  /\ q \in selected /\ q \notin open' /\ peers'[q] \cap open' = {}
               /\ (verdict[q] = "overlap") <=> peers'[q] \cap selected # {}
    <3>1. /\ q \in selected /\ q \notin open /\ peers[q] \cap open = {} /\ q # r
          /\ (verdict[q] = "overlap") <=> Observer!Overlapped(q)
      BY <1>11, <2>1 DEF VerdictsFinal
    <3>2. peers'[q] = peers[q] /\ r \notin peers[q]
      <4>1. peers[q] \subseteq 1..arrived
        BY DEF Observer!TypeOK
      <4> QED BY <1>2, <1>6, <3>1, <4>1
    <3> QED BY <1>1, <3>1, <3>2 DEF Observer!Overlapped
  <2> QED BY <1>1, <2>1 DEF VerdictsFinal, Reported, Observer!Overlapped, Observer!reports
<1>13. QueueInOrder'
  <2>1. ASSUME NEW i \in 1..Len(deferred)
        PROVE  deferred[i] \in selected /\ deferred[i] \notin open'
               /\ \A q \in Observer!Requests : Reported(q) => deferred[i] \notin past'[q]
    <3>1. deferred[i] \in selected /\ deferred[i] \notin open /\ deferred[i] # r
          /\ \A q \in Observer!Requests : Reported(q) => deferred[i] \notin past[q]
      BY <1>11 DEF QueueInOrder, InOrder
    <3>2. ~Reported(r)
      BY <1>2 DEF PastIsOver, Reported
    <3> QED BY <1>1, <1>4, <3>1, <3>2
  <2>2. ASSUME NEW i \in 1..Len(deferred), NEW j \in 1..Len(deferred), i < j
        PROVE  deferred[i] # deferred[j] /\ deferred[j] \notin past'[deferred[i]]
    <3>1. deferred[i] \in selected /\ deferred[i] # deferred[j] /\ deferred[j] \notin past[deferred[i]]
      BY <2>2 DEF QueueInOrder, InOrder
    <3> QED BY <1>4, <1>11, <3>1
  <2>3. \A i \in 1..Len(deferred) : ~Reported(deferred[i])
    BY DEF QueueInOrder, InOrder
  <2>4. deferred' = deferred /\ selected' = selected /\ verdict' = verdict
    BY <1>1 DEF Observer!reports
  <2> QED BY <2>1, <2>2, <2>3, <2>4 DEF QueueInOrder, InOrder, Reported
<1>14. HeadWaits'
  <2>1. SUFFICES ASSUME deferred # <<>>
                 PROVE  peers'[deferred[1]] \cap open' # {}
    BY <1>1 DEF HeadWaits, Observer!reports
  <2>2. deferred[1] \in 1..arrived
    BY <2>1 DEF Observer!TypeOK
  <2>3. peers[deferred[1]] \subseteq peers'[deferred[1]]
    BY <1>2, <1>5, <1>6, <2>2
  <2>4. peers[deferred[1]] \cap open # {}
    BY <2>1 DEF HeadWaits
  <2> QED BY <1>1, <2>3, <2>4
<1>15. \A q \in Observer!Requests : Reported(q) => past'[q] = past[q]
  BY <1>4, <1>11 DEF VerdictsFinal
<1>16. LastKnown'
  <2>1. previous # Observer!NoRequest => Reported(previous) /\ previous \in Observer!Requests
    BY DEF LastKnown, Reported
  <2> QED BY <1>1, <1>15, <2>1 DEF LastKnown, Settled, Observer!reports
<1>17. Observer!ComparedWithLast'
  <2>1. ASSUME NEW q \in Observer!Requests, verdict[q] = "compared"
        PROVE  /\ with[q] \in past'[q]
               /\ \A p \in past'[q] \ {with[q]} :
                     verdict[p] \in {"overlap", "first", "compared"} => p \in past'[with[q]]
    <3>1. Reported(q)
      BY <2>1 DEF Reported
    <3>2. /\ with[q] \in past[q]
          /\ \A p \in past[q] \ {with[q]} :
               verdict[p] \in {"overlap", "first", "compared"} => p \in past[with[q]]
      BY <2>1 DEF Observer!ComparedWithLast
    <3>3. past[q] \subseteq 1..arrived
      BY DEF Observer!TypeOK
    <3> QED BY <1>2, <1>4, <1>5, <1>15, <3>1, <3>2, <3>3
  <2> QED BY <1>1, <2>1 DEF Observer!ComparedWithLast, Observer!reports
<1> QED BY <1>7, <1>8, <1>9, <1>10, <1>12, <1>13, <1>14, <1>16, <1>17

-----------------------------------------------------------------------------
\* A request is selected while it is under way: no request with a verdict is a peer.
LEMMA BodyEndsKeeps ==
    ASSUME Observer!CacheObserverAssumption, ObserverInv, NEW r \in Observer!Requests,
           NEW body \in Observer!Bodies,
           Observer!BodyEnds(r, body)
    PROVE  ObserverInv'
<1> USE DEF ObserverInv
<1> DEFINE chosen == IF body = "parsed" /\ selectedSession = NoSession
                     THEN session[r] ELSE selectedSession
<1>1. /\ r \in 1..arrived /\ ended' = ended \cup {r} /\ selectedSession' = chosen
      /\ selected' = selected
            \/ (r \in open /\ session[r] = chosen /\ selected' = selected \cup {r})
      /\ parsed' \subseteq parsed \cup {r}
      /\ UNCHANGED <<arrived, open, session, peers, past, Observer!reports>>
  BY DEF Observer!BodyEnds
<1>2. session[r] \in Sessions /\ NoSession \notin Sessions
  BY <1>1 DEF OneConversation, Observer!CacheObserverAssumption
<1>3. selected \subseteq selected' /\ selected' \subseteq selected \cup {r}
  BY <1>1
<1>4. selected' # selected => r \in open /\ session[r] = chosen
  BY <1>1
<1>5. Observer!TypeOK'
  <2>1. /\ arrived' \in 0..MaxArrivals
        /\ {open, ended, selected, parsed}' \subseteq SUBSET (1..arrived')
    BY <1>1, <1>3 DEF Observer!TypeOK
  <2>2. selectedSession' \in Sessions \cup {NoSession}
    BY <1>1, <1>2 DEF Observer!TypeOK
  <2> QED BY <1>1, <2>1, <2>2 DEF Observer!TypeOK, Observer!reports
<1>6. PastIsOver' /\ PeersKnown'
  BY <1>1 DEF PastIsOver, PeersKnown, Observer!Concurrent, Observer!reports
<1>7. OneConversation'
  <2>1. ASSUME NEW q \in selected
        PROVE  session[q] = chosen
    BY <1>2 DEF OneConversation
  <2>2. \A q \in selected' : session[q] = chosen
    BY <1>3, <1>4, <2>1
  <2>3. ASSUME chosen = NoSession
        PROVE  selected' = {}
    BY <1>2, <1>3, <1>4, <2>3 DEF OneConversation
  <2> QED BY <1>1, <2>2, <2>3 DEF OneConversation
<1>8. VerdictsFinal'
  <2>1. ASSUME NEW q \in Observer!Requests, Reported(q)
        PROVE  /\ q \in selected' /\ q \notin open /\ peers[q] \cap open = {}
               /\ (verdict[q] = "overlap") <=> peers[q] \cap selected' # {}
    BY <1>3, <1>4, <2>1 DEF VerdictsFinal, Observer!Overlapped
  <2> QED BY <1>1, <2>1 DEF VerdictsFinal, Reported, Observer!Overlapped, Observer!reports
<1>9. QueueInOrder'
  BY <1>1, <1>3 DEF QueueInOrder, InOrder, Reported, Observer!reports
<1>10. HeadWaits' /\ LastKnown' /\ Observer!ComparedWithLast'
  BY <1>1 DEF HeadWaits, LastKnown, Observer!ComparedWithLast, Settled, Observer!reports
<1> QED BY <1>5, <1>6, <1>7, <1>8, <1>9, <1>10

-----------------------------------------------------------------------------
\* Of what is settled when the i-th of the queue is reported, its predecessor is the
\* last, and the i-th and those after it had not ended when that one arrived.
LEMMA BeforeIsLast ==
    ASSUME ObserverInv, NEW queue \in Seq(1..arrived), NEW under, InOrder(queue, under),
           NEW i \in 1..(Len(queue) + 1), Observer!Before(queue, i) # Observer!NoRequest,
           NEW b, b = Observer!Before(queue, i)
    PROVE  /\ b \in selected /\ ~Observer!Overlapped(b)
           /\ verdict[b] \in {"first", "compared"}
                \/ \E m \in 1..(i - 1) : b = queue[m] /\ b \in parsed
           /\ \A q \in Observer!Requests : Settled(q) /\ q # b => q \in past[b]
           /\ \A k \in 1..(i - 1) :
                 (Observer!Overlapped(queue[k]) \/ queue[k] \in parsed) /\ queue[k] # b
                    => queue[k] \in past[b]
           /\ \A k \in i..Len(queue) : queue[k] \notin past[b] /\ queue[k] # b
<1> USE DEF ObserverInv
<1> DEFINE leaving == {j \in 1..(i - 1) : Observer!Overlapped(queue[j]) \/ queue[j] \in parsed}
<1>1. b = IF leaving = {} THEN previous ELSE Observer!LeftBy(queue[Observer!Max(leaving)])
  BY DEF Observer!Before
<1>2. Len(queue) \in Nat /\ i \in Nat /\ i >= 1 /\ i <= Len(queue) + 1
  OBVIOUS
<1>3. \A k \in i..Len(queue) : k \in 1..Len(queue)
  BY <1>2
<1>4. \A k \in 1..(i - 1) : k \in 1..Len(queue)
  BY <1>2
<1>5. /\ \A k \in 1..Len(queue) :
           /\ queue[k] \in selected /\ ~Reported(queue[k])
           /\ \A q \in Observer!Requests : Reported(q) => queue[k] \notin past[q]
      /\ \A k, j \in 1..Len(queue) :
           k < j => queue[k] # queue[j] /\ queue[j] \notin past[queue[k]]
  BY DEF InOrder
<1>6. CASE leaving = {}
  <2>1. b = previous /\ previous # Observer!NoRequest
    BY <1>1, <1>6
  <2>2. /\ b \in Observer!Requests /\ verdict[b] \in {"first", "compared"}
        /\ \A q \in Observer!Requests : Settled(q) /\ q # b => q \in past[b]
    BY <2>1 DEF LastKnown
  <2>3. Reported(b)
    BY <2>2 DEF Reported
  <2>4. b \in selected /\ ~Observer!Overlapped(b)
    BY <2>2, <2>3 DEF VerdictsFinal
  <2>5. \A k \in i..Len(queue) : queue[k] \notin past[b] /\ queue[k] # b
    BY <1>3, <1>5, <2>2, <2>3
  <2> QED BY <1>6, <2>2, <2>4, <2>5
<1>7. CASE leaving # {}
  <2>1. i - 1 \in Nat /\ leaving \subseteq 0..(i - 1) /\ leaving # {}
    BY <1>2, <1>7
  <2> HIDE DEF leaving
  <2>2. Observer!Max(leaving) \in leaving /\ \A k \in leaving : k <= Observer!Max(leaving)
    BY <2>1, GreatestOf
  <2> DEFINE m == Observer!Max(leaving)
  <2>3. /\ m \in 1..(i - 1) /\ m \in 1..Len(queue)
        /\ Observer!Overlapped(queue[m]) \/ queue[m] \in parsed
        /\ \A k \in 1..(i - 1) : Observer!Overlapped(queue[k]) \/ queue[k] \in parsed => k <= m
    BY <1>4, <2>2 DEF leaving
  <2>4. b = Observer!LeftBy(queue[m])
    BY <1>1, <1>7
  <2> HIDE DEF m
  <2>5. ~Observer!Overlapped(queue[m]) /\ b = queue[m] /\ b \in parsed
    BY <2>3, <2>4 DEF Observer!LeftBy
  <2>6. b \in selected /\ ~Observer!Overlapped(b) /\ ~Reported(b)
    BY <1>5, <2>3, <2>5
  <2>7. ASSUME NEW q \in Observer!Requests, Settled(q), q # b
        PROVE  q \in past[b]
    <3>1. Reported(q)
      BY <2>7 DEF Settled, Reported
    <3>2. q \in selected /\ b \notin past[q]
      BY <1>5, <2>3, <2>5, <3>1 DEF VerdictsFinal
    <3> QED BY <2>6, <2>7, <3>2, ApartUnlessPeers
  <2>8. ASSUME NEW k \in 1..(i - 1), Observer!Overlapped(queue[k]) \/ queue[k] \in parsed,
               queue[k] # b
        PROVE  queue[k] \in past[b]
    <3>1. k \in 1..Len(queue) /\ k <= m /\ k # m
      BY <1>4, <2>3, <2>5, <2>8
    <3>2. k < m
      BY <2>3, <3>1
    <3>3. queue[k] \in selected /\ b \notin past[queue[k]]
      BY <1>5, <2>3, <2>5, <3>1, <3>2
    <3> QED BY <2>6, <2>8, <3>3, ApartUnlessPeers
  <2>9. ASSUME NEW k \in i..Len(queue)
        PROVE  queue[k] \notin past[b] /\ queue[k] # b
    <3>1. k \in 1..Len(queue) /\ m < k
      BY <1>2, <1>3, <2>3
    <3> QED BY <1>5, <2>3, <2>5, <3>1
  <2> QED BY <2>3, <2>5, <2>6, <2>7, <2>8, <2>9
<1> QED BY <1>6, <1>7

-----------------------------------------------------------------------------
\* The queue a flush works on is in order: a request that ends has ended after all
\* that is reported or waits.
LEMMA QueueOfFinish ==
    ASSUME Observer!CacheObserverAssumption, ObserverInv, NEW r \in open,
           NEW reported \in BOOLEAN,
           reported => r \in selected,
           NEW queue, queue = IF reported THEN Append(deferred, r) ELSE deferred
    PROVE  queue \in Seq(1..arrived) /\ InOrder(queue, open \ {r})
<1> USE DEF ObserverInv
<1>1. /\ deferred \in Seq(1..arrived)
      /\ r \in 1..arrived
      /\ 1..arrived \subseteq Observer!Requests
      /\ Len(deferred) \in Nat
  BY DEF Observer!TypeOK, Observer!CacheObserverAssumption, Observer!Requests
<1>2. /\ \A i \in 1..Len(deferred) :
           /\ deferred[i] \in selected
           /\ deferred[i] \notin open
           /\ ~Reported(deferred[i])
           /\ \A q \in Observer!Requests : Reported(q) => deferred[i] \notin past[q]
      /\ \A i, j \in 1..Len(deferred) : i < j =>
           deferred[i] # deferred[j] /\ deferred[j] \notin past[deferred[i]]
  BY DEF QueueInOrder, InOrder
<1>3. CASE ~reported
  BY <1>1, <1>2, <1>3 DEF InOrder
<1>4. CASE reported
  <2>1. queue = Append(deferred, r) /\ r \in selected
    BY <1>4
  <2>2. /\ queue \in Seq(1..arrived) /\ Len(queue) = Len(deferred) + 1
        /\ queue[Len(deferred) + 1] = r
        /\ \A i \in 1..Len(deferred) : queue[i] = deferred[i]
    <3> DEFINE S == 1..arrived
    <3>1. deferred \in Seq(S) /\ r \in S
      BY <1>1
    <3> HIDE DEF S
    <3>2. Append(deferred, r) \in Seq(S)
      BY <3>1
    <3>3. /\ Len(Append(deferred, r)) = Len(deferred) + 1
          /\ Append(deferred, r)[Len(deferred) + 1] = r
          /\ \A i \in 1..Len(deferred) : Append(deferred, r)[i] = deferred[i]
      BY <3>1
    <3> QED BY <2>1, <3>2, <3>3 DEF S
  <2>3. ~Reported(r) /\ \A q \in Observer!Requests : r \notin past[q]
    BY <1>1 DEF VerdictsFinal, PastIsOver
  <2>4. \A i \in 1..Len(queue) : i \in 1..Len(deferred) \/ i = Len(deferred) + 1
    BY <1>1, <2>2
  <2>5. ASSUME NEW i \in 1..Len(queue)
        PROVE  /\ queue[i] \in selected
               /\ queue[i] \notin open \ {r}
               /\ ~Reported(queue[i])
               /\ \A q \in Observer!Requests : Reported(q) => queue[i] \notin past[q]
    BY <1>2, <2>1, <2>2, <2>3, <2>4
  <2>6. ASSUME NEW i \in 1..Len(queue), NEW j \in 1..Len(queue), i < j
        PROVE  queue[i] # queue[j] /\ queue[j] \notin past[queue[i]]
    <3>1. i \in 1..Len(deferred) /\ queue[i] = deferred[i]
      BY <1>1, <2>2, <2>6
    <3>2. CASE j \in 1..Len(deferred)
      BY <1>2, <2>2, <2>6, <3>1, <3>2
    <3>3. CASE j = Len(deferred) + 1
      <4>1. queue[j] = r
        BY <2>2, <3>3
      <4>2. deferred[i] \in 1..arrived /\ deferred[i] \notin open
        BY <1>2, <3>1 DEF Observer!TypeOK
      <4>3. r \notin past[deferred[i]]
        BY <1>1, <2>3, <4>2
      <4> QED BY <3>1, <4>1, <4>2, <4>3
    <3> QED BY <2>4, <3>2, <3>3
  <2> QED BY <2>2, <2>5, <2>6 DEF InOrder
<1> QED BY <1>3, <1>4

\* What a flush reports, and what it leaves.
LEMMA WhatIsFlushed ==
    ASSUME Observer!CacheObserverAssumption, ObserverInv, NEW queue \in Seq(1..arrived),
           NEW under,
           InOrder(queue, under), Observer!Flushed(queue, under),
           NEW n, n = Observer!FlushLength(queue, under)
    PROVE  /\ previous' = Observer!Before(queue, n + 1)
           /\ deferred' = SubSeq(queue, n + 1, Len(queue))
           /\ \A i \in 1..n :
                /\ verdict'[queue[i]] = Observer!VerdictOn(queue[i], Observer!Before(queue, i))
                /\ verdict'[queue[i]] = "compared" => with'[queue[i]] = Observer!Before(queue, i)
           /\ \A q \in Observer!Requests : (\A i \in 1..n : q # queue[i])
                => verdict'[q] = verdict[q] /\ with'[q] = with[q]
           /\ \A i \in 1..(n + 1) : Observer!Before(queue, i) \in {Observer!NoRequest} \cup 1..arrived
           /\ verdict' \in [Observer!Requests -> Observer!Verdicts]
           /\ with' \in [Observer!Requests -> {Observer!NoRequest} \cup 1..arrived]
<1> USE DEF ObserverInv
<1> DEFINE at(r) == CHOOSE i \in 1..n : queue[i] = r
           now == {queue[i] : i \in 1..n}
<1>1. /\ previous' = Observer!Before(queue, n + 1)
      /\ deferred' = SubSeq(queue, n + 1, Len(queue))
      /\ verdict' = [r \in Observer!Requests |->
            IF r \in now THEN Observer!VerdictOn(r, Observer!Before(queue, at(r))) ELSE verdict[r]]
      /\ with' = [r \in Observer!Requests |->
            IF r \in now /\ Observer!VerdictOn(r, Observer!Before(queue, at(r))) = "compared"
            THEN Observer!Before(queue, at(r)) ELSE with[r]]
  BY DEF Observer!Flushed
<1>2. n \in 0..Len(queue) /\ Len(queue) \in Nat
  BY FlushStops
<1>3. \A i \in 1..n : i \in 1..Len(queue) /\ queue[i] \in 1..arrived /\ queue[i] \in Observer!Requests
  BY <1>2 DEF Observer!TypeOK, Observer!CacheObserverAssumption, Observer!Requests
<1>4. ASSUME NEW i \in 1..n
      PROVE  at(queue[i]) = i
  <2>1. at(queue[i]) \in 1..n /\ queue[at(queue[i])] = queue[i]
    OBVIOUS
  <2> HIDE DEF at
  <2>2. ASSUME at(queue[i]) # i
        PROVE  FALSE
    <3>1. at(queue[i]) < i \/ i < at(queue[i])
      BY <1>2, <2>1, <2>2
    <3> QED BY <1>3, <2>1, <3>1 DEF InOrder
  <2> QED BY <2>2
<1>5. ASSUME NEW i \in 1..(n + 1)
      PROVE  Observer!Before(queue, i) \in {Observer!NoRequest} \cup 1..arrived
  <2>1. i \in 1..(Len(queue) + 1)
    BY <1>2
  <2>2. CASE Observer!Before(queue, i) # Observer!NoRequest
    BY <2>1, <2>2, BeforeIsLast DEF Observer!TypeOK
  <2> QED BY <2>2
<1>6. \A q \in Observer!Requests : (\A i \in 1..n : q # queue[i])
        => verdict'[q] = verdict[q] /\ with'[q] = with[q]
  BY <1>1
<1>7. ASSUME NEW i \in 1..n
      PROVE  /\ verdict'[queue[i]] = Observer!VerdictOn(queue[i], Observer!Before(queue, i))
             /\ verdict'[queue[i]] = "compared" => with'[queue[i]] = Observer!Before(queue, i)
  <2>1. queue[i] \in now /\ queue[i] \in Observer!Requests /\ at(queue[i]) = i
    BY <1>3, <1>4
  <2> HIDE DEF at, now
  <2>2. verdict'[queue[i]] = Observer!VerdictOn(queue[i], Observer!Before(queue, i))
    BY <1>1, <2>1
  <2>3. Observer!VerdictOn(queue[i], Observer!Before(queue, i)) = "compared"
            => with'[queue[i]] = Observer!Before(queue, i)
    BY <1>1, <2>1
  <2> QED BY <2>2, <2>3
<1>8. \A q : \A b : Observer!VerdictOn(q, b) \in Observer!Verdicts
  BY DEF Observer!VerdictOn, Observer!Verdicts
<1>9. verdict' \in [Observer!Requests -> Observer!Verdicts]
  <2> HIDE DEF at, now
  <2> QED BY <1>1, <1>8 DEF Observer!TypeOK
<1>10. with' \in [Observer!Requests -> {Observer!NoRequest} \cup 1..arrived]
  <2>1. ASSUME NEW q \in Observer!Requests
        PROVE  with'[q] \in {Observer!NoRequest} \cup 1..arrived
    <3>1. CASE q \in now
      <4>1. PICK i \in 1..n : q = queue[i]
        BY <3>1
      <4>2. at(q) = i /\ i \in 1..(n + 1)
        BY <1>2, <1>4, <4>1
      <4> HIDE DEF at, now
      <4> QED BY <1>1, <1>5, <4>2 DEF Observer!TypeOK
    <3>2. CASE q \notin now
      <4> HIDE DEF at, now
      <4> QED BY <1>1, <3>2 DEF Observer!TypeOK
    <3> QED BY <3>1, <3>2
  <2> HIDE DEF at, now
  <2> QED BY <1>1, <2>1
<1> HIDE DEF at, now
<1> QED BY <1>1, <1>5, <1>6, <1>7, <1>9, <1>10

-----------------------------------------------------------------------------
\* A request that ends reports what no longer waits, and keeps the invariant.
LEMMA FinishKeeps ==
    ASSUME Observer!CacheObserverAssumption, ObserverInv, NEW r \in Observer!Requests,
           NEW aborted \in BOOLEAN,
           Observer!Finish(r, aborted)
    PROVE  ObserverInv'
<1> USE DEF ObserverInv
<1> DEFINE reported == ~aborted /\ r \in selected
<1>0. PICK queue, under, n :
        /\ queue = IF reported THEN Append(deferred, r) ELSE deferred
        /\ under = open \ {r} /\ n = Observer!FlushLength(queue, under)
  OBVIOUS
<1>1. /\ r \in open /\ open' = under /\ Observer!Flushed(queue, under)
      /\ UNCHANGED <<arrived, session, ended, selected, parsed, peers, past, selectedSession>>
  BY <1>0 DEF Observer!Finish
<1>2. queue \in Seq(1..arrived) /\ InOrder(queue, under)
  <2>1. reported \in BOOLEAN /\ (reported => r \in selected)
    OBVIOUS
  <2> HIDE DEF reported
  <2> QED BY <1>0, <1>1, <2>1, QueueOfFinish
<1> HIDE DEF reported
<1>3. /\ n \in 0..Len(queue) /\ Len(queue) \in Nat
      /\ \A i \in 1..n : Observer!PeersResolved(queue[i], under)
      /\ n < Len(queue) => ~Observer!PeersResolved(queue[n + 1], under)
  <2>1. n = Observer!FlushLength(queue, under)
    BY <1>0
  <2>2. /\ Observer!FlushLength(queue, under) \in 0..Len(queue)
        /\ \A i \in 1..Observer!FlushLength(queue, under) : Observer!PeersResolved(queue[i], under)
        /\ Observer!FlushLength(queue, under) < Len(queue) =>
             ~Observer!PeersResolved(queue[Observer!FlushLength(queue, under) + 1], under)
    BY <1>2, FlushStops
  <2>3. Len(queue) \in Nat
    BY <1>2
  <2> HIDE DEF ObserverInv
  <2> QED BY <2>1, <2>2, <2>3
<1>4. /\ previous' = Observer!Before(queue, n + 1)
      /\ deferred' = SubSeq(queue, n + 1, Len(queue))
      /\ \A i \in 1..n :
           /\ verdict'[queue[i]] = Observer!VerdictOn(queue[i], Observer!Before(queue, i))
           /\ verdict'[queue[i]] = "compared" => with'[queue[i]] = Observer!Before(queue, i)
      /\ \A q \in Observer!Requests : (\A i \in 1..n : q # queue[i])
           => verdict'[q] = verdict[q] /\ with'[q] = with[q]
      /\ \A i \in 1..(n + 1) : Observer!Before(queue, i) \in {Observer!NoRequest} \cup 1..arrived
      /\ verdict' \in [Observer!Requests -> Observer!Verdicts]
      /\ with' \in [Observer!Requests -> {Observer!NoRequest} \cup 1..arrived]
  <2>1. n = Observer!FlushLength(queue, under)
    BY <1>0
  <2>2. Observer!Flushed(queue, under)
    BY <1>1
  <2> HIDE DEF ObserverInv
  <2> QED BY <1>2, <2>1, <2>2, WhatIsFlushed
<1>5. /\ \A k \in 1..Len(queue) :
           /\ queue[k] \in selected /\ queue[k] \notin under /\ ~Reported(queue[k])
           /\ \A q \in Observer!Requests : Reported(q) => queue[k] \notin past[q]
      /\ \A k, j \in 1..Len(queue) :
           k < j => queue[k] # queue[j] /\ queue[j] \notin past[queue[k]]
  BY <1>2 DEF InOrder
<1>6. \A i \in 1..n : i \in 1..Len(queue) /\ queue[i] \in 1..arrived /\ queue[i] \in Observer!Requests
  BY <1>3, <1>5 DEF Observer!TypeOK, Observer!CacheObserverAssumption, Observer!Requests
<1>7. \A i \in 1..n :
        /\ verdict'[queue[i]] # "none"
        /\ verdict'[queue[i]] = "overlap" <=> Observer!Overlapped(queue[i])
        /\ verdict'[queue[i]] \in {"overlap", "first", "compared"}
             => Observer!Overlapped(queue[i]) \/ queue[i] \in parsed
        /\ verdict'[queue[i]] = "compared"
             => ~Observer!Overlapped(queue[i]) /\ Observer!Before(queue, i) # Observer!NoRequest
        /\ ~Observer!Overlapped(queue[i]) /\ queue[i] \in parsed
             => verdict'[queue[i]] \in {"first", "compared"}
  BY <1>4 DEF Observer!VerdictOn
<1>8. ASSUME NEW q \in Observer!Requests
      PROVE  \/ verdict'[q] = verdict[q] /\ with'[q] = with[q] /\ \A i \in 1..n : q # queue[i]
             \/ \E i \in 1..n : q = queue[i]
  BY <1>4
<1>9. under \subseteq open /\ r \notin under
  BY <1>0
<1>10. \A q \in Observer!Requests : past[q] \subseteq 1..arrived /\ q \notin past[q]
  BY DEF Observer!TypeOK, PastIsOver
<1>11. Observer!TypeOK'
  <2>1. deferred' \in Seq(1..arrived)
    <3> DEFINE S == 1..arrived
    <3>1. queue \in Seq(S) /\ n + 1 \in 1..(Len(queue) + 1)
      BY <1>2, <1>3
    <3> HIDE DEF S
    <3>2. SubSeq(queue, n + 1, Len(queue)) \in Seq(S)
      <4>1. \A i \in (n + 1)..Len(queue) : queue[i] \in S
        BY <1>3, <3>1
      <4> QED BY <1>3, <3>1, <4>1
    <3> QED BY <1>4, <3>2 DEF S
  <2>2. previous' \in {Observer!NoRequest} \cup 1..arrived
    <3>1. n + 1 \in 1..(n + 1)
      BY <1>3
    <3> QED BY <1>4, <3>1
  <2>3. {open, ended, selected, parsed}' \subseteq SUBSET (1..arrived')
    BY <1>1, <1>9 DEF Observer!TypeOK
  <2> QED BY <1>1, <1>4, <2>1, <2>2, <2>3 DEF Observer!TypeOK
<1>12. PastIsOver'
  <2>1. ASSUME NEW q \in Observer!Requests, q \notin 1..arrived
        PROVE  verdict'[q] = "none"
    BY <1>6, <1>8, <2>1 DEF PastIsOver
  <2> QED BY <1>1, <1>9, <2>1 DEF PastIsOver
<1>13. PeersKnown' /\ OneConversation'
  BY <1>1 DEF PeersKnown, Observer!Concurrent, OneConversation
<1>14. VerdictsFinal'
  <2>1. ASSUME NEW q \in Observer!Requests, verdict'[q] # "none"
        PROVE  /\ q \in selected /\ q \notin under /\ peers[q] \cap under = {}
               /\ (verdict'[q] = "overlap") <=> Observer!Overlapped(q)
    <3>1. CASE verdict'[q] = verdict[q]
      BY <1>9, <2>1, <3>1 DEF VerdictsFinal, Reported
    <3>2. CASE \E i \in 1..n : q = queue[i]
      BY <1>3, <1>5, <1>6, <1>7, <3>2 DEF Observer!PeersResolved
    <3> QED BY <1>8, <3>1, <3>2
  <2>2. Observer!Overlapped(r)' <=> Observer!Overlapped(r)
    BY <1>1 DEF Observer!Overlapped
  <2> QED BY <1>1, <2>1 DEF VerdictsFinal, Reported, Observer!Overlapped
<1>15. /\ Len(deferred') = Len(queue) - n
       /\ \A i \in 1..Len(deferred') : deferred'[i] = queue[n + i] /\ n + i \in 1..Len(queue)
  BY <1>2, <1>3, <1>4
<1>16. \A k \in 1..Len(queue) : k > n => queue[k] \in Observer!Requests /\ \A i \in 1..n : queue[k] # queue[i]
  BY <1>3, <1>5, <1>6 DEF Observer!TypeOK, Observer!CacheObserverAssumption,
     Observer!Requests
<1>17. QueueInOrder'
  <2>1. ASSUME NEW i \in 1..Len(deferred')
        PROVE  /\ deferred'[i] \in selected /\ deferred'[i] \notin under
               /\ verdict'[deferred'[i]] = "none"
               /\ \A q \in Observer!Requests : verdict'[q] # "none" => deferred'[i] \notin past[q]
    <3>1. n + i \in 1..Len(queue) /\ deferred'[i] = queue[n + i] /\ n + i > n
      BY <1>3, <1>15
    <3>2. verdict'[queue[n + i]] = "none"
      BY <1>5, <1>8, <1>16, <3>1 DEF Reported
    <3>3. ASSUME NEW q \in Observer!Requests, verdict'[q] # "none"
          PROVE  queue[n + i] \notin past[q]
      <4>1. CASE verdict'[q] = verdict[q]
        BY <1>5, <3>1, <3>3, <4>1 DEF Reported
      <4>2. CASE \E k \in 1..n : q = queue[k]
        <5>1. PICK k \in 1..n : q = queue[k]
          BY <4>2
        <5>2. k \in 1..Len(queue) /\ k < n + i
          BY <1>3, <3>1
        <5> QED BY <1>5, <3>1, <5>1, <5>2
      <4> QED BY <1>8, <4>1, <4>2
    <3> QED BY <1>5, <3>1, <3>2, <3>3
  <2>2. ASSUME NEW i \in 1..Len(deferred'), NEW j \in 1..Len(deferred'), i < j
        PROVE  deferred'[i] # deferred'[j] /\ deferred'[j] \notin past[deferred'[i]]
    <3>1. n + i \in 1..Len(queue) /\ n + j \in 1..Len(queue)
      BY <1>15
    <3>2. n \in Int /\ i \in Int /\ j \in Int
      BY <1>3
    <3>3. n + i < n + j
      BY <2>2, <3>2
    <3> QED BY <1>5, <1>15, <3>1, <3>3
  <2> QED BY <1>1, <2>1, <2>2 DEF QueueInOrder, InOrder, Reported
<1>18. HeadWaits'
  <2>1. SUFFICES ASSUME deferred' # <<>>
                 PROVE  peers[deferred'[1]] \cap under # {}
    BY <1>1 DEF HeadWaits
  <2>2. Len(deferred') # 0
    BY <1>11, <2>1 DEF Observer!TypeOK
  <2>3. n < Len(queue) /\ 1 \in 1..Len(deferred') /\ deferred'[1] = queue[n + 1]
    <3>1. n \in Nat /\ Len(queue) \in Nat /\ n <= Len(queue)
      BY <1>3
    <3>2. Len(deferred') = Len(queue) - n
      BY <1>15
    <3>3. n < Len(queue) /\ 1 \in 1..Len(deferred')
      BY <2>2, <3>1, <3>2
    <3> QED BY <1>15, <3>1, <3>3
  <2> QED BY <1>3, <2>3 DEF Observer!PeersResolved
<1>19. ASSUME NEW i \in 1..(n + 1), Observer!Before(queue, i) # Observer!NoRequest
       PROVE  /\ Observer!Before(queue, i) \in selected
              /\ ~Observer!Overlapped(Observer!Before(queue, i))
              /\ verdict[Observer!Before(queue, i)] \in {"first", "compared"}
                   \/ \E m \in 1..(i - 1) : Observer!Before(queue, i) = queue[m] /\ Observer!Before(queue, i) \in parsed
              /\ \A q \in Observer!Requests :
                    Settled(q) /\ q # Observer!Before(queue, i) => q \in past[Observer!Before(queue, i)]
              /\ \A k \in 1..(i - 1) :
                    (Observer!Overlapped(queue[k]) \/ queue[k] \in parsed) /\ queue[k] # Observer!Before(queue, i)
                       => queue[k] \in past[Observer!Before(queue, i)]
              /\ \A k \in i..Len(queue) :
                    queue[k] \notin past[Observer!Before(queue, i)] /\ queue[k] # Observer!Before(queue, i)
  <2>1. i \in 1..(Len(queue) + 1)
    BY <1>3
  <2> QED BY <1>2, <1>19, <2>1, BeforeIsLast
<1>20. LastKnown'
  <2>1. SUFFICES ASSUME Observer!Before(queue, n + 1) # Observer!NoRequest
                 PROVE  /\ Observer!Before(queue, n + 1) \in Observer!Requests
                        /\ verdict'[Observer!Before(queue, n + 1)] \in {"first", "compared"}
                        /\ \A q \in Observer!Requests :
                             Settled(q)' /\ q # Observer!Before(queue, n + 1) => q \in past[Observer!Before(queue, n + 1)]
    BY <1>1, <1>4 DEF LastKnown
  <2>2. PICK b : b = Observer!Before(queue, n + 1)
    OBVIOUS
  <2>3. n + 1 \in 1..(n + 1) /\ (n + 1) - 1 = n
    BY <1>3
  <2>4. /\ b \in selected /\ ~Observer!Overlapped(b)
        /\ verdict[b] \in {"first", "compared"} \/ \E m \in 1..n : b = queue[m] /\ b \in parsed
        /\ \A q \in Observer!Requests : Settled(q) /\ q # b => q \in past[b]
        /\ \A k \in 1..n :
             (Observer!Overlapped(queue[k]) \/ queue[k] \in parsed) /\ queue[k] # b => queue[k] \in past[b]
    BY <1>19, <2>1, <2>2, <2>3
  <2>5. b \in Observer!Requests
    BY <2>4 DEF Observer!TypeOK, Observer!CacheObserverAssumption, Observer!Requests
  <2>6. verdict'[b] \in {"first", "compared"}
    <3>1. CASE \E m \in 1..n : b = queue[m]
      <4>1. PICK m \in 1..n : b = queue[m]
        BY <3>1
      <4>2. ~Reported(b)
        BY <1>5, <1>6, <4>1
      <4>3. b \in parsed
        BY <2>4, <4>2 DEF Reported
      <4> QED BY <1>7, <2>4, <4>1, <4>3
    <3>2. CASE ~\E m \in 1..n : b = queue[m]
      BY <1>8, <2>4, <2>5, <3>2
    <3> QED BY <3>1, <3>2
  <2>7. ASSUME NEW q \in Observer!Requests,
               verdict'[q] \in {"overlap", "first", "compared"}, q # b
        PROVE  q \in past[b]
    BY <1>7, <1>8, <2>4, <2>7 DEF Settled
  <2> QED BY <2>2, <2>5, <2>6, <2>7 DEF Settled
<1>21. Observer!ComparedWithLast'
  <2>1. ASSUME NEW q \in Observer!Requests, verdict'[q] = "compared"
        PROVE  /\ with'[q] \in past[q]
               /\ \A p \in past[q] \ {with'[q]} :
                     verdict'[p] \in {"overlap", "first", "compared"} => p \in past[with'[q]]
    <3>1. CASE verdict'[q] = verdict[q] /\ with'[q] = with[q]
      <4>1. Reported(q)
        BY <2>1, <3>1 DEF Reported
      <4>2. \A k \in 1..n : queue[k] \notin past[q]
        BY <1>5, <1>6, <4>1
      <4>3. ASSUME NEW p \in past[q]
            PROVE  verdict'[p] = verdict[p]
        <5>1. p \in Observer!Requests
          BY <1>10 DEF Observer!TypeOK, Observer!CacheObserverAssumption,
             Observer!Requests
        <5>2. ~\E k \in 1..n : p = queue[k]
          BY <4>2
        <5> QED BY <1>8, <5>1, <5>2
      <4> QED BY <2>1, <3>1, <4>3 DEF Observer!ComparedWithLast
    <3>2. CASE \E i \in 1..n : q = queue[i]
      <4>1. PICK i \in 1..n : q = queue[i]
        BY <3>2
      <4>2. PICK b : b = Observer!Before(queue, i)
        OBVIOUS
      <4>3. with'[q] = b /\ b # Observer!NoRequest /\ ~Observer!Overlapped(q)
        BY <1>4, <1>7, <2>1, <4>1, <4>2
      <4>4. i \in 1..(n + 1) /\ i \in 1..Len(queue) /\ i \in i..Len(queue)
        BY <1>3, <1>6
      <4>5. /\ b \in selected /\ ~Observer!Overlapped(b)
            /\ \A p \in Observer!Requests : Settled(p) /\ p # b => p \in past[b]
            /\ \A k \in 1..(i - 1) :
                 (Observer!Overlapped(queue[k]) \/ queue[k] \in parsed) /\ queue[k] # b => queue[k] \in past[b]
            /\ q \notin past[b] /\ q # b
        BY <1>19, <4>1, <4>2, <4>3, <4>4
      <4>6. b \in past[q]
        BY <1>5, <4>1, <4>3, <4>4, <4>5, ApartUnlessPeers
      <4>7. ASSUME NEW p \in past[q], p # b,
                   verdict'[p] \in {"overlap", "first", "compared"}
            PROVE  p \in past[b]
        <5>1. p \in Observer!Requests
          BY <1>10 DEF Observer!TypeOK, Observer!CacheObserverAssumption,
             Observer!Requests
        <5>2. CASE verdict'[p] = verdict[p]
          BY <4>5, <4>7, <5>1, <5>2 DEF Settled
        <5>3. CASE \E k \in 1..n : p = queue[k]
          <6>1. PICK k \in 1..n : p = queue[k]
            BY <5>3
          <6>2. k \in 1..Len(queue) /\ ~(i < k) /\ k # i
            BY <1>5, <1>6, <1>10, <4>1, <4>4, <4>7, <6>1
          <6>3. k \in 1..(i - 1)
            BY <1>3, <6>2
          <6> QED BY <1>7, <4>5, <4>7, <6>1, <6>3
        <5> QED BY <1>8, <5>1, <5>2, <5>3
      <4> QED BY <4>3, <4>6, <4>7
    <3> QED BY <1>8, <3>1, <3>2
  <2> QED BY <1>1, <2>1 DEF Observer!ComparedWithLast
<1> QED BY <1>11, <1>12, <1>13, <1>14, <1>17, <1>18, <1>20, <1>21

-----------------------------------------------------------------------------
\* Every step keeps the invariant.
LEMMA ObserverStep ==
    ASSUME Observer!CacheObserverAssumption, ObserverInv, [Observer!Next]_(Observer!vars)
    PROVE  ObserverInv'
<1>1. ASSUME NEW s \in Sessions, Observer!Arrive(s)
      PROVE  ObserverInv'
  BY <1>1, ArriveKeeps
<1>2. ASSUME NEW r \in Observer!Requests, NEW body \in Observer!Bodies,
             Observer!BodyEnds(r, body)
      PROVE  ObserverInv'
  BY <1>2, BodyEndsKeeps
<1>3. ASSUME NEW r \in Observer!Requests, NEW aborted \in BOOLEAN,
             Observer!Finish(r, aborted)
      PROVE  ObserverInv'
  BY <1>3, FinishKeeps
<1>4. CASE UNCHANGED Observer!vars
  BY <1>4 DEF Observer!vars, Observer!contexts, Observer!reports, ObserverInv,
     Observer!TypeOK, PastIsOver, PeersKnown, Observer!Concurrent,
     OneConversation, VerdictsFinal, Reported, Observer!Overlapped, QueueInOrder, InOrder,
     HeadWaits,
     LastKnown, Settled, Observer!ComparedWithLast
<1> QED BY <1>1, <1>2, <1>3, <1>4 DEF Observer!Next

\* The observer keeps its inductive invariant.
THEOREM AlwaysObserverInv ==
    ASSUME Observer!CacheObserverAssumption
    PROVE  Observer!Spec => []ObserverInv
<1>1. Observer!Init => ObserverInv
  BY ObserverInit
<1>2. ObserverInv /\ [Observer!Next]_(Observer!vars) => ObserverInv'
  BY ObserverStep
<1> QED BY <1>1, <1>2, PTL DEF Observer!Spec

\* Of two requests of the conversation that were under way together none is compared,
\* a comparison is with the last parsed request that was over, and no report waits in vain.
THEOREM ReportsAreRight ==
    ASSUME Observer!CacheObserverAssumption
    PROVE  Observer!Spec => [](Observer!OverlapIsSymmetric /\ Observer!ComparedWithLast /\ Observer!NothingStuck)
<1>1. ObserverInv => Observer!OverlapIsSymmetric
  <2> SUFFICES ASSUME ObserverInv, NEW r \in selected, NEW q \in selected, Observer!Concurrent(r, q),
                      verdict[r] # "none"
               PROVE  verdict[r] = "overlap"
    BY DEF Observer!OverlapIsSymmetric
  <2> USE DEF ObserverInv
  <2>1. r \in Observer!Requests /\ Reported(r)
    BY DEF Observer!TypeOK, Observer!CacheObserverAssumption, Observer!Requests, Reported
  <2>2. Observer!Overlapped(r)
    BY ApartUnlessPeers DEF Observer!Concurrent
  <2> QED BY <2>1, <2>2 DEF VerdictsFinal
<1>2. ObserverInv => Observer!NothingStuck
  BY DEF ObserverInv, HeadWaits, Observer!NothingStuck
<1>3. ObserverInv => Observer!ComparedWithLast
  BY DEF ObserverInv
<1> QED BY <1>1, <1>2, <1>3, AlwaysObserverInv, PTL
=============================================================================
