----------------------------- MODULE TunnelsPage -----------------------------
(***************************************************************************)
(* The page of the SSH tunnels: hooks/useSshTunnelsData.ts and             *)
(* helpers/sshTunnelActions.ts.  It shows the snapshot of the tunnels it   *)
(* has got last, of a load or of a broadcast, edits it by hand when the    *)
(* user has saved something, and loads it again after every command.       *)
(*                                                                         *)
(* The changes of the native side are numbered, and what is shown is known *)
(* by the changes it shows; a snapshot has all of them up to a number.     *)
(* The generation that tells the latest load is a flag of every load.      *)
(***************************************************************************)
EXTENDS Integers, Bags

CONSTANTS Tunnels, NoTunnel,
          AllTunnels,        \* what the commands of a group are about
          Dialogs,           \* of the tunnel, the group and the port that is edited
          MaxTunnelChanges,  \* bounds: on the changes of the native side
          MaxLoads,          \* on the loads under way at once
          MaxOrders          \* on the commands under way at once

TunnelsPageAssumption ==
    /\ NoTunnel \notin Tunnels /\ AllTunnels \notin Tunnels \cup {NoTunnel}
    /\ {MaxTunnelChanges, MaxLoads, MaxOrders} \subseteq Nat

Versions == 0..MaxTunnelChanges
Snapshot(v) == 1..v
Unread == -1   \* not answered yet
Unchanged == 0

\* Whether a load is the page's latest, the version that was read, and what the
\* command that waits for the load is about.
Load == [live : BOOLEAN, seen : {Unread} \cup Versions,
         of : Tunnels \cup {AllTunnels, NoTunnel}]
Order == [of : Tunnels \cup {AllTunnels}, pc : {"sent", "load", "end"},
          change : Versions]
Edit == [pc : {"rest", "sent", "saved"}, change : Versions]

VARIABLES
    version,   \* the last change
    events,    \* the versions whose broadcasts are on their way
    shown,     \* the changes the page shows
    loading, busy, groupBusy,
    editing,   \* what each dialog saves
    loads, orders,
    owed       \* history: the changes of answered commands and of earlier loads

busyFlags == <<busy, groupBusy>>
native == <<version, events>>
calls == <<loads, orders, editing>>
vars == <<native, shown, loading, busyFlags, calls, owed>>

AtRest == [pc |-> "rest", change |-> Unchanged]
NewLoad(of) == [live |-> TRUE, seen |-> Unread, of |-> of]
NewOrder(of) == [of |-> of, pc |-> "sent", change |-> Unchanged]

Init ==
    /\ version = 0 /\ events = {} /\ shown = {}
    /\ loading = TRUE /\ busy = NoTunnel /\ groupBusy = FALSE
    /\ loads = SetToBag({NewLoad(NoTunnel)}) /\ orders = EmptyBag
    /\ editing = [d \in Dialogs |-> AtRest]
    /\ owed = {}

\* The bag with one more, and with one less.
And(bag, e) == bag (+) SetToBag({e})
Less(bag, e) == bag (-) SetToBag({e})

\* The loads after the generation has been raised: those of it become like the
\* earlier ones.
Copies(r, bag) == IF r \in BagToSet(bag) THEN bag[r] ELSE 0
Raised(r) == [r EXCEPT !.live = FALSE]
Outdated ==
    [r \in {Raised(q) : q \in BagToSet(loads)} |->
        Copies(r, loads) + Copies([r EXCEPT !.live = TRUE], loads)]

\* loadData raises the generation.
LoadData(of) ==
    /\ BagCardinality(loads) < MaxLoads
    /\ loads' = And(Outdated, NewLoad(of))
    /\ loading' = TRUE

-----------------------------------------------------------------------------
\* The native side.  The snapshot of a broadcast is taken with the change, and any
\* thread may be the first to emit what it has taken; version 0 stands for one that
\* could not be taken and is announced without it.
Changed ==
    /\ version < MaxTunnelChanges
    /\ version' = version + 1
    /\ \E posted \in {0, version + 1} : events' = events \cup {posted}

\* A tunnel connects again, fails or is connected at the start.
Change == Changed /\ UNCHANGED <<shown, loading, busyFlags, calls, owed>>

Answer(r) ==
    /\ r.seen = Unread
    /\ loads' = And(Less(loads, r), [r EXCEPT !.seen = version])
    /\ UNCHANGED <<native, shown, loading, busyFlags, orders, editing, owed>>

\* The outcomes of a command: a change, and a load next; a load next though nothing
\* has changed, as when a tunnel does not connect or the user does not confirm that
\* it is to be deleted; and neither, as when it was only probed.
Execute(o) ==
    /\ o.pc = "sent"
    /\ \E pc \in {"load", "end"}, change \in {Unchanged, version + 1} :
        /\ change # Unchanged => pc = "load"
        /\ orders' = And(Less(orders, o), [o EXCEPT !.pc = pc, !.change = change])
        /\ IF change = Unchanged THEN UNCHANGED native ELSE Changed
    /\ UNCHANGED <<shown, loading, busyFlags, loads, editing, owed>>

ExecuteEdit(d) ==
    /\ editing[d].pc = "sent"
    /\ Changed
    /\ editing' = [editing EXCEPT ![d] = [pc |-> "saved", change |-> version + 1]]
    /\ UNCHANGED <<shown, loading, busyFlags, loads, orders, owed>>

-----------------------------------------------------------------------------
\* The commands of a card, to connect, disconnect, delete or probe its tunnel: the
\* buttons of the card of the busy tunnel are off, and those of every card while a
\* group is busy.  There is one place for the busy tunnel.
Command(t) ==
    /\ busy # t /\ ~groupBusy
    /\ BagCardinality(orders) < MaxOrders
    /\ orders' = And(orders, NewOrder(t))
    /\ busy' = t
    /\ UNCHANGED <<native, shown, loading, groupBusy, loads, editing, owed>>

\* handleGroupBatch and handleAllDisconnect.
Batch ==
    /\ ~groupBusy
    /\ BagCardinality(orders) < MaxOrders
    /\ orders' = And(orders, NewOrder(AllTunnels))
    /\ groupBusy' = TRUE
    /\ UNCHANGED <<native, shown, loading, busy, loads, editing, owed>>

\* The end of every command, whichever card is busy by now.
Finally(of) ==
    IF of = AllTunnels THEN groupBusy' = FALSE /\ UNCHANGED busy
    ELSE busy' = NoTunnel /\ UNCHANGED groupBusy

\* The reply of a command, which ends here or with the load it begins.
Reply(o) ==
    /\ o.pc # "sent"
    /\ orders' = Less(orders, o)
    /\ owed' = owed \cup ({o.change} \ {Unchanged})
    /\ IF o.pc = "load"
       THEN LoadData(o.of) /\ UNCHANGED busyFlags
       ELSE Finally(o.of) /\ UNCHANGED <<loads, loading>>
    /\ UNCHANGED <<native, shown, editing>>

\* handleSave and the commands of the group and the port dialogs, which are off
\* while one is under way.
Save(d) ==
    /\ editing[d].pc = "rest"
    /\ editing' = [editing EXCEPT ![d].pc = "sent"]
    /\ UNCHANGED <<native, shown, loading, busyFlags, loads, orders, owed>>

\* The page shows what was saved at once, and loads.
Saved(d) ==
    /\ editing[d].pc = "saved"
    /\ editing' = [editing EXCEPT ![d] = AtRest]
    /\ shown' = shown \cup {editing[d].change}
    /\ owed' = owed \cup {editing[d].change}
    /\ LoadData(NoTunnel)
    /\ UNCHANGED <<native, busyFlags, orders>>

SaveFails(d) ==
    /\ editing[d].pc = "sent"
    /\ editing' = [editing EXCEPT ![d] = AtRest]
    /\ UNCHANGED <<native, shown, loading, busyFlags, loads, orders, owed>>

-----------------------------------------------------------------------------
\* The reply of a load, which counts when no later one has begun; the command that
\* waited for it is over either way.
LoadReply(r, ok) ==
    /\ r.seen # Unread
    /\ loads' = Less(loads, r)
    /\ IF r.live /\ ok
       THEN shown' = Snapshot(r.seen) /\ owed' = owed \cup Snapshot(r.seen)
       ELSE UNCHANGED <<shown, owed>>
    /\ loading' = (loading /\ ~r.live)
    /\ IF r.of = NoTunnel THEN UNCHANGED busyFlags ELSE Finally(r.of)
    /\ UNCHANGED <<native, orders, editing>>

\* The listener of the broadcasts.  The page may be hidden whenever the user likes,
\* and passes them over then.
PassOver(v) ==
    /\ events' = events \ {v}
    /\ UNCHANGED <<version, shown, loading, busyFlags, calls, owed>>

Broadcast(v) ==
    /\ events' = events \ {v}
    /\ IF v = 0 THEN LoadData(NoTunnel) /\ UNCHANGED shown
       ELSE shown' = Snapshot(v) /\ loading' = FALSE /\ UNCHANGED loads
    /\ UNCHANGED <<version, busyFlags, orders, editing, owed>>

Next ==
    \/ Change \/ Batch
    \/ \E r \in BagToSet(loads) : Answer(r) \/ \E ok \in BOOLEAN : LoadReply(r, ok)
    \/ \E o \in BagToSet(orders) : Execute(o) \/ Reply(o)
    \/ \E t \in Tunnels : Command(t)
    \/ \E d \in Dialogs : Save(d) \/ ExecuteEdit(d) \/ Saved(d) \/ SaveFails(d)
    \/ \E v \in events : PassOver(v) \/ Broadcast(v)

Spec == Init /\ [][Next]_vars

-----------------------------------------------------------------------------
TypeOK ==
    /\ version \in Versions /\ events \subseteq Versions
    /\ shown \cup owed \subseteq Snapshot(version)
    /\ {loading, groupBusy} \subseteq BOOLEAN
    /\ busy \in Tunnels \cup {NoTunnel}
    /\ IsABag(loads) /\ BagToSet(loads) \subseteq Load
    /\ IsABag(orders) /\ BagToSet(orders) \subseteq Order
    /\ editing \in [Dialogs -> Edit]

\* No reply of a load takes away what a load before it has shown, or what a command
\* of the user's that was answered has done: a load that was overtaken is dropped,
\* and the one a command begins has read the command's change.
LoadsNeverGoBack ==
    [][\A r \in BagToSet(loads) :
          loads' = Less(loads, r) => shown' = shown \/ owed \subseteq shown']_vars

\* What the page waits for is under way: the latest load while it says it loads, a
\* command about the tunnel whose card is busy, and the command about a group.
UnderWay(t) ==
    \/ \E o \in BagToSet(orders) : o.of = t
    \/ \E r \in BagToSet(loads) : r.of = t
TunnelSpinnersStop ==
    /\ loading => \E r \in BagToSet(loads) : r.live
    /\ busy # NoTunnel => UnderWay(busy)
    /\ groupBusy <=> UnderWay(AllTunnels)
=============================================================================
