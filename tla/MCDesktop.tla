------------------------------ MODULE MCDesktop ------------------------------
(* The components of the desktop application and of its tools that are not on the
   gateway's request path, side by side.  They share no state and call none of
   each other, so what one of them may do does not depend on where the others
   are: `focus' names the one that runs, and the behaviours of each are explored
   with the rest at their start.                                               *)
EXTENDS DesktopTools, DesktopPages

VARIABLE focus

\* normalizeConfigForUi completes the section of the device file only.
NormalForm ==
    [f \in Profile \cup Device |->
        [v \in Values |-> IF f \in Device THEN Initial ELSE v]]

ASSUME DesktopAssumption ==
    /\ Update!UpdaterAssumption
    /\ Gateway!GatewayPageAssumption
    /\ Runtime!RuntimeStatusAssumption
    /\ CloudAgent!CloudAgentPageAssumption
    /\ Observer!CacheObserverAssumption
    /\ Settling!SettingsPageAssumption
    /\ Tunnel!SshTunnelAssumption
    /\ Workspace!WorkspacePageAssumption
    /\ Transfer!SftpTransferAssumption
    /\ Store!ConfigStoreAssumption
    /\ TunnelList!TunnelsPageAssumption

Focuses == {"updater", "gateway", "runtime", "cloudAgent", "observer",
            "settings", "tunnel", "workspace", "transfer", "store", "tunnelsPage"}

\* All but the component in focus stay where they are.
Rest(name) ==
    /\ focus = name
    /\ UNCHANGED focus
    /\ IF name = "updater" THEN TRUE ELSE UNCHANGED updater
    /\ IF name = "gateway" THEN TRUE ELSE UNCHANGED gateway
    /\ IF name = "runtime" THEN TRUE ELSE UNCHANGED runtime
    /\ IF name = "cloudAgent" THEN TRUE ELSE UNCHANGED cloudAgent
    /\ IF name = "observer" THEN TRUE ELSE UNCHANGED observer
    /\ IF name = "settings" THEN TRUE ELSE UNCHANGED settings
    /\ IF name = "tunnel" THEN TRUE ELSE UNCHANGED tunnel
    /\ IF name = "workspace" THEN TRUE ELSE UNCHANGED workspace
    /\ IF name = "transfer" THEN TRUE ELSE UNCHANGED transfer
    /\ IF name = "store" THEN TRUE ELSE UNCHANGED store
    /\ IF name = "tunnelsPage" THEN TRUE ELSE UNCHANGED tunnelsPage

Init ==
    /\ focus \in Focuses
    /\ Update!Init /\ Gateway!Init /\ Runtime!Init /\ CloudAgent!Init
    /\ Observer!Init /\ Settling!Init /\ (focus # "settings" => stored = saved)
    /\ (focus = "settings" => \A f \in Settling!Fields : stored[f] # saved[f])
    /\ Tunnel!Init /\ Workspace!Init
    /\ Transfer!Init /\ (focus = "transfer" \/ download)
    /\ Store!Init /\ (focus = "store" \/ disk.id = 0)
    /\ TunnelList!Init

Next ==
    \/ Rest("updater") /\ Update!Next
    \/ Rest("gateway") /\ Gateway!Next
    \/ Rest("runtime") /\ Runtime!Next
    \/ Rest("cloudAgent") /\ CloudAgent!Next
    \/ Rest("observer") /\ Observer!Next
    \/ Rest("settings") /\ Settling!Next
    \/ Rest("tunnel") /\ Tunnel!Next
    \/ Rest("workspace") /\ Workspace!Next
    \/ Rest("transfer") /\ Transfer!Next
    \/ Rest("store") /\ Store!Next
    \/ Rest("tunnelsPage") /\ TunnelList!Next

vars == <<focus, updater, gateway, runtime, cloudAgent,
          observer, settings, tunnel, workspace, transfer, store, tunnelsPage>>

Spec == Init /\ [][Next]_vars

\* The names of the sessions are all alike, so the first request is of a given one.
\* No more than three requests are open at once, two of the last ones, and a thread
\* ends unexpectedly while one command at most is under way.  The page of the tunnels
\* has one broadcast on its way at a time, and three loads and commands, two of them
\* once the last change is made.  The stores of the settings hold something else than
\* the defaults; one of the loads the page was opened with at most is under way once
\* anything is changed, it is over before the last change, and none fails before the first.
Bounded ==
    /\ focus = "observer" =>
        /\ Cardinality(open) <= IF arrived < MaxArrivals THEN 3 ELSE 2
        /\ arrived > 0 => session[1] = CHOOSE s \in Sessions : TRUE
    /\ focus = "settings" =>
        /\ mount.due = {} \/ changes < MaxChanges
        /\ \/ changes = 0 /\ other.pc = "none"
           \/ \E own \in {Settling!File, Own, Settling!Gateway} : mount.due \subseteq own
        /\ changes = 0 => \A f \in Settling!Fields \ mount.due :
                            saved[f] = Settling!Shown(stored)[f]
    /\ focus = "tunnel" /\ panics > 0 =>
        Cardinality({c \in Tunnel!Callers : callers[c].pc # "idle"}) <= 1
    /\ focus = "tunnelsPage" =>
        /\ Cardinality(posted) <= 1
        /\ BagCardinality(loads) + BagCardinality(orders)
             + Cardinality({d \in Dialogs : editing[d].pc # "rest"})
             <= IF revision < MaxTunnelChanges THEN 3 ELSE 2

\* What tells two states apart: the others are where they started, and checks,
\* threads and users, fetches, attempts, clients and tunnels each are alike, so that
\* it does not matter which of them is in which state, but how many are.
Alike(S, StateOf(_)) ==
    [x \in {StateOf(e) : e \in S} |-> Cardinality({e \in S : StateOf(e) = x})]

CheckState(c) == <<checks[c], flight = c>>
FetchState(f) == <<fetches[f], joinable = f>>
AttemptState(a) == <<attempts[a], registered = a>>
CallerState(c) == <<callers[c].pc, c = Watchdog, claim = c>>
CallersAt(t) == Alike({c \in Tunnel!Callers : callers[c].thread = t}, CallerState)
ThreadState(t) == <<threads[t], instance = t, CallersAt(t)>>

\* What is about a tunnel, without its name.
AboutIt(bag, t) ==
    {<<[e EXCEPT !.of = NoTunnel], bag[e]>> : e \in {b \in BagToSet(bag) : b.of = t}}
TunnelState(t) == <<busy = t, AboutIt(loads, t), AboutIt(orders, t)>>

\* There are two clients, so that a content is known by whether a client's setting is
\* on and whether the other one's is.
Sides(content, c) == <<c \in content, content \subseteq {c}>>
ClientState(c) ==
    <<Sides(disk.content, c), Sides(cached.content, c), writeLock = c,
      [calls[c] EXCEPT !.content = Sides(@, c)],
      {Sides(content, c) : content \in during[c]}>>

InFocus ==
    CASE focus = "updater" ->
            <<status, checking, installable, manifest, pending, epoch, downloads,
              installs, entry, running, Alike(Checks, CheckState)>>
      [] focus = "gateway" -> gateway
      [] focus = "runtime" ->
            <<turn, payloads, data, loading, failed, queued, readers,
              Alike(Fetches, FetchState)>>
      [] focus = "cloudAgent" -> cloudAgent
      [] focus = "observer" -> observer
      [] focus = "settings" -> settings
      [] focus = "tunnel" ->
            <<desired, locked, panics, wanted, raced, CallersAt(NoThread),
              Alike(Threads, ThreadState)>>
      [] focus = "workspace" -> workspace
      [] focus = "transfer" ->
            <<download, card, events, cancels, file, disturbed, cleared,
              unannounced, Alike(Attempts, AttemptState)>>
      [] focus = "store" ->
            <<disk.id, disk.legacy, cached.id, Alike(Clients, ClientState)>>
      [] focus = "tunnelsPage" ->
            <<revision, posted, shown, listLoading, groupBusy, editing, owed,
              AboutIt(loads, NoTunnel), AboutIt(loads, AllTunnels),
              AboutIt(orders, AllTunnels), Alike(Tunnels, TunnelState)>>
View == <<focus, InFocus>>

-----------------------------------------------------------------------------
(* The properties, each stated and explained in the module of its component. *)

\* The values of the component that runs keep their types.
TypeOK ==
    CASE focus = "updater" -> Update!TypeOK
      [] focus = "gateway" -> Gateway!TypeOK
      [] focus = "runtime" -> Runtime!TypeOK
      [] focus = "cloudAgent" -> CloudAgent!TypeOK
      [] focus = "observer" -> Observer!TypeOK
      [] focus = "settings" -> Settling!TypeOK
      [] focus = "tunnel" -> Tunnel!TypeOK
      [] focus = "workspace" -> Workspace!TypeOK
      [] focus = "transfer" -> Transfer!TypeOK
      [] focus = "store" -> Store!TypeOK
      [] focus = "tunnelsPage" -> TunnelList!TypeOK

\* No page waits for what nobody does: a check that is shown has its flight, a page
\* that loads its read, a spinner and a card what will stop it; and a gateway page
\* that puts a broadcast off is reading.
NobodyWaitsInVain ==
    CASE focus = "updater" -> Update!CheckingHasFlight
      [] focus = "gateway" -> Gateway!NeverLockedOut
      [] focus = "runtime" -> Runtime!LoadingIsFetched
      [] focus = "cloudAgent" -> CloudAgent!SpinnersStop
      [] focus = "workspace" -> Workspace!WorkspaceSpinnersStop
      [] focus = "transfer" -> Transfer!CardsEnd
      [] focus = "tunnelsPage" -> TunnelList!TunnelSpinnersStop
      [] OTHER -> TRUE

\* No reply that was overtaken brings back what the gateway page, the runtime status
\* the pages share, or the list of the tunnels has moved on from.
NothingGoesBack ==
    /\ Gateway!ReadsNeverGoBack
    /\ Runtime!RepliesNeverGoBack
    /\ TunnelList!LoadsNeverGoBack

\* The updater counts on one check at a time, and an update that waits to be
\* installed is shown, whatever checks end meanwhile.
UpdaterAgrees == focus = "updater" => Update!OneFlight /\ Update!PendingIsShown

\* The pages of the cloud agent and of the workspaces show what was read of the
\* host or the workspace that is selected.
OwnOnly ==
    /\ focus = "cloudAgent" => CloudAgent!OwnHostOnly
    /\ focus = "workspace" => Workspace!OwnWorkspaceOnly

\* The cache diagnostics see an overlap from both sides, compare a request with the
\* last one that was over, and report every request in the end.
ComparedRightly ==
    focus = "observer" => /\ Observer!OverlapIsSymmetric
                          /\ Observer!ComparedWithLast
                          /\ Observer!NothingStuck

\* A save stores the section that is saved and nothing else, and only it settles
\* the drafts the user has made once the section has been loaded.
SectionsKeepApart == Settling!OnlySavedIsStored /\ Settling!DraftsSurvive

\* The gateway's configuration store implements the register its callers take it
\* for, and its cache never vouches for what the file does not say.
StoreIsRegister ==
    Store!Register!Init /\ [][focus = "store" => Store!Register!Next]_Store!Register!vars
CacheFresh == focus = "store" => Store!CacheFresh

\* A tunnel has at most one thread at work, besides one that is about to be stopped, and
\* stays down once the user has disconnected it.
OneWorks == focus = "tunnel" => Tunnel!OneWorks
DisconnectHolds == focus = "tunnel" => Tunnel!DisconnectHolds

\* A failed download leaves the target alone, and a failed transfer can be tried
\* again.
TransferKept ==
    focus = "transfer" => Transfer!FailureKeepsFile /\ Transfer!RetryOffered
=============================================================================
