---------------------------- MODULE DesktopProofs ----------------------------
(***************************************************************************)
(* Side by side: what holds of each part of the desktop application and of *)
(* its tools holds in their composition MCDesktop, for all instances that  *)
(* meet the assumptions of the modules.                                    *)
(*                                                                         *)
(* The argument.  A step of the composition is a step of the component in  *)
(* focus and leaves the variables of every other one alone, so it is a     *)
(* step of each or leaves it where it is: the composition implements every *)
(* component, and has what DesktopToolProofs and DesktopPageProofs show.   *)
(***************************************************************************)
EXTENDS MCDesktop, DesktopToolProofs, DesktopPageProofs

\* What is at rest while a component runs.
LEMMA Resting ==
    ASSUME NEW name, Rest(name)
    PROVE  /\ focus = name /\ UNCHANGED focus
           /\ name # "updater" => UNCHANGED updater
           /\ name # "gateway" => UNCHANGED gateway
           /\ name # "runtime" => UNCHANGED runtime
           /\ name # "cloudAgent" => UNCHANGED cloudAgent
           /\ name # "observer" => UNCHANGED observer
           /\ name # "settings" => UNCHANGED settings
           /\ name # "tunnel" => UNCHANGED tunnel
           /\ name # "workspace" => UNCHANGED workspace
           /\ name # "transfer" => UNCHANGED transfer
           /\ name # "store" => UNCHANGED store
           /\ name # "tunnelsPage" => UNCHANGED tunnelsPage
  BY DEF Rest

\* Every step of the composition is one of each component or leaves it alone.
LEMMA EachSteps ==
    ASSUME [Next]_vars
    PROVE  /\ Update!Next \/ UNCHANGED updater
           /\ Gateway!Next \/ UNCHANGED gateway
           /\ Runtime!Next \/ UNCHANGED runtime
           /\ CloudAgent!Next \/ UNCHANGED cloudAgent
           /\ Observer!Next \/ UNCHANGED observer
           /\ Settling!Next \/ UNCHANGED settings
           /\ Tunnel!Next \/ UNCHANGED tunnel
           /\ Workspace!Next \/ UNCHANGED workspace
           /\ Transfer!Next \/ UNCHANGED transfer
           /\ Store!Next \/ UNCHANGED store
           /\ TunnelList!Next \/ UNCHANGED tunnelsPage
           /\ UNCHANGED focus
<1>1. CASE Rest("updater") /\ Update!Next
  BY <1>1, Resting
<1>2. CASE Rest("gateway") /\ Gateway!Next
  BY <1>2, Resting
<1>3. CASE Rest("runtime") /\ Runtime!Next
  BY <1>3, Resting
<1>4. CASE Rest("cloudAgent") /\ CloudAgent!Next
  BY <1>4, Resting
<1>5. CASE Rest("observer") /\ Observer!Next
  BY <1>5, Resting
<1>6. CASE Rest("settings") /\ Settling!Next
  BY <1>6, Resting
<1>7. CASE Rest("tunnel") /\ Tunnel!Next
  BY <1>7, Resting
<1>8. CASE Rest("workspace") /\ Workspace!Next
  BY <1>8, Resting
<1>9. CASE Rest("transfer") /\ Transfer!Next
  BY <1>9, Resting
<1>10. CASE Rest("store") /\ Store!Next
  BY <1>10, Resting
<1>11. CASE Rest("tunnelsPage") /\ TunnelList!Next
  BY <1>11, Resting
<1>12. CASE UNCHANGED vars
  BY <1>12 DEF vars
<1> QED
  BY <1>1, <1>2, <1>3, <1>4, <1>5, <1>6, <1>7, <1>8, <1>9, <1>10, <1>11, <1>12 DEF Next

\* The composition runs the updater.
LEMMA UpdaterRuns == Spec => Update!Spec
<1>1. Init => Update!Init
  BY DEF Init
<1>2. [Next]_vars => [Update!Next]_(Update!vars)
  <2> SUFFICES ASSUME [Next]_vars
               PROVE  Update!Next \/ UNCHANGED Update!vars
    OBVIOUS
  <2>1. Update!Next \/ UNCHANGED updater
    BY EachSteps
  <2>2. UNCHANGED updater => UNCHANGED Update!vars
    BY DEF updater, Update!vars, Update!front
  <2> QED BY <2>1, <2>2
<1> QED BY <1>1, <1>2, PTL DEF Spec, Update!Spec

\* The composition runs the page of the gateway.
LEMMA GatewayRuns == Spec => Gateway!Spec
<1>1. Init => Gateway!Init
  BY DEF Init
<1>2. [Next]_vars => [Gateway!Next]_(Gateway!vars)
  <2> SUFFICES ASSUME [Next]_vars
               PROVE  Gateway!Next \/ UNCHANGED Gateway!vars
    OBVIOUS
  <2>1. Gateway!Next \/ UNCHANGED gateway
    BY EachSteps
  <2>2. UNCHANGED gateway => UNCHANGED Gateway!vars
    BY DEF gateway, Gateway!vars, Gateway!page, Gateway!scoped
  <2> QED BY <2>1, <2>2
<1> QED BY <1>1, <1>2, PTL DEF Spec, Gateway!Spec

\* The composition runs the runtime status.
LEMMA RuntimeRuns == Spec => Runtime!Spec
<1>1. Init => Runtime!Init
  BY DEF Init
<1>2. [Next]_vars => [Runtime!Next]_(Runtime!vars)
  <2> SUFFICES ASSUME [Next]_vars
               PROVE  Runtime!Next \/ UNCHANGED Runtime!vars
    OBVIOUS
  <2>1. Runtime!Next \/ UNCHANGED runtime
    BY EachSteps
  <2>2. UNCHANGED runtime => UNCHANGED Runtime!vars
    BY DEF runtime, Runtime!vars, Runtime!entry
  <2> QED BY <2>1, <2>2
<1> QED BY <1>1, <1>2, PTL DEF Spec, Runtime!Spec

\* The composition runs the page of the cloud agent.
LEMMA CloudAgentRuns == Spec => CloudAgent!Spec
<1>1. Init => CloudAgent!Init
  BY DEF Init
<1>2. [Next]_vars => [CloudAgent!Next]_(CloudAgent!vars)
  <2> SUFFICES ASSUME [Next]_vars
               PROVE  CloudAgent!Next \/ UNCHANGED CloudAgent!vars
    OBVIOUS
  <2>1. CloudAgent!Next \/ UNCHANGED cloudAgent
    BY EachSteps
  <2>2. UNCHANGED cloudAgent => UNCHANGED CloudAgent!vars
    BY DEF cloudAgent, CloudAgent!vars, CloudAgent!shown, CloudAgent!spinners
  <2> QED BY <2>1, <2>2
<1> QED BY <1>1, <1>2, PTL DEF Spec, CloudAgent!Spec

\* The composition runs the settings page.
LEMMA SettingsRuns == Spec => Settling!Spec
<1>1. Init => Settling!Init
  BY DEF Init
<1>2. [Next]_vars => [Settling!Next]_(Settling!vars)
  <2> SUFFICES ASSUME [Next]_vars
               PROVE  Settling!Next \/ UNCHANGED Settling!vars
    OBVIOUS
  <2>1. Settling!Next \/ UNCHANGED settings
    BY EachSteps
  <2>2. UNCHANGED settings => UNCHANGED Settling!vars
    BY DEF settings, Settling!vars, Settling!page
  <2> QED BY <2>1, <2>2
<1> QED BY <1>1, <1>2, PTL DEF Spec, Settling!Spec

\* The composition runs the SSH tunnel.
LEMMA TunnelRuns == Spec => Tunnel!Spec
<1>1. Init => Tunnel!Init
  BY DEF Init
<1>2. [Next]_vars => [Tunnel!Next]_(Tunnel!vars)
  <2> SUFFICES ASSUME [Next]_vars
               PROVE  Tunnel!Next \/ UNCHANGED Tunnel!vars
    OBVIOUS
  <2>1. Tunnel!Next \/ UNCHANGED tunnel
    BY EachSteps
  <2>2. UNCHANGED tunnel => UNCHANGED Tunnel!vars
    BY DEF tunnel, Tunnel!vars, Tunnel!history
  <2> QED BY <2>1, <2>2
<1> QED BY <1>1, <1>2, PTL DEF Spec, Tunnel!Spec

\* The composition runs the page of the workspaces.
LEMMA WorkspaceRuns == Spec => Workspace!Spec
<1>1. Init => Workspace!Init
  BY DEF Init
<1>2. [Next]_vars => [Workspace!Next]_(Workspace!vars)
  <2> SUFFICES ASSUME [Next]_vars
               PROVE  Workspace!Next \/ UNCHANGED Workspace!vars
    OBVIOUS
  <2>1. Workspace!Next \/ UNCHANGED workspace
    BY EachSteps
  <2>2. UNCHANGED workspace => UNCHANGED Workspace!vars
    BY DEF workspace, Workspace!vars, Workspace!shownHere, Workspace!turning
  <2> QED BY <2>1, <2>2
<1> QED BY <1>1, <1>2, PTL DEF Spec, Workspace!Spec

\* The composition runs the SFTP transfer.
LEMMA TransferRuns == Spec => Transfer!Spec
<1>1. Init => Transfer!Init
  BY DEF Init
<1>2. [Next]_vars => [Transfer!Next]_(Transfer!vars)
  <2> SUFFICES ASSUME [Next]_vars
               PROVE  Transfer!Next \/ UNCHANGED Transfer!vars
    OBVIOUS
  <2>1. Transfer!Next \/ UNCHANGED transfer
    BY EachSteps
  <2>2. UNCHANGED transfer => UNCHANGED Transfer!vars
    BY DEF transfer, Transfer!vars, Transfer!now, Transfer!histories
  <2> QED BY <2>1, <2>2
<1> QED BY <1>1, <1>2, PTL DEF Spec, Transfer!Spec

\* The composition runs the configuration store.
LEMMA StoreRuns == Spec => Store!Spec
<1>1. Init => Store!Init
  BY DEF Init
<1>2. [Next]_vars => [Store!Next]_(Store!vars)
  <2> SUFFICES ASSUME [Next]_vars
               PROVE  Store!Next \/ UNCHANGED Store!vars
    OBVIOUS
  <2>1. Store!Next \/ UNCHANGED store
    BY EachSteps
  <2>2. UNCHANGED store => UNCHANGED Store!vars
    BY DEF store, Store!vars
  <2> QED BY <2>1, <2>2
<1> QED BY <1>1, <1>2, PTL DEF Spec, Store!Spec

\* The composition runs the page of the tunnels.
LEMMA TunnelsPageRuns == Spec => TunnelList!Spec
<1>1. Init => TunnelList!Init
  BY DEF Init
<1>2. [Next]_vars => [TunnelList!Next]_(TunnelList!vars)
  <2> SUFFICES ASSUME [Next]_vars
               PROVE  TunnelList!Next \/ UNCHANGED TunnelList!vars
    OBVIOUS
  <2>1. TunnelList!Next \/ UNCHANGED tunnelsPage
    BY EachSteps
  <2>2. UNCHANGED tunnelsPage => UNCHANGED TunnelList!vars
    BY DEF tunnelsPage, TunnelList!vars, TunnelList!busyFlags, TunnelList!native,
       TunnelList!calls
  <2> QED BY <2>1, <2>2
<1> QED BY <1>1, <1>2, PTL DEF Spec, TunnelList!Spec

\* The composition runs the cache diagnostics tool.
LEMMA ObserverRuns == Spec => Observer!Spec
<1>1. Init => Observer!Init
  BY DEF Init
<1>2. [Next]_vars => [Observer!Next]_(Observer!vars)
  <2> SUFFICES ASSUME [Next]_vars
               PROVE  Observer!Next \/ UNCHANGED Observer!vars
    OBVIOUS
  <2>1. Observer!Next \/ UNCHANGED observer
    BY EachSteps
  <2>2. UNCHANGED observer => UNCHANGED Observer!vars
    BY DEF observer, Observer!vars, Observer!contexts, Observer!reports
  <2> QED BY <2>1, <2>2
<1> QED BY <1>1, <1>2, PTL DEF Spec, Observer!Spec

-----------------------------------------------------------------------------
\* Of the components one is in focus.
LEMMA InFocusAlways == Spec => [](focus \in Focuses)
<1>1. Init => focus \in Focuses
  BY DEF Init
<1>2. focus \in Focuses /\ [Next]_vars => (focus \in Focuses)'
  BY EachSteps
<1> QED BY <1>1, <1>2, PTL DEF Spec

\* A tunnel has at most one thread at work, besides one that is about to be stopped, for
\* any number of users, threads and panics.
THEOREM OneTunnelWorks == Spec => []OneWorks
<1>1. Tunnel!Spec => []Tunnel!OneWorks
  BY OneThreadWorks, DesktopAssumption
<1>2. Tunnel!OneWorks => OneWorks
  BY DEF OneWorks
<1> QED BY <1>1, <1>2, TunnelRuns, PTL

\* A disconnect holds.
THEOREM TunnelsStayDown == Spec => []DisconnectHolds
<1>1. Tunnel!Spec => []Tunnel!DisconnectHolds
  BY DisconnectsHold, DesktopAssumption
<1>2. Tunnel!DisconnectHolds => DisconnectHolds
  BY DEF DisconnectHolds
<1> QED BY <1>1, <1>2, TunnelRuns, PTL

\* One check counts at a time and an update that waits is shown.
THEOREM UpdaterInAgreement == Spec => []UpdaterAgrees
<1>1. Update!Spec => []Update!OneFlight /\ []Update!PendingIsShown
  <2>1. Update!Spec => []Update!OneFlight
    BY OneCheckAtATime, DesktopAssumption
  <2>2. Update!Spec => []Update!PendingIsShown
    BY PendingShown, DesktopAssumption
  <2> QED BY <2>1, <2>2, PTL
<1>2. Update!OneFlight /\ Update!PendingIsShown => UpdaterAgrees
  BY DEF UpdaterAgrees
<1> QED BY <1>1, <1>2, UpdaterRuns, PTL

\* A failed download leaves the target alone and a failed transfer can be tried again.
THEOREM TransfersKept == Spec => []TransferKept
<1>1. Transfer!Spec => []TransferInv
  BY AlwaysTransferInv, DesktopAssumption
<1>2. TransferInv => TransferKept
  BY TransferPromises DEF TransferKept
<1> QED BY <1>1, <1>2, TransferRuns, PTL

\* The store's cache never vouches for what the file does not say.
THEOREM CachesAreFresh == Spec => []CacheFresh
<1>1. Store!Spec => []Store!CacheFresh
  BY CacheIsFresh, DesktopAssumption
<1>2. Store!CacheFresh => CacheFresh
  BY DEF CacheFresh
<1> QED BY <1>1, <1>2, StoreRuns, PTL

\* The store implements the register.
THEOREM RegisterImplemented == Spec => StoreIsRegister
<1>1. Store!Spec => Store!IsRegister
  BY StoreIsARegister, DesktopAssumption
<1>2. [Store!Register!Next]_(Store!Register!vars) =>
        [focus = "store" => Store!Register!Next]_(Store!Register!vars)
  OBVIOUS
<1> QED
  BY <1>1, <1>2, StoreRuns, PTL DEF StoreIsRegister, Store!IsRegister, Store!Register!Spec

\* What a page shows of a host or a workspace is of the one that is selected.
THEOREM PagesShowTheirOwn == Spec => []OwnOnly
<1>1. CloudAgent!Spec => []CloudAgentInv
  BY AlwaysCloudAgentInv, DesktopAssumption
<1>2. Workspace!Spec => []WorkspaceInv
  BY AlwaysWorkspaceInv, DesktopAssumption
<1>3. CloudAgentInv /\ WorkspaceInv => OwnOnly
  BY WorkspacePromises DEF OwnOnly, CloudAgentInv
<1> QED BY <1>1, <1>2, <1>3, CloudAgentRuns, WorkspaceRuns, PTL

\* No reply that was overtaken brings back what a page has moved on from.
THEOREM RepliesNeverGoBack == Spec => NothingGoesBack
<1>1. Gateway!Spec => Gateway!ReadsNeverGoBack
  BY RepliesDoNotGoBack, DesktopAssumption
<1>2. Runtime!Spec => Runtime!RepliesNeverGoBack
  BY RuntimeNeverGoesBack, DesktopAssumption
<1>3. TunnelList!Spec => TunnelList!LoadsNeverGoBack
  BY TunnelsNeverGoBack, DesktopAssumption
<1> QED
  BY <1>1, <1>2, <1>3, GatewayRuns, RuntimeRuns, TunnelsPageRuns, PTL DEF NothingGoesBack

\* A save stores its section and nothing else, and settles its drafts only.
THEOREM SectionsAreApart == Spec => SectionsKeepApart
<1>1. Settling!Spec => Settling!OnlySavedIsStored
  BY OnlyTheSectionIsStored, DesktopAssumption
<1>2. Settling!Spec => Settling!DraftsSurvive
  BY UnsavedDraftsSurvive, DesktopAssumption
<1> QED BY <1>1, <1>2, SettingsRuns, PTL DEF SectionsKeepApart

\* No page waits for what nobody does.
THEOREM NobodyWaits == Spec => []NobodyWaitsInVain
<1>1. Update!Spec => []Update!CheckingHasFlight
  BY SpinnerHasFlight, DesktopAssumption
<1>2. Gateway!Spec => []Gateway!NeverLockedOut
  BY BroadcastsFindRoom, DesktopAssumption
<1>3. Runtime!Spec => []RuntimeInv
  BY AlwaysRuntimeInv, DesktopAssumption
<1>4. CloudAgent!Spec => []CloudAgentInv
  BY AlwaysCloudAgentInv, DesktopAssumption
<1>5. Workspace!Spec => []WorkspaceInv
  BY AlwaysWorkspaceInv, DesktopAssumption
<1>6. Transfer!Spec => []TransferInv
  BY AlwaysTransferInv, DesktopAssumption
<1>7. TunnelList!Spec => []TunnelsInv
  BY AlwaysTunnelsInv, DesktopAssumption
<1>8. /\ Update!CheckingHasFlight /\ Gateway!NeverLockedOut /\ RuntimeInv
      /\ CloudAgentInv /\ WorkspaceInv /\ TransferInv /\ TunnelsInv
      => NobodyWaitsInVain
  <2> SUFFICES ASSUME Update!CheckingHasFlight, Gateway!NeverLockedOut, RuntimeInv,
                      CloudAgentInv, WorkspaceInv, TransferInv, TunnelsInv
               PROVE  NobodyWaitsInVain
    OBVIOUS
  <2>1. /\ Runtime!LoadingIsFetched /\ CloudAgent!SpinnersStop
        /\ TunnelList!TunnelSpinnersStop
    BY DEF RuntimeInv, CloudAgentInv, TunnelsInv
  <2>2. Workspace!WorkspaceSpinnersStop
    BY WorkspacePromises
  <2>3. Transfer!CardsEnd
    BY TransferPromises
  <2> QED BY <2>1, <2>2, <2>3 DEF NobodyWaitsInVain
<1> QED
  BY <1>1, <1>2, <1>3, <1>4, <1>5, <1>6, <1>7, <1>8, UpdaterRuns, GatewayRuns,
     RuntimeRuns, CloudAgentRuns, WorkspaceRuns, TransferRuns, TunnelsPageRuns, PTL

\* The cache diagnostics compare a request with the last one that was over, and none that
\* overlapped another, and no report waits in vain.
THEOREM RequestsComparedRightly == Spec => []ComparedRightly
<1>1. Observer!Spec =>
        [](Observer!OverlapIsSymmetric /\ Observer!ComparedWithLast /\ Observer!NothingStuck)
  BY ReportsAreRight, DesktopAssumption
<1>2. /\ Observer!OverlapIsSymmetric /\ Observer!ComparedWithLast /\ Observer!NothingStuck
      => ComparedRightly
  BY DEF ComparedRightly
<1> QED BY <1>1, <1>2, ObserverRuns, PTL

\* The values of each component keep their types.
THEOREM DesktopTypeCorrect == Spec => []TypeOK
<1>1. Tunnel!Spec => []Tunnel!TypeOK
  BY TunnelTypeCorrect, DesktopAssumption
<1>2. Update!Spec => []Update!TypeOK
  BY UpdaterTypeCorrect, DesktopAssumption
<1>3. Transfer!Spec => []TransferInv
  BY AlwaysTransferInv, DesktopAssumption
<1>4. Store!Spec => []Store!TypeOK
  BY StoreTypeCorrect, DesktopAssumption
<1>5. Observer!Spec => []ObserverInv
  BY AlwaysObserverInv, DesktopAssumption
<1>6. Gateway!Spec => []Gateway!TypeOK
  BY GatewayTypeCorrect, DesktopAssumption
<1>7. Runtime!Spec => []RuntimeInv
  BY AlwaysRuntimeInv, DesktopAssumption
<1>8. CloudAgent!Spec => []CloudAgentInv
  BY AlwaysCloudAgentInv, DesktopAssumption
<1>9. Workspace!Spec => []WorkspaceInv
  BY AlwaysWorkspaceInv, DesktopAssumption
<1>10. TunnelList!Spec => []TunnelsInv
  BY AlwaysTunnelsInv, DesktopAssumption
<1>11. Settling!Spec => []SettingsInv
  BY AlwaysSettingsInv, DesktopAssumption
<1>12. /\ Tunnel!TypeOK /\ Update!TypeOK /\ TransferInv /\ Store!TypeOK /\ ObserverInv
       /\ Gateway!TypeOK /\ RuntimeInv /\ CloudAgentInv /\ WorkspaceInv /\ TunnelsInv
       /\ SettingsInv /\ focus \in Focuses
       => TypeOK
  <2> SUFFICES ASSUME Tunnel!TypeOK, Update!TypeOK, TransferInv, Store!TypeOK, ObserverInv,
                      Gateway!TypeOK, RuntimeInv, CloudAgentInv, WorkspaceInv, TunnelsInv,
                      SettingsInv, focus \in Focuses
               PROVE  TypeOK
    OBVIOUS
  <2>1. Transfer!TypeOK /\ Observer!TypeOK
    BY DEF TransferInv, ObserverInv
  <2>2. Runtime!TypeOK /\ CloudAgent!TypeOK /\ Workspace!TypeOK
    BY DEF RuntimeInv, CloudAgentInv, WorkspaceInv
  <2>3. TunnelList!TypeOK /\ Settling!TypeOK
    BY DEF TunnelsInv, SettingsInv
  <2> QED BY <2>1, <2>2, <2>3 DEF TypeOK, Focuses
<1>13. Spec => [](/\ Tunnel!TypeOK /\ Update!TypeOK /\ TransferInv /\ Store!TypeOK
                  /\ ObserverInv)
  BY <1>1, <1>2, <1>3, <1>4, <1>5, TunnelRuns, UpdaterRuns, TransferRuns, StoreRuns,
     ObserverRuns, PTL
<1>14. Spec => [](/\ Gateway!TypeOK /\ RuntimeInv /\ CloudAgentInv /\ WorkspaceInv
                  /\ TunnelsInv /\ SettingsInv)
  BY <1>6, <1>7, <1>8, <1>9, <1>10, <1>11, GatewayRuns, RuntimeRuns, CloudAgentRuns,
     WorkspaceRuns, TunnelsPageRuns, SettingsRuns, PTL
<1> QED BY <1>12, <1>13, <1>14, InFocusAlways, PTL
=============================================================================
