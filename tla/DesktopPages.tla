----------------------------- MODULE DesktopPages -----------------------------
(* The pages of the desktop application and the status they share: each is an
   instance of its module, over variables of its own.                           *)
EXTENDS Naturals, FiniteSets, Bags

CONSTANTS
    Reads, First, Commands, MaxPageChanges, MaxHidden,            \* GatewayPage
    Fetches, Readers, NoFetch, MaxTurns, MaxPayloads,             \* RuntimeStatus
    Hosts, NoHost, MaxHostReads, MaxActs,                         \* CloudAgentPage
    Profile, Device, Own, Settings, Days, Minutes, Refusable,     \* SettingsPage
    Values, Initial, Invalid, Normal, MaxChanges,
    Workspaces, NoWorkspace, MaxRequests, MaxTasks,               \* WorkspacePage
    Tunnels, NoTunnel, AllTunnels, Dialogs, MaxTunnelChanges,     \* TunnelsPage
    MaxLoads, MaxOrders

VARIABLES
    version, broadcasts, shownConfig, shownStatus, visible, inFlight, followUp,
    reads, commands, loadError, hidden, savedProvider,
    turn, payloads, data, loading, failed, joinable, queued, fetches, readers,
    booted, selectedHost, online, lists, installation, installationError,
    hostLoading, installationLoading, deploying, hostReads, acts,
    stored, mount, saved, draft, job, other, changes, overlapped,
    onSessions, active, detail, sessions, detailLoading, sessionsLoading,
    requests, tasks, strayed, idleSpin,
    revision, posted, shown, listLoading, busy, groupBusy, editing, loads, orders, owed

gateway == <<version, broadcasts, shownConfig, shownStatus, visible, inFlight,
    followUp, reads, commands, loadError, hidden, savedProvider>>
runtime == <<turn, payloads, data, loading, failed, joinable, queued, fetches,
    readers>>
cloudAgent == <<booted, selectedHost, online, lists, installation,
    installationError, hostLoading, installationLoading, deploying, hostReads,
    acts>>
settings == <<stored, mount, saved, draft, job, other, changes, overlapped>>
workspace == <<onSessions, active, detail, sessions, detailLoading, sessionsLoading,
    requests, tasks, strayed, idleSpin>>
tunnelsPage == <<revision, posted, shown, listLoading, busy, groupBusy, editing,
    loads, orders, owed>>

Gateway == INSTANCE GatewayPage WITH
    events <- broadcasts, pending <- followUp, saved <- savedProvider,
    MaxChanges <- MaxPageChanges
Runtime == INSTANCE RuntimeStatus WITH MaxEvents <- MaxPayloads
CloudAgent == INSTANCE CloudAgentPage WITH
    selected <- selectedHost, loading <- hostLoading
Settling == INSTANCE SettingsPage
Workspace == INSTANCE WorkspacePage
TunnelList == INSTANCE TunnelsPage WITH
    version <- revision, events <- posted, loading <- listLoading
=============================================================================
