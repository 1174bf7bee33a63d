SPECIFICATION Spec
CONSTANTS
    Checks = {c1, c2}
    Downloads = {d1}
    NoCheck = NoCheck
    MaxRelease = 2
    MaxEpoch = 1
    Reads = {r1, r2}
    First = r1
    Commands = {p1}
    MaxPageChanges = 2
    MaxHidden = 1
    Fetches = {f1, f2}
    Readers = {g1}
    NoFetch = NoFetch
    MaxTurns = 3
    MaxPayloads = 2
    Hosts = {h1, h2}
    NoHost = NoHost
    MaxHostReads = 4
    MaxActs = 1
    Sessions = {s1, s2}
    NoSession = NoSession
    MaxArrivals = 4
    Profile = {news}
    Device = {general}
    Own = {ssl}
    Settings = settings
    Days = days
    Minutes = minutes
    Refusable = {news, days}
    Values = {v0, v1}
    Initial = v0
    Invalid = Invalid
    Normal <- NormalForm
    MaxChanges = 2
    Users = {u1, u2}
    Watchdog = Watchdog
    Nobody = Nobody
    Threads = {t1, t2}
    NoThread = NoThread
    MaxPanics = 1
    Workspaces = {w1, w2}
    NoWorkspace = NoWorkspace
    MaxRequests = 2
    MaxTasks = 1
    Attempts = {a1, a2}
    NoAttempt = NoAttempt
    MaxEvents = 1
    MaxCancels = 1
    Clients = {q1, q2}
    MaxPublications = 2
    Tunnels = {l1, l2}
    NoTunnel = NoTunnel
    AllTunnels = AllTunnels
    Dialogs = {x1}
    MaxTunnelChanges = 2
    MaxLoads = 2
    MaxOrders = 2
CONSTRAINT Bounded
VIEW View
INVARIANTS
    TypeOK
    NobodyWaitsInVain
    UpdaterAgrees
    OwnOnly
    ComparedRightly
    OneWorks
    DisconnectHolds
    TransferKept
    CacheFresh
PROPERTIES
    NothingGoesBack
    SectionsKeepApart
    StoreIsRegister
CHECK_DEADLOCK FALSE
