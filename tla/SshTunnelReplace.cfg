\* A user connects a tunnel anew while its thread waits to try again.
SPECIFICATION Spec
CONSTANTS
    Users = {u1}
    Watchdog = Watchdog
    Nobody = Nobody
    Threads = {t1, t2}
    NoThread = NoThread
    MaxPanics = 0
INVARIANT ReplacedRuns
