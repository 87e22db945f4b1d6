SPECIFICATION ArSpec
CONSTANTS
    Objs = {async, channel}
    Async = async
    NoObj = noObj
    Renewable = {channel}
    Workers = {w1, w2, w3}
    NoWorker = noWorker
    Reqs = {r1, r2, bg}
    BgReqs = {bg}
    TimerReq = timerReq
    ShutdownReq = shutdownReq
    NoReq = noReq
    MAX_WORKER_THREADS = 1
INVARIANTS
    ReqConservation
    PoolExact
    ShutdownDrains
    NotificationsExact
PROPERTIES
    UsesShutdown
CHECK_DEADLOCK FALSE
SYMMETRY Symmetry
