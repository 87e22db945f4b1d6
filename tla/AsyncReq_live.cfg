SPECIFICATION ArFairSpec
CONSTANTS
    Objs = {async, channel}
    Async = async
    NoObj = noObj
    Renewable = {}
    Workers = {w1, w2}
    NoWorker = noWorker
    Reqs = {r1}
    BgReqs = {}
    TimerReq = timerReq
    ShutdownReq = shutdownReq
    NoReq = noReq
    MAX_WORKER_THREADS = 1
PROPERTIES
    RequestsComplete
    PoolShutdownCompletes
CHECK_DEADLOCK FALSE
