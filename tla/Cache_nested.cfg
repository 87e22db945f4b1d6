SPECIFICATION CaSpec
CONSTANTS
    Caches = {sym, rc}
    Clients = {sync, eval}
    NoClient = noClient
    Channels = {ch}
    NoChannel = noChannel
    HasArgs = {eval}
    Nests = {sync}
    IdMod = 4
    MaxMiss = 1
INVARIANTS
    ExitKept
CHECK_DEADLOCK FALSE
