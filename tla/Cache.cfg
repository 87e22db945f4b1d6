SPECIFICATION CaFairSpec
CONSTANTS
    Caches = {sym, rc}
    Clients = {a, b}
    NoClient = noClient
    Channels = {ch}
    NoChannel = noChannel
    HasArgs = {a}
    Nests = {}
    IdMod = 3
    MaxMiss = 2
INVARIANTS
    WaitersExact
PROPERTIES
    NoLostClient
    ClientRunsAgain
CHECK_DEADLOCK FALSE
