SPECIFICATION FairSpec
CONSTANTS
    Services = {s1, s2}
    Commands = {c1, c2}
    Ports = {p1}
    MaxLaunches = 3
    NoProcess = NoProcess
    NoInfo = NoInfo
CHECK_DEADLOCK FALSE
INVARIANTS
    TypeOK
    SingleRuntime
    RequestsReachTheirInstance
    AtMostOneExecution
PROPERTIES
    DiscoveryEnds
    ServicesStart
