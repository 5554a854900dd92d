SPECIFICATION FairSpec
CONSTANTS
    Requests = {r1, r2, r3}
    Mutexes = {m1, m2, m3}
    Devices = {{a1, a2}, {a3}, {a4}}
    Slots = 2
    NoDevice = NoDevice
    NoMutex = NoMutex
    NoRequest = NoRequest
INVARIANTS
    TypeOK
    DeviceExclusive
    PermitsConserved
PROPERTIES
    WaitersAreServed
    ImplementsDeviceAccess
