\* One worker, a service with two backends and no emergency group, three
\* connect failures while the ticker may revive a killed backend.
CONSTANTS
    b1 = b1
    b2 = b2
    e1 = e1
    r = r
    w1 = w1
    NormalSeq <- MC_NormalSeq
    EmergSeq <- MC_NoEmergSeq
    Priority <- MC_Priority
    Disabled = {}
    NoBackend = NoBackend
    Workers <- MC_OneWorker
    Redirect = r
    InterimCodes = {100}
    MaxConns = 2
    MaxReqs = 2
    MaxFails = 3
    ReqKinds = {"GET"}
    ServerModes <- MC_ServerModes
SPECIFICATION Spec
INVARIANT
    RetriesBounded
