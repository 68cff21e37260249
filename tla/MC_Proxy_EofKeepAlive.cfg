\* One worker, GET requests, bodies delimited by the server's close.
CONSTANTS
    b1 = b1
    b2 = b2
    e1 = e1
    r = r
    w1 = w1
    NormalSeq <- MC_NormalSeq
    EmergSeq <- MC_EmergSeq
    Priority <- MC_Priority
    Disabled = {}
    NoBackend = NoBackend
    Workers <- MC_OneWorker
    Redirect = r
    InterimCodes = {100}
    MaxConns = 2
    MaxReqs = 2
    MaxFails = 2
    ReqKinds = {"GET"}
    ServerModes <- MC_ServerModes
SPECIFICATION Spec
INVARIANT
    NoKeepAliveAfterEofBody
