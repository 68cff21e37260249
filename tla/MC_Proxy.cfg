\* Keep-alive loop of do_http on one worker: two client connections of up
\* to two requests each, every request class, HTTP/1.1 servers that keep or
\* close the connection and HTTP/1.0 servers, "100 Continue" heads, two
\* connect failures.
CONSTANTS
    b1 = b1
    b2 = b2
    e1 = e1
    r = r
    w1 = w1
    NormalSeq <- MC_NormalSeq
    EmergSeq <- MC_EmergSeq
    Priority <- MC_Priority
    Disabled = {}
    NoBackend = NoBackend
    Workers <- MC_OneWorker
    Redirect = r
    InterimCodes = {100}
    MaxConns = 2
    MaxReqs = 2
    MaxFails = 2
    ReqKinds = {"GET", "HEAD", "WS", "RPC_IN", "BAD"}
    ServerModes <- MC_ServerModes
SPECIFICATION Spec
INVARIANTS
    TypeOK
    ReqOnChosenBackend
    ResponseMatchesRequest
PROPERTY
    SessionRefined
