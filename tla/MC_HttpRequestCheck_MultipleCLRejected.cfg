CONSTANTS
    Methods <- MC_Methods
    Requests <- MC_Requests
    Verb = 4
    MaxReq = 12
    RpcMinLen = 8
    RpcMaxLen = 16
    HeadOff = {}
SPECIFICATION Spec
\* do_http validates one request and stops: terminal states are expected.
CHECK_DEADLOCK FALSE
INVARIANT
    MultipleCLRejected
