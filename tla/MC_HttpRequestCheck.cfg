CONSTANTS
    Methods <- MC_Methods
    Requests <- MC_Requests
    Verb = 4
    MaxReq = 4
    RpcMinLen = 8
    RpcMaxLen = 16
    HeadOff = {}
SPECIFICATION Spec
INVARIANTS
    TypeOK
    NoDualFraming
    CopiedLengthIsAnnounced
    BodyBounded
