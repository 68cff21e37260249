\* Client time-outs none and 2 s, backends without and with a time-out,
\* two backend connections in one activation.
CONSTANTS
    IntBits = 16
    ClientTimeouts = {0, 2}
    BackendTimeouts = {0, 1}
    MaxBeConns = 2
SPECIFICATION Spec
INVARIANTS TypeOK NoSpuriousTimeout
