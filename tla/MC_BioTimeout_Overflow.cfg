\* A client time-out whose value times 1000 passes the int range (int
\* narrowed to 16 bits: 40 * 1000 > 32767, as 2147484 * 1000 is with 32).
CONSTANTS
    IntBits = 16
    ClientTimeouts = {40}
    BackendTimeouts = {1}
    MaxBeConns = 1
SPECIFICATION Spec
INVARIANT NoSpuriousTimeout
