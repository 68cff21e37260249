\* A PF_INET lookup of a name that does not exist.
CONSTANTS
    n0 = n0
    n1 = n1
    n2 = n2
    n3 = n3
    NoName = NoName
    Names = {n0, n1, n2, n3}
    Query = n0
    NegTtl = 1
    MaxCnameChain = 3
    Zones <- MC_ZonesGone
    Families = {"INET"}
    Faults = FALSE
SPECIFICATION Spec
INVARIANT NotFoundReported
