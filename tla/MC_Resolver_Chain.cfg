\* A PF_INET lookup of a name at the head of a CNAME chain of two.
CONSTANTS
    n0 = n0
    n1 = n1
    n2 = n2
    n3 = n3
    NoName = NoName
    Names = {n0, n1, n2, n3}
    Query = n0
    NegTtl = 1
    MaxCnameChain = 3
    Zones <- MC_ZonesChain
    Families = {"INET"}
    Faults = FALSE
SPECIFICATION Spec
INVARIANT ResolvedAddresses
