\* A PF_INET6 lookup whose AAAA query fails.
CONSTANTS
    n0 = n0
    n1 = n1
    n2 = n2
    n3 = n3
    NoName = NoName
    Names = {n0, n1, n2, n3}
    Query = n0
    NegTtl = 1
    MaxCnameChain = 3
    Zones <- MC_ZonesFlat
    Families = {"INET6"}
    Faults = TRUE
SPECIFICATION Spec
PROPERTY FailedQueryNotMerged
