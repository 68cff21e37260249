\* Lookups of every family while the zone changes and adns may fail.
CONSTANTS
    n0 = n0
    n1 = n1
    n2 = n2
    n3 = n3
    NoName = NoName
    Names = {n0, n1, n2, n3}
    Query = n0
    NegTtl = 1
    MaxCnameChain = 2
    Zones <- MC_ZonesChanging
    Families = {"UNSPEC", "INET", "INET6"}
    Faults = TRUE
SPECIFICATION Spec
INVARIANTS TypeOK FamilyRespected QueriesBounded
