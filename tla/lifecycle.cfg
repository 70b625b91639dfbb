SPECIFICATION Spec
CONSTANTS
    Gateways = {g1}
    Names = {n1}
    NameOf <- DistinctNames
    Hostnames = {h1, h2}
    ManageDNS = TRUE
    TamperKinds = {}
    MaxCreates = 2
    MaxEdits = 0
    MaxClassChanges = 0
    MaxRouteEdits = 2
    MaxTampers = 0
    MaxFailures = 1
    MaxCrashes = 1
SYMMETRY HostSymmetry
INVARIANTS TypeOK NoOrphanTunnels NoOrphanRecords SettledIsServed
PROPERTIES PublishedHostsAreServed
CHECK_DEADLOCK FALSE
