SPECIFICATION Spec
CONSTANTS
    Gateways = {g1}
    Names = {n1}
    NameOf <- DistinctNames
    Hostnames = {h1}
    ManageDNS = TRUE
    TamperKinds = {"CorruptSecret", "ClearSecret", "DeleteSecret", "DeleteTunnel", "ForeignRecord"}
    MaxCreates = 1
    MaxEdits = 1
    MaxClassChanges = 1
    MaxRouteEdits = 2
    MaxTampers = 1
    MaxFailures = 1
    MaxCrashes = 0
INVARIANT NoOrphanRecords
PROPERTY ReadyMeansPublished
CHECK_DEADLOCK FALSE
