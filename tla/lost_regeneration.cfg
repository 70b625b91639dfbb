SPECIFICATION Spec
CONSTANTS
    Gateways = {g1}
    Names = {n1}
    NameOf <- DistinctNames
    Hostnames = {h1}
    ManageDNS = TRUE
    TamperKinds = {"CorruptSecret"}
    MaxCreates = 1
    MaxEdits = 0
    MaxClassChanges = 0
    MaxRouteEdits = 1
    MaxTampers = 1
    MaxFailures = 1
    MaxCrashes = 0
INVARIANTS TokensAuthenticate
CHECK_DEADLOCK FALSE
