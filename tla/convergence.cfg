SPECIFICATION LiveSpec
CONSTANTS
    Gateways = {g1}
    Names = {n1}
    NameOf <- DistinctNames
    Hostnames = {h1}
    ManageDNS = TRUE
    TamperKinds = {}
    MaxCreates = 1
    MaxEdits = 0
    MaxClassChanges = 2
    MaxRouteEdits = 2
    MaxTampers = 0
    MaxFailures = 1
    MaxCrashes = 1
INVARIANTS TokensAuthenticate
PROPERTIES Converges DeletionCompletes
CHECK_DEADLOCK FALSE
