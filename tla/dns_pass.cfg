SPECIFICATION Spec
CONSTANTS
    z1 = z1
    z2 = z2
    h1 = h1
    h2 = h2
    Zones = {z1, z2}
    ZoneName <- MCZoneName
    Hostnames = {h1, h2, h3}
    HostName <- MCHostName
    Wildcards = {h3}
    Owners = {1}
    Targets = {1, 2}
    ChunkSize = 1
    ForeignKinds = {"CNAME", "other", "zone", "delete", "drift", "takeover"}
    MaxWishes = 2
    MaxForeign = 1
    MaxFailures = 1
INVARIANTS TypeOK PassOutcome PublishedOnce
PROPERTIES MarkerRespected
CHECK_DEADLOCK FALSE
