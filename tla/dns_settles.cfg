SPECIFICATION LiveSpec
CONSTANTS
    z1 = z1
    z2 = z2
    h1 = h1
    h2 = h2
    Zones = {z1}
    ZoneName <- MCZoneName
    Hostnames = {h1, h2}
    HostName <- MCHostName
    Wildcards = {}
    Owners = {1, 2}
    Targets = {1}
    ChunkSize = 1
    ForeignKinds = {"CNAME", "delete", "drift", "takeover"}
    MaxWishes = 3
    MaxForeign = 1
    MaxFailures = 1
PROPERTIES ImplementsOwnership EventuallySettled
CHECK_DEADLOCK FALSE
