SPECIFICATION LiveSpec
CONSTANTS
    g1 = g1
    g2 = g2
    r1 = r1
    Gateways = {g1, g2}
    Routes = {r1}
    KeyOf <- OwnKeys
    LocalRoutes = {r1}
    L7Routes = {r1}
    Policies = {1}
    KindOf <- AllOrigin
    Groups = {"gateway"}
    MaxAncestors = 1
    Times = {1, 2}
    MaxEdits = 2
    MaxFailures = 1
PROPERTIES ComesToRest
CHECK_DEADLOCK FALSE
