SPECIFICATION Spec
CONSTANTS
    g1 = g1
    g2 = g2
    r1 = r1
    Gateways = {g1, g2}
    Routes = {r1}
    KeyOf <- OwnKeys
    LocalRoutes = {r1}
    L7Routes = {r1}
    Policies = {1, 2}
    KindOf <- AllAccess
    Groups = {"gateway"}
    MaxAncestors = 1
    Times = {1}
    MaxEdits = 2
    MaxFailures = 0
INVARIANTS TypeOK StatusIsCurrent AcceptedIsApplied AffectedIsCurrent
CHECK_DEADLOCK FALSE
