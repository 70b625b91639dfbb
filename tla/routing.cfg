SPECIFICATION Spec
CONSTANTS
    Routes <- MCRoutes
    RouteSpecs <- MCRouteSpecs
    ListenerSets <- MCListenerSets
    GatewayNS = 1
    SelectedNS = {2}
    Hosts <- MCHosts
    Paths <- MCPaths
    MaxEdits = 1
    MaxFailures = 1
INVARIANTS TypeOK ServesIntersection MostSpecificWins PartialIsCurrent ListenersAreCurrent
CHECK_DEADLOCK FALSE
