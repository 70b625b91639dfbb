SPECIFICATION Spec
CONSTANTS
    Gateways = {g1, g2}
    NamespaceOf <- MCNamespaceOf
    Configs <- MCConfigs
    ConfigSpecs <- MCConfigSpecs
    InitialConfigs <- MCInitialConfigs
    ClassRefs <- MCClassRefs
    GatewaySpecs <- MCGatewaySpecs
    Disturbances = {"config", "class", "gateway", "failure", "unread", "restart"}
    MaxDisturbances = 2
INVARIANTS TypeOK DeploymentIsConfigured ClassIsJudged DegradesToDefaults
SYMMETRY Symmetry
CHECK_DEADLOCK FALSE
