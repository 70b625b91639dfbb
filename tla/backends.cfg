SPECIFICATION Spec
CONSTANTS
    Gateways = {g1}
    Routes = {"http", "tls1"}
    Services = {"near", "far"}
    XBackends = {"ext"}
    TLSPolicies = {"pnear"}
    NamespaceOf <- MCNamespaceOf
    KindOf <- MCKindOf
    HostOf <- MCHostOf
    TargetOf <- MCTargetOf
    Grants <- MCGrants
    RouteSpecs <- AttachedSpecs
    PortSets <- MCPortSets
    XBackendSpecs <- MCXBackendSpecs
    InitialObjects <- Populated
    maxXBackendAncestors = 2
    Disturbances = {"route", "service", "xbackend", "grant", "tls", "gateway", "failure", "restart"}
    MaxDisturbances = 2
    Ports = {0, 1, 443, 65535, 65536}
    Protocols = {"unset", "HTTP", "HTTP11", "HTTP2", "GRPC", "TCP", "H2C", "MCP"}
INVARIANTS TypeOK ServesResolvable ResolvedRefsIsCurrent XBackendVerdicts TLSOriginIsOwn
INVARIANTS ServiceTLSIsCurrent TranslationIsDocumented VerificationIsKept
CHECK_DEADLOCK FALSE
