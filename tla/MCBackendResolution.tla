------------------------ MODULE MCBackendResolution ------------------------
(* Instances of BackendResolution for TLC: routes in namespace "a", a Service of their own *)
(* namespace, and a Service and an XBackend of namespace "b" that a grant must authorize.  *)
EXTENDS XBackend

Ref(kind, name, port) == [kind |-> kind, name |-> name, port |-> port]
Near(port) == Ref("Service", "near", port)
Far(port) == Ref("Service", "far", port)
External(port) == Ref("XBackend", "ext", port)
Other == Ref("ConfigMap", "near", 0)

MCNamespaceOf ==
    [n \in {"http", "grpc", "tcp", "tls1", "tls2", "tls3", "near", "own", "far", "ext"} |->
        IF n \in {"far", "ext"} THEN "b" ELSE "a"]
MCKindOf ==
    [r \in Routes |-> CASE r = "http" -> "HTTPRoute" [] r = "grpc" -> "GRPCRoute"
                        [] r = "tcp" -> "TCPRoute" [] OTHER -> "TLSRoute"]
MCHostOf == [r \in Routes |-> "h"]
MCTargetOf == [p \in TLSPolicies |-> IF p = "pown" THEN "own" ELSE "near"]
Grant(kind, group, to, name) ==
    [fromNS |-> "a", fromKind |-> kind, ns |-> "b", group |-> group, kind |-> to, name |-> name]
MCGrants == {Grant("HTTPRoute", "core", "Service", ""),
             Grant("TLSRoute", "gateway.networking.x-k8s.io", "XBackend", "ext")}

\* What the rules of each route refer to at first, and what they may be changed to.
FirstRules(r) ==
    CASE r = "http" -> <<<<Far(80), Near(80)>>, <<>>>>
      [] r = "tcp" -> <<<<External(0)>>>>
      [] r = "grpc" -> <<<<Near(0)>>>>
      [] r = "tls2" -> <<<<Ref("Service", "own", 443)>>>>
      [] r = "tls3" -> <<<<Near(443)>>>>
      [] OTHER -> <<<<External(0)>>, <<Near(443)>>>>
OtherRules(r) ==
    CASE r = "http" -> <<<<Near(80), External(80)>>, <<Near(0)>>>>
      [] r = "tls1" -> <<<<Near(443)>>, <<Other>>>>
      [] OTHER -> <<<<Near(80)>>, <<Other>>>>
Specs(parents) == [r \in Routes |-> [parents : parents, rules : {FirstRules(r), OtherRules(r)}]]
MCRouteSpecs == Specs({Gateways, {}})
AttachedSpecs == Specs({Gateways})

Port(port, protocol) == [port |-> port, protocol |-> protocol]
MCPortSets == {{Port(80, "TCP"), Port(443, "")}, {Port(80, "UDP")}}

XSpec(protocol, mode, validation) ==
    [type |-> "ExternalHostname", port |-> 443, protocol |-> protocol, mode |-> mode,
     validation |-> validation]
MCXBackendSpecs == {XSpec("HTTP", "ServerOnly", {"present", "hostname"}), XSpec("H2C", "unset", {})}

\* All objects exist and everything is authorized.
Populated ==
    [routes |-> [r \in Routes |-> [spec |-> [parents |-> Gateways, rules |-> FirstRules(r)],
                                   gen |-> 1, version |-> 1, entries |-> NoEntries]],
     svcs |-> [s \in Services |-> [exists |-> TRUE, ports |-> {Port(80, "TCP"), Port(443, "")}]],
     xbs |-> [x \in XBackends |-> [NoXBackend EXCEPT !.exists = TRUE, !.gen = 1, !.version = 1]],
     grants |-> Grants, tls |-> {}]
-----------------------------------------------------------------------------
(* Statements of the documentation that some instances refute. *)

\* "based on BackendTLSPolicy resources targeting the backend services" (backendtls.go),
\* for a rule that forwards to a Service, if another TLS rule has the same hostname too.
TLSPolicyFollowsBackend ==
    Quiet => \A g \in LiveGateways : \A id \in DOMAIN pushed[g] :
        /\ KindOf[id[1]] = "TLSRoute" /\ ToService(api.routes[id[1]].spec.rules[id[2]])
        /\ pushed[g][id].service[1] = "https"
        => OwnPolicy(g, id)

\* "without this, a create/delete cycle would leak entries" (xbackendstatus.go): once a
\* Gateway is gone no XBackend has an entry for it.
NoLeakedXBackendEntries ==
    \A g \in Gateways, x \in XBackends : live[g] = "gone" => api.xbs[x].entries[g] = Absent

\* "XBackends this Gateway serves ... get an Accepted ancestor condition; every other
\* XBackend has this Gateway's ancestor entry pruned" (xbackendstatus.go).
XBackendStatusIsCurrent ==
    Quiet /\ ExperimentalBackends => \A g \in LiveGateways, x \in XBackends :
        api.xbs[x].entries[g] = IF Refers(g, x) THEN Verdict(x) ELSE Absent

\* The same for a Gateway whose entry found no room at first, once there is room.
RoomIsUsed ==
    Quiet /\ ExperimentalBackends => \A g \in LiveGateways, x \in XBackends :
        /\ Refers(g, x)
        /\ Cardinality({h \in Gateways : api.xbs[x].entries[h] # Absent}) < maxXBackendAncestors
        => api.xbs[x].entries[g] # Absent

\* The README says that external-dns "reads accepted route hostnames": a Gateway's entry on
\* a route, which always says Accepted, is there only while the route is attached to it.
AcceptedIsAttached ==
    Quiet => \A g \in Gateways, r \in Routes :
        api.routes[r].entries[g] # Absent => live[g] = "live" /\ r \in AttachedTo(g)
=============================================================================
