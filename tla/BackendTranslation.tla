--------------------- MODULE BackendTranslation ---------------------
(***************************************************************************)
(* What a backend becomes: the tunnel service and origin settings that     *)
(* translateXBackend derives from an XBackend for a kind of route, and the *)
(* layering of origin settings (MergeOriginRequest) that every ingress     *)
(* rule goes through.                                                      *)
(*                                                                         *)
(* A protocol or mode that is not set is "unset".  `validation` is the set *)
(* of fields the TLS validation sets, "present" if there is one at all; a  *)
(* nil originRequest is one with no field set.  Values of settings are     *)
(* named after where they come from.  "tuning" stands for the fields that  *)
(* only a CloudflareOriginPolicy sets.                                     *)
(***************************************************************************)
EXTENDS Naturals

RouteKinds == {"HTTPRoute", "GRPCRoute", "TLSRoute", "TCPRoute"}
Modes == {"unset", "None", "ServerOnly", "ClientAndServer"}
ValidationFields == {"present", "hostname", "caCertificateRefs", "subjectAltNames", "otherCA"}
Validations == {{}} \cup {{"present"} \cup v : v \in SUBSET ValidationFields}
Types == {"ExternalHostname", "EndpointSelector"}
-----------------------------------------------------------------------------
(* Origin settings. *)

OriginFields == {"http2Origin", "matchSNIToHost", "originServerName", "noTLSVerify",
                 "httpHostHeader", "connectTimeout", "access", "tuning"}
NoOrigin == [f \in OriginFields |-> "unset"]
Setting(fields, value) == [f \in OriginFields |-> IF f \in fields THEN value ELSE "unset"]

\* A field that is set on base is not overridden.
MergeOriginRequest_mOverride(base, override) ==
    [f \in OriginFields |-> IF override[f] = "unset" THEN base[f] ELSE override[f]]
MergeOriginRequest(base, override) ==
    [f \in OriginFields |-> IF base[f] = "unset" THEN override[f] ELSE base[f]]

\* The fields of a CloudflareOriginPolicy.
originRequestFromPolicy(fields) ==
    Setting(fields \cap {"http2Origin", "matchSNIToHost", "tuning"}, "policy")
-----------------------------------------------------------------------------
(* Translation. *)

\* An unset protocol is the one of the route.
protocolFor(x, kind) ==
    IF x.protocol # "unset" THEN x.protocol ELSE IF kind = "TCPRoute" THEN "TCP" ELSE "HTTP"

usesTLS(x) == x.mode \in {"ServerOnly", "ClientAndServer"}

schemeFor(x, kind) ==
    IF protocolFor(x, kind) = "TCP" THEN "tcp" ELSE IF usesTLS(x) THEN "https" ELSE "http"

validPort(port) == port \in 1 .. 65535

\* TLS to the origin, as far as cloudflared can do it.
tlsReason_mNoSANs(x) ==
    IF x.mode = "ClientAndServer" THEN "UnsupportedProtocol"
    ELSE IF x.mode # "ServerOnly" THEN "none"
    ELSE IF x.validation = {} THEN "UnsupportedTLSValidation"
    ELSE IF "caCertificateRefs" \in x.validation THEN "UnsupportedCACerts"
    ELSE IF "otherCA" \in x.validation THEN "UnsupportedTLSValidation"
    ELSE "none"
tlsReason(x) ==
    IF x.mode = "ClientAndServer" THEN "UnsupportedProtocol"
    ELSE IF x.mode # "ServerOnly" THEN "none"
    ELSE IF x.validation = {} THEN "UnsupportedTLSValidation"
    ELSE IF "caCertificateRefs" \in x.validation THEN "UnsupportedCACerts"
    ELSE IF {"subjectAltNames", "otherCA"} \cap x.validation # {} THEN "UnsupportedTLSValidation"
    ELSE "none"

\* The scheme must suit the transport of the route; the kind "any" asks for nothing.
Incompatible(scheme, kind) ==
    \/ kind \in {"HTTPRoute", "GRPCRoute"} /\ scheme = "tcp"
    \/ kind = "TCPRoute" /\ scheme # "tcp"
    \/ kind = "TLSRoute" /\ scheme = "http"

\* Why the backend cannot serve a route of the kind, "none" if it can.  The kind "any" judges the
\* backend on its own.
translateReason(x, kind) ==
    LET proto == protocolFor(x, kind) IN
    IF x.type # "ExternalHostname" THEN "UnsupportedProtocol"
    ELSE IF ~validPort(x.port) THEN "InvalidBackendPort"
    ELSE IF proto \notin {"HTTP", "HTTP11", "HTTP2", "GRPC", "TCP"} THEN "UnsupportedProtocol"
    ELSE IF ~usesTLS(x) /\ proto \in {"HTTP2", "GRPC"} THEN "UnsupportedProtocol"
    ELSE IF proto = "TCP" /\ usesTLS(x) THEN "UnsupportedProtocol"
    ELSE IF tlsReason(x) # "none" THEN tlsReason(x)
    ELSE IF Incompatible(schemeFor(x, kind), kind) THEN "IncompatibleRouteKind"
    ELSE "none"

\* The origin settings of a backend that is served.
translateOrigin(x, kind) ==
    LET verified == x.mode = "ServerOnly" IN
    [f \in OriginFields |->
        CASE f = "http2Origin" /\ protocolFor(x, kind) \in {"HTTP2", "GRPC"} -> "true"
          [] f = "matchSNIToHost" /\ verified -> "false"
          [] f = "originServerName" /\ verified /\ "hostname" \in x.validation -> "xbackend"
          [] OTHER -> "unset"]

\* The origin of a rule for the backend, before policies: a rule's own settings win, gRPC
\* insists on HTTP/2, and only a TLS rule for a Service skips verification.
ruleOrigin(kind, filters, external, backendOrigin) ==
    CASE kind = "HTTPRoute" ->
            MergeOriginRequest(Setting(filters \cap {"httpHostHeader", "connectTimeout"}, "rule"),
                               backendOrigin)
      [] kind = "GRPCRoute" -> MergeOriginRequest(Setting({"http2Origin"}, "true"), backendOrigin)
      [] kind = "TLSRoute" /\ ~external -> Setting({"noTLSVerify"}, "true")
      [] OTHER -> backendOrigin

\* applyOriginPolicies: the route's policy is completed by the Gateway's, and neither
\* overrides the rule.
applyOriginPolicies(origin, routePolicy, gatewayPolicy) ==
    MergeOriginRequest(origin, MergeOriginRequest(originRequestFromPolicy(routePolicy),
                                                  originRequestFromPolicy(gatewayPolicy)))
=============================================================================
