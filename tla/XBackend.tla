------------------------------ MODULE XBackend ------------------------------
(***************************************************************************)
(* What must hold of the translation of XBackends and of the layers of     *)
(* origin settings in a process that has XBackend support on, for every    *)
(* spec an XBackend may have.                                              *)
(***************************************************************************)
EXTENDS BackendResolution

CONSTANTS Ports, Protocols    \* port numbers and protocols an XBackend may have

ASSUME XBackendAssumption == Ports \subseteq Nat /\ Protocols \subseteq STRING

AllXBackends ==
    [type : Types, port : Ports, protocol : Protocols, mode : Modes, validation : Validations]
-----------------------------------------------------------------------------
(* Properties. *)

Served(xb, kind) == translateReason(xb, kind) = "none"

\* What the README's table ("Mapping and limitations") says is served, with the scheme: the
\* rows that are not marked unsupported, and the paragraph on route kinds below it.
Documented(xb, kind, scheme) ==
    /\ xb.type = "ExternalHostname" /\ xb.port > 0 /\ xb.port < 65536
    /\ xb.validation \subseteq {"present", "hostname"} \/ xb.mode \in {"unset", "None"}
    /\ \/ /\ scheme = "tcp" /\ kind \in {"TCPRoute", "TLSRoute"}
          /\ xb.protocol = "TCP" \/ (xb.protocol = "unset" /\ kind = "TCPRoute")
          /\ xb.mode \in {"unset", "None"}
       \/ /\ scheme = "http" /\ kind \in {"HTTPRoute", "GRPCRoute"}
          /\ xb.protocol \in {"HTTP", "HTTP11", "unset"}
          /\ xb.mode \in {"unset", "None"}
       \/ /\ scheme = "https" /\ kind \in {"HTTPRoute", "GRPCRoute", "TLSRoute"}
          /\ xb.protocol \in {"HTTP", "HTTP11", "HTTP2", "GRPC", "unset"}
          /\ xb.mode = "ServerOnly" /\ xb.validation # {}

ServedAsDocumented ==
    \A xb \in AllXBackends, kind \in RouteKinds :
        /\ Served(xb, kind) => Documented(xb, kind, schemeFor(xb, kind))
        /\ (\E scheme \in {"http", "https", "tcp"} : Documented(xb, kind, scheme))
             => Served(xb, kind)

UsableAreAccepted ==
    \A xb \in AllXBackends :
        translateReason(xb, "any") = "none" <=> \E kind \in RouteKinds : Served(xb, kind)

\* An XBackend is served to a kind of route exactly when, and with the scheme, that the
\* README documents: no combination of type, port, protocol, TLS mode and validation slips
\* through the order of translateXBackend's checks.  And the Accepted condition, which judges
\* it on its own, agrees: it is accepted if and only if a route of some kind could be served
\* by it ("can be serviceable for one route kind and not another").
TranslationIsDocumented == ExperimentalBackends => ServedAsDocumented /\ UsableAreAccepted

\* A rule for a verified origin, merged with filters and policies, is still verified.
KeepsVerification(xb, kind, filters, route, gateway) ==
    LET backend == translateOrigin(xb, kind)
        origin == applyOriginPolicies(ruleOrigin(kind, filters, TRUE, backend), route, gateway) IN
    Served(xb, kind) /\ schemeFor(xb, kind) = "https" =>
        /\ origin["matchSNIToHost"] = "false" /\ origin["noTLSVerify"] = "unset"
        /\ origin["originServerName"] = backend["originServerName"]
        /\ xb.protocol \in {"HTTP2", "GRPC"} \/ kind = "GRPCRoute"
             => origin["http2Origin"] = "true"
        /\ kind = "HTTPRoute" => \A f \in filters : origin[f] = "rule"

AllKeepVerification ==
    \A xb \in AllXBackends, kind \in RouteKinds \ {"TCPRoute"},
       filters \in SUBSET {"httpHostHeader", "connectTimeout"},
       route, gateway \in SUBSET {"http2Origin", "matchSNIToHost", "tuning"} :
          KeepsVerification(xb, kind, filters, route, gateway)

\* "`validation.hostname` controls SNI and certificate verification, regardless of
\* `matchSNIToHost` origin policies" (README): whatever filters and policies a rule is
\* merged with, a verified external origin keeps its server name, never matches SNI to the
\* request's host and never skips verification.
VerificationIsKept == ExperimentalBackends => AllKeepVerification
=============================================================================
