--------------------------- MODULE XBackend_proofs ---------------------------
(***************************************************************************)
(* Proofs about XBackend for any ports and protocols: what is said of the  *)
(* translation follows for every spec from the order of the checks of      *)
(* translateXBackend (NoCheckFails) and of the layers of                   *)
(* MergeOriginRequest (FirstLayerWins).                                    *)
(***************************************************************************)
EXTENDS XBackend, TLAPS

-----------------------------------------------------------------------------
(* When a backend is served. *)

\* TLS to the origin is possible when it is off, or asked for with a validation of nothing
\* but the server's name.
TLSPossible(x) ==
    \/ x.mode \in {"unset", "None"}
    \/ x.mode = "ServerOnly" /\ x.validation # {} /\ x.validation \subseteq {"present", "hostname"}

\* tlsReason finds nothing exactly where cloudflared can do the TLS that is asked for.
LEMMA TLSReasonIsEmpty ==
    ASSUME NEW x \in AllXBackends
    PROVE  tlsReason(x) = "none" <=> TLSPossible(x)
  <1>1. x.mode \in Modes /\ x.validation \in Validations
    BY DEF AllXBackends
  <1>2. x.validation \subseteq ValidationFields
    BY <1>1 DEF Validations, ValidationFields
  <1>3. x.validation \subseteq {"present", "hostname"}
        <=> "caCertificateRefs" \notin x.validation /\ "subjectAltNames" \notin x.validation
            /\ "otherCA" \notin x.validation
    BY <1>2 DEF ValidationFields
  <1> QED BY <1>1, <1>3 DEF tlsReason, TLSPossible, Modes

\* The port check is that of the documentation.
LEMMA PortRange ==
    ASSUME NEW x \in AllXBackends
    PROVE  validPort(x.port) <=> x.port > 0 /\ x.port < 65536
  <1>1. ASSUME NEW port \in Nat
        PROVE  validPort(port) <=> port > 0 /\ port < 65536
    BY DEF validPort
  <1>2. x.port \in Nat
    BY XBackendAssumption DEF AllXBackends
  <1> QED BY <1>1, <1>2

\* The checks of translateXBackend, as one condition.
LEMMA NoCheckFails ==
    ASSUME NEW x, NEW kind
    PROVE  translateReason(x, kind) = "none" <=>
             /\ x.type = "ExternalHostname"
             /\ validPort(x.port)
             /\ protocolFor(x, kind) \in {"HTTP", "HTTP11", "HTTP2", "GRPC", "TCP"}
             /\ protocolFor(x, kind) \in {"HTTP2", "GRPC"} => usesTLS(x)
             /\ protocolFor(x, kind) = "TCP" => ~usesTLS(x)
             /\ tlsReason(x) = "none"
             /\ ~Incompatible(schemeFor(x, kind), kind)
  <1> DEFINE type == x.type
             valid == validPort(x.port)
             proto == protocolFor(x, kind)
             tls == usesTLS(x)
             reason == tlsReason(x)
             bad == Incompatible(schemeFor(x, kind), kind)
  <1>1. translateReason(x, kind) =
          IF type # "ExternalHostname" THEN "UnsupportedProtocol"
          ELSE IF ~valid THEN "InvalidBackendPort"
          ELSE IF proto \notin {"HTTP", "HTTP11", "HTTP2", "GRPC", "TCP"} THEN "UnsupportedProtocol"
          ELSE IF ~tls /\ proto \in {"HTTP2", "GRPC"} THEN "UnsupportedProtocol"
          ELSE IF proto = "TCP" /\ tls THEN "UnsupportedProtocol"
          ELSE IF reason # "none" THEN reason
          ELSE IF bad THEN "IncompatibleRouteKind"
          ELSE "none"
    BY DEF translateReason
  <1>2. translateReason(x, kind) = "none" <=>
          /\ type = "ExternalHostname"
          /\ valid
          /\ proto \in {"HTTP", "HTTP11", "HTTP2", "GRPC", "TCP"}
          /\ proto \in {"HTTP2", "GRPC"} => tls
          /\ proto = "TCP" => ~tls
          /\ reason = "none"
          /\ ~bad
    <2> HIDE DEF type, valid, proto, tls, reason, bad
    <2> QED BY <1>1, Zenon
  <1> QED BY <1>2

\* An XBackend that is fine on its own is so for some kind of route, and the other way round.
LEMMA AcceptedMeansUsable ==
    ASSUME NEW x \in AllXBackends
    PROVE  translateReason(x, "any") = "none"
             <=> \E kind \in RouteKinds : translateReason(x, kind) = "none"
  <1>1. ASSUME translateReason(x, "any") = "none"
        PROVE  \E kind \in RouteKinds : translateReason(x, kind) = "none"
    <2>1. CASE x.protocol = "TCP"
      <3>1. translateReason(x, "TCPRoute") = "none"
        BY <1>1, <2>1, NoCheckFails
           DEF RouteKinds, Incompatible, schemeFor, protocolFor, usesTLS
      <3> QED BY <3>1 DEF RouteKinds
    <2>2. CASE x.protocol # "TCP"
      <3>1. translateReason(x, "HTTPRoute") = "none"
        BY <1>1, <2>2, NoCheckFails
           DEF RouteKinds, Incompatible, schemeFor, protocolFor, usesTLS
      <3> QED BY <3>1 DEF RouteKinds
    <2> QED BY <2>1, <2>2
  <1>2. ASSUME NEW kind \in RouteKinds, translateReason(x, kind) = "none"
        PROVE  translateReason(x, "any") = "none"
    BY <1>2, NoCheckFails
       DEF RouteKinds, Incompatible, schemeFor, protocolFor, usesTLS, TLSPossible
  <1> QED BY <1>1, <1>2
-----------------------------------------------------------------------------
(* What the README documents. *)

\* What translateXBackend serves, the table allows, with the scheme it gives.
LEMMA ServedIsDocumented ==
    ASSUME NEW xb \in AllXBackends, NEW kind \in RouteKinds, Served(xb, kind)
    PROVE  Documented(xb, kind, schemeFor(xb, kind))
  <1>1. xb \in AllXBackends /\ xb.mode \in Modes
    BY DEF AllXBackends
  <1>2. /\ xb.type = "ExternalHostname" /\ xb.port > 0 /\ xb.port < 65536
        /\ protocolFor(xb, kind) \in {"HTTP", "HTTP11", "HTTP2", "GRPC", "TCP"}
        /\ protocolFor(xb, kind) \in {"HTTP2", "GRPC"} => usesTLS(xb)
        /\ protocolFor(xb, kind) = "TCP" => ~usesTLS(xb)
        /\ TLSPossible(xb)
        /\ ~Incompatible(schemeFor(xb, kind), kind)
    BY <1>1, NoCheckFails, PortRange, TLSReasonIsEmpty DEF Served
  <1> QED BY <1>1, <1>2
          DEF Documented, RouteKinds, Modes, Incompatible, schemeFor, protocolFor, usesTLS,
              TLSPossible

\* What the table allows with some scheme, translateXBackend serves.
LEMMA DocumentedIsServed ==
    ASSUME NEW xb \in AllXBackends, NEW kind \in RouteKinds,
           NEW scheme \in {"http", "https", "tcp"},
           Documented(xb, kind, scheme)
    PROVE  Served(xb, kind)
  <1>1. xb \in AllXBackends /\ xb.mode \in Modes
    BY DEF AllXBackends
  <1> SUFFICES translateReason(xb, kind) = "none"
    BY DEF Served
  <1>2. /\ xb.type = "ExternalHostname" /\ xb.port > 0 /\ xb.port < 65536
        /\ protocolFor(xb, kind) \in {"HTTP", "HTTP11", "HTTP2", "GRPC", "TCP"}
        /\ protocolFor(xb, kind) \in {"HTTP2", "GRPC"} => usesTLS(xb)
        /\ protocolFor(xb, kind) = "TCP" => ~usesTLS(xb)
        /\ TLSPossible(xb)
        /\ ~Incompatible(schemeFor(xb, kind), kind)
    BY <1>1
       DEF Documented, RouteKinds, Modes, Incompatible, schemeFor, protocolFor, usesTLS,
           TLSPossible
  <1> QED BY <1>1, <1>2, NoCheckFails, PortRange, TLSReasonIsEmpty

\* translateXBackend serves what the README's table says is served and nothing else, and the
\* Accepted condition agrees with what routes are told, for any ports and protocols.
THEOREM TranslationFollowsTheTable == TranslationIsDocumented
  <1>1. ServedAsDocumented
    BY ServedIsDocumented, DocumentedIsServed DEF ServedAsDocumented
  <1>2. UsableAreAccepted
    BY AcceptedMeansUsable DEF UsableAreAccepted, Served
  <1> QED BY <1>1, <1>2 DEF TranslationIsDocumented
-----------------------------------------------------------------------------
(* Layers of origin settings. *)

\* MergeOriginRequest keeps what its first argument sets and takes the rest of the second.
LEMMA FirstLayerWins ==
    ASSUME NEW base, NEW override, NEW f \in OriginFields
    PROVE  /\ base[f] # "unset" => MergeOriginRequest(base, override)[f] = base[f]
           /\ base[f] = "unset" => MergeOriginRequest(base, override)[f] = override[f]
  BY DEF MergeOriginRequest

\* A policy sets nothing but the fields a CloudflareOriginPolicy has.
LEMMA PolicyLayer ==
    ASSUME NEW fields, NEW f \in OriginFields \ {"http2Origin", "matchSNIToHost", "tuning"}
    PROVE  originRequestFromPolicy(fields)[f] = "unset"
  BY DEF originRequestFromPolicy, Setting

\* Merging filters and origin policies leaves noTLSVerify unset and the SNI checked.
LEMMA VerificationSurvives ==
    ASSUME NEW xb \in AllXBackends, NEW kind \in RouteKinds \ {"TCPRoute"},
           NEW filters \in SUBSET {"httpHostHeader", "connectTimeout"},
           NEW route \in SUBSET {"http2Origin", "matchSNIToHost", "tuning"},
           NEW gateway \in SUBSET {"http2Origin", "matchSNIToHost", "tuning"}
    PROVE  KeepsVerification(xb, kind, filters, route, gateway)
  <1> DEFINE backend == translateOrigin(xb, kind)
             rule == ruleOrigin(kind, filters, TRUE, backend)
             policies == MergeOriginRequest(originRequestFromPolicy(route),
                                            originRequestFromPolicy(gateway))
             origin == MergeOriginRequest(rule, policies)
  <1> SUFFICES ASSUME Served(xb, kind), schemeFor(xb, kind) = "https"
               PROVE  /\ origin["matchSNIToHost"] = "false" /\ origin["noTLSVerify"] = "unset"
                      /\ origin["originServerName"] = backend["originServerName"]
                      /\ xb.protocol \in {"HTTP2", "GRPC"} \/ kind = "GRPCRoute"
                           => origin["http2Origin"] = "true"
                      /\ kind = "HTTPRoute" => \A f \in filters : origin[f] = "rule"
    BY DEF KeepsVerification, applyOriginPolicies
  <1>1. xb \in AllXBackends /\ xb.mode = "ServerOnly"
    <2>1. xb \in AllXBackends /\ usesTLS(xb)
      BY DEF schemeFor
    <2> QED BY <2>1, NoCheckFails, TLSReasonIsEmpty DEF Served, TLSPossible, usesTLS
  <1>2. /\ backend["matchSNIToHost"] = "false" /\ backend["noTLSVerify"] = "unset"
        /\ backend["httpHostHeader"] = "unset" /\ backend["connectTimeout"] = "unset"
        /\ xb.protocol \in {"HTTP2", "GRPC"} => backend["http2Origin"] = "true"
        /\ backend["originServerName"] \in {"unset", "xbackend"}
    BY <1>1 DEF translateOrigin, OriginFields, protocolFor
  <1>3. /\ rule["matchSNIToHost"] = "false" /\ rule["noTLSVerify"] = "unset"
        /\ rule["originServerName"] = backend["originServerName"]
        /\ xb.protocol \in {"HTTP2", "GRPC"} \/ kind = "GRPCRoute" => rule["http2Origin"] = "true"
        /\ kind = "HTTPRoute" => \A f \in filters : rule[f] = "rule"
    <2>1. CASE kind = "HTTPRoute"
      BY <1>2, <2>1 DEF ruleOrigin, MergeOriginRequest, Setting, OriginFields
    <2>2. CASE kind = "GRPCRoute"
      BY <1>2, <2>2 DEF ruleOrigin, MergeOriginRequest, Setting, OriginFields
    <2>3. CASE kind = "TLSRoute"
      BY <1>2, <2>3 DEF ruleOrigin
    <2> QED BY <2>1, <2>2, <2>3 DEF RouteKinds
  <1>4. policies["noTLSVerify"] = "unset" /\ policies["originServerName"] = "unset"
    BY PolicyLayer, FirstLayerWins DEF OriginFields
  <1>5. /\ origin["matchSNIToHost"] = "false" /\ origin["noTLSVerify"] = "unset"
        /\ origin["originServerName"] = backend["originServerName"]
        /\ xb.protocol \in {"HTTP2", "GRPC"} \/ kind = "GRPCRoute" => origin["http2Origin"] = "true"
        /\ kind = "HTTPRoute" => \A f \in filters : origin[f] = "rule"
    <2> HIDE DEF rule, policies, backend
    <2> QED BY <1>2, <1>3, <1>4, FirstLayerWins DEF OriginFields
  <1> QED BY <1>5

\* Whatever filters and origin policies the rule is merged with, a verified external origin
\* keeps its server name and its verification, for any ports and protocols.
THEOREM VerificationIsNeverLost == VerificationIsKept
  BY VerificationSurvives DEF VerificationIsKept, AllKeepVerification
=============================================================================
