----------------------------- MODULE RouteTable -----------------------------
(***************************************************************************)
(* From listeners and routes to the ingress rules of the tunnel: route     *)
(* attachment and hostname intersection (attachment.go), rule building     *)
(* (ingress.go), precedence (precedence.go, builtrule.go) and the part of  *)
(* apply that collects the routes of a Gateway, pushes its rules and       *)
(* reports on routes and listeners (status.go), while routes and listeners *)
(* change under it.  Backends are not resolved here: a rule answers with   *)
(* the route and the route rule it was built from.                         *)
(*                                                                         *)
(* A route is identified by kind, namespace and name, the latter two       *)
(* numbers so that they are ordered.  A hostname is a sequence of labels   *)
(* with a flag for a leading "*."; NoHost stands for an unset one.  The    *)
(* CRDs admit lower-case hostnames without trailing dot only, which        *)
(* normalizeHostname leaves as they are.  A path is a sequence of          *)
(* segments.  A parentRef is the section it names, AnySection if none; a   *)
(* port selects listeners in the same way and is left out, as are          *)
(* parentRefs to other Gateways.                                           *)
(***************************************************************************)
EXTENDS Integers, Sequences, FiniteSets, SequencesExt

CONSTANTS
    Routes,            \* [kind, ns, name] of the routes there may be
    RouteSpecs,        \* the specs each route may be given
    ListenerSets,      \* the listeners the Gateway may be given
    GatewayNS,         \* the Gateway's namespace
    SelectedNS,        \* namespaces that match the listeners' selector
    Hosts, Paths,      \* requested hostnames and paths
    MaxEdits, MaxFailures

VARIABLES
    routes,      \* the spec of each route, NoRoute if there is none
    listeners,   \* the listeners of the Gateway
    queued,      \* is the Gateway on the work queue?
    w,           \* the worker: what it has read and built
    table,       \* the ingress rules Cloudflare has
    status,      \* what the routes and the listeners report
    used         \* how much of each bound is used up

vars == <<routes, listeners, queued, w, table, status, used>>

RouteKinds == {"HTTPRoute", "GRPCRoute", "TLSRoute", "TCPRoute"}
NoRoute == [parents |-> {}, hosts |-> {}, rules |-> <<>>, created |-> 0]
NoHost == [wild |-> TRUE, labels |-> <<>>]
AnySection == "*"
NoMatch == [type |-> "none", path |-> <<>>, method |-> FALSE, headers |-> 0, queries |-> 0]

\* The types of hostnames, matches and rules.
Hostnames == [wild : BOOLEAN, labels : Seq(STRING) \ {<<>>}]
Matches == [type : {"none", "Exact", "PathPrefix", "RegularExpression", "GRPCMethod"},
            path : Seq(STRING), method : BOOLEAN, headers : Nat, queries : Nat]
Rules == [route : Routes, created : Nat, index : Nat \ {0}, host : Hostnames \cup {NoHost},
          match : Matches]

\* What the CRDs let a route say: a TCPRoute has no hostnames, only a GRPCRoute matches on a
\* gRPC method.
IsSpec(r, spec) ==
    /\ spec.hosts \subseteq Hostnames /\ IsFiniteSet(spec.hosts)
    /\ r.kind = "TCPRoute" => spec.hosts = {}
    /\ spec.created \in Nat
    /\ spec.rules \in Seq(Seq(Matches))
    /\ \A i \in 1 .. Len(spec.rules) : \A m \in Range(spec.rules[i]) :
          /\ m.type = "none" => m.path = <<>>
          /\ m.type = "GRPCMethod" => r.kind # "HTTPRoute"

\* The CRD makes the listeners of a Gateway a map whose key is the name.
ASSUME RouteAssumption ==
    /\ Routes \subseteq [kind : RouteKinds, ns : Nat, name : Nat] /\ IsFiniteSet(Routes)
    /\ \A ls \in ListenerSets :
          /\ IsFiniteSet(ls)
          /\ \A l \in ls : l.host \in Hostnames \cup {NoHost}
          /\ \A l, m \in ls : l.name = m.name => l = m
    /\ DOMAIN RouteSpecs = Routes
    /\ \A r \in Routes : NoRoute \in RouteSpecs[r] /\ \A spec \in RouteSpecs[r] : IsSpec(r, spec)
    /\ Hosts \subseteq Seq(STRING) \ {<<>>}
    /\ {MaxEdits, MaxFailures} \subseteq Nat
-----------------------------------------------------------------------------
(* Attachment. *)

\* HasSuffix(a, "." + b): a has further labels in front of b.
Below(a, b) == Len(a.labels) > Len(b.labels) /\ IsSuffix(b.labels, a.labels)

\* The more specific of two overlapping hostnames.
intersectHostname(route, listener) ==
    {h \in {route} : route = listener \/ (listener.wild /\ Below(route, listener))}
    \cup {h \in {listener} : route.wild /\ Below(listener, route)}

intersectHostnames(hosts, listener) ==
    IF listener = NoHost THEN IF hosts = {} THEN {NoHost} ELSE hosts
    ELSE IF hosts = {} THEN {listener}
    ELSE UNION {intersectHostname(h, listener) : h \in hosts}

parentRefsSelectListener(spec, l) == {AnySection, l.name} \cap spec.parents # {}

defaultKindForProtocol(protocol) ==
    CASE protocol \in {"HTTP", "HTTPS"} -> {"HTTPRoute", "GRPCRoute"}
      [] protocol = "TLS" -> {"TLSRoute"}
      [] protocol = "TCP" -> {"TCPRoute"}
      [] OTHER -> {}
isKindAllowed(l, kind) ==
    kind \in (IF l.kinds = {} THEN defaultKindForProtocol(l.protocol) ELSE l.kinds)

isNamespaceAllowed(l, ns) ==
    \/ l.from = "All"
    \/ l.from = "Same" /\ ns = GatewayNS
    \/ l.from = "Selector" /\ ns \in SelectedNS

\* The effective hostnames of a route; {} if it is not attached.  A listener without a
\* hostname makes a route without hostnames match everything.
routeAttachmentHostnames(r, spec) ==
    LET selected == {l \in listeners : /\ parentRefsSelectListener(spec, l)
                                       /\ isKindAllowed(l, r.kind)
                                       /\ isNamespaceAllowed(l, r.ns)}
        hosts == UNION {intersectHostnames(spec.hosts, l.host) : l \in selected} IN
    IF NoHost \in hosts THEN {NoHost} ELSE hosts

Attached == {r \in Routes : routeAttachmentHostnames(r, routes[r]) # {}}
-----------------------------------------------------------------------------
(* Rules. *)

pathNone == 0
pathRegex == 1
pathPrefix == 2
pathExact == 3

\* applyPathMatch and extractGRPCMatches: a root prefix and an absent match are no match
\* on the path, a gRPC method is a regular expression.
pathKind(m) ==
    CASE m.type = "Exact" -> pathExact
      [] m.type = "PathPrefix" -> IF m.path = <<>> THEN pathNone ELSE pathPrefix
      [] m.type \in {"RegularExpression", "GRPCMethod"} -> pathRegex
      [] OTHER -> pathNone

\* extractMatches, extractGRPCMatches: of a gRPC match only the method is kept, which is
\* part of the path.
builtMatch(kind, m) ==
    IF kind = "GRPCRoute" THEN [m EXCEPT !.method = m.type = "GRPCMethod", !.headers = 0] ELSE m
Unsupported_mMethodOnly(x) == x.route.kind = "HTTPRoute" /\ x.match.method
Unsupported(x) ==
    x.route.kind = "HTTPRoute" /\ (x.match.method \/ x.match.headers > 0 \/ x.match.queries > 0)

\* Hostnames and literals are measured in labels and segments: of two that match one
\* request the longer has more of them.
hostnameSpecificity(h) == <<IF h.wild THEN 0 ELSE 1, Len(h.labels)>>

\* The ranking of a rule, first component first, larger before smaller.
Ranking(x) ==
    hostnameSpecificity(x.host) \o
    <<pathKind(x.match), IF pathKind(x.match) = pathNone THEN 0 ELSE Len(x.match.path),
      IF x.match.method THEN 1 ELSE 0, x.match.headers, x.match.queries,
      -x.created, -x.route.ns, -x.route.name, -x.index>>
morePrecedent_mPathFirst(x, y) ==
    LET order == <<3, 4, 1, 2, 5, 6, 7, 8, 9, 10, 11>>
        rx == Ranking(x)  ry == Ranking(y) IN
    \E i \in 1 .. 11 :
        /\ rx[order[i]] > ry[order[i]]
        /\ \A j \in 1 .. i - 1 : rx[order[j]] = ry[order[j]]
morePrecedent(x, y) ==
    LET rx == Ranking(x)  ry == Ranking(y) IN
    \E i \in 1 .. 11 : rx[i] > ry[i] /\ \A j \in 1 .. i - 1 : rx[j] = ry[j]

\* The elements of a set in the order that a set of pairs puts them.
Listing(S, before) ==
    LET place == [x \in S |-> 1 + Cardinality({y \in S : <<y, x>> \in before})] IN
    [k \in 1 .. Cardinality(S) |-> CHOOSE x \in S : place[x] = k]

\* Sorted by precedence; rules that tie keep the order they were built in.
SortByPrecedence(rules) ==
    LET D == 1 .. Len(rules)
        order == Listing(D, {p \in D \X D :
                    \/ morePrecedent(rules[p[1]], rules[p[2]])
                    \/ ~morePrecedent(rules[p[2]], rules[p[1]]) /\ p[1] < p[2]}) IN
    [k \in D |-> rules[order[k]]]

\* Route rules are numbered from one.
ruleIndex_mFromZero(i) == i - 1
ruleIndex(i) == i

\* The hostnames and the matches that a route's rules are built for: TLS and TCP rules have
\* no match, TCP rules no hostname.
RuleHosts(r) ==
    IF r.kind = "TCPRoute" THEN {NoHost} ELSE routeAttachmentHostnames(r, routes[r])
RuleMatches(r, i) ==
    LET matches == routes[r].rules[i] IN
    IF r.kind \in {"TLSRoute", "TCPRoute"} \/ matches = <<>> THEN <<NoMatch>>
    ELSE [j \in 1 .. Len(matches) |-> builtMatch(r.kind, matches[j])]
BuiltRule(r, i, h, m) ==
    [route |-> r, created |-> routes[r].created, index |-> ruleIndex(i), host |-> h, match |-> m]

\* The rules of one route: route rule x hostname x match.
RouteRules(r) ==
    UNION {{BuiltRule(r, i, h, m) : h \in RuleHosts(r), m \in Range(RuleMatches(r, i))} :
           i \in 1 .. Len(routes[r].rules)}

\* The Build*IngressRules of a kind for its routes as listed, a loop over the routes, their
\* rules, the hostnames in any order, and the matches.
Build(listed) ==
    LET hosts == [k \in 1 .. Len(listed) |-> SetToSeq(RuleHosts(listed[k]))]
        rounds(k, i) == {<<k, i, h, j>> : h \in 1 .. Len(hosts[k]),
                                          j \in 1 .. Len(RuleMatches(listed[k], i))}
        loop == UNION {UNION {rounds(k, i) : i \in 1 .. Len(routes[listed[k]].rules)} :
                       k \in 1 .. Len(listed)}
        order == Listing(loop, {p \in loop \X loop : \E c \in 1 .. 4 :
                    p[1][c] < p[2][c] /\ \A d \in 1 .. c - 1 : p[1][d] = p[2][d]})
        rule(t) == BuiltRule(listed[t[1]], t[2], hosts[t[1]][t[3]],
                             RuleMatches(listed[t[1]], t[2])[t[4]]) IN
    [n \in 1 .. Len(order) |-> rule(order[n])]

\* HTTP and gRPC rules are sorted as one band; TLS rules, then TCP rules, follow.
L7 == {"HTTPRoute", "GRPCRoute"}
Ingress(http, grpc, tls, tcp) ==
    SortByPrecedence(Build(http) \o Build(grpc)) \o Build(tls) \o Build(tcp)
-----------------------------------------------------------------------------
(* Statuses. *)

\* collectUnsupportedMatchRoutes: by kind and name.
unsupportedRoutes(rules) == {<<x.route.kind, x.route.name>> : x \in {y \in rules : Unsupported(y)}}

supportedKindsForProtocol(protocol) ==
    CASE protocol = "HTTP" -> {"HTTPRoute", "GRPCRoute"}
      [] protocol = "HTTPS" -> {"HTTPRoute", "GRPCRoute", "TLSRoute"}
      [] protocol = "TLS" -> {"TLSRoute"}
      [] protocol = "TCP" -> {"TCPRoute"}
      [] OTHER -> {}

\* Every attached route whose kind goes with the protocol of the listener is counted.
computeListenerCounts_mHTTPOnly(l, attached) ==
    Cardinality({r \in attached : r.kind \in supportedKindsForProtocol(l.protocol) \ {"GRPCRoute"}})
computeListenerCounts(l, attached) ==
    Cardinality({r \in attached : r.kind \in supportedKindsForProtocol(l.protocol)})
ListenerStatus(l, attached) ==
    [count |-> computeListenerCounts(l, attached), name |-> l.name,
     accepted |-> supportedKindsForProtocol(l.protocol) # {}]
-----------------------------------------------------------------------------
Idle == [pc |-> "idle", rules |-> <<>>, seen |-> <<>>, attached |-> {}, listeners |-> {},
         failed |-> FALSE]

\* The controller starts beside existing objects.
Init ==
    /\ routes \in {f \in [Routes -> UNION {RouteSpecs[r] : r \in Routes}] :
                     \A r \in Routes : f[r] \in RouteSpecs[r]}
    /\ listeners \in ListenerSets
    /\ queued = TRUE
    /\ w = Idle
    /\ table = <<>>
    /\ status = [routes |-> [r \in Routes |-> "none"], listeners |-> {}]
    /\ used = [edits |-> 0, failures |-> 0]

SpendsFailure ==
    /\ used.failures < MaxFailures
    /\ used' = [used EXCEPT !.failures = @ + 1]

\* The pass ends with an error and is queued again.
Fails == SpendsFailure /\ w' = Idle /\ queued' = TRUE

\* collect*Routes: informers list the routes of a kind in no particular order.
Listed(kind) == SetToSeqs({r \in Attached : r.kind = kind})
CollectRoutes ==
    /\ w.pc = "idle" /\ queued
    /\ \/ /\ \E http \in Listed("HTTPRoute"), grpc \in Listed("GRPCRoute"),
                tls \in Listed("TLSRoute"), tcp \in Listed("TCPRoute") :
                w' = [Idle EXCEPT !.pc = "push", !.rules = Ingress(http, grpc, tls, tcp),
                                  !.seen = routes, !.attached = Attached,
                                  !.listeners = listeners]
          /\ queued' = FALSE
          /\ UNCHANGED used
       \/ Fails
    /\ UNCHANGED <<routes, listeners, table, status>>

\* UpdateTunnelConfiguration; a failed call may have taken effect.
PushConfig ==
    /\ w.pc = "push"
    /\ \/ table' = w.rules /\ w' = [w EXCEPT !.pc = "routes"] /\ UNCHANGED <<queued, used>>
       \/ Fails /\ table' \in {table, w.rules}
    /\ UNCHANGED <<routes, listeners, status>>

\* Patch*RouteStatus of every attached route, as one step; a route changed since it was read
\* conflicts, and an update may be lost.
PatchRouteStatuses ==
    /\ w.pc = "routes"
    /\ LET unsupported == unsupportedRoutes(Range(w.rules))
           conflicting == {r \in w.attached : routes[r] # w.seen[r]}
           report(r) == IF <<r.kind, r.name>> \in unsupported THEN "partial" ELSE "accepted"
           Patch(lost) ==
              /\ status' = [status EXCEPT !.routes = [r \in Routes |->
                               IF r \in w.attached \ lost THEN report(r) ELSE @[r]]]
              /\ w' = [w EXCEPT !.pc = "gateway", !.rules = <<>>, !.seen = <<>>,
                                !.failed = lost # {}] IN
       \/ Patch(conflicting) /\ UNCHANGED used
       \/ SpendsFailure /\ \E r \in w.attached : Patch(conflicting \cup {r})
    /\ UNCHANGED <<routes, listeners, queued, table>>

\* PatchGatewayStatus, which conflicts with a new spec of the Gateway.
PatchGatewayStatus ==
    /\ w.pc = "gateway"
    /\ \/ /\ listeners = w.listeners
          /\ status' = [status EXCEPT !.listeners =
                           {ListenerStatus(l, w.attached) : l \in w.listeners}]
          /\ queued' = (queued \/ w.failed)
          /\ w' = Idle /\ UNCHANGED used
       \/ listeners # w.listeners /\ w' = Idle /\ queued' = TRUE /\ UNCHANGED <<status, used>>
       \/ Fails /\ UNCHANGED status
    /\ UNCHANGED <<routes, listeners, table>>

Edits ==
    /\ used.edits < MaxEdits
    /\ used' = [used EXCEPT !.edits = @ + 1]
    /\ UNCHANGED <<w, table>>

\* An update is mapped for the old and the new object, so that a route that drops its
\* parentRef wakes up the Gateway it leaves.
routeToGateways_mNewOnly(old, new) == new.parents # {}
routeToGateways(old, new) == old.parents # {} \/ new.parents # {}

EditRoute(r, spec) ==
    /\ Edits /\ spec # routes[r]
    /\ routes' = [routes EXCEPT ![r] = spec]
    /\ queued' = (queued \/ routeToGateways(routes[r], spec))
    /\ status' = IF spec = NoRoute THEN [status EXCEPT !.routes[r] = "none"] ELSE status
    /\ UNCHANGED listeners

\* A change of the Gateway's spec is an event of the Gateway itself.
EditListeners(ls) ==
    /\ Edits /\ ls # listeners
    /\ listeners' = ls
    /\ queued' = TRUE
    /\ UNCHANGED <<routes, status>>

Next ==
    \/ CollectRoutes \/ PushConfig \/ PatchRouteStatuses \/ PatchGatewayStatus
    \/ \E r \in Routes : \E spec \in RouteSpecs[r] : EditRoute(r, spec)
    \/ \E ls \in ListenerSets : EditListeners(ls)

Spec == Init /\ [][Next]_vars
-----------------------------------------------------------------------------
(* What cloudflared does with the table (external). *)

Covers(pattern, host) ==
    IF pattern.wild
    THEN Len(host) > Len(pattern.labels) /\ IsSuffix(pattern.labels, host)
    ELSE pattern.labels = host
MatchesPath(m, path) ==
    CASE m.type \in {"Exact", "GRPCMethod"} -> path = m.path
      [] m.type \in {"PathPrefix", "RegularExpression"} -> IsPrefix(m.path, path)
      [] OTHER -> TRUE
Matching(x, host, path) == Covers(x.host, host) /\ MatchesPath(x.match, path)

\* The route rule that answers, <<>> for the catch-all 404: the first rule that matches.
Answer(host, path) ==
    LET i == SelectInSeq(table, LAMBDA x : Matching(x, host, path)) IN
    IF i = 0 THEN <<>> ELSE <<table[i].route, table[i].index>>
-----------------------------------------------------------------------------
(* Properties. *)

\* Every variable has its type.
TypeOK ==
    /\ \A r \in Routes : routes[r] \in RouteSpecs[r]
    /\ listeners \in ListenerSets
    /\ queued \in BOOLEAN
    /\ w.pc \in {"idle", "push", "routes", "gateway"} /\ w.rules \in Seq(Rules)
    /\ w.attached \subseteq Routes /\ w.failed \in BOOLEAN
    /\ table \in Seq(Rules)
    /\ status.routes \in [Routes -> {"none", "accepted", "partial"}]
    /\ \A l \in status.listeners : l.count \in Nat /\ l.accepted \in BOOLEAN
    /\ used \in [edits : Nat, failures : Nat]

Quiet == w.pc = "idle" /\ ~queued

\* A route serves a hostname if a listener it may attach to and the route itself do; TCP
\* rules have no hostname.
Admits(r, host) ==
    \E l \in listeners :
        /\ parentRefsSelectListener(routes[r], l)
        /\ isKindAllowed(l, r.kind) /\ isNamespaceAllowed(l, r.ns)
        /\ r.kind # "TCPRoute" =>
              /\ Covers(l.host, host)
              /\ routes[r].hosts = {} \/ \E h \in routes[r].hosts : Covers(h, host)

\* Once no event is pending, a route has rules for exactly the hostnames that one of its
\* listeners and the route have in common, whichever of the two is the wildcard, and none
\* once it is detached: "effective ... hostnames after parent listener selection,
\* namespace/kind checks, and hostname intersection" (README, attachment.go).
ServesIntersection ==
    Quiet => \A r \in Routes, host \in Hosts :
        (\E i \in 1 .. Len(table) : table[i].route = r /\ Covers(table[i].host, host))
        <=> routes[r].rules # <<>> /\ Admits(r, host)

\* The text of the Gateway API on two matches for one request: the narrower hostname
\* wins; under one hostname the first criterion that tells them apart decides.
Narrower(g, h) == h.wild /\ Len(g.labels) > Len(h.labels) /\ IsSuffix(h.labels, g.labels)
Criteria(x) ==
    <<CASE x.match.type = "Exact" -> 3
        [] x.match.type = "PathPrefix" /\ x.match.path # <<>> -> 2
        [] x.match.type \in {"RegularExpression", "GRPCMethod"} -> 1
        [] OTHER -> 0,
      Len(x.match.path), IF x.match.method THEN 1 ELSE 0, x.match.headers, x.match.queries,
      -x.created, -x.route.ns, -x.route.name, -x.index>>
Outranks(x, y) ==
    \/ Narrower(x.host, y.host)
    \/ /\ x.host = y.host
       /\ LET cx == Criteria(x)  cy == Criteria(y)
              differ == {i \in 1 .. Len(cx) : cx[i] # cy[i]} IN
          differ # {} /\ cx[Min(differ)] > cy[Min(differ)]
Preferred(S) == {<<x.route, x.index>> : x \in {y \in S : \A z \in S : ~Outranks(z, y)}}

\* Once no event is pending, every request is answered by the rule that Gateway API
\* precedence names among the HTTP and gRPC matches, whatever the order routes were listed
\* in: "makes the more-specific match win" (precedence.go).  TLS and TCP rules only answer
\* what no HTTP or gRPC rule matches (reconciler.go).
MostSpecificWins ==
    Quiet => \A host \in Hosts, path \in Paths :
        LET all == UNION {RouteRules(r) : r \in Attached}
            matching(kinds) == {x \in all : x.route.kind \in kinds /\ Matching(x, host, path)} IN
        IF matching(L7) # {} THEN Answer(host, path) \in Preferred(matching(L7))
        ELSE IF matching(RouteKinds) # {}
        THEN Answer(host, path) \in {<<x.route, x.index>> : x \in matching(RouteKinds)}
        ELSE Answer(host, path) = <<>>

\* A route asks for more than hostname and path, which is all a tunnel can tell apart.
Unenforceable(r) ==
    \E i \in 1 .. Len(routes[r].rules) : \E m \in Range(routes[r].rules[i]) :
        \/ m.headers > 0 \/ m.queries > 0
        \/ m.method /\ m.type # "GRPCMethod"
Shares(r) == \E q \in Attached \ {r} : q.kind = r.kind /\ q.name = r.name

\* Once no event is pending, an attached HTTPRoute says PartiallyInvalid if and only if one of
\* its rules does ask for more ("flag them for status", ingress.go), whatever was pushed and
\* lost before, unless another namespace has an attached HTTPRoute of its name.
PartialIsCurrent ==
    Quiet => \A r \in Attached : r.kind = "HTTPRoute" /\ ~Shares(r) =>
        status.routes[r] = IF Unenforceable(r) THEN "partial" ELSE "accepted"

\* The routes that are attached through a listener.
Through(l) ==
    {r \in Routes : /\ parentRefsSelectListener(routes[r], l)
                    /\ isKindAllowed(l, r.kind) /\ isNamespaceAllowed(l, r.ns)
                    /\ intersectHostnames(routes[r].hosts, l.host) # {}}
Reported(l) == CHOOSE s \in status.listeners : s.name = l.name

\* Once no event is pending, the Gateway reports on exactly its listeners; none with the kinds
\* its protocol stands for understates the routes attached through it, and one that is alone
\* has their number.
ListenersAreCurrent ==
    Quiet =>
        /\ {s.name : s \in status.listeners} = {l.name : l \in listeners}
        /\ \A l \in listeners : l.kinds = {} =>
              /\ Reported(l).count >= Cardinality(Through(l))
              /\ listeners = {l} => Reported(l).count = Cardinality(Through(l))
=============================================================================
