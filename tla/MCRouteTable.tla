---------------------------- MODULE MCRouteTable ----------------------------
(* An instance of RouteTable for TLC: two HTTPRoutes in different namespaces and one     *)
(* route of each other kind, under example hostnames.                                   *)
EXTENDS RouteTable

Exactly(labels) == [wild |-> FALSE, labels |-> labels]
Under(labels) == [wild |-> TRUE, labels |-> labels]
a == <<"a", "com">>
ba == <<"b", "a", "com">>
com == <<"com">>

Match(type, path, method) == [NoMatch EXCEPT !.type = type, !.path = path, !.method = method]
Route(kind, ns, name) == [kind |-> kind, ns |-> ns, name |-> name]
http1 == Route("HTTPRoute", 1, 1)
grpc1 == Route("GRPCRoute", 1, 1)
http2 == Route("HTTPRoute", 2, 2)
tls1 == Route("TLSRoute", 1, 1)
tcp1 == Route("TCPRoute", 1, 1)

Specs(parents, hosts, rules, created) ==
    {NoRoute} \cup [parents : parents, hosts : hosts, rules : rules, created : created]

HTTPRules(method) ==
    {<< <<Match("Exact", <<"p">>, FALSE)>>, <<>> >>,
     << <<Match("PathPrefix", <<"p">>, method), Match("RegularExpression", <<"q">>, FALSE)>>,
        <<[Match("PathPrefix", <<"p", "q">>, FALSE) EXCEPT !.headers = 1]>> >>}
GRPCRules == {<< <<Match("GRPCMethod", <<"p", "q">>, TRUE), NoMatch>> >>}
MCRoutes == {http1, http2, grpc1, tls1, tcp1}
MCRouteSpecs ==
    [r \in MCRoutes |->
        CASE r = http1 -> Specs({{AnySection}}, {{}, {Exactly(a), Under(a)}},
                                HTTPRules(TRUE), {1})
          [] r = http2 -> Specs({{AnySection}}, {{Under(com)}}, HTTPRules(FALSE), {1, 2})
          [] r = grpc1 -> Specs({{AnySection}}, {{Exactly(a)}}, GRPCRules, {1})
          [] r = tls1 -> Specs({{"l2"}}, {{Under(a)}}, {<< <<>> >>}, {1})
          [] r = tcp1 -> Specs({{"l3"}}, {{}}, {<< <<>> >>}, {1})]

Listener(name, protocol, host, from) ==
    [name |-> name, protocol |-> protocol, host |-> host, from |-> from, kinds |-> {}]
MCListenerSets ==
    {{Listener("l1", "HTTP", NoHost, "All")},
     {Listener("l1", "HTTPS", Exactly(ba), "All"), Listener("l2", "TLS", Under(com), "Same"),
      [Listener("l3", "HTTP", NoHost, "All") EXCEPT !.kinds = {"TCPRoute"}]},
     {Listener("l1", "HTTP", Under(a), "Selector"), Listener("l2", "HTTP", Exactly(a), "Same")}}

\* Instances of one or two routes, for what statuses say.
Only(parents, rules) == Specs({parents}, {{}}, {rules}, {1})
Headers(type) == <<[Match(type, <<"p">>, FALSE) EXCEPT !.headers = 1]>>
twin1 == Route("HTTPRoute", 1, 1)
twin2 == Route("HTTPRoute", 2, 1)
TwinSpecs ==
    [r \in {twin1, twin2} |->
        Only({IF r = twin1 THEN "l1" ELSE "l2"},
             IF r = twin1 THEN << <<>> >> ELSE <<Headers("Exact")>>)]
Twins == {twin1, twin2}
GRPCSpecs == [r \in {grpc1} |-> Only({"l1"}, <<Headers("GRPCMethod")>>)]
OneGRPC == {grpc1}
TwoListeners == {{Listener("l1", "HTTP", NoHost, "All"), Listener("l2", "HTTP", NoHost, "All")},
                 {Listener("l1", "HTTP", NoHost, "All")}}
UnknownProtocol ==
    {{[Listener("l1", "UDP", NoHost, "All") EXCEPT !.kinds = {"HTTPRoute"}],
      Listener("l2", "HTTP", NoHost, "All")}}
MCHosts == {a, ba, <<"x", "com">>, <<"c", "b", "a", "com">>}
MCPaths == {<<>>, <<"p">>, <<"p", "q">>, <<"q">>}
-----------------------------------------------------------------------------
(* Statements of the documentation that some instances refute. *)

\* "ListenerRouteCount tracks the number of attached routes per listener" (status.go).
CountsPerListener ==
    Quiet => \A l \in listeners : Reported(l).count = Cardinality(Through(l))

\* "A protocol with no supported route kinds is not one this controller can serve - report it
\* rejected instead of silently accepting it" (status.go): a rejected listener serves nothing.
RejectedServesNothing ==
    Quiet => \A l \in listeners : ~Reported(l).accepted =>
        \A r \in Through(l) : \A i \in 1 .. Len(table) : table[i].route # r

\* "a route's match used a dimension Cloudflare tunnels can't enforce (method, header, or
\* query-param match)" (status.go) is reported for gRPC routes too.
PartialForEveryKind ==
    Quiet => \A r \in Attached : Unenforceable(r) => status.routes[r] = "partial"

\* "that produced at least one ingress rule whose source match used a dimension Cloudflare
\* cannot enforce" (reconciler.go): only such routes are reported.
PartialIsOwn ==
    Quiet => \A r \in Attached : status.routes[r] = "partial" => Unenforceable(r)
=============================================================================
