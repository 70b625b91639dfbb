------------------------- MODULE BackendResolution -------------------------
(***************************************************************************)
(* Backend references: how apply resolves the backendRefs of attached      *)
(* routes against Services, XBackends, ReferenceGrants and                 *)
(* BackendTLSPolicies (xbackend.go, servicebackend.go, refgrant.go,        *)
(* backendtls.go, ingress.go), what it then reports on routes and          *)
(* XBackends (status.go, xbackendstatus.go), and which events make it do   *)
(* so again (controller.go), while all of these objects change.            *)
(*                                                                         *)
(* Objects are named by their own names, NamespaceOf gives the namespace.  *)
(* A reference says the kind, name and port it is written with (0 if it    *)
(* has none).  A ReferenceGrant with several from and to entries is the    *)
(* set of its pairs.  A route is attached to the Gateways its parentRefs   *)
(* name: what listeners admit is RouteTable's subject, policies are        *)
(* PolicyAttachment's.  An update carries the resourceVersion of the copy  *)
(* it was made from and fails if the API server has a newer one; one that  *)
(* changes nothing makes no version.                                       *)
(***************************************************************************)
EXTENDS BackendTranslation, Sequences, FiniteSets

CONSTANTS
    Gateways, Routes, Services, XBackends, TLSPolicies, Grants,   \* objects there may be
    NamespaceOf,           \* the namespace of each route, Service and XBackend
    KindOf, HostOf,        \* the kind and hostname of each route
    TargetOf,              \* the Service each BackendTLSPolicy targets
    RouteSpecs,            \* [parents, rules] a route may be given; a rule is its backendRefs
    PortSets,              \* ports a Service may expose, as [port, protocol]
    XBackendSpecs,         \* specs an XBackend may be given
    InitialObjects,        \* what the API server holds when the controller starts
    maxXBackendAncestors,
    Disturbances,          \* kinds of changes users make, "failure" and "restart"
    MaxDisturbances

VARIABLES
    api,      \* objects of the API server: routes, svcs, xbs, grants, tls
    cached,   \* what the process holds of it: informers' copies, and its flag
    live,     \* is each Gateway "live", "deleting" or "gone"?
    queue,    \* the work queue
    w,        \* the worker
    pushed,   \* ingress rules Cloudflare has for each Gateway
    used      \* how many disturbances there were

vars == <<api, cached, live, queue, w, pushed, used>>

Absent == [reason |-> "absent", gen |-> 0]
NoEntries == [g \in Gateways |-> Absent]
NoService == [exists |-> FALSE, ports |-> {}]
NoXBackend == [exists |-> FALSE, spec |-> CHOOSE s \in XBackendSpecs : TRUE, gen |-> 0,
               version |-> 0, entries |-> NoEntries]
Idle == [pc |-> "idle", gw |-> {}, seen |-> [r \in Routes |-> {}],
         ports |-> [s \in Services |-> {}], permitted |-> {},
         fetched |-> [x \in XBackends |-> {}], list |-> [x \in XBackends |-> {}],
         todo |-> {}, failed |-> FALSE]

\* The types of objects.
Reasons == {"none", "XBackendDisabled", "UnsupportedKind", "RefNotPermitted", "BackendNotFound",
            "IncompatibleRouteKind", "UnsupportedProtocol", "InvalidBackendPort",
            "UnsupportedCACerts", "UnsupportedTLSValidation"}
Entries == [Gateways -> {Absent} \cup [reason : Reasons, gen : Nat]]
RouteObjects(r) == [spec : RouteSpecs[r], gen : Nat, version : Nat, entries : Entries]
XBackendObjects ==
    [exists : BOOLEAN, spec : XBackendSpecs, gen : Nat, version : Nat, entries : Entries]
ObjectsOK(o) ==
    /\ DOMAIN o.routes = Routes /\ \A r \in Routes : o.routes[r] \in RouteObjects(r)
    /\ o.svcs \in [Services -> {NoService} \cup [exists : {TRUE}, ports : PortSets]]
    /\ o.xbs \in [XBackends -> XBackendObjects]
    /\ o.grants \subseteq Grants /\ o.tls \subseteq TLSPolicies

\* A reference; one to a Service or an XBackend names one there may be.
References ==
    {ref \in [kind : STRING, name : DOMAIN NamespaceOf, port : Nat] :
        /\ ref.kind = "Service" => ref.name \in Services
        /\ ref.kind = "XBackend" => ref.name \in XBackends}

\* No Gateway has reported on an XBackend before the controller first starts.
ASSUME ResolutionAssumption ==
    /\ KindOf \in [Routes -> RouteKinds] /\ TargetOf \in [TLSPolicies -> Services]
    /\ Routes \cup Services \cup XBackends \subseteq DOMAIN NamespaceOf
    /\ DOMAIN RouteSpecs = Routes /\ DOMAIN HostOf = Routes
    /\ \A r \in Routes : \A spec \in RouteSpecs[r] :
          spec.parents \subseteq Gateways /\ spec.rules \in Seq(Seq(References))
    /\ \A ports \in PortSets : ports \subseteq [port : Nat, protocol : STRING]
    /\ Services \cap XBackends = {}
    /\ DOMAIN InitialObjects = {"routes", "svcs", "xbs", "grants", "tls"}
    /\ ObjectsOK(InitialObjects)
    /\ \A x \in XBackends : InitialObjects.xbs[x].entries = NoEntries
    /\ {maxXBackendAncestors, MaxDisturbances} \subseteq Nat

\* The process that starts with XBackend support on or off lists everything.
Started(enabled) ==
    [enabled |-> enabled, routes |-> api.routes, svcs |-> api.svcs, xbs |-> api.xbs,
     grants |-> api.grants, tls |-> api.tls]
ExperimentalBackends == cached.enabled

Disturbs(kind) == kind \in Disturbances /\ used < MaxDisturbances /\ used' = used + 1
-----------------------------------------------------------------------------
(* References. *)

\* targetsFromObjRefs: a reference with the route it is on.
Target(r, ref) == [routeNS |-> NamespaceOf[r], routeKind |-> KindOf[r], kind |-> ref.kind,
                   name |-> ref.name, port |-> ref.port]
Local(t) == t.routeNS = NamespaceOf[t.name]
permit(t) == [t EXCEPT !.port = 0]

Refs(spec) ==
    UNION {{spec.rules[i][j] : j \in 1 .. Len(spec.rules[i])} : i \in 1 .. Len(spec.rules)}

\* collectBackendTargets over the attached routes the pass has listed.
AttachedRoutes == {r \in Routes : w.seen[r] # {}}
SeenRoute(r) == CHOOSE copy \in w.seen[r] : TRUE
Targets(kind) ==
    {t \in UNION {{Target(r, ref) : ref \in Refs(SeenRoute(r).spec)} : r \in AttachedRoutes} :
        t.kind = kind}

fromMatches(grant, t) == grant.fromNS = t.routeNS /\ grant.fromKind = t.routeKind
groupMatches(group, kind) ==
    IF kind = "Service" THEN group \in {"", "core"} ELSE group = "gateway.networking.x-k8s.io"
toMatches(grant, t) ==
    groupMatches(grant.group, t.kind) /\ grant.kind = t.kind /\ grant.name \in {"", t.name}
CheckReferenceGrantTo(grants, t) ==
    \E grant \in grants :
        grant.ns = NamespaceOf[t.name] /\ fromMatches(grant, t) /\ toMatches(grant, t)

\* The targets that may be dereferenced.
Dereferenced(targets, grants) == {t \in targets : Local(t) \/ CheckReferenceGrantTo(grants, t)}
PermitsFor(targets, grants) ==
    {permit(t) : t \in {u \in targets : CheckReferenceGrantTo(grants, u)}}

\* Why a reference cannot be served, "none" if it can.
resolveServiceRef(t) ==
    IF ~Local(t) /\ permit(t) \notin w.permitted THEN "RefNotPermitted"
    ELSE IF \E p \in w.ports[t.name] : p.port = t.port /\ p.protocol \in {"", "TCP"} THEN "none"
    ELSE "BackendNotFound"
resolveXBackendRef(t) ==
    IF ~ExperimentalBackends THEN "XBackendDisabled"
    ELSE IF ~Local(t) /\ permit(t) \notin w.permitted THEN "RefNotPermitted"
    ELSE IF t.port # 0 THEN "InvalidBackendPort"
    ELSE IF w.fetched[t.name] = {} THEN "BackendNotFound"
    ELSE translateReason(CHOOSE s \in w.fetched[t.name] : TRUE, t.routeKind)
resolveTargetReason(t) ==
    CASE t.kind = "XBackend" -> resolveXBackendRef(t)
      [] t.kind = "Service" -> resolveServiceRef(t)
      [] OTHER -> "UnsupportedKind"

reasonSeverity(reason) ==
    CASE reason = "XBackendDisabled" -> 7
      [] reason = "UnsupportedKind" -> 6
      [] reason = "RefNotPermitted" -> 5
      [] reason = "BackendNotFound" -> 4
      [] reason = "IncompatibleRouteKind" -> 3
      [] reason \in {"UnsupportedProtocol", "InvalidBackendPort"} -> 2
      [] reason \in {"UnsupportedCACerts", "UnsupportedTLSValidation"} -> 1
      [] OTHER -> 0

\* The worst reason over all references; which of two equally severe ones is not told apart.
routeResolvedRefs_mFirstRef(r) ==
    LET rules == SeenRoute(r).spec.rules IN
    IF rules = <<>> \/ rules[1] = <<>> THEN "none" ELSE resolveTargetReason(Target(r, rules[1][1]))
routeResolvedRefs(r) ==
    LET reasons == {resolveTargetReason(Target(r, ref)) : ref \in Refs(SeenRoute(r).spec)} IN
    IF reasons = {} THEN "none"
    ELSE CHOOSE x \in reasons : \A y \in reasons : reasonSeverity(x) >= reasonSeverity(y)
-----------------------------------------------------------------------------
(* Ingress rules. *)

ErrorStatus(kind) == <<"status", "", IF kind = "HTTPRoute" THEN 500 ELSE 503>>
NativeScheme(kind) ==
    CASE kind = "TLSRoute" -> "https" [] kind = "TCPRoute" -> "tcp" [] OTHER -> "http"

\* resolveServiceAndOrigin: where a rule sends its traffic.
ServiceURL(r, refs) ==
    IF refs = <<>> THEN <<"status", "", 503>>
    ELSE LET t == Target(r, refs[1]) IN
         IF resolveTargetReason(t) # "none" THEN ErrorStatus(KindOf[r])
         ELSE IF t.kind = "XBackend"
         THEN LET s == CHOOSE x \in w.fetched[t.name] : TRUE IN
              <<schemeFor(s, KindOf[r]), t.name, s.port>>
         ELSE <<NativeScheme(KindOf[r]), t.name, t.port>>

\* The origin a rule is built with: an error or an XBackend is "external" to the cluster.
BuiltOrigin(r, refs) ==
    IF refs = <<>> THEN ruleOrigin(KindOf[r], {}, FALSE, NoOrigin)
    ELSE LET t == Target(r, refs[1])
             ok == resolveTargetReason(t) = "none" IN
         ruleOrigin(KindOf[r], {}, t.kind = "XBackend" \/ ~ok,
                    IF ok /\ t.kind = "XBackend"
                    THEN translateOrigin(CHOOSE s \in w.fetched[t.name] : TRUE, KindOf[r])
                    ELSE NoOrigin)

\* applyBackendTLSPolicies.  The Service a hostname is taken to belong to is that of the
\* last TLS rule that names it, in the order routes were listed; a rule whose first
\* reference is an XBackend is left alone.
ToService(refs) == refs # <<>> /\ refs[1].kind # "XBackend"
hostnameToBackend(r) ==
    LET rules == SeenRoute(r).spec.rules
        of == {i \in 1 .. Len(rules) : ToService(rules[i])} IN
    {rules[i][1].name : i \in {j \in of : \A k \in of : k <= j}}
TLSBackends(host) ==
    UNION {hostnameToBackend(r) : r \in {x \in AttachedRoutes : KindOf[x] = "TLSRoute"
                                                               /\ HostOf[x] = host}}
\* GetBackendTLSConfig: some policy of the Service, in the order they are listed.
TLSConfigs(name) ==
    LET targeting == {p \in cached.tls : TargetOf[p] = name} IN
    IF targeting = {} THEN {Setting({"noTLSVerify"}, "true")}
    ELSE {Setting({"originServerName"}, p) : p \in targeting}
TLSOrigins_mExternal(r, refs) ==
    IF KindOf[r] # "TLSRoute" \/ TLSBackends(HostOf[r]) = {} THEN {BuiltOrigin(r, refs)}
    ELSE UNION {TLSConfigs(s) : s \in TLSBackends(HostOf[r])}
TLSOrigins(r, refs) ==
    IF \/ KindOf[r] # "TLSRoute" \/ TLSBackends(HostOf[r]) = {}
       \/ refs # <<>> /\ refs[1].kind = "XBackend"
    THEN {BuiltOrigin(r, refs)}
    ELSE UNION {TLSConfigs(s) : s \in TLSBackends(HostOf[r])}

\* The rule built from rule i of a route; its origin is one of the possible ones.
RuleIDs == UNION {{<<r, i>> : i \in 1 .. Len(SeenRoute(r).spec.rules)} : r \in AttachedRoutes}
RuleSets ==
    LET refs(id) == SeenRoute(id[1]).spec.rules[id[2]]
        origins == UNION {TLSOrigins(id[1], refs(id)) : id \in RuleIDs} IN
    {[id \in RuleIDs |-> [service |-> ServiceURL(id[1], refs(id)), origin |-> pick[id]]] :
        pick \in {f \in [RuleIDs -> origins] :
                    \A id \in RuleIDs : f[id] \in TLSOrigins(id[1], refs(id))}}
NoRules == [id \in {} |-> 0]
-----------------------------------------------------------------------------
Init ==
    /\ api = InitialObjects
    /\ cached = Started(TRUE)
    /\ live = [g \in Gateways |-> "live"]
    /\ queue = Gateways
    /\ w = Idle
    /\ pushed = [g \in Gateways |-> NoRules]
    /\ used = 0
-----------------------------------------------------------------------------
(* The reconcile of a Gateway. *)

SpendsFailure == Disturbs("failure")

\* What Reconcile's result puts back on the queue: only an error does.
Requeued(g, err) == IF err THEN {g} ELSE {}

\* A listing fails: apply returns the error.
Abort(g) ==
    /\ SpendsFailure
    /\ w' = Idle /\ queue' = queue \cup Requeued(g, TRUE)

\* collect*Routes.
CollectRoutes(g) ==
    /\ w.pc = "idle" /\ g \in queue /\ live[g] = "live"
    /\ queue' = queue \ {g}
    /\ w' = [Idle EXCEPT !.pc = "services", !.gw = {g},
                !.seen = [r \in Routes |->
                    IF g \in cached.routes[r].spec.parents THEN {cached.routes[r]} ELSE {}]]
    /\ UNCHANGED <<api, cached, live, pushed, used>>

collectServiceBackends(g) ==
    /\ w.pc = "services" /\ w.gw = {g}
    /\ \/ /\ LET targets == Targets("Service")
                 names == {t.name : t \in Dereferenced(targets, cached.grants)} IN
             w' = [w EXCEPT !.pc = IF ExperimentalBackends THEN "xbackends" ELSE "push",
                            !.permitted = PermitsFor(targets, cached.grants),
                            !.ports = [s \in Services |->
                                         IF s \in names THEN cached.svcs[s].ports ELSE {}]]
          /\ UNCHANGED <<queue, used>>
       \/ Abort(g)
    /\ UNCHANGED <<api, cached, live, pushed>>

collectReferencedXBackends(g) ==
    /\ w.pc = "xbackends" /\ w.gw = {g}
    /\ \/ /\ LET targets == Targets("XBackend")
                 names == {t.name : t \in Dereferenced(targets, cached.grants)} IN
             w' = [w EXCEPT !.pc = "push",
                            !.permitted = @ \cup PermitsFor(targets, cached.grants),
                            !.fetched = [x \in XBackends |->
                                IF x \in names /\ cached.xbs[x].exists
                                THEN {cached.xbs[x].spec} ELSE {}]]
          /\ UNCHANGED <<queue, used>>
       \/ Abort(g)
    /\ UNCHANGED <<api, cached, live, pushed>>

\* Build*IngressRules, applyBackendTLSPolicies and UpdateTunnelConfiguration.
PushConfig(g) ==
    /\ w.pc = "push" /\ w.gw = {g}
    /\ \/ /\ \E rules \in RuleSets : pushed' = [pushed EXCEPT ![g] = rules]
          /\ w' = [w EXCEPT !.pc = "routes", !.todo = AttachedRoutes]
          /\ UNCHANGED <<queue, used>>
       \/ Abort(g) /\ UNCHANGED pushed
    /\ UNCHANGED <<api, cached, live>>

\* Patch{HTTP,GRPC,TLS,TCP}RouteStatus on the copy that was listed; the first error is kept.
PatchRouteStatus(g, r) ==
    /\ w.pc = "routes" /\ w.gw = {g} /\ r \in w.todo
    /\ LET copy == SeenRoute(r)
           entry == [reason |-> routeResolvedRefs(r), gen |-> copy.gen]
           new == [copy EXCEPT !.entries[g] = entry] IN
       \/ /\ api.routes[r].version = copy.version
          /\ api' = IF new = copy THEN api
                    ELSE [api EXCEPT !.routes[r] = [new EXCEPT !.version = @ + 1]]
          /\ w' = [w EXCEPT !.todo = @ \ {r}]
          /\ UNCHANGED used
       \/ /\ api.routes[r].version # copy.version
          /\ w' = [w EXCEPT !.todo = @ \ {r}, !.failed = TRUE]
          /\ UNCHANGED <<api, used>>
       \/ /\ SpendsFailure
          /\ w' = [w EXCEPT !.todo = @ \ {r}, !.failed = TRUE]
          /\ UNCHANGED api
    /\ UNCHANGED <<cached, live, queue, pushed>>

Listed == {x \in XBackends : cached.xbs[x].exists}
ListedCopies == [x \in XBackends |-> IF x \in Listed THEN {cached.xbs[x]} ELSE {}]

\* patchXBackendStatuses lists the XBackends.
ListXBackends(g) ==
    /\ w.pc = "routes" /\ w.gw = {g} /\ w.todo = {} /\ ExperimentalBackends
    /\ \/ /\ w' = [w EXCEPT !.pc = "patch", !.list = ListedCopies, !.todo = Listed]
          /\ UNCHANGED used
       \/ SpendsFailure /\ w' = [w EXCEPT !.pc = "patch", !.failed = TRUE]
    /\ UNCHANGED <<api, cached, live, queue, pushed>>

upsertXBackendAncestor(copy, g, entry) ==
    IF /\ copy.entries[g] = Absent
       /\ Cardinality({h \in Gateways : copy.entries[h] # Absent}) >= maxXBackendAncestors
    THEN copy
    ELSE [copy EXCEPT !.entries[g] = entry]
removeXBackendAncestor(copy, g) == [copy EXCEPT !.entries[g] = Absent]

\* Status().Update of an XBackend, made only if the status changed.
UpdateXBackend(x, new) ==
    LET copy == CHOOSE c \in w.list[x] : TRUE
        current == api.xbs[x].exists /\ api.xbs[x].version = copy.version IN
    \/ new = copy /\ w' = [w EXCEPT !.todo = @ \ {x}] /\ UNCHANGED <<api, used>>
    \/ /\ new # copy /\ current
       /\ api' = [api EXCEPT !.xbs[x] = [new EXCEPT !.version = @ + 1]]
       /\ w' = [w EXCEPT !.todo = @ \ {x}]
       /\ UNCHANGED used
    \/ /\ new # copy /\ ~current
       /\ w' = [w EXCEPT !.todo = @ \ {x}, !.failed = TRUE]
       /\ UNCHANGED <<api, used>>
    \/ /\ new # copy /\ SpendsFailure
       /\ w' = [w EXCEPT !.todo = @ \ {x}, !.failed = TRUE]
       /\ UNCHANGED api

\* The condition an XBackend gets, judged on its own and as it was listed.
AcceptedEntry_mPlain(x, copy) ==
    [reason |-> IF translateReason(copy.spec, "any") = "none" THEN "none" ELSE "Invalid",
     gen |-> copy.gen]
AcceptedEntry_mFetched(x, copy) ==
    [reason |-> translateReason(CHOOSE s \in w.fetched[x] : TRUE, "any"), gen |-> copy.gen]
AcceptedEntry(x, copy) == [reason |-> translateReason(copy.spec, "any"), gen |-> copy.gen]

\* The loop body of patchXBackendStatuses: an XBackend that was fetched is reported on.
patchXBackendStatus(g, x) ==
    /\ w.pc = "patch" /\ w.gw = {g} /\ x \in w.todo
    /\ LET copy == CHOOSE c \in w.list[x] : TRUE IN
       UpdateXBackend(x,
          IF w.fetched[x] # {}
          THEN upsertXBackendAncestor(copy, g, AcceptedEntry(x, copy))
          ELSE removeXBackendAncestor(copy, g))
    /\ UNCHANGED <<cached, live, queue, pushed>>

\* The pass ends; a status that could not be written makes it fail.
EndPass(g) ==
    /\ w.gw = {g} /\ w.todo = {}
    /\ w.pc = "patch" \/ (w.pc = "routes" /\ ~ExperimentalBackends)
    /\ w' = Idle /\ queue' = queue \cup Requeued(g, w.failed)
    /\ UNCHANGED <<api, cached, live, pushed, used>>

\* cleanup: the tunnel is deleted and pruneXBackendAncestorStatus lists the XBackends; an
\* error of the listing or of an update is only logged.
StartCleanup(g) ==
    /\ w.pc = "idle" /\ g \in queue /\ live[g] = "deleting"
    /\ queue' = queue \ {g}
    /\ pushed' = [pushed EXCEPT ![g] = NoRules]
    /\ w' = [Idle EXCEPT !.pc = "prune", !.gw = {g}, !.list = ListedCopies,
                         !.todo = IF ExperimentalBackends THEN Listed ELSE {}]
    /\ UNCHANGED <<api, cached, live, used>>

pruneXBackendAncestorStatus(g, x) ==
    /\ w.pc = "prune" /\ w.gw = {g} /\ x \in w.todo
    /\ LET copy == CHOOSE c \in w.list[x] : TRUE IN
       UpdateXBackend(x, removeXBackendAncestor(copy, g))
    /\ UNCHANGED <<cached, live, queue, pushed>>

RemoveFinalizer(g) ==
    /\ w.pc = "prune" /\ w.gw = {g} /\ w.todo = {}
    /\ \/ /\ live' = [live EXCEPT ![g] = "gone"] /\ w' = Idle
          /\ queue' = queue \cup Requeued(g, FALSE)
          /\ UNCHANGED used
       \/ Abort(g) /\ UNCHANGED live
    /\ UNCHANGED <<api, cached, pushed>>

NotFound(g) ==
    /\ w.pc = "idle" /\ g \in queue /\ live[g] = "gone"
    /\ queue' = queue \ {g}
    /\ UNCHANGED <<api, cached, live, w, pushed, used>>

\* The process dies and starts again, perhaps with other flags: all Gateways are listed.
Restart ==
    /\ Disturbs("restart")
    /\ w' = Idle /\ \E enabled \in BOOLEAN : cached' = Started(enabled)
    /\ queue' = {g \in Gateways : live[g] # "gone"}
    /\ UNCHANGED <<api, live, pushed>>
-----------------------------------------------------------------------------
(* Watches: an informer's copy is brought up to date and the event is mapped. *)

allGatewaysRequests == {g \in Gateways : live[g] # "gone"}

\* GenerationChangedPredicate; routeToGateways maps the old and the new object.
SyncRoute(r) ==
    /\ cached.routes[r] # api.routes[r]
    /\ cached' = [cached EXCEPT !.routes[r] = api.routes[r]]
    /\ queue' = queue \cup (IF cached.routes[r].gen = api.routes[r].gen THEN {}
                            ELSE cached.routes[r].spec.parents \cup api.routes[r].spec.parents)
    /\ UNCHANGED <<api, live, w, pushed, used>>

\* Creation, deletion and changes of the ports; the Gateways are those of the cached routes
\* that refer to the Service.
serviceToGateways_mLocal(s) ==
    UNION {cached.routes[r].spec.parents : r \in {x \in Routes :
        NamespaceOf[x] = NamespaceOf[s] /\
        \E ref \in Refs(cached.routes[x].spec) : ref.kind = "Service" /\ ref.name = s}}
serviceToGateways(s) ==
    UNION {cached.routes[r].spec.parents : r \in {x \in Routes :
        \E ref \in Refs(cached.routes[x].spec) : ref.kind = "Service" /\ ref.name = s}}
SyncService(s) ==
    /\ cached.svcs[s] # api.svcs[s]
    /\ cached' = [cached EXCEPT !.svcs[s] = api.svcs[s]]
    /\ queue' = queue \cup serviceToGateways(s)
    /\ UNCHANGED <<api, live, w, pushed, used>>

\* Watched only when the feature is enabled; status updates are ignored.
SyncXBackend(x) ==
    /\ ExperimentalBackends /\ cached.xbs[x] # api.xbs[x]
    /\ cached' = [cached EXCEPT !.xbs[x] = api.xbs[x]]
    /\ queue' = queue \cup (IF cached.xbs[x].gen = api.xbs[x].gen THEN {} ELSE allGatewaysRequests)
    /\ UNCHANGED <<api, live, w, pushed, used>>

SyncGrant(grant) ==
    /\ (grant \in cached.grants) # (grant \in api.grants)
    /\ cached' = [cached EXCEPT !.grants = (@ \ {grant}) \cup (api.grants \cap {grant})]
    /\ queue' = queue \cup allGatewaysRequests
    /\ UNCHANGED <<api, live, w, pushed, used>>

\* backendTLSPolicyToGateways.
SyncTLSPolicy_mCreatedOnly(p) ==
    /\ (p \in cached.tls) # (p \in api.tls)
    /\ cached' = [cached EXCEPT !.tls = (@ \ {p}) \cup (api.tls \cap {p})]
    /\ queue' = queue \cup (IF p \in api.tls THEN allGatewaysRequests ELSE {})
    /\ UNCHANGED <<api, live, w, pushed, used>>
SyncTLSPolicy(p) ==
    /\ (p \in cached.tls) # (p \in api.tls)
    /\ cached' = [cached EXCEPT !.tls = (@ \ {p}) \cup (api.tls \cap {p})]
    /\ queue' = queue \cup allGatewaysRequests
    /\ UNCHANGED <<api, live, w, pushed, used>>
-----------------------------------------------------------------------------
(* Users. *)

Edit(kind) ==
    /\ Disturbs(kind)
    /\ UNCHANGED <<cached, w, pushed>>

EditRoute(r) ==
    /\ Edit("route") /\ UNCHANGED <<live, queue>>
    /\ \E spec \in RouteSpecs[r] \ {api.routes[r].spec} :
          api' = [api EXCEPT !.routes[r].spec = spec, !.routes[r].gen = @ + 1,
                             !.routes[r].version = @ + 1]

EditService(s) ==
    /\ Edit("service") /\ UNCHANGED <<live, queue>>
    /\ \E new \in ({NoService} \cup [exists : {TRUE}, ports : PortSets]) \ {api.svcs[s]} :
          api' = [api EXCEPT !.svcs[s] = new]

EditXBackend(x) ==
    /\ Edit("xbackend") /\ UNCHANGED <<live, queue>>
    /\ LET old == api.xbs[x]
           new(exists, spec, entries) ==
              [exists |-> exists, spec |-> spec, gen |-> old.gen + 1, version |-> old.version + 1,
               entries |-> entries] IN
       \/ \E spec \in XBackendSpecs \ {s \in {old.spec} : old.exists} :
             api' = [api EXCEPT !.xbs[x] = new(TRUE, spec, old.entries)]
       \/ old.exists /\ api' = [api EXCEPT !.xbs[x] = new(FALSE, old.spec, NoEntries)]

EditGrant(grant) ==
    /\ Edit("grant") /\ UNCHANGED <<live, queue>>
    /\ api' = [api EXCEPT !.grants = IF grant \in @ THEN @ \ {grant} ELSE @ \cup {grant}]

EditTLSPolicy(p) ==
    /\ Edit("tls") /\ UNCHANGED <<live, queue>>
    /\ api' = [api EXCEPT !.tls = IF p \in @ THEN @ \ {p} ELSE @ \cup {p}]

DeleteGateway(g) ==
    /\ Edit("gateway") /\ UNCHANGED api
    /\ live[g] = "live" /\ live' = [live EXCEPT ![g] = "deleting"]
    /\ queue' = queue \cup {g}
-----------------------------------------------------------------------------
Take(g) == CollectRoutes(g) \/ StartCleanup(g) \/ NotFound(g)
WorkerStep ==
    \E g \in Gateways :
       \/ collectServiceBackends(g) \/ collectReferencedXBackends(g) \/ PushConfig(g)
       \/ \E r \in Routes : PatchRouteStatus(g, r)
       \/ ListXBackends(g) \/ EndPass(g) \/ RemoveFinalizer(g)
       \/ \E x \in XBackends : patchXBackendStatus(g, x) \/ pruneXBackendAncestorStatus(g, x)
Sync ==
    \/ \E r \in Routes : SyncRoute(r)
    \/ \E s \in Services : SyncService(s)
    \/ \E x \in XBackends : SyncXBackend(x)
    \/ \E grant \in Grants : SyncGrant(grant)
    \/ \E p \in TLSPolicies : SyncTLSPolicy(p)
UserStep ==
    \/ \E r \in Routes : EditRoute(r)
    \/ \E s \in Services : EditService(s)
    \/ \E x \in XBackends : EditXBackend(x)
    \/ \E grant \in Grants : EditGrant(grant)
    \/ \E p \in TLSPolicies : EditTLSPolicy(p)
    \/ \E g \in Gateways : DeleteGateway(g)
Next == WorkerStep \/ (\E g \in Gateways : Take(g)) \/ Sync \/ UserStep \/ Restart

Spec == Init /\ [][Next]_vars
-----------------------------------------------------------------------------
(* Properties. *)

\* Every variable has its type.
TypeOK ==
    /\ ObjectsOK(api) /\ ObjectsOK(cached)
    /\ live \in [Gateways -> {"live", "deleting", "gone"}]
    /\ queue \subseteq Gateways
    /\ w.pc \in {"idle", "services", "xbackends", "push", "routes", "patch", "prune"}
    /\ DOMAIN w = DOMAIN Idle /\ w.gw \subseteq Gateways /\ w.failed \in BOOLEAN
    /\ \A r \in Routes : w.seen[r] \subseteq RouteObjects(r) /\ Cardinality(w.seen[r]) <= 1
    /\ \A x \in XBackends :
          w.list[x] \subseteq XBackendObjects /\ w.fetched[x] \subseteq XBackendSpecs
    /\ w.todo \subseteq Routes \cup XBackends
    /\ \A g \in Gateways : \A id \in DOMAIN pushed[g] :
          DOMAIN pushed[g][id].origin = OriginFields
    /\ cached.enabled \in BOOLEAN /\ used \in Nat

\* Nothing is left to do: no Gateway is queued and informers are up to date.
UpToDate ==
    /\ \A k \in {"routes", "svcs", "grants", "tls"} : cached[k] = api[k]
    /\ ExperimentalBackends => cached.xbs = api.xbs
Quiet == w.pc = "idle" /\ queue = {} /\ UpToDate
LiveGateways == {g \in Gateways : live[g] = "live"}
AttachedTo(g) == {r \in Routes : g \in api.routes[r].spec.parents}

\* The README on backend references: a ref is served if its object exists, a Service exposes
\* the referenced TCP port, and a grant in the backend's namespace authorizes a ref that
\* crosses namespaces.
Authorized(r, ref) ==
    \/ NamespaceOf[ref.name] = NamespaceOf[r]
    \/ \E grant \in api.grants :
          /\ grant.ns = NamespaceOf[ref.name]
          /\ grant.fromNS = NamespaceOf[r] /\ grant.fromKind = KindOf[r]
          /\ grant.kind = ref.kind /\ grant.name \in {"", ref.name}
          /\ grant.group \in IF ref.kind = "Service" THEN {"", "core"}
                             ELSE {"gateway.networking.x-k8s.io"}
Servable(r, ref) ==
    /\ Authorized(r, ref)
    /\ \/ /\ ref.kind = "Service"
          /\ {[port |-> ref.port, protocol |-> p] : p \in {"", "TCP"}}
                \cap api.svcs[ref.name].ports # {}
       \/ /\ ref.kind = "XBackend" /\ ExperimentalBackends /\ ref.port = 0
          /\ api.xbs[ref.name].exists /\ translateReason(api.xbs[ref.name].spec, KindOf[r]) = "none"

\* The tunnel of a Gateway serves exactly the references that can be served now and fails
\* the others closed, with the status the README gives for the kind of route.
Serves(g) ==
    /\ DOMAIN pushed[g] =
         UNION {{<<r, i>> : i \in 1 .. Len(api.routes[r].spec.rules)} : r \in AttachedTo(g)}
    /\ \A id \in DOMAIN pushed[g] :
          LET service == pushed[g][id].service
              refs == api.routes[id[1]].spec.rules[id[2]] IN
          IF refs # <<>> /\ Servable(id[1], refs[1])
          THEN service[1] # "status" /\ service[2] = refs[1].name
          ELSE service = <<"status", "",
                           IF KindOf[id[1]] = "HTTPRoute" /\ refs # <<>> THEN 500 ELSE 503>>

\* Once all is quiet every tunnel does: "creating a missing Service or a required
\* ReferenceGrant restores routing without changing the route, deleting either stops serving
\* it, and Service port changes update routing" (README), although a pass reads routes,
\* Services, XBackends and policies at different moments.
ServesResolvable == Quiet => \A g \in LiveGateways : Serves(g)

\* Once all is quiet a route reports ResolvedRefs for its present generation, True if and
\* only if every one of its references can be served; and a reference that is not
\* authorized is reported so, whether or not its object exists ("its existence is
\* deliberately not probed", servicebackend.go), unless a worse one hides it.
ResolvedRefsIsCurrent ==
    Quiet => \A g \in LiveGateways : \A r \in AttachedTo(g) :
        LET entry == api.routes[r].entries[g]
            refs == Refs(api.routes[r].spec) IN
        /\ entry.gen = api.routes[r].gen /\ entry.reason # "absent"
        /\ entry.reason = "none" <=> \A ref \in refs : Servable(r, ref)
        /\ (\E ref \in refs : ~Authorized(r, ref) /\ ref.kind = "Service")
             => entry.reason \in {"RefNotPermitted", "UnsupportedKind", "XBackendDisabled"}

\* An authorized route of the Gateway refers to the XBackend, which exists.
Refers(g, x) ==
    /\ api.xbs[x].exists
    /\ \E r \in AttachedTo(g) : \E ref \in Refs(api.routes[r].spec) :
          ref.kind = "XBackend" /\ ref.name = x /\ Authorized(r, ref)
Verdict(x) == [reason |-> translateReason(api.xbs[x].spec, "any"), gen |-> api.xbs[x].gen]

\* The entry of a Gateway on an XBackend never misjudges the generation it says it observed,
\* although fetching, listing and updating are steps of their own; and once all is quiet
\* the entries of the Gateways that serve it have observed the present one.
XBackendVerdicts ==
    \A g \in LiveGateways, x \in XBackends :
        LET entry == api.xbs[x].entries[g] IN
        /\ entry.gen = api.xbs[x].gen => entry \in {Absent, Verdict(x)}
        /\ Quiet /\ ExperimentalBackends /\ Refers(g, x) => entry \in {Absent, Verdict(x)}

\* What the rule a pushed one was built from refers to now.
PresentRefs(id) == api.routes[id[1]].spec.rules[id[2]]

\* The origin of a TLS rule for an XBackend is the XBackend's business: its settings are
\* never replaced ("which would silently disable origin certificate verification for an
\* external HTTPS destination", backendtls.go), even if a Service claims the same hostname.
TLSOriginIsOwn ==
    Quiet => \A g \in LiveGateways : \A id \in DOMAIN pushed[g] :
        LET refs == PresentRefs(id) IN
        KindOf[id[1]] = "TLSRoute" /\ refs # <<>> /\ refs[1].kind = "XBackend" =>
            /\ pushed[g][id].origin["noTLSVerify"] = "unset"
            /\ pushed[g][id].service[1] = "https" =>
                  pushed[g][id].origin["matchSNIToHost"] = "false"

\* No TLS rule takes the hostname of this one for another backend than this one's (a rule
\* for an XBackend takes no hostname).
OnlyClaim(g, id) ==
    \A other \in DOMAIN pushed[g] :
        LET refs == PresentRefs(other) IN
        /\ KindOf[other[1]] = "TLSRoute" /\ HostOf[other[1]] = HostOf[id[1]]
        /\ ToService(refs)
        => refs[1].name = PresentRefs(id)[1].name
OwnPolicy(g, id) ==
    LET policies == {p \in api.tls : TargetOf[p] = PresentRefs(id)[1].name}
        origin == pushed[g][id].origin IN
    IF policies = {} THEN origin["noTLSVerify"] = "true"
    ELSE origin["noTLSVerify"] = "unset" /\ origin["originServerName"] \in policies

\* The origin of a TLS rule for a Service is set by a BackendTLSPolicy of that Service,
\* created or deleted during whatever pass, once all is quiet; a rule for an XBackend with
\* the same hostname, in the same route too, does not change that.
ServiceTLSIsCurrent ==
    Quiet => \A g \in LiveGateways : \A id \in DOMAIN pushed[g] :
        KindOf[id[1]] = "TLSRoute" /\ ToService(PresentRefs(id)) /\ OnlyClaim(g, id) =>
            OwnPolicy(g, id)
=============================================================================
