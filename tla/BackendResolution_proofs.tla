----------------------- MODULE BackendResolution_proofs -----------------------
(***************************************************************************)
(* Proofs about BackendResolution, for any objects, references, grants and *)
(* bounds: once the controller rests, tunnels and statuses agree with the  *)
(* Services, XBackends, grants and policies there are, and the entry of a  *)
(* Gateway on an XBackend never misjudges the generation it names.         *)
(*                                                                         *)
(* A pass reads routes, Services, XBackends and policies in steps of their *)
(* own.  What makes the result consistent is the mapping of events: an     *)
(* event that changes anything a Gateway's rules depend on enqueues that   *)
(* Gateway (SyncsAgree), so that all a pass has read is still what the     *)
(* informers hold unless its Gateway is queued again (PassFresh); and a    *)
(* write that fails makes the pass fail.                                   *)
(***************************************************************************)
EXTENDS BackendResolution, TLAPS, FiniteSetTheorems, WellFoundedInduction

\* What a pass makes of the objects c if it reads them all at once: the reference ...
Granted(c, t) == Local(t) \/ CheckReferenceGrantTo(c.grants, t)
XBackendReason(c, t) ==
    IF ~c.enabled THEN "XBackendDisabled"
    ELSE IF ~Granted(c, t) THEN "RefNotPermitted"
    ELSE IF t.port # 0 THEN "InvalidBackendPort"
    ELSE IF ~c.xbs[t.name].exists THEN "BackendNotFound"
    ELSE translateReason(c.xbs[t.name].spec, t.routeKind)
ServiceReason(c, t) ==
    IF ~Granted(c, t) THEN "RefNotPermitted"
    ELSE IF \E p \in c.svcs[t.name].ports : p.port = t.port /\ p.protocol \in {"", "TCP"}
    THEN "none" ELSE "BackendNotFound"
Reason(c, t) ==
    IF t.kind = "XBackend" THEN XBackendReason(c, t)
    ELSE IF t.kind = "Service" THEN ServiceReason(c, t) ELSE "UnsupportedKind"

\* ... the route ...
Worst(reasons) ==
    IF reasons = {} THEN "none"
    ELSE CHOOSE x \in reasons : \A y \in reasons : reasonSeverity(x) >= reasonSeverity(y)
RouteRefs(c, r) == Refs(c.routes[r].spec)
RouteReason(c, r) == Worst({Reason(c, Target(r, ref)) : ref \in RouteRefs(c, r)})

\* ... and the rules of a Gateway.
Attached(c, g) == {r \in Routes : g \in c.routes[r].spec.parents}
IDs(c, g) == UNION {{<<r, i>> : i \in 1 .. Len(c.routes[r].spec.rules)} : r \in Attached(c, g)}
Service(c, r, refs) ==
    IF refs = <<>> THEN <<"status", "", 503>>
    ELSE IF Reason(c, Target(r, refs[1])) # "none" THEN ErrorStatus(KindOf[r])
    ELSE IF refs[1].kind = "XBackend"
    THEN <<schemeFor(c.xbs[refs[1].name].spec, KindOf[r]), refs[1].name,
           c.xbs[refs[1].name].spec.port>>
    ELSE <<NativeScheme(KindOf[r]), refs[1].name, refs[1].port>>
Built(c, r, refs) ==
    IF refs = <<>> THEN ruleOrigin(KindOf[r], {}, FALSE, NoOrigin)
    ELSE IF Reason(c, Target(r, refs[1])) # "none"
    THEN ruleOrigin(KindOf[r], {}, TRUE, NoOrigin)
    ELSE IF refs[1].kind = "XBackend"
    THEN ruleOrigin(KindOf[r], {}, TRUE, translateOrigin(c.xbs[refs[1].name].spec, KindOf[r]))
    ELSE ruleOrigin(KindOf[r], {}, FALSE, NoOrigin)
LastService(rules) ==
    LET of == {i \in 1 .. Len(rules) : ToService(rules[i])} IN
    {rules[i][1].name : i \in {j \in of : \A k \in of : k <= j}}
Claimed(c, g, host) ==
    UNION {LastService(c.routes[r].spec.rules) :
              r \in {x \in Attached(c, g) : KindOf[x] = "TLSRoute" /\ HostOf[x] = host}}
Configs(c, name) ==
    LET targeting == {p \in c.tls : TargetOf[p] = name} IN
    IF targeting = {} THEN {Setting({"noTLSVerify"}, "true")}
    ELSE {Setting({"originServerName"}, p) : p \in targeting}
Origins(c, g, r, refs) ==
    IF \/ KindOf[r] # "TLSRoute" \/ Claimed(c, g, HostOf[r]) = {}
       \/ refs # <<>> /\ refs[1].kind = "XBackend"
    THEN {Built(c, r, refs)}
    ELSE UNION {Configs(c, s) : s \in Claimed(c, g, HostOf[r])}
Made(c, g, id, rule) ==
    LET refs == c.routes[id[1]].spec.rules[id[2]] IN
    rule.service = Service(c, id[1], refs) /\ rule.origin \in Origins(c, g, id[1], refs)
RulesOf(c, g, rules) ==
    DOMAIN rules = IDs(c, g) /\ \A id \in DOMAIN rules : Made(c, g, id, rules[id])
RefersIn(c, g, x) ==
    /\ c.xbs[x].exists
    /\ \E r \in Attached(c, g) : \E ref \in RouteRefs(c, r) :
          ref.kind = "XBackend" /\ ref.name = x /\ Granted(c, Target(r, ref))
-----------------------------------------------------------------------------
(* The inductive invariant. *)

\* A listing has at most one copy of an object.
AtMostOne(copies) == \A c, d \in copies : c = d
Phases == {"idle", "services", "xbackends", "push", "routes", "patch", "prune"}
WorkerOK ==
    /\ DOMAIN w = {"pc", "gw", "seen", "ports", "permitted", "fetched", "list", "todo", "failed"}
    /\ w.pc \in Phases /\ w.gw \subseteq Gateways /\ w.failed \in BOOLEAN
    /\ \A r \in Routes : w.seen[r] \subseteq RouteObjects(r) /\ AtMostOne(w.seen[r])
    /\ \A x \in XBackends : w.list[x] \subseteq XBackendObjects /\ AtMostOne(w.list[x])
    /\ \A x \in XBackends : w.fetched[x] \subseteq XBackendSpecs
    /\ w.todo \subseteq Routes \cup XBackends
WellTyped ==
    /\ DOMAIN api = {"routes", "svcs", "xbs", "grants", "tls"} /\ ObjectsOK(api)
    /\ DOMAIN cached = {"enabled", "routes", "svcs", "xbs", "grants", "tls"} /\ ObjectsOK(cached)
    /\ cached.enabled \in BOOLEAN /\ used \in Nat
    /\ live \in [Gateways -> {"live", "deleting", "gone"}] /\ queue \subseteq Gateways
    /\ WorkerOK
    /\ DOMAIN pushed = Gateways
    /\ \A g \in Gateways : \A id \in DOMAIN pushed[g] : DOMAIN pushed[g][id].origin = OriginFields

\* A copy is not ahead of the object: of the same version it is the same, of the same
\* generation it has the same spec.
OldRoute(copy, r) ==
    /\ copy.version <= api.routes[r].version /\ copy.gen <= api.routes[r].gen
    /\ copy.version = api.routes[r].version => copy = api.routes[r]
    /\ copy.gen = api.routes[r].gen => copy.spec = api.routes[r].spec
\* A copy of an XBackend has every entry that is older than its generation.
OldXBackend(copy, x) ==
    /\ copy.version <= api.xbs[x].version /\ copy.gen <= api.xbs[x].gen
    /\ copy.version = api.xbs[x].version => copy = api.xbs[x]
    /\ copy.gen = api.xbs[x].gen => copy.spec = api.xbs[x].spec /\ copy.exists = api.xbs[x].exists
    /\ \A g \in Gateways : LET e == api.xbs[x].entries[g] IN
          e # Absent /\ e.gen < copy.gen => copy.entries[g] = e
CopiesAreOld ==
    /\ \A r \in Routes : \A copy \in {cached.routes[r]} \cup w.seen[r] : OldRoute(copy, r)
    /\ \A x \in XBackends : \A copy \in {cached.xbs[x]} \cup w.list[x] : OldXBackend(copy, x)

\* An entry on an XBackend is not ahead of it, and that of its generation is its verdict.
Judged(g, x) ==
    LET e == api.xbs[x].entries[g] IN
    e.gen <= api.xbs[x].gen /\ (e.gen = api.xbs[x].gen => e \in {Absent, Verdict(x)})
Verdicts == \A g \in Gateways, x \in XBackends : Judged(g, x)

\* The worker's Gateway is there, and it has the copies it still has to do.
InWork ==
    /\ IF w.pc = "idle" THEN w.gw = {} ELSE \E g \in Gateways : w.gw = {g}
    /\ \A g \in Gateways : w.gw = {g} => live[g] # "gone"
    /\ w.pc = "xbackends" => \A t \in w.permitted : t.kind = "Service"
    /\ w.pc \notin {"patch", "prune"} => \A x \in XBackends : w.list[x] = {}
    /\ w.pc = "routes" => w.todo \subseteq AttachedRoutes
    /\ w.pc \in {"patch", "prune"} => \A x \in w.todo : x \in XBackends /\ w.list[x] # {}

\* What a pass has read is what the informers hold, unless its Gateway is queued again: ...
SeenFresh(g) ==
    \A r \in Routes :
        IF r \in Attached(cached, g)
        THEN \E copy \in w.seen[r] :
                copy.spec = cached.routes[r].spec /\ copy.gen = cached.routes[r].gen
        ELSE w.seen[r] = {}
TargetsIn(c, g, kind) ==
    {t \in UNION {{Target(r, ref) : ref \in RouteRefs(c, r)} : r \in Attached(c, g)} :
        t.kind = kind}
PermitsFresh(g, kind) ==
    \A t \in TargetsIn(cached, g, kind) :
        permit(t) \in w.permitted <=> CheckReferenceGrantTo(cached.grants, t)
PortsFresh(g) ==
    \A t \in TargetsIn(cached, g, "Service") :
        Granted(cached, t) => w.ports[t.name] = cached.svcs[t.name].ports
FetchedFresh(g) ==
    \A t \in TargetsIn(cached, g, "XBackend") :
        Granted(cached, t) =>
            w.fetched[t.name] = IF cached.xbs[t.name].exists THEN {cached.xbs[t.name].spec} ELSE {}
Fetches == {"push", "routes", "patch"}
PassFresh(g) ==
    w.gw = {g} /\ g \notin queue /\ w.pc # "prune" =>
        /\ SeenFresh(g)
        /\ w.pc # "services" => PermitsFresh(g, "Service") /\ PortsFresh(g)
        /\ w.pc \in Fetches /\ cached.enabled => PermitsFresh(g, "XBackend") /\ FetchedFresh(g)
        /\ w.pc = "patch" => \A x \in XBackends : \A copy \in w.list[x] :
                                copy.gen = cached.xbs[x].gen

\* ... then so are the rules it has pushed, ...
PushedFresh(g) ==
    g \notin queue /\ live[g] = "live" /\ (w.gw = {g} => w.pc \in {"routes", "patch"}) =>
        RulesOf(cached, g, pushed[g])

\* ... the statuses of routes, once written without failure, ...
RouteFresh(g, r) ==
    /\ g \notin queue /\ live[g] = "live" /\ r \in Attached(cached, g)
    /\ w.gw = {g} => ~w.failed /\ (w.pc = "patch" \/ (w.pc = "routes" /\ r \notin w.todo))
    => api.routes[r].entries[g] = [reason |-> RouteReason(cached, r), gen |-> cached.routes[r].gen]

\* ... and those of XBackends.
XBackendFresh(g, x) ==
    /\ g \notin queue /\ live[g] = "live" /\ ExperimentalBackends
    /\ w.gw = {g} => ~w.failed /\ w.pc = "patch" /\ x \notin w.todo
    /\ cached.xbs[x].gen = api.xbs[x].gen /\ RefersIn(cached, g, x)
    => api.xbs[x].entries[g] \in {Absent, Verdict(x)}

Fresh(g) ==
    /\ PassFresh(g) /\ PushedFresh(g)
    /\ \A r \in Routes : RouteFresh(g, r)
    /\ \A x \in XBackends : XBackendFresh(g, x)
BackendInv ==
    WellTyped /\ CopiesAreOld /\ Verdicts /\ InWork /\ \A g \in Gateways : Fresh(g)
-----------------------------------------------------------------------------
(* References and their reasons. *)

\* What a spec refers to is well formed, and the first backend of a rule is one of them.
LEMMA RefsAreTyped ==
    ASSUME NEW r \in Routes, NEW spec \in RouteSpecs[r]
    PROVE  /\ spec.parents \subseteq Gateways /\ Refs(spec) \subseteq References
           /\ \A i \in 1 .. Len(spec.rules) :
                 spec.rules[i] # <<>> => spec.rules[i][1] \in Refs(spec)
  <1>1. spec.parents \subseteq Gateways /\ spec.rules \in Seq(Seq(References))
    BY ResolutionAssumption
  <1>2. ASSUME NEW i \in 1 .. Len(spec.rules)
        PROVE  spec.rules[i] \in Seq(References)
    BY <1>1
  <1>3. Refs(spec) \subseteq References
    BY <1>1, <1>2 DEF Refs
  <1>4. ASSUME NEW i \in 1 .. Len(spec.rules), spec.rules[i] # <<>>
        PROVE  spec.rules[i][1] \in Refs(spec)
    <2>1. 1 \in 1 .. Len(spec.rules[i])
      BY <1>2, <1>4
    <2> QED BY <2>1 DEF Refs
  <1> QED BY <1>1, <1>3, <1>4

\* A translation ends with a reason for every XBackend.
LEMMA TranslationTypes ==
    ASSUME NEW x, NEW kind
    PROVE  translateReason(x, kind) \in Reasons
  <1>1. tlsReason(x) \in Reasons
    BY DEF tlsReason, Reasons
  <1> QED BY <1>1 DEF translateReason, Reasons

\* So does a reference.
LEMMA ReasonTypes ==
    ASSUME NEW c, NEW t
    PROVE  Reason(c, t) \in Reasons
  <1>1. XBackendReason(c, t) \in Reasons
    <2>1. translateReason(c.xbs[t.name].spec, t.routeKind) \in Reasons
      BY TranslationTypes
    <2>2. {"XBackendDisabled", "RefNotPermitted", "InvalidBackendPort", "BackendNotFound"}
             \subseteq Reasons
      BY DEF Reasons
    <2> QED BY <2>1, <2>2 DEF XBackendReason
  <1>2. ServiceReason(c, t) \in Reasons /\ "UnsupportedKind" \in Reasons
    BY DEF ServiceReason, Reasons
  <1> QED BY <1>1, <1>2 DEF Reason

\* Only the reason of a reference that is served is not severe.
LEMMA SeverityTypes ==
    ASSUME NEW reason \in Reasons
    PROVE  /\ reasonSeverity(reason) \in 0 .. 7
           /\ reasonSeverity(reason) = 0 <=> reason = "none"
           /\ reasonSeverity(reason) >= 5 <=>
                 reason \in {"RefNotPermitted", "UnsupportedKind", "XBackendDisabled"}
  BY DEF Reasons, reasonSeverity

\* The worst of some reasons is one of them.
LEMMA WorstIsWorst ==
    ASSUME NEW S \in SUBSET Reasons
    PROVE  /\ Worst(S) \in Reasons
           /\ S = {} => Worst(S) = "none"
           /\ S # {} => Worst(S) \in S
           /\ \A y \in S : reasonSeverity(Worst(S)) >= reasonSeverity(y)
  <1>1. CASE S = {}
    BY <1>1 DEF Worst, Reasons
  <1>2. CASE S # {}
    <2> DEFINE R == OpToRel(<, Nat)
               ranks == {7 - reasonSeverity(y) : y \in S}
    <2>1. \A m, n \in Nat : <<m, n>> \in R <=> m < n
      BY DEF OpToRel
    <2>2. \A y \in S : reasonSeverity(y) \in 0 .. 7
      BY SeverityTypes
    <2>3. ranks \subseteq Nat /\ ranks # {}
      BY <1>2, <2>2
    <2> HIDE DEF R
    <2>4. PICK m \in ranks : \A n \in ranks : ~(<<n, m>> \in R)
      <3>1. IsWellFoundedOn(R, Nat)
        BY NatLessThanWellFounded DEF R
      <3> HIDE DEF ranks
      <3> QED BY <2>3, <3>1, WFMin
    <2>5. PICK x \in S : m = 7 - reasonSeverity(x)
      BY <2>4
    <2>6. ASSUME NEW y \in S PROVE reasonSeverity(x) >= reasonSeverity(y)
      <3> DEFINE n == 7 - reasonSeverity(y)
      <3>1. n \in ranks /\ n \in Nat /\ m \in Nat
        BY <2>3, <2>4
      <3>2. ~(n < m)
        <4>1. ~(<<n, m>> \in R)
          BY <2>4, <3>1
        <4> HIDE DEF n
        <4> QED BY <2>1, <3>1, <4>1
      <3> QED BY <2>2, <2>5, <3>2
    <2>7. Worst(S) = CHOOSE z \in S : \A y \in S : reasonSeverity(z) >= reasonSeverity(y)
      BY <1>2 DEF Worst
    <2>8. Worst(S) \in S /\ \A y \in S : reasonSeverity(Worst(S)) >= reasonSeverity(y)
      BY <2>6, <2>7
    <2> QED BY <1>2, <2>8
  <1> QED BY <1>1, <1>2
-----------------------------------------------------------------------------
(* What rules depend on. *)

\* The objects c and d are the same as far as the rules of g are concerned.
SameFor(c, d, g) ==
    /\ \A r \in Routes :
          (g \in c.routes[r].spec.parents \/ g \in d.routes[r].spec.parents) =>
              c.routes[r].spec = d.routes[r].spec /\ c.routes[r].gen = d.routes[r].gen
    /\ \A r \in Attached(c, g) : \A ref \in RouteRefs(c, r) :
          ref.kind = "Service" => c.svcs[ref.name] = d.svcs[ref.name]
    /\ \A x \in XBackends :
          /\ c.xbs[x].exists = d.xbs[x].exists /\ c.xbs[x].spec = d.xbs[x].spec
          /\ c.xbs[x].gen = d.xbs[x].gen
    /\ c.grants = d.grants /\ c.tls = d.tls /\ c.enabled = d.enabled

\* Then they have the same routes, references and reasons, ...
LEMMA SameReasons ==
    ASSUME NEW c, NEW d, NEW g, ObjectsOK(c), SameFor(c, d, g)
    PROVE  /\ Attached(c, g) = Attached(d, g)
           /\ \A r \in Attached(c, g) :
                 /\ c.routes[r].spec = d.routes[r].spec /\ c.routes[r].gen = d.routes[r].gen
                 /\ RouteRefs(c, r) = RouteRefs(d, r)
                 /\ \A ref \in RouteRefs(c, r) :
                       /\ Granted(c, Target(r, ref)) <=> Granted(d, Target(r, ref))
                       /\ Reason(c, Target(r, ref)) = Reason(d, Target(r, ref))
                 /\ RouteReason(c, r) = RouteReason(d, r)
  <1>1. Attached(c, g) = Attached(d, g)
    BY DEF SameFor, Attached
  <1>2. ASSUME NEW r \in Attached(c, g)
        PROVE  /\ r \in Routes /\ c.routes[r].spec = d.routes[r].spec
               /\ c.routes[r].gen = d.routes[r].gen /\ RouteRefs(c, r) = RouteRefs(d, r)
               /\ RouteRefs(c, r) \subseteq References
    <2>1. r \in Routes /\ c.routes[r].spec = d.routes[r].spec
          /\ c.routes[r].gen = d.routes[r].gen
      BY DEF SameFor, Attached
    <2>2. c.routes[r].spec \in RouteSpecs[r]
      BY <2>1 DEF ObjectsOK, RouteObjects
    <2> QED BY <2>1, <2>2, RefsAreTyped DEF RouteRefs
  <1>3. ASSUME NEW r \in Attached(c, g), NEW ref \in RouteRefs(c, r)
        PROVE  /\ Granted(c, Target(r, ref)) <=> Granted(d, Target(r, ref))
               /\ Reason(c, Target(r, ref)) = Reason(d, Target(r, ref))
    <2> DEFINE t == Target(r, ref)
    <2>1. t.kind = ref.kind /\ t.name = ref.name /\ t.port = ref.port
      BY DEF Target
    <2>2. ref.kind = "XBackend" => ref.name \in XBackends
      BY <1>2 DEF References
    <2> HIDE DEF t
    <2>3. Granted(c, t) <=> Granted(d, t)
      BY DEF SameFor, Granted
    <2>4. t.kind = "Service" => ServiceReason(c, t) = ServiceReason(d, t)
      BY <2>1, <2>3 DEF SameFor, ServiceReason
    <2>5. t.kind = "XBackend" => XBackendReason(c, t) = XBackendReason(d, t)
      BY <2>1, <2>2, <2>3 DEF SameFor, XBackendReason
    <2>6. Reason(c, t) = Reason(d, t)
      BY <2>4, <2>5 DEF Reason
    <2> QED BY <2>3, <2>6 DEF t
  <1>4. ASSUME NEW r \in Attached(c, g) PROVE RouteReason(c, r) = RouteReason(d, r)
    <2>1. {Reason(c, Target(r, ref)) : ref \in RouteRefs(c, r)}
          = {Reason(d, Target(r, ref)) : ref \in RouteRefs(d, r)}
      BY <1>2, <1>3
    <2> QED BY <2>1 DEF RouteReason
  <1> QED BY <1>1, <1>2, <1>3, <1>4

\* ... the same services and origins for a rule, ...
LEMMA SameRule ==
    ASSUME NEW c, NEW d, NEW g, ObjectsOK(c), SameFor(c, d, g), NEW r \in Attached(c, g),
           NEW i \in 1 .. Len(c.routes[r].spec.rules)
    PROVE  LET refs == c.routes[r].spec.rules[i] IN
           /\ Service(c, r, refs) = Service(d, r, refs)
           /\ Origins(c, g, r, refs) = Origins(d, g, r, refs)
  <1> DEFINE refs == c.routes[r].spec.rules[i]
  <1>1. r \in Routes /\ c.routes[r].spec \in RouteSpecs[r]
    BY DEF Attached, ObjectsOK, RouteObjects
  <1>2. refs # <<>> => /\ refs[1] \in RouteRefs(c, r)
                       /\ refs[1].kind = "XBackend" => refs[1].name \in XBackends
    BY <1>1, RefsAreTyped DEF RouteRefs, References
  <1>3. refs # <<>> => Reason(c, Target(r, refs[1])) = Reason(d, Target(r, refs[1]))
    BY <1>2, SameReasons
  <1> HIDE DEF refs
  <1>4. refs # <<>> /\ refs[1].kind = "XBackend" =>
           c.xbs[refs[1].name].spec = d.xbs[refs[1].name].spec
    BY <1>2 DEF SameFor
  <1>5. Service(c, r, refs) = Service(d, r, refs) /\ Built(c, r, refs) = Built(d, r, refs)
    BY <1>3, <1>4 DEF Service, Built
  <1>6. \A host : Claimed(c, g, host) = Claimed(d, g, host)
    <2> TAKE host
    <2>1. Attached(c, g) = Attached(d, g)
          /\ \A x \in Attached(c, g) :
                LastService(c.routes[x].spec.rules) = LastService(d.routes[x].spec.rules)
      BY SameReasons
    <2> QED BY <2>1 DEF Claimed
  <1>7. \A s : Configs(c, s) = Configs(d, s)
    BY DEF SameFor, Configs
  <1>8. Origins(c, g, r, refs) = Origins(d, g, r, refs)
    BY <1>5, <1>6, <1>7 DEF Origins
  <1> QED BY <1>5, <1>8 DEF refs

\* ... and the same rules and references.
LEMMA SameRules ==
    ASSUME NEW c, NEW d, NEW g, ObjectsOK(c), SameFor(c, d, g)
    PROVE  /\ \A rules : RulesOf(c, g, rules) => RulesOf(d, g, rules)
           /\ \A x \in XBackends : RefersIn(c, g, x) <=> RefersIn(d, g, x)
  <1>1. IDs(c, g) = IDs(d, g)
    BY SameReasons DEF IDs
  <1>2. ASSUME NEW rules, RulesOf(c, g, rules) PROVE RulesOf(d, g, rules)
    <2>1. DOMAIN rules = IDs(c, g)
      BY <1>2 DEF RulesOf
    <2>2. ASSUME NEW id \in DOMAIN rules PROVE Made(d, g, id, rules[id])
      <3>1. PICK r \in Attached(c, g) :
               \E i \in 1 .. Len(c.routes[r].spec.rules) : id = <<r, i>>
        BY <2>1 DEF IDs
      <3>. PICK i \in 1 .. Len(c.routes[r].spec.rules) : id = <<r, i>>
        BY <3>1
      <3>2. Made(c, g, id, rules[id])
        BY <1>2 DEF RulesOf
      <3>3. c.routes[r].spec = d.routes[r].spec
        BY SameReasons
      <3>4. id[1] = r /\ id[2] = i
        OBVIOUS
      <3> QED BY <3>2, <3>3, <3>4, SameRule DEF Made
    <2> QED BY <1>1, <2>1, <2>2 DEF RulesOf
  <1>3. ASSUME NEW x \in XBackends PROVE RefersIn(c, g, x) <=> RefersIn(d, g, x)
    <2>1. c.xbs[x].exists = d.xbs[x].exists
      BY DEF SameFor
    <2> QED BY <2>1, SameReasons DEF RefersIn
  <1> QED BY <1>2, <1>3
-----------------------------------------------------------------------------
(* What a pass makes of the copies it has read. *)

\* Whatever has been read, a route gets one of the reasons.
LEMMA ResolvedTypes ==
    ASSUME NEW r
    PROVE  /\ routeResolvedRefs(r) \in Reasons
           /\ routeResolvedRefs(r)
              = Worst({resolveTargetReason(Target(r, ref)) : ref \in Refs(SeenRoute(r).spec)})
  <1> DEFINE S == {resolveTargetReason(Target(r, ref)) : ref \in Refs(SeenRoute(r).spec)}
  <1>1. ASSUME NEW t PROVE resolveTargetReason(t) \in Reasons
    <2>1. resolveXBackendRef(t) \in Reasons
      <3>1. translateReason(CHOOSE s \in w.fetched[t.name] : TRUE, t.routeKind) \in Reasons
        BY TranslationTypes
      <3>2. {"XBackendDisabled", "RefNotPermitted", "InvalidBackendPort", "BackendNotFound"}
               \subseteq Reasons
        BY DEF Reasons
      <3> QED BY <3>1, <3>2 DEF resolveXBackendRef
    <2>2. resolveServiceRef(t) \in Reasons /\ "UnsupportedKind" \in Reasons
      BY DEF resolveServiceRef, Reasons
    <2> QED BY <2>1, <2>2 DEF resolveTargetReason
  <1>2. S \in SUBSET Reasons
    BY <1>1
  <1>3. routeResolvedRefs(r) = Worst(S)
    BY DEF routeResolvedRefs, Worst
  <1> HIDE DEF S
  <1>4. Worst(S) \in Reasons
    BY <1>2, WorstIsWorst
  <1> QED BY <1>3, <1>4 DEF S

\* Every setting an origin may be built from has the fields of an origin.
LEMMA OriginDomains ==
    ASSUME NEW r, NEW refs, NEW o \in TLSOrigins(r, refs)
    PROVE  DOMAIN o = OriginFields
  <1>1. \A fields, value : DOMAIN Setting(fields, value) = OriginFields
    BY DEF Setting
  <1>2. DOMAIN NoOrigin = OriginFields
        /\ \A x, kind : DOMAIN translateOrigin(x, kind) = OriginFields
    BY DEF NoOrigin, translateOrigin
  <1>3. \A a, b : DOMAIN MergeOriginRequest(a, b) = OriginFields
    BY DEF MergeOriginRequest
  <1>4. ASSUME NEW kind, NEW external, NEW backend, DOMAIN backend = OriginFields
        PROVE  DOMAIN ruleOrigin(kind, {}, external, backend) = OriginFields
    BY <1>1, <1>3, <1>4 DEF ruleOrigin
  <1>5. DOMAIN BuiltOrigin(r, refs) = OriginFields
    BY <1>2, <1>4 DEF BuiltOrigin
  <1>6. \A s : \A config \in TLSConfigs(s) : DOMAIN config = OriginFields
    BY <1>1 DEF TLSConfigs
  <1> QED BY <1>5, <1>6 DEF TLSOrigins

\* The copies a pass has seen are those of the routes that are attached now.
LEMMA SeenIsAttached ==
    ASSUME WellTyped, NEW g \in Gateways, SeenFresh(g)
    PROVE  /\ AttachedRoutes = Attached(cached, g)
           /\ \A r \in Attached(cached, g) :
                 /\ r \in Routes /\ SeenRoute(r) \in w.seen[r]
                 /\ SeenRoute(r).spec = cached.routes[r].spec
                 /\ SeenRoute(r).gen = cached.routes[r].gen
           /\ \A kind : Targets(kind) = TargetsIn(cached, g, kind)
  <1>1. AttachedRoutes = Attached(cached, g)
    BY DEF SeenFresh, AttachedRoutes, Attached
  <1>2. ASSUME NEW r \in Attached(cached, g)
        PROVE  /\ r \in Routes /\ SeenRoute(r) \in w.seen[r]
               /\ SeenRoute(r).spec = cached.routes[r].spec
               /\ SeenRoute(r).gen = cached.routes[r].gen
    <2>1. r \in Routes
      BY DEF Attached
    <2>2. PICK copy \in w.seen[r] :
             copy.spec = cached.routes[r].spec /\ copy.gen = cached.routes[r].gen
      BY <2>1 DEF SeenFresh
    <2>3. \A c, d \in w.seen[r] : c = d
      BY <2>1 DEF WellTyped, WorkerOK, AtMostOne
    <2>4. SeenRoute(r) = copy
      BY <2>2, <2>3 DEF SeenRoute
    <2> QED BY <2>1, <2>2, <2>4
  <1>3. ASSUME NEW kind PROVE Targets(kind) = TargetsIn(cached, g, kind)
    <2>1. \A r \in Attached(cached, g) : Refs(SeenRoute(r).spec) = RouteRefs(cached, r)
      BY <1>2 DEF RouteRefs
    <2> QED BY <1>1, <2>1 DEF Targets, TargetsIn
  <1> QED BY <1>1, <1>2, <1>3

\* The worker is in a pass of g whose copies are all read and still what the informers hold.
HasRead(g) ==
    /\ WellTyped /\ SeenFresh(g)
    /\ PermitsFresh(g, "Service") /\ PortsFresh(g)
    /\ cached.enabled => PermitsFresh(g, "XBackend") /\ FetchedFresh(g)

\* Then a reference gets the reason it has now.
LEMMA PassReasons ==
    ASSUME NEW g \in Gateways, HasRead(g), NEW r \in Attached(cached, g),
           NEW ref \in RouteRefs(cached, r)
    PROVE  LET t == Target(r, ref) IN
           /\ resolveTargetReason(t) = Reason(cached, t)
           /\ t.kind = "XBackend" /\ Reason(cached, t) = "none" =>
                 ref.name \in XBackends /\ w.fetched[ref.name] = {cached.xbs[ref.name].spec}
  <1> DEFINE t == Target(r, ref)
  <1>1. /\ t \in TargetsIn(cached, g, t.kind)
        /\ t.name = ref.name /\ t.kind = ref.kind /\ t.port = ref.port
    BY DEF TargetsIn, Target
  <1>2. r \in Routes /\ cached.routes[r].spec \in RouteSpecs[r]
    BY DEF HasRead, WellTyped, Attached, ObjectsOK, RouteObjects
  <1>3. ref.kind = "XBackend" => ref.name \in XBackends
    BY <1>2, RefsAreTyped DEF RouteRefs, References
  <1> HIDE DEF t
  <1>4. ASSUME t.kind = "Service"
        PROVE  /\ ~(~Local(t) /\ permit(t) \notin w.permitted) <=> Granted(cached, t)
               /\ Granted(cached, t) => w.ports[t.name] = cached.svcs[t.name].ports
    BY <1>1, <1>4 DEF HasRead, PermitsFresh, PortsFresh, Granted
  <1>5. t.kind = "Service" => resolveTargetReason(t) = Reason(cached, t)
    <2>1. t.kind = "Service" => resolveServiceRef(t) = ServiceReason(cached, t)
      BY <1>4 DEF resolveServiceRef, ServiceReason
    <2> QED BY <2>1 DEF resolveTargetReason, Reason
  <1>6. ASSUME t.kind = "XBackend", ExperimentalBackends
        PROVE  /\ ~(~Local(t) /\ permit(t) \notin w.permitted) <=> Granted(cached, t)
               /\ Granted(cached, t) => w.fetched[t.name] =
                     IF cached.xbs[t.name].exists THEN {cached.xbs[t.name].spec} ELSE {}
    BY <1>1, <1>6 DEF HasRead, PermitsFresh, FetchedFresh, Granted, ExperimentalBackends
  <1>7. ASSUME t.kind = "XBackend"
        PROVE  /\ resolveXBackendRef(t) = XBackendReason(cached, t)
               /\ XBackendReason(cached, t) = "none" =>
                     w.fetched[t.name] = {cached.xbs[t.name].spec}
    <2>1. CASE ~ExperimentalBackends
      BY <2>1 DEF resolveXBackendRef, XBackendReason, ExperimentalBackends
    <2>2. CASE ExperimentalBackends /\ (~Granted(cached, t) \/ t.port # 0)
      BY <1>6, <1>7, <2>2 DEF resolveXBackendRef, XBackendReason, ExperimentalBackends
    <2>3. CASE ExperimentalBackends /\ Granted(cached, t) /\ t.port = 0
      <3>1. CASE cached.xbs[t.name].exists
        <4>1. w.fetched[t.name] = {cached.xbs[t.name].spec}
          BY <1>6, <1>7, <2>3, <3>1
        <4>2. (CHOOSE s \in w.fetched[t.name] : TRUE) = cached.xbs[t.name].spec
          BY <4>1
        <4> QED BY <1>6, <1>7, <2>3, <3>1, <4>1, <4>2
                DEF resolveXBackendRef, XBackendReason, ExperimentalBackends
      <3>2. CASE ~cached.xbs[t.name].exists
        BY <1>6, <1>7, <2>3, <3>2
           DEF resolveXBackendRef, XBackendReason, ExperimentalBackends
      <3> QED BY <3>1, <3>2
    <2> QED BY <2>1, <2>2, <2>3
  <1>8. t.kind = "XBackend" => resolveTargetReason(t) = Reason(cached, t)
    BY <1>7 DEF resolveTargetReason, Reason
  <1>9. t.kind \notin {"Service", "XBackend"} => resolveTargetReason(t) = Reason(cached, t)
    BY DEF resolveTargetReason, Reason
  <1>10. t.kind = "XBackend" /\ Reason(cached, t) = "none" =>
            ref.name \in XBackends /\ w.fetched[ref.name] = {cached.xbs[ref.name].spec}
    BY <1>1, <1>3, <1>7 DEF Reason
  <1> QED BY <1>5, <1>8, <1>9, <1>10 DEF t

\* A route is reported the worst reason its references have now.
LEMMA PassReports ==
    ASSUME NEW g \in Gateways, HasRead(g), NEW r \in Attached(cached, g)
    PROVE  routeResolvedRefs(r) = RouteReason(cached, r)
  <1>1. SeenRoute(r).spec = cached.routes[r].spec
    BY SeenIsAttached DEF HasRead
  <1>2. {resolveTargetReason(Target(r, ref)) : ref \in Refs(SeenRoute(r).spec)}
        = {Reason(cached, Target(r, ref)) : ref \in RouteRefs(cached, r)}
    BY <1>1, PassReasons DEF RouteRefs
  <1> QED BY <1>2, ResolvedTypes DEF RouteReason

\* The rules of a Gateway are those of what the informers hold.
LEMMA PassRules ==
    ASSUME NEW g \in Gateways, HasRead(g), NEW rules \in RuleSets
    PROVE  RulesOf(cached, g, rules)
  <1>1. /\ AttachedRoutes = Attached(cached, g)
        /\ \A r \in Attached(cached, g) :
              r \in Routes /\ SeenRoute(r).spec = cached.routes[r].spec
    BY SeenIsAttached DEF HasRead
  <1>2. RuleIDs = IDs(cached, g)
    BY <1>1 DEF RuleIDs, IDs
  <1>3. ASSUME NEW r \in Attached(cached, g), NEW i \in 1 .. Len(cached.routes[r].spec.rules)
        PROVE  LET refs == cached.routes[r].spec.rules[i] IN
               /\ ServiceURL(r, refs) = Service(cached, r, refs)
               /\ TLSOrigins(r, refs) = Origins(cached, g, r, refs)
    <2> DEFINE refs == cached.routes[r].spec.rules[i]
    <2>1. refs # <<>> => refs[1] \in RouteRefs(cached, r)
      <3>1. cached.routes[r].spec \in RouteSpecs[r]
        BY <1>1 DEF HasRead, WellTyped, ObjectsOK, RouteObjects
      <3> QED BY <1>1, <3>1, RefsAreTyped DEF RouteRefs
    <2> HIDE DEF refs
    <2> DEFINE t == Target(r, refs[1])
    <2>2. t.kind = refs[1].kind /\ t.name = refs[1].name /\ t.port = refs[1].port
      BY DEF Target
    <2>3. refs # <<>> =>
             /\ resolveTargetReason(t) = Reason(cached, t)
             /\ t.kind = "XBackend" /\ Reason(cached, t) = "none" =>
                   (CHOOSE s \in w.fetched[t.name] : TRUE) = cached.xbs[t.name].spec
      <3>1. \A s : (CHOOSE x \in {s} : TRUE) = s
        OBVIOUS
      <3> QED BY <2>1, <2>2, <3>1, PassReasons
    <2> HIDE DEF t
    <2>4. ServiceURL(r, refs) = Service(cached, r, refs)
          /\ BuiltOrigin(r, refs) = Built(cached, r, refs)
      <3>1. CASE refs = <<>>
        BY <3>1 DEF ServiceURL, Service, BuiltOrigin, Built
      <3>2. ASSUME refs # <<>>
            PROVE  /\ ServiceURL(r, refs)
                      = IF resolveTargetReason(t) # "none" THEN ErrorStatus(KindOf[r])
                        ELSE IF t.kind = "XBackend"
                        THEN LET s == CHOOSE x \in w.fetched[t.name] : TRUE IN
                             <<schemeFor(s, KindOf[r]), t.name, s.port>>
                        ELSE <<NativeScheme(KindOf[r]), t.name, t.port>>
                   /\ BuiltOrigin(r, refs)
                      = ruleOrigin(KindOf[r], {},
                                   t.kind = "XBackend" \/ ~(resolveTargetReason(t) = "none"),
                                   IF resolveTargetReason(t) = "none" /\ t.kind = "XBackend"
                                   THEN translateOrigin(CHOOSE s \in w.fetched[t.name] : TRUE,
                                                        KindOf[r])
                                   ELSE NoOrigin)
                   /\ Service(cached, r, refs)
                      = IF Reason(cached, t) # "none" THEN ErrorStatus(KindOf[r])
                        ELSE IF refs[1].kind = "XBackend"
                        THEN <<schemeFor(cached.xbs[refs[1].name].spec, KindOf[r]),
                               refs[1].name, cached.xbs[refs[1].name].spec.port>>
                        ELSE <<NativeScheme(KindOf[r]), refs[1].name, refs[1].port>>
                   /\ Built(cached, r, refs)
                      = IF Reason(cached, t) # "none" THEN ruleOrigin(KindOf[r], {}, TRUE, NoOrigin)
                        ELSE IF refs[1].kind = "XBackend"
                        THEN ruleOrigin(KindOf[r], {}, TRUE,
                                        translateOrigin(cached.xbs[refs[1].name].spec, KindOf[r]))
                        ELSE ruleOrigin(KindOf[r], {}, FALSE, NoOrigin)
        BY <3>2 DEF ServiceURL, BuiltOrigin, Service, Built, t
      <3>3. CASE refs # <<>> /\ Reason(cached, t) # "none"
        <4>1. t.kind = "XBackend" \/ ~(resolveTargetReason(t) = "none") <=> TRUE
          BY <2>3, <3>3
        <4> QED BY <2>3, <3>2, <3>3, <4>1
      <3>4. CASE refs # <<>> /\ Reason(cached, t) = "none" /\ t.kind = "XBackend"
        <4>1. t.kind = "XBackend" \/ ~(resolveTargetReason(t) = "none") <=> TRUE
          BY <3>4
        <4> QED BY <2>2, <2>3, <3>2, <3>4, <4>1
      <3>5. CASE refs # <<>> /\ Reason(cached, t) = "none" /\ t.kind # "XBackend"
        <4>1. t.kind = "XBackend" \/ ~(resolveTargetReason(t) = "none") <=> FALSE
          BY <2>3, <3>5
        <4> QED BY <2>2, <2>3, <3>2, <3>5, <4>1
      <3> QED BY <3>1, <3>3, <3>4, <3>5
    <2>6. TLSBackends(HostOf[r]) = Claimed(cached, g, HostOf[r])
      <3>1. \A x \in Attached(cached, g) :
               hostnameToBackend(x) = LastService(cached.routes[x].spec.rules)
        BY <1>1 DEF hostnameToBackend, LastService
      <3> QED BY <1>1, <3>1 DEF TLSBackends, Claimed
    <2>7. \A s : TLSConfigs(s) = Configs(cached, s)
      BY DEF TLSConfigs, Configs
    <2>8. TLSOrigins(r, refs) = Origins(cached, g, r, refs)
      BY <2>4, <2>6, <2>7 DEF TLSOrigins, Origins
    <2> QED BY <2>4, <2>8 DEF refs
  <1>4. /\ DOMAIN rules = IDs(cached, g)
        /\ \A id \in DOMAIN rules :
              LET refs == SeenRoute(id[1]).spec.rules[id[2]] IN
              /\ rules[id].service = ServiceURL(id[1], refs)
              /\ rules[id].origin \in TLSOrigins(id[1], refs)
    BY <1>2 DEF RuleSets
  <1>5. ASSUME NEW id \in DOMAIN rules PROVE Made(cached, g, id, rules[id])
    <2>1. PICK r \in Attached(cached, g) :
             \E i \in 1 .. Len(cached.routes[r].spec.rules) : id = <<r, i>>
      BY <1>4 DEF IDs
    <2>. PICK i \in 1 .. Len(cached.routes[r].spec.rules) : id = <<r, i>>
      BY <2>1
    <2>2. id[1] = r /\ id[2] = i /\ SeenRoute(r).spec = cached.routes[r].spec
      BY <1>1
    <2> QED BY <1>3, <1>4, <2>2 DEF Made
  <1> QED BY <1>4, <1>5 DEF RulesOf
-----------------------------------------------------------------------------
(* The initial state. *)

\* A worker that is idle holds nothing.
LEMMA IdleTypes ==
    /\ Idle.pc = "idle" /\ Idle.gw = {} /\ Idle.todo = {} /\ Idle.failed = FALSE
    /\ DOMAIN Idle
       = {"pc", "gw", "seen", "ports", "permitted", "fetched", "list", "todo", "failed"}
    /\ \A r \in Routes : Idle.seen[r] = {}
    /\ \A x \in XBackends : Idle.list[x] = {} /\ Idle.fetched[x] = {}
  BY DEF Idle

\* The invariant holds when the controller first starts.
LEMMA BackendInit == Init => BackendInv
  <1> SUFFICES ASSUME Init PROVE BackendInv
    OBVIOUS
  <1> USE DEF Init
  <1>1. /\ DOMAIN api = {"routes", "svcs", "xbs", "grants", "tls"} /\ ObjectsOK(api)
        /\ \A x \in XBackends : api.xbs[x].entries = NoEntries
    BY ResolutionAssumption
  <1>2. /\ DOMAIN cached = {"enabled", "routes", "svcs", "xbs", "grants", "tls"}
        /\ cached.enabled = TRUE /\ cached.routes = api.routes /\ cached.svcs = api.svcs
        /\ cached.xbs = api.xbs /\ cached.grants = api.grants /\ cached.tls = api.tls
    BY DEF Started
  <1>3. WorkerOK
    BY IdleTypes DEF WorkerOK, Phases, AtMostOne
  <1>4. WellTyped
    <2>1. ObjectsOK(cached)
      BY <1>1, <1>2 DEF ObjectsOK
    <2>2. \A g \in Gateways : DOMAIN pushed[g] = {}
      BY DEF NoRules
    <2> QED BY <1>1, <1>2, <1>3, <2>1, <2>2 DEF WellTyped
  <1>5. CopiesAreOld
    <2>1. ASSUME NEW r \in Routes, NEW copy \in {cached.routes[r]} \cup w.seen[r]
          PROVE  OldRoute(copy, r)
      <3>1. copy = api.routes[r]
        BY <1>2, <2>1, IdleTypes
      <3>2. api.routes[r].version \in Nat /\ api.routes[r].gen \in Nat
        BY <1>1 DEF ObjectsOK, RouteObjects
      <3> QED BY <3>1, <3>2 DEF OldRoute
    <2>2. ASSUME NEW x \in XBackends, NEW copy \in {cached.xbs[x]} \cup w.list[x]
          PROVE  OldXBackend(copy, x)
      <3>1. copy = api.xbs[x]
        BY <1>2, <2>2, IdleTypes
      <3>2. api.xbs[x].version \in Nat /\ api.xbs[x].gen \in Nat
        BY <1>1 DEF ObjectsOK, XBackendObjects
      <3> QED BY <3>1, <3>2 DEF OldXBackend
    <2> QED BY <2>1, <2>2 DEF CopiesAreOld
  <1>6. Verdicts
    <2> SUFFICES ASSUME NEW g \in Gateways, NEW x \in XBackends PROVE Judged(g, x)
      BY DEF Verdicts
    <2>1. api.xbs[x].entries[g] = Absent /\ api.xbs[x].gen \in Nat
      BY <1>1 DEF NoEntries, ObjectsOK, XBackendObjects
    <2> QED BY <2>1 DEF Judged, Absent
  <1>7. InWork
    BY IdleTypes DEF InWork
  <1>8. \A g \in Gateways : Fresh(g)
    BY IdleTypes DEF Fresh, PassFresh, PushedFresh, RouteFresh, XBackendFresh
  <1> QED BY <1>4, <1>5, <1>6, <1>7, <1>8 DEF BackendInv
-----------------------------------------------------------------------------
(* What steps leave alone. *)

\* What a queued Gateway has is to be made anew.
LEMMA QueuedIsFresh ==
    ASSUME NEW g, g \in queue'
    PROVE  Fresh(g)'
  BY DEF Fresh, PassFresh, PushedFresh, RouteFresh, XBackendFresh

\* Objects that are the same for a Gateway have the same targets.
LEMMA SameTargets ==
    ASSUME NEW c, NEW d, NEW g, NEW kind, ObjectsOK(c), SameFor(c, d, g)
    PROVE  TargetsIn(c, g, kind) = TargetsIn(d, g, kind)
  BY SameReasons DEF TargetsIn

\* The targets of a kind name objects of that kind.
LEMMA TargetsAreTyped ==
    ASSUME NEW c, NEW g, ObjectsOK(c)
    PROVE  /\ \A t \in TargetsIn(c, g, "Service") : t.name \in Services
           /\ \A t \in TargetsIn(c, g, "XBackend") : t.name \in XBackends
  <1>1. ASSUME NEW r \in Attached(c, g), NEW ref \in RouteRefs(c, r)
        PROVE  ref \in References
    <2>1. r \in Routes /\ c.routes[r].spec \in RouteSpecs[r]
      BY DEF Attached, ObjectsOK, RouteObjects
    <2> QED BY <2>1, RefsAreTyped DEF RouteRefs
  <1> QED BY <1>1 DEF TargetsIn, Target, References

\* A grant does not look at the port, so that one permit stands for all ports.
LEMMA PermitsMatch ==
    ASSUME NEW kind, NEW grants, NEW t \in Targets(kind)
    PROVE  permit(t) \in PermitsFor(Targets(kind), grants) <=> CheckReferenceGrantTo(grants, t)
  <1>1. \A u \in Targets(kind) :
           u = [routeNS |-> u.routeNS, routeKind |-> u.routeKind, kind |-> u.kind,
                name |-> u.name, port |-> u.port]
    BY DEF Targets, Target
  <1>2. ASSUME NEW u \in Targets(kind), permit(u) = permit(t)
        PROVE  CheckReferenceGrantTo(grants, u) <=> CheckReferenceGrantTo(grants, t)
    <2>1. /\ permit(u) = [routeNS |-> u.routeNS, routeKind |-> u.routeKind, kind |-> u.kind,
                          name |-> u.name, port |-> 0]
          /\ permit(t) = [routeNS |-> t.routeNS, routeKind |-> t.routeKind, kind |-> t.kind,
                          name |-> t.name, port |-> 0]
      BY <1>1 DEF permit
    <2>2. /\ permit(u).routeNS = u.routeNS /\ permit(u).routeKind = u.routeKind
          /\ permit(u).kind = u.kind /\ permit(u).name = u.name
      BY <2>1
    <2>3. /\ permit(t).routeNS = t.routeNS /\ permit(t).routeKind = t.routeKind
          /\ permit(t).kind = t.kind /\ permit(t).name = t.name
      BY <2>1
    <2>4. u.routeNS = t.routeNS /\ u.routeKind = t.routeKind /\ u.kind = t.kind /\ u.name = t.name
      BY <1>2, <2>2, <2>3
    <2> QED BY <2>4 DEF CheckReferenceGrantTo, fromMatches, toMatches
  <1> QED BY <1>2 DEF PermitsFor

\* Permits are of the kind of their targets.
LEMMA PermitKinds ==
    ASSUME NEW kind
    PROVE  /\ \A grants : \A p \in PermitsFor(Targets(kind), grants) : p.kind = kind
           /\ \A c, g : \A t \in TargetsIn(c, g, kind) : permit(t).kind = kind
  <1>1. \A r, ref : permit(Target(r, ref)).kind = Target(r, ref).kind
    BY DEF permit, Target
  <1>2. \A grants : \A p \in PermitsFor(Targets(kind), grants) : p.kind = kind
    BY <1>1 DEF PermitsFor, Targets
  <1>3. \A c, g : \A t \in TargetsIn(c, g, kind) : permit(t).kind = kind
    BY <1>1 DEF TargetsIn
  <1> QED BY <1>2, <1>3

\* What a pass has read stays fresh while nothing changes for its Gateway.
LEMMA PassKept ==
    ASSUME WellTyped, NEW g \in Gateways, PassFresh(g), w' = w, g \notin queue,
           SameFor(cached, cached', g)
    PROVE  PassFresh(g)'
  <1> SUFFICES ASSUME w.gw = {g}, w.pc # "prune"
               PROVE  PassFresh(g)'
    BY DEF PassFresh
  <1>1. ObjectsOK(cached)
    BY DEF WellTyped
  <1>2. SeenFresh(g)'
    <2>1. SeenFresh(g)
      BY DEF PassFresh
    <2>2. Attached(cached, g) = Attached(cached', g)
          /\ \A r \in Attached(cached, g) :
                /\ cached.routes[r].spec = cached'.routes[r].spec
                /\ cached.routes[r].gen = cached'.routes[r].gen
      BY <1>1, SameReasons
    <2> QED BY <2>1, <2>2 DEF SeenFresh
  <1>3. \A kind : TargetsIn(cached', g, kind) = TargetsIn(cached, g, kind)
    BY <1>1, SameTargets
  <1>4. cached'.grants = cached.grants /\ cached'.enabled = cached.enabled
    BY DEF SameFor
  <1>5. \A kind : PermitsFresh(g, kind) => PermitsFresh(g, kind)'
    BY <1>3, <1>4 DEF PermitsFresh
  <1>6. \A t : Granted(cached', t) <=> Granted(cached, t)
    BY <1>4 DEF Granted
  <1>7. ASSUME NEW r \in Attached(cached, g), NEW ref \in RouteRefs(cached, r)
        PROVE  ref \in References
    <2>1. r \in Routes /\ cached.routes[r].spec \in RouteSpecs[r]
      BY <1>1 DEF Attached, ObjectsOK, RouteObjects
    <2> QED BY <2>1, RefsAreTyped DEF RouteRefs
  <1>8. PortsFresh(g) => PortsFresh(g)'
    <2>1. \A t \in TargetsIn(cached, g, "Service") : cached'.svcs[t.name] = cached.svcs[t.name]
      BY DEF SameFor, TargetsIn, Target
    <2> QED BY <1>3, <1>6, <2>1 DEF PortsFresh
  <1>9. FetchedFresh(g) => FetchedFresh(g)'
    <2>1. \A t \in TargetsIn(cached, g, "XBackend") : t.name \in XBackends
      BY <1>7 DEF TargetsIn, Target, References
    <2>2. \A x \in XBackends : /\ cached'.xbs[x].exists = cached.xbs[x].exists
                               /\ cached'.xbs[x].spec = cached.xbs[x].spec
      BY DEF SameFor
    <2> QED BY <1>3, <1>6, <2>1, <2>2 DEF FetchedFresh
  <1>10. \A x \in XBackends : cached'.xbs[x].gen = cached.xbs[x].gen
    BY DEF SameFor
  <1> QED BY <1>2, <1>4, <1>5, <1>8, <1>9, <1>10 DEF PassFresh

\* The entries and generations that matter to a Gateway stay as they are.
EntriesKept(g) ==
    /\ \A r \in Routes : api'.routes[r].entries[g] = api.routes[r].entries[g]
    /\ \A x \in XBackends : cached'.xbs[x].gen = api'.xbs[x].gen =>
          /\ api'.xbs[x].entries[g] = api.xbs[x].entries[g]
          /\ api'.xbs[x].gen = api.xbs[x].gen /\ api'.xbs[x].spec = api.xbs[x].spec

\* A Gateway for which nothing changes stays fresh.
LEMMA FreshKept ==
    ASSUME BackendInv, NEW g \in Gateways, g \notin queue' => g \notin queue,
           live'[g] = "live" => live[g] = "live", pushed'[g] = pushed[g],
           w' = w \/ (w.gw # {g} /\ w'.gw # {g}),
           g \notin queue' => SameFor(cached, cached', g),
           EntriesKept(g)
    PROVE  Fresh(g)'
  <1> SUFFICES ASSUME g \notin queue' PROVE Fresh(g)'
    BY QueuedIsFresh
  <1>1. Fresh(g) /\ WellTyped /\ ObjectsOK(cached)
    BY DEF BackendInv, WellTyped
  <1>2. PassFresh(g)'
    <2>1. CASE w' = w
      BY <1>1, <2>1, PassKept DEF Fresh
    <2>2. CASE w.gw # {g} /\ w'.gw # {g}
      BY <2>2 DEF PassFresh
    <2> QED BY <2>1, <2>2
  <1>3. /\ \A rules : RulesOf(cached, g, rules) => RulesOf(cached', g, rules)
        /\ \A x \in XBackends : RefersIn(cached', g, x) <=> RefersIn(cached, g, x)
        /\ Attached(cached', g) = Attached(cached, g)
        /\ \A r \in Attached(cached, g) :
              /\ cached'.routes[r].gen = cached.routes[r].gen
              /\ RouteReason(cached', r) = RouteReason(cached, r)
    BY <1>1, SameRules, SameReasons
  <1>4. PushedFresh(g)'
    BY <1>1, <1>3 DEF Fresh, PushedFresh
  <1>5. ASSUME NEW r \in Routes PROVE RouteFresh(g, r)'
    <2>1. RouteFresh(g, r)
      BY <1>1 DEF Fresh
    <2> QED BY <1>3, <2>1 DEF RouteFresh, EntriesKept
  <1>6. ASSUME NEW x \in XBackends PROVE XBackendFresh(g, x)'
    <2>1. XBackendFresh(g, x)
      BY <1>1 DEF Fresh
    <2>2. /\ cached'.xbs[x].gen = cached.xbs[x].gen /\ cached'.enabled = cached.enabled
          /\ cached'.xbs[x].gen = api'.xbs[x].gen =>
                /\ Verdict(x)' = Verdict(x) /\ api'.xbs[x].gen = api.xbs[x].gen
                /\ api'.xbs[x].entries[g] = api.xbs[x].entries[g]
      BY DEF EntriesKept, SameFor, Verdict
    <2> QED BY <1>3, <2>1, <2>2 DEF XBackendFresh, ExperimentalBackends
  <1> QED BY <1>2, <1>4, <1>5, <1>6 DEF Fresh

\* How an object may change: a new version, and a new generation if its spec is new.
RouteMoves(r) ==
    LET old == api.routes[r] new == api'.routes[r] IN
    \/ new = old
    \/ /\ new.version > old.version /\ new.gen >= old.gen
       /\ new.gen = old.gen => new.spec = old.spec
XBackendMoves(x) ==
    LET old == api.xbs[x] new == api'.xbs[x] IN
    \/ new = old
    \/ /\ new.version > old.version /\ new.gen >= old.gen
       /\ new.gen = old.gen => new.spec = old.spec /\ new.exists = old.exists
       /\ \A g \in Gateways :
             new.entries[g] \in {old.entries[g], Absent} \/ new.entries[g].gen >= old.gen

\* Then copies stay behind their objects.
LEMMA RoutesStayOld ==
    ASSUME WellTyped, CopiesAreOld, ObjectsOK(api'), NEW r \in Routes, RouteMoves(r),
           NEW copy \in {cached.routes[r]} \cup w.seen[r]
    PROVE  OldRoute(copy, r)'
  <1> DEFINE old == api.routes[r]
             new == api'.routes[r]
  <1>1. /\ copy.version \in Nat /\ copy.gen \in Nat /\ old.version \in Nat /\ old.gen \in Nat
        /\ new.version \in Nat /\ new.gen \in Nat
    BY DEF WellTyped, WorkerOK, ObjectsOK, RouteObjects
  <1>2. OldRoute(copy, r)
    BY DEF CopiesAreOld
  <1>3. CASE new = old
    BY <1>2, <1>3 DEF OldRoute
  <1>4. CASE new # old
    <2>1. /\ copy.version <= old.version /\ copy.gen <= old.gen
          /\ copy.gen = old.gen => copy.spec = old.spec
      BY <1>2 DEF OldRoute
    <2>2. /\ new.version > old.version /\ new.gen >= old.gen
          /\ new.gen = old.gen => new.spec = old.spec
      BY <1>4 DEF RouteMoves
    <2> HIDE DEF old, new
    <2>3. copy.version < new.version /\ copy.gen <= new.gen
      BY <1>1, <2>1, <2>2
    <2>4. copy.gen = new.gen => copy.spec = new.spec
      BY <1>1, <2>1, <2>2
    <2>5. copy.version <= new.version /\ copy.version # new.version
      BY <1>1, <2>3
    <2> QED BY <2>3, <2>4, <2>5 DEF OldRoute, new
  <1> QED BY <1>3, <1>4

\* The same for XBackends, whose entries a copy has if they are older than its generation.
LEMMA XBackendsStayOld ==
    ASSUME WellTyped, CopiesAreOld, ObjectsOK(api'), NEW x \in XBackends, XBackendMoves(x),
           NEW copy \in {cached.xbs[x]} \cup w.list[x]
    PROVE  OldXBackend(copy, x)'
  <1> DEFINE old == api.xbs[x]
             new == api'.xbs[x]
  <1>1. /\ copy.version \in Nat /\ copy.gen \in Nat /\ old.version \in Nat /\ old.gen \in Nat
        /\ new.version \in Nat /\ new.gen \in Nat
        /\ \A g \in Gateways : new.entries[g] # Absent => new.entries[g].gen \in Nat
    BY DEF WellTyped, WorkerOK, ObjectsOK, XBackendObjects, Entries
  <1>2. OldXBackend(copy, x)
    BY DEF CopiesAreOld
  <1>3. CASE new = old
    BY <1>2, <1>3 DEF OldXBackend
  <1>4. CASE new # old
    <2>1. /\ copy.version <= old.version /\ copy.gen <= old.gen
          /\ copy.gen = old.gen => copy.spec = old.spec /\ copy.exists = old.exists
          /\ \A g \in Gateways : old.entries[g] # Absent /\ old.entries[g].gen < copy.gen =>
                                    copy.entries[g] = old.entries[g]
      BY <1>2 DEF OldXBackend
    <2>2. /\ new.version > old.version /\ new.gen >= old.gen
          /\ new.gen = old.gen => new.spec = old.spec /\ new.exists = old.exists
          /\ \A g \in Gateways :
                new.entries[g] \in {old.entries[g], Absent} \/ new.entries[g].gen >= old.gen
      BY <1>4 DEF XBackendMoves
    <2> HIDE DEF old, new
    <2>3. copy.version < new.version /\ copy.gen <= new.gen
      BY <1>1, <2>1, <2>2
    <2>4. copy.gen = new.gen => copy.spec = new.spec /\ copy.exists = new.exists
      BY <1>1, <2>1, <2>2
    <2>5. copy.version <= new.version /\ copy.version # new.version
      BY <1>1, <2>3
    <2>6. ASSUME NEW g \in Gateways, new.entries[g] # Absent, new.entries[g].gen < copy.gen
          PROVE  copy.entries[g] = new.entries[g]
      <3>1. ~(new.entries[g].gen >= old.gen)
        BY <1>1, <2>1, <2>6
      <3> QED BY <2>1, <2>2, <2>6, <3>1
    <2> QED BY <2>3, <2>4, <2>5, <2>6 DEF OldXBackend, new
  <1> QED BY <1>3, <1>4

\* What is copied from an object or from the informer's copy is old too.
LEMMA CopiesRemainOld ==
    ASSUME WellTyped, CopiesAreOld, ObjectsOK(api'),
           \A r \in Routes : /\ RouteMoves(r)
                             /\ cached'.routes[r] \in {cached.routes[r], api'.routes[r]}
                             /\ w'.seen[r] \subseteq w.seen[r] \cup {cached.routes[r]},
           \A x \in XBackends : /\ XBackendMoves(x)
                                /\ cached'.xbs[x] \in {cached.xbs[x], api'.xbs[x]}
                                /\ w'.list[x] \subseteq w.list[x] \cup {cached.xbs[x]}
    PROVE  CopiesAreOld'
  <1>1. ASSUME NEW r \in Routes, NEW copy \in {cached'.routes[r]} \cup w'.seen[r]
        PROVE  OldRoute(copy, r)'
    <2>1. CASE copy = api'.routes[r]
      <3>1. copy.version \in Nat /\ copy.gen \in Nat
        BY <2>1 DEF ObjectsOK, RouteObjects
      <3> QED BY <2>1, <3>1 DEF OldRoute
    <2>2. CASE copy \in {cached.routes[r]} \cup w.seen[r]
      BY <2>2, RoutesStayOld
    <2> QED BY <1>1, <2>1, <2>2
  <1>2. ASSUME NEW x \in XBackends, NEW copy \in {cached'.xbs[x]} \cup w'.list[x]
        PROVE  OldXBackend(copy, x)'
    <2>1. CASE copy = api'.xbs[x]
      <3>1. copy.version \in Nat /\ copy.gen \in Nat
        BY <2>1 DEF ObjectsOK, XBackendObjects
      <3> QED BY <2>1, <3>1 DEF OldXBackend
    <2>2. CASE copy \in {cached.xbs[x]} \cup w.list[x]
      BY <2>2, XBackendsStayOld
    <2> QED BY <1>2, <2>1, <2>2
  <1> QED BY <1>1, <1>2 DEF CopiesAreOld
-----------------------------------------------------------------------------
(* The worker. *)

\* A step of the worker for one Gateway concerns no other.
LEMMA WorkMoves ==
    ASSUME BackendInv, NEW g \in Gateways, UNCHANGED <<api, cached>>,
           w.gw \in {{}, {g}}, w'.gw \in {{}, {g}}, WorkerOK', used' \in Nat,
           \A r \in Routes : w'.seen[r] \subseteq w.seen[r] \cup {cached.routes[r]},
           \A x \in XBackends : w'.list[x] \subseteq w.list[x] \cup {cached.xbs[x]},
           queue' \subseteq Gateways, queue \ {g} \subseteq queue',
           live' \in [Gateways -> {"live", "deleting", "gone"}], DOMAIN pushed' = Gateways,
           \A h \in Gateways \ {g} : live'[h] = live[h] /\ pushed'[h] = pushed[h],
           \A id \in DOMAIN pushed'[g] : DOMAIN pushed'[g][id].origin = OriginFields,
           InWork', Fresh(g)'
    PROVE  BackendInv'
  <1>1. WellTyped /\ CopiesAreOld /\ Verdicts /\ InWork /\ \A h \in Gateways : Fresh(h)
    BY DEF BackendInv
  <1>2. WellTyped'
    BY <1>1 DEF WellTyped, ObjectsOK
  <1>3. CopiesAreOld'
    <2>1. ObjectsOK(api')
      BY <1>1 DEF WellTyped
    <2>2. \A r \in Routes : RouteMoves(r)
      BY DEF RouteMoves
    <2>3. \A x \in XBackends : XBackendMoves(x)
      BY DEF XBackendMoves
    <2>4. /\ \A r \in Routes : cached'.routes[r] \in {cached.routes[r], api'.routes[r]}
          /\ \A x \in XBackends : cached'.xbs[x] \in {cached.xbs[x], api'.xbs[x]}
      OBVIOUS
    <2> QED BY <1>1, <2>1, <2>2, <2>3, <2>4, CopiesRemainOld
  <1>4. Verdicts'
    BY <1>1 DEF Verdicts, Judged, Verdict
  <1>5. ASSUME NEW h \in Gateways \ {g} PROVE Fresh(h)'
    <2>1. w.gw # {h} /\ w'.gw # {h}
      OBVIOUS
    <2>2. EntriesKept(h)
      BY DEF EntriesKept
    <2>3. SameFor(cached, cached', h)
      BY DEF SameFor
    <2> QED BY <2>1, <2>2, <2>3, FreshKept
  <1> QED BY <1>2, <1>3, <1>4, <1>5 DEF BackendInv

\* After an error the Gateway is queued again.
LEMMA ReturnsWithError ==
    ASSUME BackendInv, NEW g \in Gateways, UNCHANGED <<api, cached, live, pushed>>,
           w.gw = {g}, Abort(g)
    PROVE  BackendInv'
  <1>1. w' = Idle /\ queue' = queue \cup {g} /\ used' = used + 1
    BY DEF Abort, Requeued, SpendsFailure, Disturbs
  <1>2. WellTyped
    BY DEF BackendInv
  <1>3. WorkerOK' /\ InWork'
    BY <1>1, IdleTypes DEF WorkerOK, Phases, AtMostOne, InWork
  <1>4. used' \in Nat /\ queue' \subseteq Gateways
    BY <1>1, <1>2 DEF WellTyped
  <1>5. Fresh(g)'
    BY <1>1, QueuedIsFresh
  <1>6. w'.gw = {} /\ (\A r \in Routes : w'.seen[r] = {}) /\ \A x \in XBackends : w'.list[x] = {}
    BY <1>1, IdleTypes
  <1> QED BY <1>1, <1>2, <1>3, <1>4, <1>5, <1>6, WorkMoves DEF WellTyped

\* collect*Routes sees the routes that are attached.
LEMMA CollectRoutesSafe ==
    ASSUME BackendInv, NEW g \in Gateways, CollectRoutes(g)
    PROVE  BackendInv'
  <1> DEFINE seen == [r \in Routes |->
                        IF g \in cached.routes[r].spec.parents THEN {cached.routes[r]} ELSE {}]
  <1>1. /\ w.pc = "idle" /\ live[g] = "live" /\ queue' = queue \ {g}
        /\ UNCHANGED <<api, cached, live, pushed, used>>
        /\ w' = [Idle EXCEPT !.pc = "services", !.gw = {g}, !.seen = seen]
    BY DEF CollectRoutes
  <1>2. WellTyped /\ w.gw = {}
    BY <1>1 DEF BackendInv, InWork
  <1>3. /\ \A r \in Routes : seen[r] = IF r \in Attached(cached, g) THEN {cached.routes[r]} ELSE {}
        /\ \A r \in Routes : cached.routes[r] \in RouteObjects(r)
    BY <1>2 DEF Attached, WellTyped, ObjectsOK
  <1> HIDE DEF seen
  <1>4. /\ w'.pc = "services" /\ w'.gw = {g} /\ w'.seen = seen /\ w'.todo = {}
        /\ w'.failed = FALSE /\ DOMAIN w' = DOMAIN Idle
        /\ w'.list = Idle.list /\ w'.fetched = Idle.fetched
    BY <1>1, IdleTypes
  <1>5. WorkerOK'
    <2>1. \A r \in Routes : w'.seen[r] \subseteq RouteObjects(r) /\ AtMostOne(w'.seen[r])
      BY <1>3, <1>4 DEF AtMostOne
    <2>2. \A x \in XBackends : w'.list[x] = {} /\ w'.fetched[x] = {}
      BY <1>4, IdleTypes
    <2> QED BY <1>4, <2>1, <2>2, IdleTypes DEF WorkerOK, Phases, AtMostOne
  <1>6. InWork'
    BY <1>1, <1>4, IdleTypes DEF InWork
  <1>7. Fresh(g)'
    <2>1. SeenFresh(g)'
      BY <1>1, <1>3, <1>4 DEF SeenFresh
    <2>2. PassFresh(g)'
      BY <1>4, <2>1 DEF PassFresh, Fetches
    <2> QED BY <1>4, <2>2 DEF Fresh, PushedFresh, RouteFresh, XBackendFresh
  <1>8. /\ \A r \in Routes : w'.seen[r] \subseteq {cached.routes[r]}
        /\ \A x \in XBackends : w'.list[x] = {}
    BY <1>3, <1>4, IdleTypes
  <1> QED BY <1>1, <1>2, <1>4, <1>5, <1>6, <1>7, <1>8, WorkMoves DEF WellTyped

\* A request for a Gateway that is gone.
LEMMA NotFoundSafe ==
    ASSUME BackendInv, NEW g \in Gateways, NotFound(g)
    PROVE  BackendInv'
  <1>1. /\ w.pc = "idle" /\ live[g] = "gone" /\ queue' = queue \ {g}
        /\ UNCHANGED <<api, cached, live, w, pushed, used>>
    BY DEF NotFound
  <1>2. WellTyped /\ InWork /\ w.gw = {}
    BY <1>1 DEF BackendInv, InWork
  <1>3. Fresh(g)'
    BY <1>1, <1>2 DEF Fresh, PassFresh, PushedFresh, RouteFresh, XBackendFresh
  <1>4. WorkerOK' /\ InWork'
    BY <1>1, <1>2 DEF WellTyped, WorkerOK, InWork, AttachedRoutes
  <1> QED BY <1>1, <1>2, <1>3, <1>4, WorkMoves DEF WellTyped

\* The Services of the routes that were seen, and what grants permit.
LEMMA collectServiceBackendsSafe ==
    ASSUME BackendInv, NEW g \in Gateways, collectServiceBackends(g)
    PROVE  BackendInv'
  <1>1. w.pc = "services" /\ w.gw = {g} /\ UNCHANGED <<api, cached, live, pushed>>
    BY DEF collectServiceBackends
  <1>2. CASE Abort(g)
    BY <1>1, <1>2, ReturnsWithError
  <1>3. CASE ~Abort(g)
    <2> DEFINE targets == Targets("Service")
               names == {t.name : t \in Dereferenced(targets, cached.grants)}
               ports == [s \in Services |-> IF s \in names THEN cached.svcs[s].ports ELSE {}]
               pc == IF ExperimentalBackends THEN "xbackends" ELSE "push"
    <2>1. /\ UNCHANGED <<queue, used>>
          /\ w' = [w EXCEPT !.pc = pc, !.permitted = PermitsFor(targets, cached.grants),
                            !.ports = ports]
      BY <1>3 DEF collectServiceBackends
    <2>2. WellTyped /\ WorkerOK /\ InWork /\ PassFresh(g)
      BY DEF BackendInv, WellTyped, Fresh
    <2>3. pc \in {"xbackends", "push"} /\ (pc = "push" => ~cached.enabled)
      BY DEF ExperimentalBackends
    <2> HIDE DEF pc, ports, targets
    <2>4. /\ w'.pc = pc /\ w'.gw = {g} /\ w'.seen = w.seen /\ w'.todo = w.todo
          /\ w'.failed = w.failed /\ DOMAIN w' = DOMAIN w
          /\ w'.list = w.list /\ w'.fetched = w.fetched
          /\ w'.permitted = PermitsFor(targets, cached.grants) /\ w'.ports = ports
      BY <1>1, <2>1, <2>2 DEF WorkerOK
    <2>5. WorkerOK'
      BY <2>2, <2>3, <2>4 DEF WorkerOK, Phases
    <2>6. InWork'
      <3>1. \A t \in w'.permitted : t.kind = "Service"
        BY <2>4, PermitKinds DEF targets
      <3> QED BY <1>1, <2>2, <2>3, <2>4, <3>1 DEF InWork
    <2>7. ASSUME g \notin queue
          PROVE  SeenFresh(g)' /\ PermitsFresh(g, "Service")' /\ PortsFresh(g)'
      <3>1. SeenFresh(g)
        BY <1>1, <2>2, <2>7 DEF PassFresh
      <3>2. SeenFresh(g)'
        BY <1>1, <2>4, <3>1 DEF SeenFresh
      <3>3. targets = TargetsIn(cached, g, "Service")
        BY <2>2, <3>1, SeenIsAttached DEF targets
      <3>4. ASSUME NEW t \in targets
            PROVE  permit(t) \in w'.permitted <=> CheckReferenceGrantTo(cached.grants, t)
        BY <2>4, PermitsMatch DEF targets
      <3>5. ASSUME NEW t \in targets, Granted(cached, t)
            PROVE  ports[t.name] = cached.svcs[t.name].ports
        <4>1. t.name \in names
          BY <3>5 DEF Dereferenced, Granted
        <4>2. t.name \in Services
          BY <2>2, <3>3, TargetsAreTyped DEF WellTyped
        <4> QED BY <4>1, <4>2 DEF ports
      <3> QED BY <1>1, <2>4, <3>2, <3>3, <3>4, <3>5 DEF PermitsFresh, PortsFresh
    <2>8. Fresh(g)'
      <3>1. PassFresh(g)'
        BY <1>1, <2>1, <2>3, <2>4, <2>7 DEF PassFresh, Fetches
      <3> QED BY <2>3, <2>4, <3>1 DEF Fresh, PushedFresh, RouteFresh, XBackendFresh
    <2> QED BY <1>1, <2>1, <2>2, <2>4, <2>5, <2>6, <2>8, WorkMoves DEF WellTyped
  <1> QED BY <1>2, <1>3

\* The XBackends of the routes that were seen; more is permitted, but to XBackends only.
LEMMA collectReferencedXBackendsSafe ==
    ASSUME BackendInv, NEW g \in Gateways, collectReferencedXBackends(g)
    PROVE  BackendInv'
  <1>1. w.pc = "xbackends" /\ w.gw = {g} /\ UNCHANGED <<api, cached, live, pushed>>
    BY DEF collectReferencedXBackends
  <1>2. CASE Abort(g)
    BY <1>1, <1>2, ReturnsWithError
  <1>3. CASE ~Abort(g)
    <2> DEFINE targets == Targets("XBackend")
               names == {t.name : t \in Dereferenced(targets, cached.grants)}
               fetched == [x \in XBackends |-> IF x \in names /\ cached.xbs[x].exists
                                               THEN {cached.xbs[x].spec} ELSE {}]
               permits == PermitsFor(targets, cached.grants)
    <2>1. /\ UNCHANGED <<queue, used>>
          /\ w' = [w EXCEPT !.pc = "push", !.permitted = @ \cup permits, !.fetched = fetched]
      BY <1>3 DEF collectReferencedXBackends
    <2>2. WellTyped /\ WorkerOK /\ InWork /\ PassFresh(g)
      BY DEF BackendInv, WellTyped, Fresh
    <2>3. \A x \in XBackends : fetched[x] \subseteq XBackendSpecs
      BY <2>2 DEF WellTyped, ObjectsOK, XBackendObjects
    <2> HIDE DEF fetched, targets, permits
    <2>4. /\ w'.pc = "push" /\ w'.gw = {g} /\ w'.seen = w.seen /\ w'.todo = w.todo
          /\ w'.failed = w.failed /\ DOMAIN w' = DOMAIN w
          /\ w'.list = w.list /\ w'.fetched = fetched
          /\ w'.permitted = w.permitted \cup permits /\ w'.ports = w.ports
      BY <1>1, <2>1, <2>2 DEF WorkerOK
    <2>5. WorkerOK'
      BY <2>2, <2>3, <2>4 DEF WorkerOK, Phases
    <2>6. InWork'
      BY <1>1, <2>2, <2>4 DEF InWork
    <2>7. ASSUME g \notin queue
          PROVE  /\ SeenFresh(g)' /\ PermitsFresh(g, "Service")' /\ PortsFresh(g)'
                 /\ PermitsFresh(g, "XBackend")' /\ FetchedFresh(g)'
      <3>1. SeenFresh(g) /\ PermitsFresh(g, "Service") /\ PortsFresh(g)
        BY <1>1, <2>2, <2>7 DEF PassFresh
      <3>2. SeenFresh(g)' /\ PortsFresh(g)'
        BY <1>1, <2>4, <3>1 DEF SeenFresh, PortsFresh
      <3>3. targets = TargetsIn(cached, g, "XBackend")
        BY <2>2, <3>1, SeenIsAttached DEF targets
      <3>4. ASSUME NEW t \in TargetsIn(cached, g, "Service") PROVE permit(t) \notin permits
        BY PermitKinds DEF permits, targets
      <3>5. PermitsFresh(g, "Service")'
        BY <1>1, <2>4, <3>1, <3>4 DEF PermitsFresh
      <3>6. ASSUME NEW t \in targets
            PROVE  permit(t) \in w'.permitted <=> CheckReferenceGrantTo(cached.grants, t)
        <4>1. permit(t) \in permits <=> CheckReferenceGrantTo(cached.grants, t)
          BY PermitsMatch DEF targets, permits
        <4>2. permit(t) \notin w.permitted
          BY <1>1, <2>2, <3>3, PermitKinds DEF InWork
        <4> QED BY <2>4, <4>1, <4>2
      <3>7. ASSUME NEW t \in targets, Granted(cached, t)
            PROVE  fetched[t.name] = IF cached.xbs[t.name].exists
                                     THEN {cached.xbs[t.name].spec} ELSE {}
        <4>1. t.name \in names
          BY <3>7 DEF Dereferenced, Granted
        <4>2. t.name \in XBackends
          BY <2>2, <3>3, TargetsAreTyped DEF WellTyped
        <4> QED BY <4>1, <4>2 DEF fetched
      <3> QED BY <1>1, <2>4, <3>2, <3>3, <3>5, <3>6, <3>7 DEF PermitsFresh, FetchedFresh
    <2>8. Fresh(g)'
      <3>1. PassFresh(g)'
        BY <1>1, <2>1, <2>4, <2>7 DEF PassFresh, Fetches
      <3> QED BY <2>4, <3>1 DEF Fresh, PushedFresh, RouteFresh, XBackendFresh
    <2> QED BY <1>1, <2>1, <2>2, <2>4, <2>5, <2>6, <2>8, WorkMoves DEF WellTyped
  <1> QED BY <1>2, <1>3

\* What the worker keeps of a pass keeps fresh.
LEMMA ReadKept ==
    ASSUME NEW g, UNCHANGED cached, w'.seen = w.seen, w'.permitted = w.permitted,
           w'.ports = w.ports, w'.fetched = w.fetched
    PROVE  /\ SeenFresh(g) => SeenFresh(g)'
           /\ \A kind : PermitsFresh(g, kind) => PermitsFresh(g, kind)'
           /\ PortsFresh(g) => PortsFresh(g)'
           /\ FetchedFresh(g) => FetchedFresh(g)'
  BY DEF SeenFresh, PermitsFresh, PortsFresh, FetchedFresh

\* The rules are those of what the informers hold, or the Gateway is queued again.
LEMMA PushConfigSafe ==
    ASSUME BackendInv, NEW g \in Gateways, PushConfig(g)
    PROVE  BackendInv'
  <1>1. w.pc = "push" /\ w.gw = {g} /\ UNCHANGED <<api, cached, live>>
    BY DEF PushConfig
  <1>2. CASE Abort(g) /\ UNCHANGED pushed
    BY <1>1, <1>2, ReturnsWithError
  <1>3. CASE /\ \E rules \in RuleSets : pushed' = [pushed EXCEPT ![g] = rules]
             /\ w' = [w EXCEPT !.pc = "routes", !.todo = AttachedRoutes]
             /\ UNCHANGED <<queue, used>>
    <2>1. PICK rules \in RuleSets : pushed' = [pushed EXCEPT ![g] = rules]
      BY <1>3
    <2>2. WellTyped /\ WorkerOK /\ InWork /\ PassFresh(g)
      BY DEF BackendInv, WellTyped, Fresh
    <2>3. /\ w'.pc = "routes" /\ w'.gw = {g} /\ w'.todo = AttachedRoutes /\ w'.seen = w.seen
          /\ w'.failed = w.failed /\ DOMAIN w' = DOMAIN w /\ w'.list = w.list
          /\ w'.fetched = w.fetched /\ w'.permitted = w.permitted /\ w'.ports = w.ports
      BY <1>1, <1>3, <2>2 DEF WorkerOK
    <2>4. WorkerOK' /\ InWork'
      <3>1. AttachedRoutes \subseteq Routes /\ AttachedRoutes' = AttachedRoutes
        BY <2>3 DEF AttachedRoutes
      <3>2. WorkerOK'
        BY <2>2, <2>3, <3>1 DEF WorkerOK, Phases
      <3> QED BY <1>1, <2>2, <2>3, <3>1, <3>2 DEF InWork
    <2>5. /\ DOMAIN pushed' = Gateways /\ pushed'[g] = rules
          /\ \A h \in Gateways \ {g} : pushed'[h] = pushed[h]
      BY <2>1, <2>2 DEF WellTyped
    <2>6. \A id \in DOMAIN rules : DOMAIN rules[id].origin = OriginFields
      <3>1. \A id \in DOMAIN rules :
               rules[id].origin \in TLSOrigins(id[1], SeenRoute(id[1]).spec.rules[id[2]])
        BY DEF RuleSets
      <3> QED BY <3>1, OriginDomains
    <2>7. ASSUME g \notin queue
          PROVE  HasRead(g) /\ RulesOf(cached, g, rules)
      <3>1. HasRead(g)
        BY <1>1, <2>2, <2>7 DEF PassFresh, HasRead, Fetches
      <3> QED BY <3>1, PassRules
    <2>8. PassFresh(g)'
      BY <1>1, <1>3, <2>2, <2>3, ReadKept DEF PassFresh, Fetches
    <2>9. PushedFresh(g)'
      BY <1>1, <1>3, <2>5, <2>7 DEF PushedFresh
    <2>10. ASSUME NEW r \in Routes PROVE RouteFresh(g, r)'
      <3> SUFFICES ASSUME g \notin queue, r \in Attached(cached, g), r \notin AttachedRoutes
                   PROVE  FALSE
        BY <1>1, <1>3, <2>3 DEF RouteFresh
      <3> QED BY <2>7, SeenIsAttached DEF HasRead
    <2>11. Fresh(g)'
      BY <2>3, <2>8, <2>9, <2>10 DEF Fresh, XBackendFresh
    <2> QED BY <1>1, <1>3, <2>2, <2>3, <2>4, <2>5, <2>6, <2>11, WorkMoves DEF WellTyped
  <1> QED BY <1>2, <1>3 DEF PushConfig

\* patchXBackendStatuses lists the XBackends, or fails.
LEMMA ListXBackendsSafe ==
    ASSUME BackendInv, NEW g \in Gateways, ListXBackends(g)
    PROVE  BackendInv'
  <1>1. /\ w.pc = "routes" /\ w.gw = {g} /\ w.todo = {} /\ ExperimentalBackends
        /\ UNCHANGED <<api, cached, live, queue, pushed>>
    BY DEF ListXBackends
  <1>2. WellTyped /\ WorkerOK /\ InWork /\ Fresh(g)
    BY DEF BackendInv, WellTyped
  <1>3. \/ /\ w' = [w EXCEPT !.pc = "patch", !.list = ListedCopies, !.todo = Listed]
           /\ used' = used
        \/ /\ w' = [w EXCEPT !.pc = "patch", !.failed = TRUE] /\ used' = used + 1
    BY DEF ListXBackends, SpendsFailure, Disturbs
  <1>4. /\ w'.pc = "patch" /\ w'.gw = {g} /\ w'.seen = w.seen /\ DOMAIN w' = DOMAIN w
        /\ w'.fetched = w.fetched /\ w'.permitted = w.permitted /\ w'.ports = w.ports
        /\ \/ w'.list = ListedCopies /\ w'.todo = Listed /\ w'.failed = w.failed
           \/ w'.list = w.list /\ w'.todo = {} /\ w'.failed = TRUE
    BY <1>1, <1>2, <1>3 DEF WorkerOK
  <1>5. \A x \in XBackends : /\ ListedCopies[x] = IF x \in Listed THEN {cached.xbs[x]} ELSE {}
                             /\ cached.xbs[x] \in XBackendObjects
    BY <1>2 DEF ListedCopies, WellTyped, ObjectsOK
  <1>6. WorkerOK'
    <2>1. \A x \in XBackends : w'.list[x] \subseteq XBackendObjects /\ AtMostOne(w'.list[x])
      <3>1. \A x \in XBackends : ListedCopies[x] \subseteq XBackendObjects
                                /\ AtMostOne(ListedCopies[x])
        BY <1>5 DEF AtMostOne
      <3> QED BY <1>2, <1>4, <3>1 DEF WorkerOK
    <2>2. Listed \subseteq XBackends
      BY DEF Listed
    <2> QED BY <1>2, <1>4, <2>1, <2>2 DEF WorkerOK, Phases
  <1>7. InWork'
    <2>1. \A x \in Listed : x \in XBackends /\ ListedCopies[x] # {}
      BY <1>5 DEF Listed
    <2> QED BY <1>1, <1>2, <1>4, <2>1 DEF InWork
  <1>8. PassFresh(g)'
    <2>1. ASSUME w'.list = ListedCopies, NEW x \in XBackends, NEW copy \in w'.list[x]
          PROVE  copy.gen = cached.xbs[x].gen
      BY <1>5, <2>1
    <2>2. CASE w'.list = ListedCopies
      BY <1>1, <1>2, <1>4, <2>1, <2>2, ReadKept DEF Fresh, PassFresh, Fetches
    <2>3. CASE w'.list = w.list /\ w'.todo = {} /\ w'.failed = TRUE
      <3>1. \A x \in XBackends : w.list[x] = {}
        BY <1>1, <1>2 DEF InWork
      <3> QED BY <1>1, <1>2, <1>4, <2>3, <3>1, ReadKept DEF Fresh, PassFresh, Fetches
    <2> QED BY <1>4, <2>2, <2>3
  <1>9. PushedFresh(g)' /\ \A r \in Routes : RouteFresh(g, r)'
    BY <1>1, <1>2, <1>4 DEF Fresh, PushedFresh, RouteFresh
  <1>10. ASSUME NEW x \in XBackends PROVE XBackendFresh(g, x)'
    <2> SUFFICES ASSUME x \notin w'.todo, ~w'.failed, RefersIn(cached, g, x)
                 PROVE  FALSE
      BY <1>1, <1>4 DEF XBackendFresh
    <2>1. x \notin Listed
      BY <1>4
    <2> QED BY <2>1 DEF Listed, RefersIn
  <1>11. used' \in Nat
    BY <1>2, <1>3 DEF WellTyped
  <1>12. \A x \in XBackends : w'.list[x] \subseteq w.list[x] \cup {cached.xbs[x]}
    BY <1>4, <1>5
  <1> QED BY <1>1, <1>2, <1>4, <1>6, <1>7, <1>8, <1>9, <1>10, <1>11, <1>12, WorkMoves
          DEF WellTyped, Fresh

\* A pass that ends leaves the statuses it has written, or its Gateway is queued again.
LEMMA EndPassSafe ==
    ASSUME BackendInv, NEW g \in Gateways, EndPass(g)
    PROVE  BackendInv'
  <1>1. /\ w.gw = {g} /\ w.todo = {} /\ w' = Idle /\ queue' = queue \cup Requeued(g, w.failed)
        /\ w.pc = "patch" \/ (w.pc = "routes" /\ ~ExperimentalBackends)
        /\ UNCHANGED <<api, cached, live, pushed, used>>
    BY DEF EndPass
  <1>2. WellTyped /\ Fresh(g) /\ w.failed \in BOOLEAN
    BY DEF BackendInv, WellTyped, WorkerOK
  <1>3. /\ w'.pc = "idle" /\ w'.gw = {} /\ w'.todo = {}
        /\ (\A r \in Routes : w'.seen[r] = {}) /\ \A x \in XBackends : w'.list[x] = {}
    BY <1>1, IdleTypes
  <1>4. WorkerOK' /\ InWork'
    BY <1>1, IdleTypes DEF WorkerOK, Phases, AtMostOne, InWork
  <1>5. Fresh(g)'
    <2> SUFFICES ASSUME g \notin queue' PROVE Fresh(g)'
      BY QueuedIsFresh
    <2>1. ~w.failed /\ queue' = queue
      BY <1>1, <1>2 DEF Requeued
    <2>2. PushedFresh(g)' /\ PassFresh(g)'
      BY <1>1, <1>2, <1>3, <2>1 DEF Fresh, PushedFresh, PassFresh
    <2>3. ASSUME NEW r \in Routes PROVE RouteFresh(g, r)'
      BY <1>1, <1>2, <2>1 DEF Fresh, RouteFresh
    <2>4. ASSUME NEW x \in XBackends PROVE XBackendFresh(g, x)'
      <3>1. XBackendFresh(g, x) /\ (Verdict(x)' = Verdict(x))
        BY <1>1, <1>2 DEF Fresh, Verdict
      <3> QED BY <1>1, <2>1, <3>1 DEF XBackendFresh, ExperimentalBackends
    <2> QED BY <2>2, <2>3, <2>4 DEF Fresh
  <1>6. queue' \subseteq Gateways /\ queue \ {g} \subseteq queue'
    BY <1>1, <1>2 DEF WellTyped, Requeued
  <1> QED BY <1>1, <1>2, <1>3, <1>4, <1>5, <1>6, WorkMoves DEF WellTyped

\* The cleanup of a Gateway takes its rules away and lists the XBackends.
LEMMA StartCleanupSafe ==
    ASSUME BackendInv, NEW g \in Gateways, StartCleanup(g)
    PROVE  BackendInv'
  <1> DEFINE todo == IF ExperimentalBackends THEN Listed ELSE {}
  <1>1. /\ w.pc = "idle" /\ live[g] = "deleting" /\ queue' = queue \ {g}
        /\ pushed' = [pushed EXCEPT ![g] = NoRules]
        /\ w' = [Idle EXCEPT !.pc = "prune", !.gw = {g}, !.list = ListedCopies, !.todo = todo]
        /\ UNCHANGED <<api, cached, live, used>>
    BY DEF StartCleanup
  <1>2. WellTyped /\ InWork /\ w.gw = {}
    BY <1>1 DEF BackendInv, InWork
  <1>3. todo \subseteq Listed /\ Listed \subseteq XBackends
    BY DEF Listed
  <1> HIDE DEF todo
  <1>4. /\ w'.pc = "prune" /\ w'.gw = {g} /\ w'.list = ListedCopies /\ w'.todo = todo
        /\ w'.failed = FALSE /\ DOMAIN w' = DOMAIN Idle
        /\ w'.seen = Idle.seen /\ w'.fetched = Idle.fetched
    BY <1>1, IdleTypes
  <1>5. \A x \in XBackends : ListedCopies[x] = IF x \in Listed THEN {cached.xbs[x]} ELSE {}
    BY DEF ListedCopies
  <1>6. WorkerOK'
    <2>1. ASSUME NEW x \in XBackends
          PROVE  /\ ListedCopies[x] \subseteq XBackendObjects /\ AtMostOne(ListedCopies[x])
                 /\ Idle.fetched[x] = {}
      <3>1. cached.xbs[x] \in XBackendObjects
        BY <1>2 DEF WellTyped, ObjectsOK
      <3> QED BY <1>5, <3>1, IdleTypes DEF AtMostOne
    <2>2. \A r \in Routes : Idle.seen[r] = {}
      BY IdleTypes
    <2> QED BY <1>3, <1>4, <2>1, <2>2, IdleTypes DEF WorkerOK, Phases, AtMostOne
  <1>7. InWork'
    <2>1. \A x \in todo : x \in XBackends /\ ListedCopies[x] # {}
      BY <1>3, <1>5
    <2> QED BY <1>1, <1>4, <2>1 DEF InWork
  <1>8. Fresh(g)'
    BY <1>1, <1>4 DEF Fresh, PassFresh, PushedFresh, RouteFresh, XBackendFresh
  <1>9. /\ \A r \in Routes : w'.seen[r] = {}
        /\ \A x \in XBackends : w'.list[x] \subseteq {cached.xbs[x]}
    BY <1>4, <1>5, IdleTypes
  <1>10. /\ DOMAIN pushed' = Gateways /\ DOMAIN pushed'[g] = {}
         /\ \A h \in Gateways \ {g} : pushed'[h] = pushed[h]
    BY <1>1, <1>2 DEF WellTyped, NoRules
  <1> QED BY <1>1, <1>2, <1>4, <1>6, <1>7, <1>8, <1>9, <1>10, WorkMoves DEF WellTyped

\* The Gateway disappears, or is queued again.
LEMMA RemoveFinalizerSafe ==
    ASSUME BackendInv, NEW g \in Gateways, RemoveFinalizer(g)
    PROVE  BackendInv'
  <1>1. w.pc = "prune" /\ w.gw = {g} /\ UNCHANGED <<api, cached, pushed>>
    BY DEF RemoveFinalizer
  <1>2. CASE Abort(g) /\ UNCHANGED live
    BY <1>1, <1>2, ReturnsWithError
  <1>3. CASE /\ live' = [live EXCEPT ![g] = "gone"] /\ w' = Idle
             /\ queue' = queue \cup Requeued(g, FALSE) /\ UNCHANGED used
    <2>1. WellTyped
      BY DEF BackendInv
    <2>2. /\ w'.pc = "idle" /\ w'.gw = {} /\ w'.todo = {} /\ queue' = queue
          /\ (\A r \in Routes : w'.seen[r] = {}) /\ \A x \in XBackends : w'.list[x] = {}
      BY <1>3, IdleTypes DEF Requeued
    <2>3. /\ live' \in [Gateways -> {"live", "deleting", "gone"}] /\ live'[g] = "gone"
          /\ \A h \in Gateways \ {g} : live'[h] = live[h]
      BY <1>3, <2>1 DEF WellTyped
    <2>4. WorkerOK' /\ InWork'
      BY <1>3, IdleTypes DEF WorkerOK, Phases, AtMostOne, InWork
    <2>5. Fresh(g)'
      BY <2>2, <2>3 DEF Fresh, PassFresh, PushedFresh, RouteFresh, XBackendFresh
    <2> QED BY <1>1, <1>3, <2>1, <2>2, <2>3, <2>4, <2>5, WorkMoves DEF WellTyped
  <1> QED BY <1>2, <1>3 DEF RemoveFinalizer
-----------------------------------------------------------------------------
(* Status writes. *)

\* The worker has dealt with o, with or without success.
Dealt(o) ==
    w' \in {[w EXCEPT !.todo = @ \ {o}], [w EXCEPT !.todo = @ \ {o}, !.failed = TRUE]}

\* The worker keeps its type and its Gateway, and has one object less to do.
LEMMA DealtTypes ==
    ASSUME WorkerOK, NEW o, Dealt(o)
    PROVE  /\ w'.pc = w.pc /\ w'.gw = w.gw /\ w'.seen = w.seen /\ w'.permitted = w.permitted
           /\ w'.ports = w.ports /\ w'.fetched = w.fetched /\ w'.list = w.list
           /\ w'.todo = w.todo \ {o} /\ w'.failed \in {w.failed, TRUE} /\ WorkerOK'
  <1>1. /\ w'.pc = w.pc /\ w'.gw = w.gw /\ w'.seen = w.seen /\ w'.permitted = w.permitted
        /\ w'.ports = w.ports /\ w'.fetched = w.fetched /\ w'.list = w.list
        /\ w'.todo = w.todo \ {o} /\ w'.failed \in {w.failed, TRUE} /\ DOMAIN w' = DOMAIN w
    BY DEF WorkerOK, Dealt
  <1>2. WorkerOK'
    BY <1>1 DEF WorkerOK
  <1> QED BY <1>1, <1>2

\* A status written for one Gateway concerns no other, and nothing but that status.
LEMMA StatusMoves ==
    ASSUME BackendInv, NEW g \in Gateways, w.gw = {g}, NEW o, Dealt(o),
           UNCHANGED <<cached, live, queue, pushed>>, used' \in Nat,
           DOMAIN api' = DOMAIN api, ObjectsOK(api'),
           \A r \in Routes :
              /\ RouteMoves(r) /\ RouteFresh(g, r)'
              /\ \A h \in Gateways \ {g} : api'.routes[r].entries[h] = api.routes[r].entries[h],
           \A x \in XBackends :
              /\ XBackendMoves(x) /\ Judged(g, x)' /\ XBackendFresh(g, x)'
              /\ api'.xbs[x].gen = api.xbs[x].gen /\ api'.xbs[x].spec = api.xbs[x].spec
              /\ \A h \in Gateways \ {g} : api'.xbs[x].entries[h] = api.xbs[x].entries[h]
    PROVE  BackendInv'
  <1>1. WellTyped /\ WorkerOK /\ CopiesAreOld /\ Verdicts /\ InWork
    BY DEF BackendInv, WellTyped
  <1>2. /\ w'.pc = w.pc /\ w'.gw = w.gw /\ w'.seen = w.seen /\ w'.permitted = w.permitted
        /\ w'.ports = w.ports /\ w'.fetched = w.fetched /\ w'.list = w.list
        /\ w'.todo = w.todo \ {o} /\ w'.failed \in {w.failed, TRUE} /\ WorkerOK'
    BY <1>1, DealtTypes
  <1>3. WellTyped'
    BY <1>1, <1>2 DEF WellTyped
  <1>4. CopiesAreOld'
    BY <1>1, <1>2, CopiesRemainOld
  <1>5. Verdicts'
    <2> SUFFICES ASSUME NEW h \in Gateways \ {g}, NEW x \in XBackends PROVE Judged(h, x)'
      BY DEF Verdicts
    <2>1. Judged(h, x) /\ Verdict(x)' = Verdict(x)
      BY <1>1 DEF Verdicts, Verdict
    <2> QED BY <2>1 DEF Judged
  <1>6. InWork'
    BY <1>1, <1>2 DEF InWork, AttachedRoutes
  <1>7. ASSUME NEW h \in Gateways \ {g} PROVE Fresh(h)'
    <2>1. w.gw # {h} /\ w'.gw # {h}
      BY <1>2
    <2>2. EntriesKept(h) /\ SameFor(cached, cached', h)
      BY DEF EntriesKept, SameFor
    <2> QED BY <2>1, <2>2, FreshKept
  <1>8. PassFresh(g)' /\ PushedFresh(g)'
    <2>1. PassFresh(g) /\ PushedFresh(g)
      BY DEF BackendInv, Fresh
    <2>2. PassFresh(g)'
      BY <1>2, <2>1, ReadKept DEF PassFresh
    <2> QED BY <1>2, <2>1, <2>2 DEF PushedFresh
  <1>9. Fresh(g)'
    BY <1>8 DEF Fresh
  <1> QED BY <1>3, <1>4, <1>5, <1>6, <1>7, <1>9 DEF BackendInv

\* Patch*RouteStatus: the entry is the present one, or the pass fails.
LEMMA PatchRouteStatusSafe ==
    ASSUME BackendInv, NEW g \in Gateways, NEW r \in Routes, PatchRouteStatus(g, r)
    PROVE  BackendInv'
  <1> DEFINE copy == SeenRoute(r)
             old == api.routes[r]
             entry == [reason |-> routeResolvedRefs(r), gen |-> copy.gen]
             new == [copy EXCEPT !.entries[g] = entry]
             written == [new EXCEPT !.version = @ + 1]
  <1>1. /\ w.pc = "routes" /\ w.gw = {g} /\ r \in w.todo
        /\ UNCHANGED <<cached, live, queue, pushed>>
    BY DEF PatchRouteStatus
  <1>2. WellTyped /\ WorkerOK /\ CopiesAreOld /\ Verdicts /\ InWork /\ PassFresh(g)
        /\ \A q \in Routes : RouteFresh(g, q)
    BY DEF BackendInv, WellTyped, Fresh
  <1>3. copy \in w.seen[r] /\ copy \in RouteObjects(r) /\ OldRoute(copy, r)
    <2>1. w.seen[r] # {}
      BY <1>1, <1>2 DEF InWork, AttachedRoutes
    <2>2. copy \in w.seen[r]
      BY <2>1 DEF SeenRoute
    <2> QED BY <1>2, <2>2 DEF WorkerOK, CopiesAreOld
  <1>4. /\ entry \in [reason : Reasons, gen : Nat]
        /\ entry.reason = routeResolvedRefs(r) /\ entry.gen = copy.gen
    <2>1. routeResolvedRefs(r) \in Reasons /\ copy.gen \in Nat
      BY <1>3, ResolvedTypes DEF RouteObjects
    <2> QED BY <2>1
  <1>5. /\ written \in RouteObjects(r) /\ written.version = copy.version + 1
        /\ written.gen = copy.gen /\ written.spec = copy.spec
        /\ written.entries = [copy.entries EXCEPT ![g] = entry]
        /\ new.entries = [copy.entries EXCEPT ![g] = entry]
    <2> HIDE DEF copy, entry
    <2>1. [copy.entries EXCEPT ![g] = entry] \in Entries
      BY <1>3, <1>4 DEF RouteObjects, Entries
    <2>2. /\ new \in RouteObjects(r) /\ new.version = copy.version /\ new.gen = copy.gen
          /\ new.spec = copy.spec /\ new.entries = [copy.entries EXCEPT ![g] = entry]
      BY <1>3, <2>1 DEF RouteObjects
    <2> HIDE DEF new
    <2>3. new.version + 1 \in Nat
      BY <2>2 DEF RouteObjects
    <2> QED BY <2>2, <2>3 DEF RouteObjects
  <1>6. /\ written.entries[g] = entry /\ new.entries[g] = entry
        /\ \A h \in Gateways \ {g} : written.entries[h] = copy.entries[h]
    <2>1. copy.entries \in Entries
      BY <1>3 DEF RouteObjects
    <2> HIDE DEF copy, entry, new, written
    <2> QED BY <1>5, <2>1 DEF Entries
  <1>7. ASSUME g \notin queue, r \in Attached(cached, g)
        PROVE  entry = [reason |-> RouteReason(cached, r), gen |-> cached.routes[r].gen]
    <2>1. SeenFresh(g) /\ HasRead(g)
      BY <1>1, <1>2, <1>7 DEF PassFresh, HasRead, Fetches
    <2>2. routeResolvedRefs(r) = RouteReason(cached, r) /\ copy.gen = cached.routes[r].gen
      BY <1>2, <1>7, <2>1, PassReports, SeenIsAttached
    <2> QED BY <2>2
  <1> HIDE DEF copy, entry, new, written
  <1>8. \/ /\ Dealt(r) /\ UNCHANGED used /\ old.version = copy.version
           /\ api' = IF new = copy THEN api ELSE [api EXCEPT !.routes[r] = written]
        \/ /\ w' = [w EXCEPT !.todo = @ \ {r}, !.failed = TRUE]
           /\ api' = api /\ used' \in {used, used + 1}
    BY DEF PatchRouteStatus, SpendsFailure, Disturbs, Dealt, copy, entry, new, written
  <1>9. Dealt(r) /\ used' \in Nat
    BY <1>2, <1>8 DEF Dealt, WellTyped
  <1>10. /\ w'.pc = "routes" /\ w'.gw = {g} /\ w'.todo = w.todo \ {r}
         /\ w'.failed \in {w.failed, TRUE}
    BY <1>1, <1>2, <1>9, DealtTypes
  <1>11. \A x \in XBackends : XBackendFresh(g, x)'
    BY <1>10 DEF XBackendFresh
  <1>12. CASE api' = api /\ (w'.failed = TRUE \/ new = copy)
    <2>1. \A q \in Routes : RouteMoves(q)
      BY <1>12 DEF RouteMoves
    <2>2. \A x \in XBackends : XBackendMoves(x) /\ Judged(g, x)'
      BY <1>2, <1>12 DEF XBackendMoves, Verdicts, Judged, Verdict
    <2>3. ASSUME NEW q \in Routes PROVE RouteFresh(g, q)'
      <3>1. CASE w'.failed = TRUE
        BY <1>10, <3>1 DEF RouteFresh
      <3>2. CASE q # r
        BY <1>1, <1>2, <1>10, <1>12, <3>2 DEF RouteFresh
      <3>3. CASE w'.failed # TRUE /\ q = r
        <4>1. new = copy /\ old = copy
          <5>1. old.version = copy.version
            BY <1>2, <1>8, <3>3 DEF WorkerOK
          <5> QED BY <1>3, <1>12, <3>3, <5>1 DEF OldRoute
        <4>2. api'.routes[r].entries[g] = entry
          BY <1>6, <1>12, <4>1
        <4> QED BY <1>1, <1>7, <3>3, <4>2 DEF RouteFresh
      <3> QED BY <3>1, <3>2, <3>3
    <2> QED BY <1>1, <1>2, <1>9, <1>11, <1>12, <2>1, <2>2, <2>3, StatusMoves DEF WellTyped
  <1>13. CASE /\ api' = [api EXCEPT !.routes[r] = written] /\ old.version = copy.version
    <2>1. copy = old
      BY <1>3, <1>13 DEF OldRoute
    <2>2. /\ DOMAIN api' = DOMAIN api /\ api'.routes[r] = written
          /\ DOMAIN api'.routes = Routes
          /\ \A q \in Routes \ {r} : api'.routes[q] = api.routes[q]
          /\ api'.xbs = api.xbs /\ api'.svcs = api.svcs /\ api'.grants = api.grants
          /\ api'.tls = api.tls
      BY <1>2, <1>13 DEF WellTyped, ObjectsOK
    <2>3. ObjectsOK(api')
      BY <1>2, <1>5, <2>2 DEF WellTyped, ObjectsOK
    <2>4. RouteMoves(r)
      <3>1. written.version > old.version /\ written.gen >= old.gen
        BY <1>3, <1>5, <2>1 DEF RouteObjects
      <3> QED BY <1>5, <2>1, <2>2, <3>1 DEF RouteMoves
    <2>5. \A q \in Routes : RouteMoves(q)
      BY <2>2, <2>4 DEF RouteMoves
    <2>6. \A x \in XBackends : XBackendMoves(x) /\ Judged(g, x)'
      BY <1>2, <2>2 DEF XBackendMoves, Verdicts, Judged, Verdict
    <2>7. \A q \in Routes : \A h \in Gateways \ {g} :
             api'.routes[q].entries[h] = api.routes[q].entries[h]
      BY <1>6, <2>1, <2>2
    <2>8. ASSUME NEW q \in Routes PROVE RouteFresh(g, q)'
      <3>1. CASE q # r
        BY <1>1, <1>2, <1>10, <2>2, <3>1 DEF RouteFresh
      <3>2. CASE q = r
        <4>1. api'.routes[r].entries[g] = entry
          BY <1>6, <2>2
        <4> QED BY <1>1, <1>7, <3>2, <4>1 DEF RouteFresh
      <3> QED BY <3>1, <3>2
    <2> QED BY <1>1, <1>9, <1>11, <2>2, <2>3, <2>5, <2>6, <2>7, <2>8, StatusMoves
  <1>14. w' = [w EXCEPT !.todo = @ \ {r}, !.failed = TRUE] => w'.failed = TRUE
    BY <1>2 DEF WorkerOK
  <1> QED BY <1>8, <1>12, <1>13, <1>14

\* The copy of an XBackend with another entry, and what its update makes of it.
WithEntry(copy, g, e) == [copy EXCEPT !.entries[g] = e]
Written(new) == [new EXCEPT !.version = @ + 1]

\* Such an XBackend is well formed and differs in this entry only.
LEMMA EntryTypes ==
    ASSUME NEW copy \in XBackendObjects, NEW g \in Gateways,
           NEW e \in {Absent} \cup [reason : Reasons, gen : Nat]
    PROVE  LET new == WithEntry(copy, g, e)
               written == Written(new) IN
           /\ written \in XBackendObjects /\ written.version = copy.version + 1
           /\ written.gen = copy.gen /\ written.spec = copy.spec /\ written.exists = copy.exists
           /\ written.entries[g] = e /\ new.entries[g] = e
           /\ \A h \in Gateways \ {g} : written.entries[h] = copy.entries[h]
  <1> DEFINE new == WithEntry(copy, g, e)
             written == Written(new)
  <1>1. copy.entries \in Entries /\ [copy.entries EXCEPT ![g] = e] \in Entries
    BY DEF XBackendObjects, Entries
  <1>2. /\ new \in XBackendObjects /\ new.version = copy.version /\ new.gen = copy.gen
        /\ new.spec = copy.spec /\ new.exists = copy.exists
        /\ new.entries = [copy.entries EXCEPT ![g] = e]
    BY <1>1 DEF XBackendObjects, WithEntry
  <1> HIDE DEF new
  <1>3. new.version + 1 \in Nat
    BY <1>2 DEF XBackendObjects
  <1>4. /\ written \in XBackendObjects /\ written.version = new.version + 1
        /\ written.gen = new.gen /\ written.spec = new.spec /\ written.exists = new.exists
        /\ written.entries = new.entries
    BY <1>2, <1>3 DEF XBackendObjects, Written
  <1> HIDE DEF written
  <1>5. new.entries[g] = e /\ \A h \in Gateways \ {g} : new.entries[h] = copy.entries[h]
    BY <1>1, <1>2 DEF Entries
  <1> QED BY <1>2, <1>4, <1>5 DEF new, written

\* Status().Update of an XBackend with an entry that is none, or the verdict of the copy it
\* is made from.
LEMMA UpdateXBackendSafe ==
    ASSUME BackendInv, NEW g \in Gateways, w.gw = {g}, w.pc \in {"patch", "prune"},
           NEW x \in XBackends, x \in w.todo, NEW copy, copy = CHOOSE c \in w.list[x] : TRUE,
           NEW e \in {Absent, AcceptedEntry(x, copy)}, NEW new,
           new = WithEntry(copy, g, e) \/ new = copy, UpdateXBackend(x, new),
           UNCHANGED <<cached, live, queue, pushed>>,
           new = copy /\ api' = api /\ Dealt(x) => XBackendFresh(g, x)'
    PROVE  BackendInv'
  <1> DEFINE old == api.xbs[x]
             written == Written(new)
  <1>1. WellTyped /\ WorkerOK /\ CopiesAreOld /\ Verdicts /\ InWork /\ Fresh(g)
    BY DEF BackendInv, WellTyped
  <1>2. copy \in w.list[x] /\ copy \in XBackendObjects /\ OldXBackend(copy, x)
    <2>1. copy \in w.list[x]
      BY <1>1 DEF InWork
    <2> QED BY <1>1, <2>1 DEF WorkerOK, CopiesAreOld
  <1>3. e \in {Absent} \cup [reason : Reasons, gen : Nat]
    <2>1. translateReason(copy.spec, "any") \in Reasons /\ copy.gen \in Nat
      BY <1>2, TranslationTypes DEF XBackendObjects
    <2> QED BY <2>1 DEF AcceptedEntry
  <1>4. new # copy => /\ written \in XBackendObjects /\ written.version = copy.version + 1
                      /\ written.gen = copy.gen /\ written.spec = copy.spec
                      /\ written.exists = copy.exists /\ written.entries[g] = e
                      /\ \A h \in Gateways \ {g} : written.entries[h] = copy.entries[h]
    <2> HIDE DEF written
    <2> SUFFICES ASSUME new # copy
                 PROVE  /\ written \in XBackendObjects /\ written.version = copy.version + 1
                        /\ written.gen = copy.gen /\ written.spec = copy.spec
                        /\ written.exists = copy.exists /\ written.entries[g] = e
                        /\ \A h \in Gateways \ {g} : written.entries[h] = copy.entries[h]
      OBVIOUS
    <2>1. written = Written(WithEntry(copy, g, e))
      BY DEF written
    <2>2. copy \in XBackendObjects /\ e \in {Absent} \cup [reason : Reasons, gen : Nat]
      BY <1>2, <1>3
    <2> HIDE DEF written
    <2> QED BY ONLY <2>1, <2>2, EntryTypes, g \in Gateways
  <1> HIDE DEF written
  <1>5. \/ /\ Dealt(x) /\ api' = api /\ used' \in {used, used + 1}
           /\ new = copy \/ w' = [w EXCEPT !.todo = @ \ {x}, !.failed = TRUE]
        \/ /\ Dealt(x) /\ api' = [api EXCEPT !.xbs[x] = written] /\ used' = used
           /\ new # copy /\ old.version = copy.version
    BY DEF UpdateXBackend, SpendsFailure, Disturbs, Dealt, written, Written
  <1>6. Dealt(x) /\ used' \in Nat
    BY <1>1, <1>5 DEF WellTyped
  <1>7. /\ w'.pc = w.pc /\ w'.gw = {g} /\ w'.todo = w.todo \ {x}
        /\ w'.failed \in {w.failed, TRUE}
    BY <1>1, <1>6, DealtTypes
  <1>8. ASSUME api'.routes = api.routes
        PROVE  \A r \in Routes : RouteMoves(r) /\ RouteFresh(g, r)'
    BY <1>1, <1>7, <1>8 DEF RouteMoves, RouteFresh, Fresh
  <1>9. ASSUME NEW y \in XBackends \ {x}, api'.xbs[y] = api.xbs[y]
        PROVE  XBackendMoves(y) /\ Judged(g, y)' /\ XBackendFresh(g, y)'
    <2>1. Judged(g, y) /\ Verdict(y)' = Verdict(y) /\ XBackendFresh(g, y)
      BY <1>1, <1>9 DEF Verdicts, Verdict, Fresh
    <2>2. XBackendMoves(y) /\ Judged(g, y)'
      BY <1>9, <2>1 DEF XBackendMoves, Judged
    <2>3. w'.failed # TRUE => w.failed # TRUE
      BY <1>7
    <2>4. XBackendFresh(g, y)'
      BY <1>7, <1>9, <2>1, <2>3 DEF XBackendFresh, ExperimentalBackends
    <2> QED BY <2>2, <2>4
  <1>10. w' = [w EXCEPT !.todo = @ \ {x}, !.failed = TRUE] => w'.failed = TRUE
    BY <1>1 DEF WorkerOK
  <1>11. w'.failed = TRUE => XBackendFresh(g, x)'
    BY <1>7 DEF XBackendFresh
  <1>12. CASE api' = api /\ (new = copy \/ w' = [w EXCEPT !.todo = @ \ {x}, !.failed = TRUE])
    <2>1. XBackendMoves(x) /\ Judged(g, x)'
      BY <1>1, <1>12 DEF XBackendMoves, Verdicts, Judged, Verdict
    <2>2. XBackendFresh(g, x)'
      BY <1>6, <1>10, <1>11, <1>12
    <2> QED BY <1>1, <1>6, <1>8, <1>9, <1>12, <2>1, <2>2, StatusMoves DEF WellTyped
  <1>13. CASE /\ api' = [api EXCEPT !.xbs[x] = written] /\ new # copy
              /\ old.version = copy.version
    <2>1. copy = old
      BY <1>2, <1>13 DEF OldXBackend
    <2>2. /\ DOMAIN api' = DOMAIN api /\ api'.xbs = [api.xbs EXCEPT ![x] = written]
          /\ api'.routes = api.routes /\ api'.svcs = api.svcs /\ api'.grants = api.grants
          /\ api'.tls = api.tls
      BY <1>1, <1>13 DEF WellTyped
    <2>3. /\ api'.xbs[x] = written /\ api'.xbs \in [XBackends -> XBackendObjects]
          /\ \A y \in XBackends \ {x} : api'.xbs[y] = api.xbs[y]
      BY <1>1, <1>4, <1>13, <2>2 DEF WellTyped, ObjectsOK
    <2>4. ObjectsOK(api')
      BY <1>1, <2>2, <2>3 DEF WellTyped, ObjectsOK
    <2>5. /\ api'.xbs[x].gen = old.gen /\ api'.xbs[x].spec = old.spec
          /\ api'.xbs[x].exists = old.exists /\ api'.xbs[x].version = old.version + 1
          /\ api'.xbs[x].entries[g] = e /\ old.gen \in Nat /\ old.version \in Nat
          /\ \A h \in Gateways \ {g} : api'.xbs[x].entries[h] = old.entries[h]
      BY <1>2, <1>4, <1>13, <2>1, <2>3 DEF XBackendObjects
    <2>6. e = Absent \/ (e = Verdict(x)' /\ e.gen = old.gen)
      <3>1. AcceptedEntry(x, copy) = Verdict(x)' /\ AcceptedEntry(x, copy).gen = old.gen
        BY <2>1, <2>5 DEF AcceptedEntry, Verdict
      <3> QED BY <3>1
    <2>7. Judged(g, x)'
      <3>1. Absent.gen = 0
        BY DEF Absent
      <3> QED BY <2>5, <2>6, <3>1 DEF Judged
    <2>8. XBackendMoves(x)
      <3>1. \A h \in Gateways : \/ api'.xbs[x].entries[h] \in {old.entries[h], Absent}
                                \/ api'.xbs[x].entries[h].gen >= old.gen
        BY <2>5, <2>6
      <3>2. api'.xbs[x].version > old.version /\ api'.xbs[x].gen >= old.gen
        BY <2>5
      <3> QED BY <2>5, <3>1, <3>2 DEF XBackendMoves
    <2>9. XBackendFresh(g, x)'
      BY <2>5, <2>6 DEF XBackendFresh
    <2>10. \A y \in XBackends :
              /\ XBackendMoves(y) /\ Judged(g, y)' /\ XBackendFresh(g, y)'
              /\ api'.xbs[y].gen = api.xbs[y].gen /\ api'.xbs[y].spec = api.xbs[y].spec
              /\ \A h \in Gateways \ {g} : api'.xbs[y].entries[h] = api.xbs[y].entries[h]
      BY <1>9, <2>3, <2>5, <2>7, <2>8, <2>9
    <2>11. \A r \in Routes :
              /\ RouteMoves(r) /\ RouteFresh(g, r)'
              /\ \A h \in Gateways \ {g} : api'.routes[r].entries[h] = api.routes[r].entries[h]
      BY <1>8, <2>2
    <2> QED BY <1>6, <2>2, <2>4, <2>10, <2>11, StatusMoves
  <1> QED BY <1>5, <1>12, <1>13

\* The loop body of patchXBackendStatuses.  An update that changes nothing of a copy that is
\* old is not made: the entry there is, is none or the verdict all the same.
LEMMA patchXBackendStatusSafe ==
    ASSUME BackendInv, NEW g \in Gateways, NEW x \in XBackends, patchXBackendStatus(g, x)
    PROVE  BackendInv'
  <1> DEFINE copy == CHOOSE c \in w.list[x] : TRUE
             accepted == AcceptedEntry(x, copy)
             new == IF w.fetched[x] # {} THEN upsertXBackendAncestor(copy, g, accepted)
                    ELSE removeXBackendAncestor(copy, g)
             e == IF w.fetched[x] # {} THEN accepted ELSE Absent
             old == api.xbs[x].entries[g]
  <1>1. /\ w.pc = "patch" /\ w.gw = {g} /\ x \in w.todo /\ UpdateXBackend(x, new)
        /\ UNCHANGED <<cached, live, queue, pushed>>
    BY DEF patchXBackendStatus
  <1>2. WellTyped /\ WorkerOK /\ CopiesAreOld /\ Verdicts /\ InWork /\ PassFresh(g)
    BY DEF BackendInv, WellTyped, Fresh
  <1>3. copy \in w.list[x] /\ copy \in XBackendObjects /\ OldXBackend(copy, x)
    <2>1. copy \in w.list[x]
      BY <1>1, <1>2 DEF InWork
    <2> QED BY <1>2, <2>1 DEF WorkerOK, CopiesAreOld
  <1>4. accepted.gen = copy.gen
    BY DEF AcceptedEntry
  <1>5. w.fetched[x] # {} =>
           new = IF copy.entries[g] = Absent
                    /\ Cardinality({h \in Gateways : copy.entries[h] # Absent})
                          >= maxXBackendAncestors
                 THEN copy ELSE WithEntry(copy, g, accepted)
    BY DEF upsertXBackendAncestor, WithEntry
  <1>6. w.fetched[x] = {} => new = WithEntry(copy, g, Absent)
    BY DEF removeXBackendAncestor, WithEntry
  <1>7. WithEntry(copy, g, accepted).entries[g] = accepted
    <2>1. copy.entries \in Entries
      BY <1>3 DEF XBackendObjects
    <2>2. WithEntry(copy, g, accepted).entries = [copy.entries EXCEPT ![g] = accepted]
      <3> HIDE DEF copy, accepted
      <3> QED BY <1>3 DEF WithEntry, XBackendObjects
    <2> HIDE DEF accepted, copy
    <2> QED BY <2>1, <2>2 DEF Entries
  <1> HIDE DEF copy, accepted, new
  <1>8. (new = WithEntry(copy, g, e) \/ new = copy) /\ e \in {Absent, accepted}
    BY <1>5, <1>6
  <1>9. ASSUME new = copy, api' = api, Dealt(x) PROVE XBackendFresh(g, x)'
    <2> SUFFICES ASSUME g \notin queue, cached.enabled, cached.xbs[x].gen = api.xbs[x].gen,
                        RefersIn(cached, g, x), old # Absent
                 PROVE  old = Verdict(x)
      BY <1>1, <1>9 DEF XBackendFresh, ExperimentalBackends, Verdict
    <2>1. w.fetched[x] # {}
      <3>1. PICK r \in Attached(cached, g), ref \in UNION {RouteRefs(cached, q) : q \in Routes} :
               /\ ref \in RouteRefs(cached, r) /\ ref.kind = "XBackend" /\ ref.name = x
               /\ Granted(cached, Target(r, ref)) /\ cached.xbs[x].exists
        BY DEF RefersIn, Attached
      <3>2. Target(r, ref) \in TargetsIn(cached, g, "XBackend") /\ Target(r, ref).name = x
        BY <3>1 DEF TargetsIn, Target
      <3>3. FetchedFresh(g)
        BY <1>1, <1>2 DEF PassFresh, Fetches
      <3> QED BY <3>1, <3>2, <3>3 DEF FetchedFresh
    <2>2. copy.gen = api.xbs[x].gen
      BY <1>1, <1>2, <1>3 DEF PassFresh
    <2>3. old.gen <= api.xbs[x].gen /\ (old.gen = api.xbs[x].gen => old = Verdict(x))
      BY <1>2 DEF Verdicts, Judged
    <2>4. CASE old.gen < copy.gen
      <3>1. copy.entries[g] = old
        BY <1>3, <2>4 DEF OldXBackend
      <3>2. copy.entries[g] = accepted
        BY <1>5, <1>7, <1>9, <2>1, <3>1
      <3>3. copy.gen \in Nat
        BY <1>3 DEF XBackendObjects
      <3> QED BY <1>4, <2>4, <3>1, <3>2, <3>3
    <2>5. CASE ~(old.gen < copy.gen)
      <3>1. old.gen \in Nat /\ api.xbs[x].gen \in Nat
        BY <1>2 DEF WellTyped, ObjectsOK, XBackendObjects, Entries
      <3> HIDE DEF old
      <3>2. old.gen = api.xbs[x].gen
        BY <2>2, <2>3, <2>5, <3>1
      <3> QED BY <2>3, <3>2
    <2> QED BY <2>4, <2>5
  <1>10. copy = CHOOSE c \in w.list[x] : TRUE
    BY DEF copy
  <1> HIDE DEF e
  <1>11. e \in {Absent, AcceptedEntry(x, copy)}
    BY <1>8 DEF accepted
  <1> QED BY <1>1, <1>8, <1>9, <1>10, <1>11, UpdateXBackendSafe

\* The loop body of pruneXBackendAncestorStatus.
LEMMA pruneXBackendAncestorStatusSafe ==
    ASSUME BackendInv, NEW g \in Gateways, NEW x \in XBackends,
           pruneXBackendAncestorStatus(g, x)
    PROVE  BackendInv'
  <1> DEFINE copy == CHOOSE c \in w.list[x] : TRUE
             new == removeXBackendAncestor(copy, g)
  <1>1. /\ w.pc = "prune" /\ w.gw = {g} /\ x \in w.todo /\ UpdateXBackend(x, new)
        /\ UNCHANGED <<cached, live, queue, pushed>>
    BY DEF pruneXBackendAncestorStatus
  <1>2. new = WithEntry(copy, g, Absent)
    BY DEF removeXBackendAncestor, WithEntry
  <1>3. WorkerOK
    BY DEF BackendInv, WellTyped
  <1>4. Dealt(x) => XBackendFresh(g, x)'
    BY <1>1, <1>3, DealtTypes DEF XBackendFresh
  <1>5. copy = CHOOSE c \in w.list[x] : TRUE
    OBVIOUS
  <1> HIDE DEF copy, new
  <1> QED BY <1>1, <1>2, <1>4, <1>5, UpdateXBackendSafe
-----------------------------------------------------------------------------
(* Restarts and events. *)

\* What a Gateway that is gone had concerns nobody.
LEMMA GoneIsFresh ==
    ASSUME NEW g, live'[g] = "gone", w'.gw # {g}
    PROVE  Fresh(g)'
  BY DEF Fresh, PassFresh, PushedFresh, RouteFresh, XBackendFresh

\* After a restart everything is made anew.
LEMMA RestartSafe ==
    ASSUME BackendInv, Restart
    PROVE  BackendInv'
  <1>1. PICK enabled \in BOOLEAN : cached' = Started(enabled)
    BY DEF Restart
  <1>2. /\ w' = Idle /\ queue' = {g \in Gateways : live[g] # "gone"}
        /\ UNCHANGED <<api, live, pushed>> /\ used' = used + 1
    BY DEF Restart, Disturbs
  <1>3. WellTyped /\ CopiesAreOld /\ Verdicts
    BY DEF BackendInv
  <1>4. /\ DOMAIN cached' = {"enabled", "routes", "svcs", "xbs", "grants", "tls"}
        /\ cached'.enabled = enabled /\ cached'.routes = api.routes /\ cached'.svcs = api.svcs
        /\ cached'.xbs = api.xbs /\ cached'.grants = api.grants /\ cached'.tls = api.tls
    BY <1>1 DEF Started
  <1>5. WorkerOK' /\ InWork'
    BY <1>2, IdleTypes DEF WorkerOK, Phases, AtMostOne, InWork
  <1>6. ObjectsOK(cached)'
    BY <1>3, <1>4 DEF WellTyped, ObjectsOK
  <1>7. WellTyped'
    <2>1. DOMAIN api' = DOMAIN api /\ ObjectsOK(api)' /\ used \in Nat
      BY <1>2, <1>3 DEF WellTyped
    <2>2. used' \in Nat
      BY <1>2, <2>1
    <2>3. queue' \subseteq Gateways
      BY <1>2
    <2> QED BY <1>2, <1>3, <1>4, <1>5, <1>6, <2>1, <2>2, <2>3 DEF WellTyped
  <1>8. CopiesAreOld'
    <2>1. ObjectsOK(api')
      BY <1>2, <1>3 DEF WellTyped
    <2>2. (\A r \in Routes : RouteMoves(r)) /\ \A x \in XBackends : XBackendMoves(x)
      BY <1>2 DEF RouteMoves, XBackendMoves
    <2>3. /\ \A r \in Routes : cached'.routes[r] = api'.routes[r] /\ w'.seen[r] = {}
          /\ \A x \in XBackends : cached'.xbs[x] = api'.xbs[x] /\ w'.list[x] = {}
      BY <1>2, <1>4, IdleTypes
    <2> QED BY <1>3, <2>1, <2>2, <2>3, CopiesRemainOld
  <1>9. Verdicts'
    BY <1>2, <1>3 DEF Verdicts, Judged, Verdict
  <1>10. ASSUME NEW g \in Gateways PROVE Fresh(g)'
    <2>1. CASE live[g] = "gone"
      <3>1. live'[g] = "gone" /\ w'.gw # {g}
        BY <1>2, <2>1, IdleTypes
      <3> QED BY <3>1, GoneIsFresh
    <2>2. CASE live[g] # "gone"
      BY <1>2, <2>2, QueuedIsFresh
    <2> QED BY <2>1, <2>2
  <1> QED BY <1>5, <1>7, <1>8, <1>9, <1>10 DEF BackendInv

\* An event that enqueues every Gateway it changes anything for.
LEMMA SyncMoves ==
    ASSUME BackendInv, UNCHANGED <<api, live, w, pushed, used>>,
           DOMAIN cached' = DOMAIN cached, ObjectsOK(cached'), cached'.enabled = cached.enabled,
           \A r \in Routes : cached'.routes[r] \in {cached.routes[r], api.routes[r]},
           \A x \in XBackends : cached'.xbs[x] \in {cached.xbs[x], api.xbs[x]},
           queue \subseteq queue', queue' \subseteq Gateways,
           \A g \in Gateways \ queue' : live[g] # "gone" => SameFor(cached, cached', g)
    PROVE  BackendInv'
  <1>1. WellTyped /\ CopiesAreOld /\ Verdicts /\ InWork
    BY DEF BackendInv
  <1>2. WellTyped'
    BY <1>1 DEF WellTyped, WorkerOK, ObjectsOK
  <1>3. CopiesAreOld'
    <2>1. ObjectsOK(api')
      BY <1>1 DEF WellTyped
    <2>2. (\A r \in Routes : RouteMoves(r)) /\ \A x \in XBackends : XBackendMoves(x)
      BY DEF RouteMoves, XBackendMoves
    <2> QED BY <1>1, <2>1, <2>2, CopiesRemainOld
  <1>4. Verdicts' /\ InWork'
    BY <1>1 DEF Verdicts, Judged, Verdict, InWork, AttachedRoutes
  <1>5. ASSUME NEW g \in Gateways PROVE Fresh(g)'
    <2>1. CASE live[g] = "gone"
      <3>1. w'.gw # {g}
        BY <1>1, <2>1 DEF InWork
      <3> QED BY <2>1, <3>1, GoneIsFresh
    <2>2. CASE live[g] # "gone"
      <3>1. EntriesKept(g)
        BY DEF EntriesKept
      <3>2. g \notin queue' => SameFor(cached, cached', g)
        BY <2>2
      <3> QED BY <3>1, <3>2, FreshKept
    <2> QED BY <2>1, <2>2
  <1> QED BY <1>2, <1>3, <1>4, <1>5 DEF BackendInv

\* GenerationChangedPredicate drops an event only if the spec is the same, and an event that
\* is mapped reaches the Gateways of the old and of the new parentRefs.
LEMMA SyncRouteSafe ==
    ASSUME BackendInv, NEW r \in Routes, SyncRoute(r)
    PROVE  BackendInv'
  <1>1. /\ cached' = [cached EXCEPT !.routes[r] = api.routes[r]]
        /\ queue' = queue \cup (IF cached.routes[r].gen = api.routes[r].gen THEN {}
                                ELSE cached.routes[r].spec.parents \cup api.routes[r].spec.parents)
        /\ UNCHANGED <<api, live, w, pushed, used>>
    BY DEF SyncRoute
  <1>2. WellTyped /\ OldRoute(cached.routes[r], r)
    BY DEF BackendInv, CopiesAreOld
  <1>3. /\ DOMAIN cached' = DOMAIN cached /\ cached'.enabled = cached.enabled
        /\ cached'.routes = [cached.routes EXCEPT ![r] = api.routes[r]]
        /\ cached'.svcs = cached.svcs /\ cached'.xbs = cached.xbs
        /\ cached'.grants = cached.grants /\ cached'.tls = cached.tls
    BY <1>1, <1>2 DEF WellTyped
  <1>4. /\ DOMAIN cached'.routes = Routes /\ cached'.routes[r] = api.routes[r]
        /\ \A x \in Routes \ {r} : cached'.routes[x] = cached.routes[x]
    BY <1>2, <1>3 DEF WellTyped, ObjectsOK
  <1>5. ObjectsOK(cached')
    BY <1>2, <1>3, <1>4 DEF WellTyped, ObjectsOK
  <1>6. queue \subseteq queue' /\ queue' \subseteq Gateways
    <2>1. cached.routes[r].spec \in RouteSpecs[r] /\ api.routes[r].spec \in RouteSpecs[r]
      BY <1>2 DEF WellTyped, ObjectsOK, RouteObjects
    <2>2. cached.routes[r].spec.parents \subseteq Gateways
          /\ api.routes[r].spec.parents \subseteq Gateways
      BY <2>1, RefsAreTyped
    <2> QED BY <1>1, <1>2, <2>2 DEF WellTyped
  <1>7. ASSUME NEW g \in Gateways \ queue' PROVE SameFor(cached, cached', g)
    <2>1. ASSUME NEW x \in Routes,
                 g \in cached.routes[x].spec.parents \/ g \in cached'.routes[x].spec.parents
          PROVE  /\ cached.routes[x].spec = cached'.routes[x].spec
                 /\ cached.routes[x].gen = cached'.routes[x].gen
      <3>1. CASE x # r
        BY <1>4, <3>1
      <3>2. CASE x = r
        <4>1. cached.routes[r].gen = api.routes[r].gen
          BY <1>1, <1>4, <1>7, <2>1, <3>2
        <4> QED BY <1>2, <1>4, <3>2, <4>1 DEF OldRoute
      <3> QED BY <3>1, <3>2
    <2> QED BY <1>3, <2>1 DEF SameFor
  <1> QED BY <1>1, <1>3, <1>4, <1>5, <1>6, <1>7, SyncMoves

\* A Service event reaches the Gateways of all cached routes that refer to it.
LEMMA SyncServiceSafe ==
    ASSUME BackendInv, NEW s \in Services, SyncService(s)
    PROVE  BackendInv'
  <1>1. /\ cached' = [cached EXCEPT !.svcs[s] = api.svcs[s]]
        /\ queue' = queue \cup serviceToGateways(s)
        /\ UNCHANGED <<api, live, w, pushed, used>>
    BY DEF SyncService
  <1>2. WellTyped
    BY DEF BackendInv
  <1>3. /\ DOMAIN cached' = DOMAIN cached /\ cached'.enabled = cached.enabled
        /\ cached'.svcs = [cached.svcs EXCEPT ![s] = api.svcs[s]]
        /\ cached'.routes = cached.routes /\ cached'.xbs = cached.xbs
        /\ cached'.grants = cached.grants /\ cached'.tls = cached.tls
    BY <1>1, <1>2 DEF WellTyped
  <1>4. \A x \in Services \ {s} : cached'.svcs[x] = cached.svcs[x]
    BY <1>2, <1>3 DEF WellTyped, ObjectsOK
  <1>5. ObjectsOK(cached')
    BY <1>2, <1>3 DEF WellTyped, ObjectsOK
  <1>6. ASSUME NEW r \in Routes
        PROVE  /\ cached.routes[r].spec.parents \subseteq Gateways
               /\ RouteRefs(cached, r) \subseteq References
    <2>1. cached.routes[r].spec \in RouteSpecs[r]
      BY <1>2 DEF WellTyped, ObjectsOK, RouteObjects
    <2> QED BY <2>1, RefsAreTyped DEF RouteRefs
  <1>7. queue \subseteq queue' /\ queue' \subseteq Gateways
    BY <1>1, <1>2, <1>6 DEF WellTyped, serviceToGateways
  <1>8. ASSUME NEW g \in Gateways \ queue' PROVE SameFor(cached, cached', g)
    <2>1. ASSUME NEW r \in Attached(cached, g), NEW ref \in RouteRefs(cached, r),
                 ref.kind = "Service"
          PROVE  cached.svcs[ref.name] = cached'.svcs[ref.name]
      <3>1. r \in Routes /\ g \in cached.routes[r].spec.parents /\ g \notin serviceToGateways(s)
        BY <1>1, <1>8 DEF Attached
      <3>2. ref.name # s
        BY <2>1, <3>1 DEF serviceToGateways, RouteRefs
      <3>3. ref.name \in Services
        BY <1>6, <2>1, <3>1 DEF References
      <3> QED BY <1>4, <3>2, <3>3
    <2> QED BY <1>3, <2>1 DEF SameFor
  <1> QED BY <1>1, <1>3, <1>5, <1>7, <1>8, SyncMoves

\* An XBackend event of the same generation changes neither its spec nor whether it exists.
LEMMA SyncXBackendSafe ==
    ASSUME BackendInv, NEW x \in XBackends, SyncXBackend(x)
    PROVE  BackendInv'
  <1>1. /\ cached' = [cached EXCEPT !.xbs[x] = api.xbs[x]]
        /\ queue' = queue \cup (IF cached.xbs[x].gen = api.xbs[x].gen THEN {}
                                ELSE allGatewaysRequests)
        /\ UNCHANGED <<api, live, w, pushed, used>>
    BY DEF SyncXBackend
  <1>2. WellTyped /\ OldXBackend(cached.xbs[x], x)
    BY DEF BackendInv, CopiesAreOld
  <1>3. /\ DOMAIN cached' = DOMAIN cached /\ cached'.enabled = cached.enabled
        /\ cached'.xbs = [cached.xbs EXCEPT ![x] = api.xbs[x]]
        /\ cached'.routes = cached.routes /\ cached'.svcs = cached.svcs
        /\ cached'.grants = cached.grants /\ cached'.tls = cached.tls
    BY <1>1, <1>2 DEF WellTyped
  <1>4. /\ cached'.xbs[x] = api.xbs[x]
        /\ \A y \in XBackends \ {x} : cached'.xbs[y] = cached.xbs[y]
    BY <1>2, <1>3 DEF WellTyped, ObjectsOK
  <1>5. ObjectsOK(cached')
    BY <1>2, <1>3 DEF WellTyped, ObjectsOK
  <1>6. queue \subseteq queue' /\ queue' \subseteq Gateways
    BY <1>1, <1>2 DEF WellTyped, allGatewaysRequests
  <1>7. ASSUME NEW g \in Gateways \ queue', live[g] # "gone" PROVE SameFor(cached, cached', g)
    <2>1. cached.xbs[x].gen = api.xbs[x].gen
      BY <1>1, <1>7 DEF allGatewaysRequests
    <2>2. cached.xbs[x].spec = api.xbs[x].spec /\ cached.xbs[x].exists = api.xbs[x].exists
      BY <1>2, <2>1 DEF OldXBackend
    <2>3. ASSUME NEW y \in XBackends
          PROVE  /\ cached.xbs[y].exists = cached'.xbs[y].exists
                 /\ cached.xbs[y].spec = cached'.xbs[y].spec
                 /\ cached.xbs[y].gen = cached'.xbs[y].gen
      BY <1>4, <2>1, <2>2
    <2> QED BY <1>3, <2>3 DEF SameFor
  <1> QED BY <1>1, <1>3, <1>4, <1>5, <1>6, <1>7, SyncMoves

\* Events of grants and policies reach every Gateway.
LEMMA SyncAllSafe ==
    ASSUME BackendInv, UNCHANGED <<api, live, w, pushed, used>>,
           \/ \E grant \in Grants : cached' = [cached EXCEPT !.grants =
                                       (@ \ {grant}) \cup (api.grants \cap {grant})]
           \/ \E p \in TLSPolicies : cached' = [cached EXCEPT !.tls =
                                       (@ \ {p}) \cup (api.tls \cap {p})],
           queue' = queue \cup allGatewaysRequests
    PROVE  BackendInv'
  <1>1. WellTyped
    BY DEF BackendInv
  <1>2. /\ DOMAIN cached' = DOMAIN cached /\ cached'.enabled = cached.enabled
        /\ cached'.routes = cached.routes /\ cached'.svcs = cached.svcs
        /\ cached'.xbs = cached.xbs
        /\ cached'.grants \subseteq Grants /\ cached'.tls \subseteq TLSPolicies
    BY <1>1 DEF WellTyped, ObjectsOK
  <1>3. ObjectsOK(cached')
    BY <1>1, <1>2 DEF WellTyped, ObjectsOK
  <1>4. queue \subseteq queue' /\ queue' \subseteq Gateways
    BY <1>1 DEF WellTyped, allGatewaysRequests
  <1>5. \A g \in Gateways \ queue' : live[g] = "gone"
    BY DEF allGatewaysRequests
  <1> QED BY <1>2, <1>3, <1>4, <1>5, SyncMoves
-----------------------------------------------------------------------------
(* Users. *)

\* Changes of objects that make a new generation of each XBackend they change and leave the
\* entries of routes alone.
LEMMA EditMoves ==
    ASSUME BackendInv, UNCHANGED <<cached, live, queue, w, pushed>>, used' \in Nat,
           DOMAIN api' = DOMAIN api, ObjectsOK(api'),
           \A r \in Routes : RouteMoves(r) /\ api'.routes[r].entries = api.routes[r].entries,
           \A x \in XBackends : \/ api'.xbs[x] = api.xbs[x]
                                \/ /\ api'.xbs[x].gen = api.xbs[x].gen + 1
                                   /\ api'.xbs[x].version = api.xbs[x].version + 1
                                   /\ api'.xbs[x].entries \in {api.xbs[x].entries, NoEntries}
    PROVE  BackendInv'
  <1>1. WellTyped /\ CopiesAreOld /\ Verdicts /\ InWork
    BY DEF BackendInv
  <1>2. WellTyped'
    BY <1>1 DEF WellTyped, WorkerOK, ObjectsOK
  <1>3. ASSUME NEW x \in XBackends
        PROVE  /\ api.xbs[x].gen \in Nat /\ api.xbs[x].version \in Nat
               /\ cached.xbs[x].gen \in Nat /\ cached.xbs[x].gen <= api.xbs[x].gen
               /\ \A g \in Gateways : api.xbs[x].entries[g].gen \in Nat
    <2>1. api.xbs[x] \in XBackendObjects /\ cached.xbs[x] \in XBackendObjects
      BY <1>1 DEF WellTyped, ObjectsOK
    <2>2. OldXBackend(cached.xbs[x], x)
      BY <1>1 DEF CopiesAreOld
    <2>3. \A g \in Gateways : api.xbs[x].entries[g].gen \in Nat
      BY <2>1 DEF XBackendObjects, Entries, Absent
    <2> QED BY <2>1, <2>2, <2>3 DEF XBackendObjects, OldXBackend
  <1>4. ASSUME NEW x \in XBackends PROVE XBackendMoves(x)
    <2>1. \A g \in Gateways : NoEntries[g] = Absent
      BY DEF NoEntries
    <2>2. CASE api'.xbs[x] = api.xbs[x]
      BY <2>2 DEF XBackendMoves
    <2>3. CASE api'.xbs[x] # api.xbs[x]
      <3>1. api'.xbs[x].gen > api.xbs[x].gen /\ api'.xbs[x].version > api.xbs[x].version
        BY <1>3, <2>3
      <3>2. api'.xbs[x].gen >= api.xbs[x].gen /\ api'.xbs[x].gen # api.xbs[x].gen
        BY <1>3, <2>3
      <3>3. \A g \in Gateways : api'.xbs[x].entries[g] \in {api.xbs[x].entries[g], Absent}
        BY <2>1, <2>3
      <3> QED BY <3>1, <3>2, <3>3 DEF XBackendMoves
    <2> QED BY <2>2, <2>3
  <1>5. CopiesAreOld'
    BY <1>1, <1>4, CopiesRemainOld
  <1>6. Verdicts'
    <2> SUFFICES ASSUME NEW g \in Gateways, NEW x \in XBackends PROVE Judged(g, x)'
      BY DEF Verdicts
    <2>1. Judged(g, x)
      BY <1>1 DEF Verdicts
    <2>2. CASE api'.xbs[x] = api.xbs[x]
      BY <2>1, <2>2 DEF Judged, Verdict
    <2>3. CASE api'.xbs[x] # api.xbs[x]
      <3>1. NoEntries[g].gen = 0
        BY DEF NoEntries, Absent
      <3>2. api'.xbs[x].entries[g].gen <= api.xbs[x].gen
        BY <1>3, <2>1, <2>3, <3>1 DEF Judged
      <3>3. api'.xbs[x].entries[g].gen \in Nat
        BY <1>3, <2>3, <3>1
      <3>4. /\ api'.xbs[x].entries[g].gen <= api'.xbs[x].gen
            /\ api'.xbs[x].entries[g].gen # api'.xbs[x].gen
        BY <1>3, <2>3, <3>2, <3>3
      <3> QED BY <3>4 DEF Judged
    <2> QED BY <2>2, <2>3
  <1>7. InWork'
    BY <1>1 DEF InWork, AttachedRoutes
  <1>8. ASSUME NEW g \in Gateways PROVE Fresh(g)'
    <2>1. EntriesKept(g)
      <3>1. ASSUME NEW x \in XBackends, cached'.xbs[x].gen = api'.xbs[x].gen
            PROVE  api'.xbs[x] = api.xbs[x]
        BY <1>3, <3>1
      <3> QED BY <3>1 DEF EntriesKept
    <2>2. SameFor(cached, cached', g)
      BY DEF SameFor
    <2> QED BY <2>1, <2>2, FreshKept
  <1> QED BY <1>2, <1>5, <1>6, <1>7, <1>8 DEF BackendInv

\* A disturbance is counted.
LEMMA EditCounts ==
    ASSUME BackendInv, NEW kind, Edit(kind)
    PROVE  WellTyped /\ used' \in Nat /\ UNCHANGED <<cached, w, pushed>>
  BY DEF BackendInv, WellTyped, Edit, Disturbs

\* A new spec of a route.
LEMMA EditRouteSafe ==
    ASSUME BackendInv, NEW r \in Routes, EditRoute(r)
    PROVE  BackendInv'
  <1>1. /\ WellTyped /\ used' \in Nat /\ UNCHANGED <<cached, live, queue, w, pushed>>
    BY EditCounts DEF EditRoute
  <1>2. PICK spec \in RouteSpecs[r] \ {api.routes[r].spec} :
           api' = [api EXCEPT !.routes[r].spec = spec, !.routes[r].gen = @ + 1,
                              !.routes[r].version = @ + 1]
    BY DEF EditRoute
  <1> DEFINE old == api.routes[r]
             new == [old EXCEPT !.spec = spec, !.gen = @ + 1, !.version = @ + 1]
  <1>3. /\ DOMAIN api' = DOMAIN api /\ api'.routes = [api.routes EXCEPT ![r] = new]
        /\ api'.svcs = api.svcs /\ api'.xbs = api.xbs
        /\ api'.grants = api.grants /\ api'.tls = api.tls
    BY <1>1, <1>2 DEF WellTyped
  <1>4. old \in RouteObjects(r) /\ old.gen \in Nat /\ old.version \in Nat
    BY <1>1 DEF WellTyped, ObjectsOK, RouteObjects
  <1>5. /\ new \in RouteObjects(r) /\ new.gen = old.gen + 1 /\ new.version = old.version + 1
        /\ new.entries = old.entries
    <2>1. old.gen + 1 \in Nat /\ old.version + 1 \in Nat
      BY <1>4
    <2> HIDE DEF old
    <2> QED BY <1>4, <2>1 DEF RouteObjects
  <1> HIDE DEF new
  <1>6. /\ DOMAIN api'.routes = Routes /\ api'.routes[r] = new
        /\ \A x \in Routes \ {r} : api'.routes[x] = api.routes[x]
    BY <1>1, <1>3 DEF WellTyped, ObjectsOK
  <1>7. ObjectsOK(api')
    BY <1>1, <1>3, <1>5, <1>6 DEF WellTyped, ObjectsOK
  <1>8. ASSUME NEW x \in Routes
        PROVE  RouteMoves(x) /\ api'.routes[x].entries = api.routes[x].entries
    <2>1. CASE x # r
      BY <1>6, <2>1 DEF RouteMoves
    <2>2. CASE x = r
      <3>1. new.version > old.version /\ new.gen >= old.gen /\ new.gen # old.gen
        BY <1>4, <1>5
      <3> QED BY <1>5, <1>6, <2>2, <3>1 DEF RouteMoves
    <2> QED BY <2>1, <2>2
  <1> QED BY <1>1, <1>3, <1>7, <1>8, EditMoves

\* Changes of Services, grants and policies.
LEMMA EditOthersSafe ==
    ASSUME BackendInv, used' \in Nat, UNCHANGED <<cached, live, queue, w, pushed>>,
           \/ \E s \in Services, new \in {NoService} \cup [exists : {TRUE}, ports : PortSets] :
                 api' = [api EXCEPT !.svcs[s] = new]
           \/ \E grants \in SUBSET Grants : api' = [api EXCEPT !.grants = grants]
           \/ \E tls \in SUBSET TLSPolicies : api' = [api EXCEPT !.tls = tls]
    PROVE  BackendInv'
  <1>1. WellTyped
    BY DEF BackendInv
  <1>2. /\ DOMAIN api' = DOMAIN api /\ api'.routes = api.routes /\ api'.xbs = api.xbs
        /\ api'.svcs \in [Services -> {NoService} \cup [exists : {TRUE}, ports : PortSets]]
        /\ api'.grants \subseteq Grants /\ api'.tls \subseteq TLSPolicies
    <2> DEFINE objects == {NoService} \cup [exists : {TRUE}, ports : PortSets]
    <2>1. /\ DOMAIN api = {"routes", "svcs", "xbs", "grants", "tls"}
          /\ api.svcs \in [Services -> objects]
          /\ api.grants \subseteq Grants /\ api.tls \subseteq TLSPolicies
      BY <1>1 DEF WellTyped, ObjectsOK
    <2>2. CASE \E s \in Services, new \in objects : api' = [api EXCEPT !.svcs[s] = new]
      <3>1. PICK s \in Services, new \in objects : api' = [api EXCEPT !.svcs[s] = new]
        BY <2>2
      <3> HIDE DEF objects
      <3>2. [api.svcs EXCEPT ![s] = new] \in [Services -> objects]
        BY <2>1
      <3>3. api'.svcs = [api.svcs EXCEPT ![s] = new]
        BY <2>1, <3>1
      <3>4. /\ DOMAIN api' = DOMAIN api /\ api'.routes = api.routes /\ api'.xbs = api.xbs
            /\ api'.grants = api.grants /\ api'.tls = api.tls
        BY <2>1, <3>1
      <3> QED BY <2>1, <3>2, <3>3, <3>4 DEF objects
    <2>3. CASE \E grants \in SUBSET Grants : api' = [api EXCEPT !.grants = grants]
      <3> HIDE DEF objects
      <3>1. /\ DOMAIN api' = DOMAIN api /\ api'.routes = api.routes /\ api'.xbs = api.xbs
            /\ api'.svcs = api.svcs /\ api'.grants \subseteq Grants /\ api'.tls = api.tls
        BY <2>1, <2>3
      <3> QED BY <2>1, <3>1 DEF objects
    <2>4. CASE \E tls \in SUBSET TLSPolicies : api' = [api EXCEPT !.tls = tls]
      <3> HIDE DEF objects
      <3>1. /\ DOMAIN api' = DOMAIN api /\ api'.routes = api.routes /\ api'.xbs = api.xbs
            /\ api'.svcs = api.svcs /\ api'.tls \subseteq TLSPolicies
            /\ api'.grants = api.grants
        BY <2>1, <2>4
      <3> QED BY <2>1, <3>1 DEF objects
    <2> QED BY <2>2, <2>3, <2>4
  <1>3. ObjectsOK(api')
    BY <1>1, <1>2 DEF WellTyped, ObjectsOK
  <1>4. \A r \in Routes : RouteMoves(r) /\ api'.routes[r].entries = api.routes[r].entries
    BY <1>2 DEF RouteMoves
  <1> QED BY <1>2, <1>3, <1>4, EditMoves

\* A new, changed or deleted XBackend.
LEMMA EditXBackendSafe ==
    ASSUME BackendInv, NEW x \in XBackends, EditXBackend(x)
    PROVE  BackendInv'
  <1> DEFINE old == api.xbs[x]
  <1>1. WellTyped /\ used' \in Nat /\ UNCHANGED <<cached, live, queue, w, pushed>>
    BY EditCounts DEF EditXBackend
  <1>2. old \in XBackendObjects
    BY <1>1 DEF WellTyped, ObjectsOK
  <1>3. PICK exists \in BOOLEAN, spec \in XBackendSpecs, entries \in {old.entries, NoEntries} :
           api' = [api EXCEPT !.xbs[x] =
                     [exists |-> exists, spec |-> spec, gen |-> old.gen + 1,
                      version |-> old.version + 1, entries |-> entries]]
    BY <1>2 DEF EditXBackend, XBackendObjects
  <1> DEFINE new == [exists |-> exists, spec |-> spec, gen |-> old.gen + 1,
                     version |-> old.version + 1, entries |-> entries]
  <1>4. new \in XBackendObjects
    <2>1. NoEntries \in Entries
      BY DEF NoEntries, Entries
    <2>2. /\ entries \in Entries /\ old.gen + 1 \in Nat /\ old.version + 1 \in Nat
      BY <1>2, <2>1 DEF XBackendObjects
    <2> QED BY <2>2 DEF XBackendObjects
  <1>5. /\ new.gen = old.gen + 1 /\ new.version = old.version + 1 /\ new.entries = entries
    OBVIOUS
  <1> HIDE DEF new
  <1>6. /\ DOMAIN api' = DOMAIN api /\ api'.xbs = [api.xbs EXCEPT ![x] = new]
        /\ api'.svcs = api.svcs /\ api'.routes = api.routes
        /\ api'.grants = api.grants /\ api'.tls = api.tls
    BY <1>1, <1>3 DEF WellTyped, new
  <1>7. ObjectsOK(api')
    BY <1>1, <1>4, <1>6 DEF WellTyped, ObjectsOK
  <1>8. /\ api'.xbs[x] = new /\ \A y \in XBackends \ {x} : api'.xbs[y] = api.xbs[y]
    BY <1>1, <1>6 DEF WellTyped, ObjectsOK
  <1>9. \A r \in Routes : RouteMoves(r) /\ api'.routes[r].entries = api.routes[r].entries
    BY <1>6 DEF RouteMoves
  <1>10. ASSUME NEW y \in XBackends
         PROVE  \/ api'.xbs[y] = api.xbs[y]
                \/ /\ api'.xbs[y].gen = api.xbs[y].gen + 1
                   /\ api'.xbs[y].version = api.xbs[y].version + 1
                   /\ api'.xbs[y].entries \in {api.xbs[y].entries, NoEntries}
    BY <1>5, <1>8
  <1> QED BY <1>1, <1>6, <1>7, <1>9, <1>10, EditMoves

\* A Gateway that is deleted is queued.
LEMMA DeleteGatewaySafe ==
    ASSUME BackendInv, NEW g \in Gateways, DeleteGateway(g)
    PROVE  BackendInv'
  <1>1. /\ WellTyped /\ used' \in Nat /\ UNCHANGED <<api, cached, w, pushed>>
        /\ live[g] = "live" /\ live' = [live EXCEPT ![g] = "deleting"]
        /\ queue' = queue \cup {g}
    BY EditCounts DEF DeleteGateway
  <1>2. CopiesAreOld /\ Verdicts /\ InWork
    BY DEF BackendInv
  <1>3. /\ live' \in [Gateways -> {"live", "deleting", "gone"}] /\ live'[g] = "deleting"
        /\ \A h \in Gateways \ {g} : live'[h] = live[h]
    BY <1>1 DEF WellTyped
  <1>4. WellTyped'
    BY <1>1, <1>3 DEF WellTyped, WorkerOK, ObjectsOK
  <1>5. CopiesAreOld'
    <2>1. ObjectsOK(api')
      BY <1>1 DEF WellTyped
    <2>2. (\A r \in Routes : RouteMoves(r)) /\ \A x \in XBackends : XBackendMoves(x)
      BY <1>1 DEF RouteMoves, XBackendMoves
    <2> QED BY <1>1, <1>2, <2>1, <2>2, CopiesRemainOld
  <1>6. Verdicts' /\ InWork'
    BY <1>1, <1>2, <1>3 DEF Verdicts, Judged, Verdict, InWork, AttachedRoutes
  <1>7. ASSUME NEW h \in Gateways PROVE Fresh(h)'
    <2>1. EntriesKept(h) /\ SameFor(cached, cached', h)
      BY <1>1 DEF EntriesKept, SameFor
    <2>2. CASE h = g
      BY <1>1, <2>2, QueuedIsFresh
    <2>3. CASE h # g
      BY <1>1, <1>3, <2>1, <2>3, FreshKept
    <2> QED BY <2>2, <2>3
  <1> QED BY <1>4, <1>5, <1>6, <1>7 DEF BackendInv
-----------------------------------------------------------------------------
(* The invariant. *)

\* Every step preserves the invariant.
LEMMA BackendStep == BackendInv /\ [Next]_vars => BackendInv'
  <1> SUFFICES ASSUME BackendInv, [Next]_vars PROVE BackendInv'
    OBVIOUS
  <1>1. CASE WorkerStep
    <2> PICK g \in Gateways :
           \/ collectServiceBackends(g) \/ collectReferencedXBackends(g) \/ PushConfig(g)
           \/ \E r \in Routes : PatchRouteStatus(g, r)
           \/ ListXBackends(g) \/ EndPass(g) \/ RemoveFinalizer(g)
           \/ \E x \in XBackends : patchXBackendStatus(g, x) \/ pruneXBackendAncestorStatus(g, x)
      BY <1>1 DEF WorkerStep
    <2> QED BY collectServiceBackendsSafe, collectReferencedXBackendsSafe, PushConfigSafe,
               PatchRouteStatusSafe, ListXBackendsSafe, EndPassSafe, RemoveFinalizerSafe,
               patchXBackendStatusSafe, pruneXBackendAncestorStatusSafe
  <1>2. CASE \E g \in Gateways : Take(g)
    BY <1>2, CollectRoutesSafe, StartCleanupSafe, NotFoundSafe DEF Take
  <1>3. CASE Sync
    <2>1. CASE \E grant \in Grants : SyncGrant(grant)
      BY <2>1, SyncAllSafe DEF SyncGrant
    <2>2. CASE \E p \in TLSPolicies : SyncTLSPolicy(p)
      BY <2>2, SyncAllSafe DEF SyncTLSPolicy
    <2> QED BY <1>3, <2>1, <2>2, SyncRouteSafe, SyncServiceSafe, SyncXBackendSafe DEF Sync
  <1>4. CASE UserStep
    <2>1. ASSUME NEW s \in Services, EditService(s) PROVE BackendInv'
      BY <2>1, EditCounts, EditOthersSafe DEF EditService
    <2>2. ASSUME NEW grant \in Grants, EditGrant(grant) PROVE BackendInv'
      <3>1. used' \in Nat /\ UNCHANGED <<cached, live, queue, w, pushed>>
            /\ api.grants \subseteq Grants
        BY <2>2, EditCounts DEF EditGrant, WellTyped, ObjectsOK
      <3>2. api' = [api EXCEPT !.grants = IF grant \in api.grants THEN api.grants \ {grant}
                                          ELSE api.grants \cup {grant}]
        BY <2>2 DEF EditGrant
      <3> QED BY <3>1, <3>2, EditOthersSafe
    <2>3. ASSUME NEW p \in TLSPolicies, EditTLSPolicy(p) PROVE BackendInv'
      <3>1. used' \in Nat /\ UNCHANGED <<cached, live, queue, w, pushed>>
            /\ api.tls \subseteq TLSPolicies
        BY <2>3, EditCounts DEF EditTLSPolicy, WellTyped, ObjectsOK
      <3>2. api' = [api EXCEPT !.tls = IF p \in api.tls THEN api.tls \ {p} ELSE api.tls \cup {p}]
        BY <2>3 DEF EditTLSPolicy
      <3> QED BY <3>1, <3>2, EditOthersSafe
    <2> QED BY <1>4, <2>1, <2>2, <2>3, EditRouteSafe, EditXBackendSafe, DeleteGatewaySafe
            DEF UserStep
  <1>5. CASE Restart
    BY <1>5, RestartSafe
  <1>6. CASE UNCHANGED vars
    <2>1. UNCHANGED <<api, cached, live, w, pushed, used, queue>>
      BY <1>6 DEF vars
    <2>2. WellTyped
      BY DEF BackendInv
    <2>3. /\ DOMAIN cached' = DOMAIN cached /\ ObjectsOK(cached') /\ cached'.enabled = cached.enabled
          /\ queue' \subseteq Gateways
      BY <2>1, <2>2 DEF WellTyped
    <2>4. \A g : SameFor(cached, cached', g)
      BY <2>1 DEF SameFor
    <2> QED BY <2>1, <2>3, <2>4, SyncMoves
  <1> QED BY <1>1, <1>2, <1>3, <1>4, <1>5, <1>6 DEF Next

\* The inductive invariant holds in every reachable state.
LEMMA BackendInvariant == Spec => []BackendInv
  BY BackendInit, BackendStep, PTL DEF Spec

\* TypeOK: every variable has its type.  A listing holds at most one copy of a route.
THEOREM BackendTypes == Spec => []TypeOK
  <1>1. BackendInv => TypeOK
    <2> SUFFICES ASSUME BackendInv PROVE TypeOK
      OBVIOUS
    <2>1. WellTyped /\ WorkerOK
      BY DEF BackendInv, WellTyped
    <2>2. ASSUME NEW r \in Routes PROVE Cardinality(w.seen[r]) <= 1
      <3>1. CASE w.seen[r] = {}
        BY <3>1, FS_EmptySet
      <3>2. CASE w.seen[r] # {}
        <4>1. PICK copy : copy \in w.seen[r]
          BY <3>2
        <4>2. w.seen[r] = {copy}
          BY <2>1, <4>1 DEF WorkerOK, AtMostOne
        <4>3. Cardinality({copy}) = 1
          BY FS_Singleton
        <4>4. 1 <= 1
          OBVIOUS
        <4> QED BY <4>2, <4>3, <4>4
      <3> QED BY <3>1, <3>2
    <2>3. DOMAIN w = DOMAIN Idle
      BY <2>1, IdleTypes DEF WorkerOK
    <2> QED BY <2>1, <2>2, <2>3 DEF TypeOK, WellTyped, WorkerOK, Phases
  <1> QED BY <1>1, BackendInvariant, PTL

\* XBackendVerdicts: the entry of a Gateway never misjudges the generation of the XBackend it
\* says it observed, and at rest the entries of the Gateways that serve it observed the last.
THEOREM XBackendsAreJudged == Spec => []XBackendVerdicts
  <1>1. BackendInv => XBackendVerdicts
    <2> SUFFICES ASSUME BackendInv, NEW g \in LiveGateways, NEW x \in XBackends
                 PROVE  /\ api.xbs[x].entries[g].gen = api.xbs[x].gen =>
                              api.xbs[x].entries[g] \in {Absent, Verdict(x)}
                        /\ Quiet /\ ExperimentalBackends /\ Refers(g, x) =>
                              api.xbs[x].entries[g] \in {Absent, Verdict(x)}
      BY DEF XBackendVerdicts
    <2>1. g \in Gateways /\ live[g] = "live" /\ Judged(g, x) /\ XBackendFresh(g, x)
          /\ InWork /\ WellTyped
      BY DEF LiveGateways, BackendInv, Verdicts, Fresh
    <2>2. ASSUME Quiet, ExperimentalBackends, Refers(g, x) PROVE RefersIn(cached, g, x)
      <3>1. /\ cached.routes = api.routes /\ cached.grants = api.grants /\ cached.xbs = api.xbs
        BY <2>2 DEF Quiet, UpToDate
      <3>2. PICK r \in AttachedTo(g) : \E ref \in Refs(api.routes[r].spec) :
               ref.kind = "XBackend" /\ ref.name = x /\ Authorized(r, ref)
        BY <2>2 DEF Refers
      <3>3. PICK ref \in Refs(api.routes[r].spec) :
               ref.kind = "XBackend" /\ ref.name = x /\ Authorized(r, ref)
        BY <3>2
      <3>4. r \in Attached(cached, g) /\ ref \in RouteRefs(cached, r)
        BY <3>1 DEF AttachedTo, Attached, RouteRefs
      <3>5. Granted(cached, Target(r, ref))
        BY <3>1, <3>3 DEF Authorized, Granted, Target, Local, CheckReferenceGrantTo,
                          fromMatches, toMatches, groupMatches
      <3> QED BY <2>2, <3>1, <3>3, <3>4, <3>5 DEF RefersIn, Refers
    <2>3. Quiet => w.gw = {} /\ queue = {}
      BY <2>1 DEF Quiet, InWork
    <2>4. Quiet /\ ExperimentalBackends => cached.xbs = api.xbs
      BY DEF Quiet, UpToDate
    <2> QED BY <2>1, <2>2, <2>3, <2>4 DEF Judged, XBackendFresh
  <1> QED BY <1>1, BackendInvariant, PTL
-----------------------------------------------------------------------------
(* At rest. *)

\* When all is quiet, what a Gateway has is what the objects make of it.
LEMMA RestIsFresh ==
    ASSUME BackendInv, Quiet, NEW g \in LiveGateways
    PROVE  /\ g \in Gateways /\ ObjectsOK(api) /\ ObjectsOK(cached)
           /\ cached.routes = api.routes /\ cached.svcs = api.svcs
           /\ cached.grants = api.grants /\ cached.tls = api.tls
           /\ cached.enabled => cached.xbs = api.xbs
           /\ AttachedTo(g) = Attached(cached, g)
           /\ RulesOf(cached, g, pushed[g])
           /\ \A r \in Attached(cached, g) :
                 api.routes[r].entries[g]
                 = [reason |-> RouteReason(cached, r), gen |-> cached.routes[r].gen]
  <1>1. /\ cached.routes = api.routes /\ cached.svcs = api.svcs
        /\ cached.grants = api.grants /\ cached.tls = api.tls
        /\ cached.enabled => cached.xbs = api.xbs
    BY DEF Quiet, UpToDate, ExperimentalBackends
  <1>2. g \in Gateways /\ live[g] = "live" /\ w.gw = {} /\ queue = {}
    BY DEF LiveGateways, Quiet, BackendInv, InWork
  <1>3. ObjectsOK(api) /\ ObjectsOK(cached)
    BY DEF BackendInv, WellTyped
  <1>4. AttachedTo(g) = Attached(cached, g)
    BY <1>1 DEF AttachedTo, Attached
  <1>5. PushedFresh(g) /\ \A r \in Routes : RouteFresh(g, r)
    BY <1>2 DEF BackendInv, Fresh
  <1>6. RulesOf(cached, g, pushed[g])
    BY <1>2, <1>5 DEF PushedFresh
  <1>7. ASSUME NEW r \in Attached(cached, g)
        PROVE  api.routes[r].entries[g]
               = [reason |-> RouteReason(cached, r), gen |-> cached.routes[r].gen]
    <2>1. r \in Routes
      BY DEF Attached
    <2> QED BY <1>2, <1>5, <2>1 DEF RouteFresh
  <1> QED BY <1>1, <1>2, <1>3, <1>4, <1>6, <1>7

\* A reference has no reason not to be served if and only if it can be, and one to a Service
\* that is not authorized is always reported so.
LEMMA ReasonIsServable ==
    ASSUME ObjectsOK(cached), cached.svcs = api.svcs, cached.grants = api.grants,
           cached.enabled => cached.xbs = api.xbs,
           NEW r \in Routes, NEW ref \in References
    PROVE  /\ Servable(r, ref) <=> Reason(cached, Target(r, ref)) = "none"
           /\ ref.kind = "Service" /\ ~Authorized(r, ref) =>
                 Reason(cached, Target(r, ref)) = "RefNotPermitted"
  <1> DEFINE t == Target(r, ref)
  <1>1. /\ t.kind = ref.kind /\ t.name = ref.name /\ t.port = ref.port
        /\ t.routeKind = KindOf[r] /\ t.routeNS = NamespaceOf[r]
    BY DEF Target
  <1> HIDE DEF t
  <1>2. ref.kind \in {"Service", "XBackend"} => (Authorized(r, ref) <=> Granted(cached, t))
    BY <1>1 DEF Authorized, Granted, Local, CheckReferenceGrantTo, fromMatches, toMatches,
                groupMatches
  <1>3. CASE ref.kind = "Service"
    <2> DEFINE ports == api.svcs[ref.name].ports
    <2>1. ports \subseteq [port : Nat, protocol : STRING]
      <3>1. ref.name \in Services
        BY <1>3 DEF References
      <3>2. cached.svcs[ref.name] \in {NoService} \cup [exists : {TRUE}, ports : PortSets]
        BY <3>1 DEF ObjectsOK
      <3>3. CASE cached.svcs[ref.name] = NoService
        BY <3>3 DEF NoService
      <3>4. CASE cached.svcs[ref.name] \in [exists : {TRUE}, ports : PortSets]
        BY <3>4, ResolutionAssumption
      <3> QED BY <3>2, <3>3, <3>4
    <2> HIDE DEF ports
    <2>2. ({[port |-> ref.port, protocol |-> p] : p \in {"", "TCP"}} \cap ports # {})
          <=> \E p \in ports : p.port = ref.port /\ p.protocol \in {"", "TCP"}
      <3>1. ASSUME NEW p \in ports, p.port = ref.port, p.protocol \in {"", "TCP"}
            PROVE  p \in {[port |-> ref.port, protocol |-> q] : q \in {"", "TCP"}}
        <4>1. p = [port |-> p.port, protocol |-> p.protocol]
          BY <2>1
        <4> QED BY <3>1, <4>1
      <3>2. ASSUME NEW p \in {[port |-> ref.port, protocol |-> q] : q \in {"", "TCP"}}
            PROVE  p.port = ref.port /\ p.protocol \in {"", "TCP"}
        <4>1. PICK q \in {"", "TCP"} : p = [port |-> ref.port, protocol |-> q]
          BY <3>2
        <4> QED BY <4>1
      <3> QED BY <3>1, <3>2
    <2>3. Reason(cached, t)
          = IF ~Granted(cached, t) THEN "RefNotPermitted"
            ELSE IF \E p \in ports : p.port = ref.port /\ p.protocol \in {"", "TCP"}
            THEN "none" ELSE "BackendNotFound"
      BY <1>1, <1>3 DEF Reason, ServiceReason, ports
    <2>4. Servable(r, ref)
          <=> /\ Authorized(r, ref)
              /\ {[port |-> ref.port, protocol |-> p] : p \in {"", "TCP"}} \cap ports # {}
      BY <1>3 DEF Servable, ports
    <2> QED BY <1>2, <1>3, <2>2, <2>3, <2>4 DEF t
  <1>4. CASE ref.kind = "XBackend"
    <2>1. Reason(cached, t)
          = IF ~cached.enabled THEN "XBackendDisabled"
            ELSE IF ~Granted(cached, t) THEN "RefNotPermitted"
            ELSE IF ref.port # 0 THEN "InvalidBackendPort"
            ELSE IF ~cached.xbs[ref.name].exists THEN "BackendNotFound"
            ELSE translateReason(cached.xbs[ref.name].spec, KindOf[r])
      BY <1>1, <1>4 DEF Reason, XBackendReason
    <2>2. Servable(r, ref)
          <=> /\ Authorized(r, ref) /\ cached.enabled /\ ref.port = 0
              /\ api.xbs[ref.name].exists
              /\ translateReason(api.xbs[ref.name].spec, KindOf[r]) = "none"
      BY <1>4 DEF Servable, ExperimentalBackends
    <2> HIDE DEF t
    <2>3. Servable(r, ref) <=> Reason(cached, t) = "none"
      BY <1>2, <1>4, <2>1, <2>2
    <2> QED BY <1>4, <2>3 DEF t
  <1>5. CASE ref.kind \notin {"Service", "XBackend"}
    <2>1. Reason(cached, t) = "UnsupportedKind"
      BY <1>1, <1>5 DEF Reason
    <2>2. ~Servable(r, ref)
      BY <1>5 DEF Servable
    <2> QED BY <1>5, <2>1, <2>2 DEF t
  <1> QED BY <1>3, <1>4, <1>5

\* The route and the references of a rule that is served.
LEMMA RuleOfRoute ==
    ASSUME ObjectsOK(cached), NEW g \in Gateways, NEW id \in IDs(cached, g)
    PROVE  LET refs == cached.routes[id[1]].spec.rules[id[2]] IN
           /\ id[1] \in Attached(cached, g) /\ id[1] \in Routes
           /\ id[2] \in 1 .. Len(cached.routes[id[1]].spec.rules) /\ id = <<id[1], id[2]>>
           /\ refs # <<>> => refs[1] \in References
  <1>1. PICK r \in Attached(cached, g) :
           \E i \in 1 .. Len(cached.routes[r].spec.rules) : id = <<r, i>>
    BY DEF IDs
  <1>2. PICK i \in 1 .. Len(cached.routes[r].spec.rules) : id = <<r, i>>
    BY <1>1
  <1>3. r \in Routes /\ cached.routes[r].spec \in RouteSpecs[r]
    BY DEF Attached, ObjectsOK, RouteObjects
  <1>4. cached.routes[r].spec.rules[i] # <<>> => cached.routes[r].spec.rules[i][1] \in References
    BY <1>3, RefsAreTyped
  <1> QED BY <1>2, <1>3, <1>4

\* ServesResolvable: at rest a tunnel serves exactly the references that can be served, and
\* fails the others closed, although a pass reads its objects at different moments.
THEOREM TunnelsServeResolvable == Spec => []ServesResolvable
  <1>1. BackendInv => ServesResolvable
    <2> SUFFICES ASSUME BackendInv, Quiet, NEW g \in LiveGateways PROVE Serves(g)
      BY DEF ServesResolvable
    <2>1. /\ g \in Gateways /\ ObjectsOK(cached)
          /\ cached.routes = api.routes /\ cached.svcs = api.svcs
          /\ cached.grants = api.grants
          /\ cached.enabled => cached.xbs = api.xbs
      BY RestIsFresh
    <2>2. /\ DOMAIN pushed[g] = IDs(cached, g)
          /\ \A id \in DOMAIN pushed[g] : Made(cached, g, id, pushed[g][id])
          /\ AttachedTo(g) = Attached(cached, g)
      BY RestIsFresh DEF RulesOf
    <2>3. DOMAIN pushed[g]
          = UNION {{<<r, i>> : i \in 1 .. Len(api.routes[r].spec.rules)} : r \in AttachedTo(g)}
      <3>1. DOMAIN pushed[g]
            = UNION {{<<r, i>> : i \in 1 .. Len(cached.routes[r].spec.rules)} :
                        r \in AttachedTo(g)}
        BY <2>2 DEF IDs
      <3> QED BY <2>1, <3>1
    <2>4. ASSUME NEW id \in DOMAIN pushed[g]
          PROVE  LET service == pushed[g][id].service
                     refs == api.routes[id[1]].spec.rules[id[2]] IN
                 IF refs # <<>> /\ Servable(id[1], refs[1])
                 THEN service[1] # "status" /\ service[2] = refs[1].name
                 ELSE service = <<"status", "",
                                  IF KindOf[id[1]] = "HTTPRoute" /\ refs # <<>> THEN 500 ELSE 503>>
      <3> DEFINE r == id[1]
                 refs == api.routes[r].spec.rules[id[2]]
      <3>1. r \in Routes /\ (refs # <<>> => refs[1] \in References)
        BY <2>1, <2>2, <2>4, RuleOfRoute
      <3>2. pushed[g][id].service = Service(cached, r, refs)
        BY <2>1, <2>2, <2>4 DEF Made
      <3> HIDE DEF r, refs
      <3>3. CASE refs = <<>>
        BY <3>2, <3>3 DEF Service, r, refs
      <3>4. CASE refs # <<>>
        <4>1. Servable(r, refs[1]) <=> Reason(cached, Target(r, refs[1])) = "none"
          BY <2>1, <3>1, <3>4, ReasonIsServable
        <4>2. CASE ~Servable(r, refs[1])
          BY <3>2, <3>4, <4>1, <4>2 DEF Service, ErrorStatus, r, refs
        <4>3. CASE Servable(r, refs[1])
          <5>1. pushed[g][id].service
                = IF refs[1].kind = "XBackend"
                  THEN <<schemeFor(cached.xbs[refs[1].name].spec, KindOf[r]), refs[1].name,
                         cached.xbs[refs[1].name].spec.port>>
                  ELSE <<NativeScheme(KindOf[r]), refs[1].name, refs[1].port>>
            BY <3>2, <3>4, <4>1, <4>3 DEF Service
          <5>2. \A x, kind : schemeFor(x, kind) # "status" /\ NativeScheme(kind) # "status"
            BY DEF schemeFor, NativeScheme
          <5>3. pushed[g][id].service[1] # "status" /\ pushed[g][id].service[2] = refs[1].name
            <6>1. CASE refs[1].kind = "XBackend"
              BY <5>1, <5>2, <6>1
            <6>2. CASE refs[1].kind # "XBackend"
              BY <5>1, <5>2, <6>2
            <6> QED BY <6>1, <6>2
          <5> QED BY <3>4, <4>3, <5>3 DEF r, refs
        <4> QED BY <4>2, <4>3
      <3> QED BY <3>3, <3>4
    <2> QED BY <2>3, <2>4 DEF Serves
  <1> QED BY <1>1, BackendInvariant, PTL

\* ResolvedRefsIsCurrent: at rest a route reports on its present generation, "none" if and only
\* if all its references can be served, and does not hide one that is not authorized.
THEOREM ResolvedRefsAreCurrent == Spec => []ResolvedRefsIsCurrent
  <1>1. BackendInv => ResolvedRefsIsCurrent
    <2> SUFFICES ASSUME BackendInv, Quiet, NEW g \in LiveGateways, NEW r \in AttachedTo(g)
                 PROVE  LET entry == api.routes[r].entries[g]
                            refs == Refs(api.routes[r].spec) IN
                        /\ entry.gen = api.routes[r].gen /\ entry.reason # "absent"
                        /\ entry.reason = "none" <=> \A ref \in refs : Servable(r, ref)
                        /\ (\E ref \in refs : ~Authorized(r, ref) /\ ref.kind = "Service") =>
                              entry.reason \in {"RefNotPermitted", "UnsupportedKind",
                                                "XBackendDisabled"}
      BY DEF ResolvedRefsIsCurrent
    <2> DEFINE entry == api.routes[r].entries[g]
               refs == Refs(api.routes[r].spec)
               why(ref) == Reason(cached, Target(r, ref))
               S == {why(ref) : ref \in refs}
    <2>1. /\ ObjectsOK(cached) /\ cached.routes = api.routes /\ cached.svcs = api.svcs
          /\ cached.grants = api.grants
          /\ cached.enabled => cached.xbs = api.xbs
          /\ r \in Attached(cached, g)
          /\ entry = [reason |-> RouteReason(cached, r), gen |-> cached.routes[r].gen]
      BY RestIsFresh
    <2>2. r \in Routes /\ refs \subseteq References
      <3>1. r \in Routes /\ api.routes[r].spec \in RouteSpecs[r]
        BY <2>1 DEF Attached, ObjectsOK, RouteObjects
      <3> QED BY <3>1, RefsAreTyped
    <2>3. entry.reason = Worst(S) /\ entry.gen = api.routes[r].gen
      BY <2>1 DEF RouteReason, RouteRefs
    <2>4. \A ref \in refs : /\ Servable(r, ref) <=> why(ref) = "none"
                            /\ ref.kind = "Service" /\ ~Authorized(r, ref) =>
                                  why(ref) = "RefNotPermitted"
      BY <2>1, <2>2, ReasonIsServable
    <2>5. S \in SUBSET Reasons
      BY ReasonTypes
    <2>6. \A ref \in refs : why(ref) \in S
      OBVIOUS
    <2>7. \A y \in S : \E ref \in refs : y = why(ref)
      OBVIOUS
    <2> HIDE DEF S, why, refs, entry
    <2>8. /\ Worst(S) \in Reasons
          /\ S = {} => Worst(S) = "none"
          /\ S # {} => Worst(S) \in S
          /\ \A y \in S : reasonSeverity(Worst(S)) >= reasonSeverity(y)
      BY <2>5, WorstIsWorst
    <2>9. \A y \in S \cup {Worst(S)} :
             /\ reasonSeverity(y) \in 0 .. 7
             /\ reasonSeverity(y) = 0 <=> y = "none"
             /\ reasonSeverity(y) >= 5 <=>
                   y \in {"RefNotPermitted", "UnsupportedKind", "XBackendDisabled"}
      BY <2>5, <2>8, SeverityTypes
    <2>10. Worst(S) # "absent"
      BY <2>8 DEF Reasons
    <2>11. Worst(S) = "none" => \A y \in S : y = "none"
      <3> SUFFICES ASSUME Worst(S) = "none", NEW y \in S PROVE y = "none"
        OBVIOUS
      <3>1. reasonSeverity(Worst(S)) = 0 /\ reasonSeverity(y) \in 0 .. 7
            /\ reasonSeverity(Worst(S)) >= reasonSeverity(y)
        BY <2>8, <2>9
      <3>2. reasonSeverity(y) = 0
        BY <3>1
      <3> QED BY <2>9, <3>2
    <2>12. (\A y \in S : y = "none") => Worst(S) = "none"
      BY <2>8
    <2>13. Worst(S) = "none" <=> \A ref \in refs : Servable(r, ref)
      BY <2>4, <2>6, <2>7, <2>11, <2>12
    <2>14. ASSUME NEW ref \in refs, ~Authorized(r, ref), ref.kind = "Service"
           PROVE  Worst(S) \in {"RefNotPermitted", "UnsupportedKind", "XBackendDisabled"}
      <3>1. "RefNotPermitted" \in S
        BY <2>4, <2>6, <2>14
      <3>2. /\ reasonSeverity("RefNotPermitted") >= 5
            /\ reasonSeverity("RefNotPermitted") \in 0 .. 7 /\ reasonSeverity(Worst(S)) \in 0 .. 7
            /\ reasonSeverity(Worst(S)) >= reasonSeverity("RefNotPermitted")
        BY <2>8, <2>9, <3>1
      <3>3. reasonSeverity(Worst(S)) >= 5
        BY <3>2
      <3> QED BY <2>9, <3>3
    <2> QED BY <2>3, <2>10, <2>13, <2>14 DEF entry, refs
  <1> QED BY <1>1, BackendInvariant, PTL

\* Some rule of several is the last.
LEMMA LastExists ==
    ASSUME NEW n \in Nat, NEW S \in SUBSET (1 .. n), S # {}
    PROVE  \E j \in S : \A k \in S : k <= j
  <1> DEFINE R == OpToRel(<, Nat)
             after == {n - k : k \in S}
  <1>1. \A m, l \in Nat : <<m, l>> \in R <=> m < l
    BY DEF OpToRel
  <1>2. after \subseteq Nat /\ after # {}
    <2>1. \A k \in S : n - k \in Nat
      OBVIOUS
    <2>2. PICK k \in S : TRUE
      OBVIOUS
    <2> QED BY <2>1, <2>2
  <1> HIDE DEF R
  <1>3. PICK m \in after : \A l \in after : ~(<<l, m>> \in R)
    <2>1. IsWellFoundedOn(R, Nat)
      BY NatLessThanWellFounded DEF R
    <2> HIDE DEF after
    <2> QED BY <1>2, <2>1, WFMin
  <1>4. PICK j \in S : m = n - j
    BY <1>3
  <1>5. ASSUME NEW k \in S PROVE k <= j
    <2> DEFINE l == n - k
    <2>1. l \in after /\ l \in Nat /\ m \in Nat
      BY <1>2, <1>3
    <2>2. ~(l < m)
      <3>1. ~(<<l, m>> \in R)
        BY <1>3, <2>1
      <3> HIDE DEF l
      <3> QED BY <1>1, <2>1, <3>1
    <2> QED BY <1>4, <2>2
  <1> QED BY <1>5

\* If no other Service is claimed for a hostname, the last one claimed is the rule's own.
LEMMA OnlyNameClaims ==
    ASSUME ObjectsOK(cached), cached.routes = api.routes,
           NEW g \in Gateways, DOMAIN pushed[g] = IDs(cached, g),
           NEW id \in IDs(cached, g), KindOf[id[1]] = "TLSRoute", OnlyClaim(g, id),
           ToService(PresentRefs(id))
    PROVE  Claimed(cached, g, HostOf[id[1]]) = {PresentRefs(id)[1].name}
  <1> DEFINE r == id[1]
             i == id[2]
             s == PresentRefs(id)[1].name
             rules(x) == cached.routes[x].spec.rules
             of(x) == {k \in 1 .. Len(rules(x)) : ToService(rules(x)[k])}
  <1>1. /\ r \in Attached(cached, g) /\ i \in 1 .. Len(rules(r))
        /\ PresentRefs(id) = rules(r)[i]
    BY RuleOfRoute DEF PresentRefs
  <1>2. ASSUME NEW x \in Attached(cached, g), KindOf[x] = "TLSRoute", HostOf[x] = HostOf[r],
               NEW k \in of(x)
        PROVE  rules(x)[k][1].name = s
    <2>1. <<x, k>> \in IDs(cached, g)
      BY DEF IDs
    <2>2. <<x, k>>[1] = x /\ <<x, k>>[2] = k
      OBVIOUS
    <2>3. PresentRefs(<<x, k>>) = rules(x)[k] /\ ToService(PresentRefs(<<x, k>>))
      BY <2>2 DEF PresentRefs
    <2> HIDE DEF s, r, rules
    <2> QED BY <1>2, <2>1, <2>2, <2>3 DEF OnlyClaim, s, r
  <1>3. ASSUME NEW x \in Attached(cached, g), KindOf[x] = "TLSRoute", HostOf[x] = HostOf[r]
        PROVE  LastService(rules(x)) \subseteq {s}
    BY <1>2, <1>3 DEF LastService
  <1>4. LastService(rules(r)) # {}
    <2>1. i \in of(r)
      BY <1>1
    <2>2. Len(rules(r)) \in Nat
      <3>1. r \in Routes /\ cached.routes[r].spec \in RouteSpecs[r]
        BY <1>1 DEF Attached, ObjectsOK, RouteObjects
      <3>2. rules(r) \in Seq(Seq(References))
        BY <3>1, ResolutionAssumption
      <3> HIDE DEF rules
      <3> QED BY <3>2
    <2>3. of(r) \in SUBSET (1 .. Len(rules(r)))
      OBVIOUS
    <2> HIDE DEF of
    <2>4. PICK j \in of(r) : \A k \in of(r) : k <= j
      BY <2>1, <2>2, <2>3, LastExists
    <2> QED BY <2>4 DEF LastService, of
  <1> HIDE DEF r, i, s, rules, of
  <1>5. Claimed(cached, g, HostOf[r]) \subseteq {s}
    BY <1>3 DEF Claimed, rules
  <1>6. LastService(rules(r)) = {s} /\ KindOf[r] = "TLSRoute"
    BY <1>1, <1>3, <1>4 DEF r
  <1>7. {s} \subseteq Claimed(cached, g, HostOf[r])
    BY <1>1, <1>6 DEF Claimed, rules
  <1> QED BY <1>5, <1>7 DEF r, s

\* A rule for an XBackend keeps the verification of its origin.
LEMMA XBackendOrigin ==
    ASSUME NEW c, NEW r, NEW refs, refs # <<>>, refs[1].kind = "XBackend",
           KindOf[r] = "TLSRoute"
    PROVE  /\ Built(c, r, refs)["noTLSVerify"] = "unset"
           /\ Service(c, r, refs)[1] = "https" => Built(c, r, refs)["matchSNIToHost"] = "false"
  <1> DEFINE x == c.xbs[refs[1].name].spec
             t == Target(r, refs[1])
  <1>1. t.kind = "XBackend" /\ t.name = refs[1].name /\ t.routeKind = "TLSRoute"
    BY DEF Target
  <1> HIDE DEF t
  <1>2. CASE Reason(c, t) # "none"
    <2>1. Built(c, r, refs) = NoOrigin
      BY <1>2 DEF Built, ruleOrigin, t
    <2>2. Service(c, r, refs)[1] = "status"
      BY <1>2 DEF Service, ErrorStatus, t
    <2> QED BY <2>1, <2>2 DEF NoOrigin, OriginFields
  <1>3. CASE Reason(c, t) = "none"
    <2>1. translateReason(x, "TLSRoute") = "none"
      BY <1>1, <1>3 DEF Reason, XBackendReason
    <2>2. Built(c, r, refs) = translateOrigin(x, "TLSRoute")
          /\ Service(c, r, refs)[1] = schemeFor(x, "TLSRoute")
      BY <1>3 DEF Built, Service, ruleOrigin, t
    <2> HIDE DEF x
    <2>3. translateOrigin(x, "TLSRoute")["noTLSVerify"] = "unset"
      BY DEF translateOrigin, OriginFields
    <2>4. ASSUME schemeFor(x, "TLSRoute") = "https" PROVE x.mode = "ServerOnly"
      <3>1. usesTLS(x)
        BY <2>4 DEF schemeFor
      <3>2. tlsReason(x) = "none"
        BY <2>1 DEF translateReason
      <3> QED BY <3>1, <3>2 DEF usesTLS, tlsReason
    <2>5. x.mode = "ServerOnly" =>
             translateOrigin(x, "TLSRoute")["matchSNIToHost"] = "false"
      BY DEF translateOrigin, OriginFields
    <2> QED BY <2>2, <2>3, <2>4, <2>5
  <1> QED BY <1>2, <1>3

\* A rule that is pushed at rest: built from what there is now.
RestingRule(g, id) ==
    /\ g \in Gateways /\ ObjectsOK(cached)
    /\ cached.routes = api.routes /\ cached.tls = api.tls
    /\ DOMAIN pushed[g] = IDs(cached, g) /\ id \in IDs(cached, g)
    /\ pushed[g][id].service = Service(cached, id[1], PresentRefs(id))
    /\ pushed[g][id].origin \in Origins(cached, g, id[1], PresentRefs(id))

\* At rest every rule is.
LEMMA RulesAtRest ==
    ASSUME BackendInv, Quiet, NEW g \in LiveGateways, NEW id \in DOMAIN pushed[g]
    PROVE  RestingRule(g, id)
  <1>1. /\ g \in Gateways /\ ObjectsOK(cached)
        /\ cached.routes = api.routes /\ cached.tls = api.tls
        /\ RulesOf(cached, g, pushed[g])
    BY RestIsFresh
  <1>2. id \in IDs(cached, g) /\ Made(cached, g, id, pushed[g][id])
    BY <1>1 DEF RulesOf
  <1> QED BY <1>1, <1>2 DEF RulesOf, Made, RestingRule, PresentRefs

\* TLSOriginIsOwn: at rest a TLS rule for an XBackend verifies its origin as that asks.
THEOREM TLSOriginsAreOwn == Spec => []TLSOriginIsOwn
  <1>1. BackendInv => TLSOriginIsOwn
    <2> SUFFICES ASSUME BackendInv, Quiet, NEW g \in LiveGateways, NEW id \in DOMAIN pushed[g],
                        KindOf[id[1]] = "TLSRoute", PresentRefs(id) # <<>>,
                        PresentRefs(id)[1].kind = "XBackend"
                 PROVE  /\ pushed[g][id].origin["noTLSVerify"] = "unset"
                        /\ pushed[g][id].service[1] = "https" =>
                              pushed[g][id].origin["matchSNIToHost"] = "false"
      BY DEF TLSOriginIsOwn
    <2> DEFINE r == id[1]
               refs == PresentRefs(id)
    <2>1. RestingRule(g, id)
      BY RulesAtRest
    <2>2. pushed[g][id].origin = Built(cached, r, refs)
      BY <2>1 DEF RestingRule, Origins
    <2> HIDE DEF r, refs
    <2>3. /\ Built(cached, r, refs)["noTLSVerify"] = "unset"
          /\ Service(cached, r, refs)[1] = "https" =>
                Built(cached, r, refs)["matchSNIToHost"] = "false"
      BY XBackendOrigin DEF r, refs
    <2> QED BY <2>1, <2>2, <2>3 DEF RestingRule, r, refs
  <1> QED BY <1>1, BackendInvariant, PTL

\* ServiceTLSIsCurrent: at rest a TLS rule for a Service that alone claims its hostname has
\* the settings of that Service's present BackendTLSPolicies.
THEOREM ServiceTLSFollowsPolicies == Spec => []ServiceTLSIsCurrent
  <1>1. BackendInv => ServiceTLSIsCurrent
    <2> SUFFICES ASSUME BackendInv, Quiet, NEW g \in LiveGateways, NEW id \in DOMAIN pushed[g],
                        KindOf[id[1]] = "TLSRoute", ToService(PresentRefs(id)),
                        OnlyClaim(g, id)
                 PROVE  OwnPolicy(g, id)
      BY DEF ServiceTLSIsCurrent
    <2> DEFINE r == id[1]
               refs == PresentRefs(id)
               s == refs[1].name
               policies == {p \in api.tls : TargetOf[p] = s}
               origin == pushed[g][id].origin
    <2>1. RestingRule(g, id)
      BY RulesAtRest
    <2>2. Claimed(cached, g, HostOf[r]) = {s}
      BY <2>1, OnlyNameClaims DEF RestingRule
    <2>3. origin \in Configs(cached, s)
      BY <2>1, <2>2 DEF RestingRule, Origins, ToService
    <2>4. origin \in IF policies = {} THEN {Setting({"noTLSVerify"}, "true")}
                     ELSE {Setting({"originServerName"}, p) : p \in policies}
      BY <2>1, <2>3 DEF RestingRule, Configs
    <2> HIDE DEF origin, policies
    <2>5. IF policies = {} THEN origin["noTLSVerify"] = "true"
          ELSE origin["noTLSVerify"] = "unset" /\ origin["originServerName"] \in policies
      BY <2>4 DEF Setting, OriginFields
    <2> QED BY <2>5 DEF OwnPolicy, origin, policies
  <1> QED BY <1>1, BackendInvariant, PTL
=============================================================================
