-------------------------- MODULE TunnelConfig_proofs --------------------------
(***************************************************************************)
(* Proofs about TunnelConfig, for any Gateways, configurations, classes    *)
(* and disturbances: what a Gateway at rest has deployed and what its      *)
(* class reports.                                                          *)
(*                                                                         *)
(* A pass reads the Gateway, the class and two configurations at four      *)
(* moments.  What makes that safe is that each watch enqueues whoever has  *)
(* read the object that changes: either the Gateway is queued, or what the *)
(* pass has read so far is what the informers still hold (PassIsFresh).    *)
(* So a Gateway that is neither queued nor in work has a Deployment built  *)
(* from the informers' copies (DeploymentIsFresh), and if no Gateway is,   *)
(* the class says what those copies imply (ClassIsFresh).                  *)
(***************************************************************************)
EXTENDS TunnelConfig, TLAPS

ClassObjects ==
    [exists : BOOLEAN, ours : BOOLEAN, ref : ClassRefs \cup {NoRef}, gen : Nat, version : Nat,
     reason : {"Pending", "Accepted", "InvalidParameters"}, observed : Nat]
GatewayObjects == [gen : Nat, spec : GatewaySpecs \cup {NoGateway.spec}]

\* The objects of the API server or of the informers.
Objects(o) ==
    /\ o = [class |-> o.class, gws |-> o.gws, cfgs |-> o.cfgs, deps |-> o.deps]
    /\ o.class \in ClassObjects /\ o.class.observed <= o.class.gen
    /\ o.gws \in [Gateways -> GatewayObjects]
    /\ \A g \in Gateways : o.gws[g].gen > 0 => o.gws[g].spec \in GatewaySpecs
    /\ o.cfgs \in [Configs -> Configurations]
    /\ o.deps = [g \in Gateways |-> o.deps[g]]
    /\ \A g \in Gateways :
          /\ o.deps[g] = [version |-> o.deps[g].version, object |-> o.deps[g].object]
          /\ o.deps[g].version \in Nat
          /\ o.deps[g].version = 0 => o.deps[g].object = NoTemplate
          /\ o.deps[g].version > 0 =>
                DOMAIN o.deps[g].object.settings = Settings /\ Admitted(o.deps[g].object)

Worker ==
    /\ w = [pc |-> w.pc, gw |-> w.gw, gateway |-> w.gateway, class |-> w.class,
            merged |-> w.merged, ok |-> w.ok]
    /\ w.pc \in {"idle", "class", "default", "override", "patch", "deploy", "rest"}
    /\ w.ok \in BOOLEAN /\ w.gw \subseteq Gateways /\ w.class \in ClassObjects
    /\ w.class.observed <= w.class.gen
    /\ w.pc = "idle" => w = Idle

Types ==
    /\ Objects(api) /\ Objects(cached) /\ Worker /\ queue \subseteq Gateways
    /\ used \in [count : Nat, unread : BOOLEAN]

\* A copy is not ahead of the object; of the same version it is the same, and a class of the
\* same generation has the same specification.
SameClassSpec(c, d) == c.exists = d.exists /\ c.ours = d.ours /\ c.ref = d.ref
CopiesAreOld ==
    /\ \A c \in {NoClass, cached.class, w.class} :
          /\ c.gen <= api.class.gen /\ c.version <= api.class.version
          /\ c.gen = api.class.gen => SameClassSpec(c, api.class)
          /\ c.version = api.class.version => c = api.class
    /\ \A g \in Gateways :
          /\ cached.deps[g].version <= api.deps[g].version
          /\ cached.deps[g].version = api.deps[g].version => cached.deps[g] = api.deps[g]
          /\ cached.gws[g].gen > 0 => api.gws[g].gen > 0

\* What the objects o imply for a Gateway: its default, its override and their sum.
ConfigOf(o, c) == IF c \in Configs /\ o.cfgs[c].exists THEN o.cfgs[c].spec ELSE Nothing
DefaultOf(o) ==
    IF o.class.ref.kind = "CloudflareTunnelConfig"
    THEN ConfigOf(o, <<o.class.ref.ns, o.class.ref.name>>) ELSE Nothing
OverrideOf(o, g) ==
    LET ref == o.gws[g].spec.ref IN
    IF ref.kind = "CloudflareTunnelConfig"
    THEN ConfigOf(o, <<NamespaceOf[g], ref.name>>) ELSE Nothing
IsSum(m, default, override) ==
    /\ DOMAIN m = DOMAIN default \cup DOMAIN override
    /\ \A f \in DOMAIN m : m[f] = IF f \in DOMAIN override THEN override[f] ELSE default[f]
\* Without a configuration that could not be read both are in the sum.
Sums(o, g, m) ==
    /\ \E default \in {Nothing, DefaultOf(o)}, override \in {Nothing, OverrideOf(o, g)} :
          IsSum(m, default, override)
    /\ ~used.unread => IsSum(m, DefaultOf(o), OverrideOf(o, g))
Resolves(o) ==
    o.class.ref.kind = "CloudflareTunnelConfig" =>
        /\ <<o.class.ref.ns, o.class.ref.name>> \in Configs
        /\ o.cfgs[<<o.class.ref.ns, o.class.ref.name>>].exists

\* A pass has read nothing that the informers hold otherwise now, unless its Gateway is
\* queued again.
Reads(g) ==
    /\ w.gateway = cached.gws[g]
    /\ w.pc # "class" => w.class.gen = cached.class.gen /\ SameClassSpec(w.class, cached.class)
    /\ w.pc \in {"class", "default"} => w.merged = Nothing /\ w.ok
    /\ w.pc = "override" =>
          /\ w.merged \in {Nothing, DefaultOf(cached)}
          /\ ~used.unread => w.merged = DefaultOf(cached) /\ (w.ok <=> Resolves(cached))
    /\ w.pc = "patch" /\ ~used.unread => (w.ok <=> Resolves(cached))
    /\ w.pc \in {"patch", "deploy"} => Sums(cached, g, w.merged)
PassFresh(g) ==
    w.pc # "idle" /\ w.gw = {g} =>
        /\ cached.gws[g].gen > 0
        /\ w.pc # "class" => w.class.exists /\ w.class.ours
        /\ g \notin queue => Reads(g)
PassIsFresh == \A g \in Gateways : PassFresh(g)
InWork == w.pc # "idle" => \E g \in Gateways : w.gw = {g}

\* Nothing is left to do for a Gateway but the rest of its pass.
Served(g) == g \notin queue /\ (w.gw = {g} => w.pc = "rest")
BuiltFrom(object, gw, m) ==
    /\ object.settings = BuildCloudflaredDeployment(gw, m).settings
    /\ object.labels = BuildCloudflaredDeployment(gw, m).labels
    /\ object.podAnnotations = BuildCloudflaredDeployment(gw, m).podAnnotations
DeploymentFresh(g) ==
    Served(g) /\ cached.gws[g].gen > 0 /\ cached.class.exists /\ cached.class.ours =>
        /\ api.deps[g].version > 0
        /\ \E m : Sums(cached, g, m) /\ BuiltFrom(api.deps[g].object, cached.gws[g], m)
DeploymentIsFresh == \A g \in Gateways : DeploymentFresh(g)

Judged ==
    /\ api.class.observed = api.class.gen
    /\ api.class.reason = IF Resolves(cached) THEN "Accepted" ELSE "InvalidParameters"
ClassIsFresh ==
    /\ ~used.unread /\ cached.class.gen = api.class.gen
    /\ cached.class.exists /\ cached.class.ours
    /\ \E g \in Gateways : cached.gws[g].gen > 0
    => \/ \E g \in queue : cached.gws[g].gen > 0
       \/ w.pc \in {"class", "default", "override", "patch"}
       \/ Judged

ConfigInv ==
    Types /\ CopiesAreOld /\ InWork /\ PassIsFresh /\ DeploymentIsFresh /\ ClassIsFresh
-----------------------------------------------------------------------------
(* Types. *)

\* What there is before anything exists is of its type.
LEMMA AbsentTypes ==
    /\ NoClass \in ClassObjects /\ NoGateway \in GatewayObjects
    /\ Idle.pc = "idle" /\ Idle.gw = {} /\ Idle.class = NoClass
  BY DEF NoClass, ClassObjects, NoGateway, GatewayObjects, Idle

\* Disturbances are counted, and a configuration that could not be read is not forgotten.
LEMMA DisturbsTypes ==
    ASSUME used \in [count : Nat, unread : BOOLEAN], NEW kind, Disturbs(kind)
    PROVE  used' \in [count : Nat, unread : BOOLEAN] /\ (used.unread => used'.unread)
  <1>1. (used.unread \/ kind = "unread") \in BOOLEAN /\ used.count + 1 \in Nat
    OBVIOUS
  <1>2. used' = [count |-> used.count + 1, unread |-> used.unread \/ kind = "unread"]
    BY DEF Disturbs
  <1> QED BY <1>1, <1>2

\* A worker that goes on with its pass, or ends it.
Steps == {"class", "default", "override", "patch", "deploy", "rest"}
\* Any of the worker's assignments keeps its type.
LEMMA WorkerTypes ==
    ASSUME Worker
    PROVE  /\ w' = Idle => Worker'
           /\ \A pc \in Steps :
                 /\ w' = [w EXCEPT !.pc = pc] => Worker'
                 /\ w' = [w EXCEPT !.pc = pc, !.ok = FALSE] => Worker'
                 /\ \A m : w' = [w EXCEPT !.pc = pc, !.merged = m] => Worker'
                 /\ \A c \in ClassObjects :
                       c.observed <= c.gen /\ w' = [w EXCEPT !.pc = pc, !.class = c] => Worker'
  <1>1. w' = Idle => Worker'
    <2>1. Idle.class.observed <= Idle.class.gen /\ Idle.ok \in BOOLEAN
      BY DEF Idle, NoClass
    <2> QED BY <2>1, AbsentTypes DEF Worker, Idle
  <1>2. ASSUME NEW pc \in Steps, w' = [w EXCEPT !.pc = pc] PROVE Worker'
    BY <1>2 DEF Worker, Steps
  <1>3. ASSUME NEW pc \in Steps, w' = [w EXCEPT !.pc = pc, !.ok = FALSE] PROVE Worker'
    BY <1>3 DEF Worker, Steps
  <1>4. ASSUME NEW pc \in Steps, NEW m, w' = [w EXCEPT !.pc = pc, !.merged = m] PROVE Worker'
    BY <1>4 DEF Worker, Steps
  <1>5. ASSUME NEW pc \in Steps, NEW c \in ClassObjects, c.observed <= c.gen,
               w' = [w EXCEPT !.pc = pc, !.class = c]
        PROVE  Worker'
    BY <1>5 DEF Worker, Steps
  <1> QED BY <1>1, <1>2, <1>3, <1>4, <1>5

\* Replacing one object leaves the others as they are.
LEMMA ClassReplaced ==
    ASSUME NEW o, Objects(o), NEW c \in ClassObjects, c.observed <= c.gen
    PROVE  LET n == [o EXCEPT !.class = c] IN
           Objects(n) /\ n.class = c /\ n.gws = o.gws /\ n.cfgs = o.cfgs /\ n.deps = o.deps
  <1> DEFINE n == [o EXCEPT !.class = c]
  <1>1. /\ n = [class |-> c, gws |-> o.gws, cfgs |-> o.cfgs, deps |-> o.deps]
        /\ n.class = c /\ n.gws = o.gws /\ n.cfgs = o.cfgs /\ n.deps = o.deps
    BY DEF Objects
  <1> HIDE DEF n
  <1>2. Objects(n)
    BY <1>1 DEF Objects
  <1> QED BY <1>1, <1>2 DEF n

\* One Gateway is replaced.
LEMMA GatewayReplaced ==
    ASSUME NEW o, Objects(o), NEW g \in Gateways, NEW x \in GatewayObjects,
           x.gen > 0 => x.spec \in GatewaySpecs
    PROVE  LET n == [o EXCEPT !.gws[g] = x] IN
           /\ Objects(n) /\ n.class = o.class /\ n.cfgs = o.cfgs /\ n.deps = o.deps
           /\ n.gws[g] = x /\ \A h \in Gateways \ {g} : n.gws[h] = o.gws[h]
  <1> DEFINE n == [o EXCEPT !.gws[g] = x]
             gws == [o.gws EXCEPT ![g] = x]
  <1>1. /\ n = [class |-> o.class, gws |-> gws, cfgs |-> o.cfgs, deps |-> o.deps]
        /\ n.class = o.class /\ n.gws = gws /\ n.cfgs = o.cfgs /\ n.deps = o.deps
    BY DEF Objects
  <1>2. /\ gws \in [Gateways -> GatewayObjects]
        /\ gws[g] = x /\ \A h \in Gateways \ {g} : gws[h] = o.gws[h]
    BY DEF Objects
  <1> HIDE DEF n, gws
  <1>3. Objects(n)
    BY <1>1, <1>2 DEF Objects
  <1> QED BY <1>1, <1>2, <1>3 DEF n

\* One configuration is replaced.
LEMMA ConfigReplaced ==
    ASSUME NEW o, Objects(o), NEW c \in Configs, NEW x \in Configurations
    PROVE  LET n == [o EXCEPT !.cfgs[c] = x] IN
           Objects(n) /\ n.class = o.class /\ n.gws = o.gws /\ n.deps = o.deps
  <1> DEFINE n == [o EXCEPT !.cfgs[c] = x]
             cfgs == [o.cfgs EXCEPT ![c] = x]
  <1>1. /\ n = [class |-> o.class, gws |-> o.gws, cfgs |-> cfgs, deps |-> o.deps]
        /\ n.class = o.class /\ n.gws = o.gws /\ n.cfgs = cfgs /\ n.deps = o.deps
    BY DEF Objects
  <1>2. cfgs \in [Configs -> Configurations]
    BY DEF Objects
  <1> HIDE DEF n, cfgs
  <1>3. Objects(n)
    BY <1>1, <1>2 DEF Objects
  <1> QED BY <1>1, <1>2, <1>3 DEF n

\* One Deployment is replaced.
LEMMA DeploymentReplaced ==
    ASSUME NEW o, Objects(o), NEW g \in Gateways, NEW x,
           x = [version |-> x.version, object |-> x.object], x.version \in Nat,
           x.version = 0 => x.object = NoTemplate,
           x.version > 0 => DOMAIN x.object.settings = Settings /\ Admitted(x.object)
    PROVE  LET n == [o EXCEPT !.deps[g] = x] IN
           /\ Objects(n) /\ n.class = o.class /\ n.gws = o.gws /\ n.cfgs = o.cfgs
           /\ n.deps[g] = x /\ \A h \in Gateways \ {g} : n.deps[h] = o.deps[h]
  <1> DEFINE n == [o EXCEPT !.deps[g] = x]
             deps == [o.deps EXCEPT ![g] = x]
  <1>1. /\ n = [class |-> o.class, gws |-> o.gws, cfgs |-> o.cfgs, deps |-> deps]
        /\ n.class = o.class /\ n.gws = o.gws /\ n.cfgs = o.cfgs /\ n.deps = deps
    <2>1. o = [class |-> o.class, gws |-> o.gws, cfgs |-> o.cfgs, deps |-> o.deps]
      BY DEF Objects
    <2> QED BY <2>1
  <1>2. /\ deps = [h \in Gateways |-> deps[h]]
        /\ deps[g] = x /\ \A h \in Gateways \ {g} : deps[h] = o.deps[h]
    <2>1. DOMAIN o.deps = Gateways
      <3>1. o.deps = [h \in Gateways |-> o.deps[h]]
        BY DEF Objects
      <3>2. DOMAIN [h \in Gateways |-> o.deps[h]] = Gateways
        OBVIOUS
      <3> QED BY <3>1, <3>2
    <2> QED BY <2>1
  <1> HIDE DEF n, deps
  <1>3. Objects(n)
    BY <1>1, <1>2 DEF Objects
  <1> QED BY <1>1, <1>2, <1>3 DEF n
-----------------------------------------------------------------------------
(* What depends on the informers' copies keeps its value while they do. *)

\* What the copies say to a Gateway is not touched, or it is queued.
Keeps(g) ==
    /\ cached'.gws[g] = cached.gws[g] /\ cached'.cfgs = cached.cfgs
    /\ cached'.class.gen = cached.class.gen /\ SameClassSpec(cached'.class, cached.class)
    /\ used.unread => used'.unread

\* The default, the override and their sum are the same.
LEMMA SumsKept ==
    ASSUME NEW g, Keeps(g)
    PROVE  /\ DefaultOf(cached)' = DefaultOf(cached) /\ (Resolves(cached)' <=> Resolves(cached))
           /\ \A m : Sums(cached, g, m) => Sums(cached, g, m)'
  <1>1. DefaultOf(cached)' = DefaultOf(cached) /\ (Resolves(cached)' <=> Resolves(cached))
    BY DEF Keeps, SameClassSpec, DefaultOf, ConfigOf, Resolves
  <1>2. OverrideOf(cached, g)' = OverrideOf(cached, g)
    BY DEF Keeps, OverrideOf, ConfigOf
  <1>3. \A m : Sums(cached, g, m) => Sums(cached, g, m)'
    <2> SUFFICES ASSUME NEW m, Sums(cached, g, m) PROVE Sums(cached, g, m)'
      OBVIOUS
    <2>1. \A d, o : IsSum(m, d, o)' <=> IsSum(m, d, o)
      BY DEF IsSum
    <2> QED BY <1>1, <1>2, <2>1 DEF Sums, Keeps
  <1> QED BY <1>1, <1>3

\* So is what a pass has read.
LEMMA PassKept ==
    ASSUME NEW g, PassFresh(g), w' = w, Keeps(g), queue \subseteq queue'
    PROVE  PassFresh(g)'
  <1>1. Reads(g) => Reads(g)'
    BY SumsKept DEF Reads, Keeps, SameClassSpec
  <1> QED BY <1>1 DEF PassFresh, Keeps

\* So is what the Deployment was built from.
LEMMA DeploymentKept ==
    ASSUME NEW g, DeploymentFresh(g), Served(g)' => Served(g), Keeps(g),
           api'.deps[g] = api.deps[g]
    PROVE  DeploymentFresh(g)'
  BY SumsKept DEF DeploymentFresh, Keeps, SameClassSpec, BuiltFrom

\* A queued Gateway is no concern.
LEMMA QueuedIsFresh ==
    ASSUME NEW g, g \in queue', w' = w, PassFresh(g),
           cached.gws[g].gen > 0 => cached'.gws[g].gen > 0
    PROVE  PassFresh(g)' /\ DeploymentFresh(g)'
  BY DEF PassFresh, DeploymentFresh, Served
-----------------------------------------------------------------------------
(* The initial state. *)

\* Nothing exists but configurations, and no informer differs.
LEMMA ConfigInit == Init => ConfigInv
  <1> SUFFICES ASSUME Init PROVE ConfigInv
    OBVIOUS
  <1>1. w = Idle /\ queue = {} /\ cached = api /\ used = [count |-> 0, unread |-> FALSE]
    BY DEF Init
  <1>2. api = [class |-> NoClass, gws |-> [g \in Gateways |-> NoGateway],
               cfgs |-> InitialConfigs, deps |-> [g \in Gateways |-> NoDeployment]]
    BY DEF Init
  <1>3. /\ api.class = NoClass /\ api.cfgs = InitialConfigs
        /\ api.gws = [g \in Gateways |-> NoGateway]
        /\ api.deps = [g \in Gateways |-> NoDeployment]
    BY <1>2
  <1>4. Objects(api)
    <2>1. NoClass.observed <= NoClass.gen
      BY DEF NoClass
    <2>2. NoGateway.gen = 0
      BY DEF NoGateway
    <2>3. /\ NoDeployment = [version |-> NoDeployment.version, object |-> NoDeployment.object]
          /\ NoDeployment.version = 0 /\ NoDeployment.object = NoTemplate
      BY DEF NoDeployment
    <2>4. api.gws \in [Gateways -> GatewayObjects] /\ \A g \in Gateways : api.gws[g].gen = 0
      BY <1>3, <2>2, AbsentTypes
    <2>5. \A g \in Gateways : api.deps[g] = NoDeployment
      BY <1>3
    <2>6. api.deps = [g \in Gateways |-> api.deps[g]]
      BY <1>3
    <2>7. api = [class |-> api.class, gws |-> api.gws, cfgs |-> api.cfgs, deps |-> api.deps]
      BY <1>2
    <2>8. \A g \in Gateways :
             /\ api.deps[g] = [version |-> api.deps[g].version, object |-> api.deps[g].object]
             /\ api.deps[g].version = 0 /\ api.deps[g].object = NoTemplate
      BY <2>3, <2>5
    <2>9. /\ api.class \in ClassObjects /\ api.class.observed <= api.class.gen
          /\ api.cfgs \in [Configs -> Configurations]
      BY <1>3, <2>1, AbsentTypes, ConfigAssumption
    <2> QED
      BY <2>4, <2>6, <2>7, <2>8, <2>9 DEF Objects
  <1>5. Types
    <2>1. Worker
      BY <1>1, AbsentTypes DEF Worker, Idle, NoClass
    <2>2. used \in [count : Nat, unread : BOOLEAN]
      BY <1>1
    <2> QED BY <1>1, <1>4, <2>1, <2>2 DEF Types
  <1>6. CopiesAreOld
    BY <1>1, <1>3, <1>4, AbsentTypes DEF CopiesAreOld, Objects, ClassObjects, SameClassSpec
  <1>7. InWork /\ PassIsFresh
    BY <1>1, AbsentTypes DEF InWork, PassIsFresh, PassFresh
  <1>8. DeploymentIsFresh /\ ClassIsFresh
    BY <1>1, <1>3 DEF DeploymentIsFresh, DeploymentFresh, ClassIsFresh, NoClass
  <1> QED BY <1>5, <1>6, <1>7, <1>8 DEF ConfigInv
-----------------------------------------------------------------------------
(* Users.  They leave the informers' copies and the pass alone, so only the class's status  *)
(* could be wrong, and not of a generation that no informer has.                            *)

\* A change of an object that no informer has seen disturbs nobody.
LEMMA ApiMoves ==
    ASSUME ConfigInv, Types', CopiesAreOld', UNCHANGED <<cached, queue, w>>,
           api'.deps = api.deps, used.unread => used'.unread,
           api'.class = api.class \/ cached.class.gen # api'.class.gen
    PROVE  ConfigInv'
  <1>1. \A g \in Gateways : Keeps(g)
    BY DEF Keeps, SameClassSpec
  <1>2. PassIsFresh'
    BY <1>1, PassKept DEF ConfigInv, PassIsFresh
  <1>3. DeploymentIsFresh'
    BY <1>1, DeploymentKept DEF ConfigInv, DeploymentIsFresh, Served
  <1>4. InWork'
    BY DEF ConfigInv, InWork
  <1>5. ClassIsFresh'
    <2>1. CASE api'.class = api.class
      <3>1. Resolves(cached)' <=> Resolves(cached)
        BY DEF Resolves
      <3> QED BY <2>1, <3>1 DEF ConfigInv, ClassIsFresh, Judged
    <2>2. CASE cached.class.gen # api'.class.gen
      BY <2>2 DEF ClassIsFresh
    <2> QED BY <2>1, <2>2
  <1> QED BY <1>2, <1>3, <1>4, <1>5 DEF ConfigInv

\* A class that is edited leaves every copy behind.
LEMMA CopiesOfClass ==
    ASSUME CopiesAreOld, Types, NEW c \in ClassObjects, c.gen = api.class.gen + 1,
           c.version = api.class.version + 1, api'.class = c,
           UNCHANGED <<cached, w>>, api'.gws = api.gws, api'.deps = api.deps
    PROVE  CopiesAreOld' /\ cached.class.gen # api'.class.gen
  <1>1. \A d \in {NoClass, cached.class, w.class} :
           /\ d.gen <= api.class.gen /\ d.version <= api.class.version
           /\ d.gen \in Nat /\ d.version \in Nat
    BY AbsentTypes DEF CopiesAreOld, Types, Objects, Worker, ClassObjects
  <1>2. api.class.gen \in Nat /\ api.class.version \in Nat
    BY DEF Types, Objects, ClassObjects
  <1>3. \A d \in {NoClass, cached.class, w.class} :
           /\ d.gen <= c.gen /\ d.gen # c.gen /\ d.version <= c.version /\ d.version # c.version
    BY <1>1, <1>2
  <1> QED BY <1>3 DEF CopiesAreOld

\* Users: CreateGateway, EditGateway, CreateClass, EditClass, EditConfig.
LEMMA UserSafe ==
    ASSUME ConfigInv, UserStep
    PROVE  ConfigInv'
  <1> USE DEF ConfigInv
  <1>1. ASSUME NEW g \in Gateways, CreateGateway(g) \/ EditGateway(g)
        PROVE  ConfigInv'
    <2>1. PICK x \in GatewayObjects :
             x.gen > 0 /\ x.spec \in GatewaySpecs /\ api' = [api EXCEPT !.gws[g] = x]
      <3> DEFINE Object(n, spec) == [gen |-> n, spec |-> spec]
      <3>1. api.gws[g].gen \in Nat
        BY DEF Types, Objects, GatewayObjects
      <3>2. \A n \in Nat, spec \in GatewaySpecs :
               /\ Object(n, spec) \in GatewayObjects
               /\ Object(n, spec).gen = n /\ Object(n, spec).spec = spec
        BY DEF GatewayObjects
      <3>3. \E n \in Nat, spec \in GatewaySpecs :
               n > 0 /\ api' = [api EXCEPT !.gws[g] = Object(n, spec)]
        <4>1. CASE CreateGateway(g)
          <5>1. PICK spec \in GatewaySpecs : api' = [api EXCEPT !.gws[g] = Object(1, spec)]
            BY <4>1 DEF CreateGateway
          <5>2. 1 \in Nat /\ 1 > 0
            OBVIOUS
          <5> HIDE DEF Object
          <5> QED BY <5>1, <5>2
        <4>2. CASE EditGateway(g)
          <5>1. api.gws[g].gen + 1 \in Nat /\ api.gws[g].gen + 1 > 0
            BY <3>1
          <5>2. PICK spec \in GatewaySpecs :
                   api' = [api EXCEPT !.gws[g] = Object(api.gws[g].gen + 1, spec)]
            BY <4>2 DEF EditGateway
          <5> QED BY <5>1, <5>2
        <4> QED BY <1>1, <4>1, <4>2
      <3> HIDE DEF Object
      <3> QED BY <3>2, <3>3
    <2>2. UNCHANGED <<cached, queue, w>>
      BY <1>1 DEF CreateGateway, EditGateway, Edit
    <2>3. used' \in [count : Nat, unread : BOOLEAN] /\ (used.unread => used'.unread)
      BY <1>1, DisturbsTypes DEF CreateGateway, EditGateway, Edit, Types
    <2>4. /\ Objects(api') /\ api'.class = api.class /\ api'.cfgs = api.cfgs /\ api'.deps = api.deps
          /\ api'.gws[g] = x /\ \A h \in Gateways \ {g} : api'.gws[h] = api.gws[h]
      BY <2>1, GatewayReplaced DEF Types
    <2>5. Types'
      BY <2>2, <2>3, <2>4 DEF Types, Worker, Objects
    <2>6. CopiesAreOld'
      BY <2>1, <2>2, <2>4 DEF CopiesAreOld
    <2> QED BY <2>2, <2>3, <2>4, <2>5, <2>6, ApiMoves
  <1>2. ASSUME CreateClass \/ EditClass PROVE ConfigInv'
    <2>1. PICK c \in ClassObjects :
             /\ c.observed <= c.gen /\ c.gen = api.class.gen + 1
             /\ c.version = api.class.version + 1 /\ api' = [api EXCEPT !.class = c]
      <3>1. /\ api.class.gen \in Nat /\ api.class.version \in Nat /\ api.class.observed \in Nat
            /\ api.class.observed <= api.class.gen + 1
            /\ api.class.reason \in {"Pending", "Accepted", "InvalidParameters"}
            /\ api.class.ours \in BOOLEAN
        BY DEF Types, Objects, ClassObjects
      <3>2. \A exists, ours \in BOOLEAN, ref \in ClassRefs \cup {NoRef} :
               LET c == Class(exists, ours, ref) IN
               /\ c \in ClassObjects /\ c.observed <= c.gen /\ c.gen = api.class.gen + 1
               /\ c.version = api.class.version + 1
        BY <3>1 DEF Class, ClassObjects
      <3>3. \A ref \in ClassRefs :
               LET c == [Class(TRUE, api.class.ours, ref)
                            EXCEPT !.reason = api.class.reason, !.observed = api.class.observed] IN
               /\ c \in ClassObjects /\ c.observed <= c.gen /\ c.gen = api.class.gen + 1
               /\ c.version = api.class.version + 1
        <4> TAKE ref \in ClassRefs
        <4>1. Class(TRUE, api.class.ours, ref) \in ClassObjects
          BY <3>1, <3>2
        <4>2. /\ Class(TRUE, api.class.ours, ref).gen = api.class.gen + 1
              /\ Class(TRUE, api.class.ours, ref).version = api.class.version + 1
          BY DEF Class
        <4> DEFINE b == Class(TRUE, api.class.ours, ref)
                   c == [b EXCEPT !.reason = api.class.reason, !.observed = api.class.observed]
        <4>3. b \in ClassObjects /\ b.gen = api.class.gen + 1 /\ b.version = api.class.version + 1
          BY <4>1, <4>2
        <4> HIDE DEF b
        <4>4. /\ c \in ClassObjects /\ c.observed = api.class.observed /\ c.gen = b.gen
              /\ c.version = b.version
          BY <3>1, <4>3 DEF ClassObjects
        <4> HIDE DEF c
        <4>5. c \in ClassObjects /\ c.observed <= c.gen
          BY <3>1, <4>3, <4>4
        <4> QED BY <4>3, <4>4, <4>5 DEF b, c
      <3>4. CASE CreateClass
        BY <3>2, <3>4 DEF CreateClass
      <3>5. CASE EditClass
        BY <3>2, <3>3, <3>5 DEF EditClass
      <3> QED BY <1>2, <3>4, <3>5
    <2>2. UNCHANGED <<cached, queue, w>>
      BY <1>2 DEF CreateClass, EditClass, Edit
    <2>3. used' \in [count : Nat, unread : BOOLEAN] /\ (used.unread => used'.unread)
      BY <1>2, DisturbsTypes DEF CreateClass, EditClass, Edit, Types
    <2>4. /\ Objects(api') /\ api'.class = c /\ api'.cfgs = api.cfgs /\ api'.deps = api.deps
          /\ api'.gws = api.gws
      BY <2>1, ClassReplaced DEF Types
    <2>5. Types'
      BY <2>2, <2>3, <2>4 DEF Types, Worker, Objects
    <2>6. CopiesAreOld' /\ cached.class.gen # api'.class.gen
      BY <2>1, <2>2, <2>4, CopiesOfClass
    <2> QED BY <2>2, <2>3, <2>4, <2>5, <2>6, ApiMoves
  <1>3. ASSUME NEW c \in Configs, EditConfig(c) PROVE ConfigInv'
    <2>1. PICK x \in Configurations : api' = [api EXCEPT !.cfgs[c] = x]
      BY <1>3 DEF EditConfig
    <2>2. UNCHANGED <<cached, queue, w>>
      BY <1>3 DEF EditConfig, Edit
    <2>3. used' \in [count : Nat, unread : BOOLEAN] /\ (used.unread => used'.unread)
      BY <1>3, DisturbsTypes DEF EditConfig, Edit, Types
    <2>4. Objects(api') /\ api'.class = api.class /\ api'.gws = api.gws /\ api'.deps = api.deps
      BY <2>1, ConfigReplaced DEF Types
    <2>5. Types'
      BY <2>2, <2>3, <2>4 DEF Types, Worker, Objects
    <2>6. CopiesAreOld'
      BY <2>2, <2>4 DEF CopiesAreOld
    <2> QED BY <2>2, <2>3, <2>4, <2>5, <2>6, ApiMoves
  <1> QED BY <1>1, <1>2, <1>3 DEF UserStep
-----------------------------------------------------------------------------
(* Watches.  Whoever has read what changes is queued. *)

\* What a new copy says to a Gateway it said before, or the Gateway is queued, or there is
\* none.
Notified(g) ==
    \/ Keeps(g)
    \/ g \in queue' /\ (cached.gws[g].gen > 0 => cached'.gws[g].gen > 0)
    \/ cached.gws[g].gen = 0 /\ cached'.gws[g].gen = 0

\* A new copy disturbs nobody if whoever may have read the old one is queued.
LEMMA SyncMoves ==
    ASSUME ConfigInv, Types', CopiesAreOld', UNCHANGED <<api, w>>, queue \subseteq queue',
           used.unread => used'.unread, ClassIsFresh', \A g \in Gateways : Notified(g)
    PROVE  ConfigInv'
  <1> USE DEF ConfigInv
  <1>1. ASSUME NEW g \in Gateways PROVE PassFresh(g)' /\ DeploymentFresh(g)'
    <2>0. PassFresh(g) /\ DeploymentFresh(g) /\ w' = w
      BY DEF PassIsFresh, DeploymentIsFresh
    <2>1. CASE Keeps(g)
      BY <2>0, <2>1, PassKept, DeploymentKept DEF Served
    <2>2. CASE g \in queue' /\ (cached.gws[g].gen > 0 => cached'.gws[g].gen > 0)
      BY <2>0, <2>2, QueuedIsFresh
    <2>3. CASE cached.gws[g].gen = 0 /\ cached'.gws[g].gen = 0
      <3>1. ~(cached'.gws[g].gen > 0) /\ ~(cached.gws[g].gen > 0)
        BY <2>3
      <3> QED BY <2>0, <3>1 DEF PassFresh, DeploymentFresh
    <2> QED BY <2>1, <2>2, <2>3 DEF Notified
  <1>2. InWork'
    BY DEF InWork
  <1> QED BY <1>1, <1>2 DEF PassIsFresh, DeploymentIsFresh

\* Watches: SyncClass, SyncGateway, SyncConfig, SyncDeployment.
LEMMA SyncSafe ==
    ASSUME ConfigInv, Sync
    PROVE  ConfigInv'
  <1> USE DEF ConfigInv
  <1>1. ASSUME SyncClass PROVE ConfigInv'
    <2>1. /\ cached' = [cached EXCEPT !.class = api.class] /\ UNCHANGED <<api, w, used>>
          /\ queue \subseteq queue'
          /\ cached.class.gen # api.class.gen =>
                \A g \in Gateways : cached.gws[g].gen > 0 => g \in queue'
          /\ queue' \subseteq queue \cup Gateways
      BY <1>1 DEF SyncClass
    <2>2. /\ Objects(cached') /\ cached'.class = api.class /\ cached'.gws = cached.gws
          /\ cached'.cfgs = cached.cfgs /\ cached'.deps = cached.deps
      <3>1. api.class \in ClassObjects /\ api.class.observed <= api.class.gen
        BY DEF Types, Objects
      <3> QED BY <2>1, <3>1, ClassReplaced DEF Types
    <2>3. Types'
      BY <2>1, <2>2 DEF Types, Worker, Objects
    <2>4. CopiesAreOld'
      BY <2>1, <2>2 DEF CopiesAreOld, SameClassSpec, Types, Objects, ClassObjects
    <2>5. CASE cached.class.gen # api.class.gen
      <3>1. ASSUME NEW g \in Gateways PROVE Notified(g)
        <4>1. cached.gws[g].gen \in Nat
          BY DEF Types, Objects, GatewayObjects
        <4> QED BY <2>1, <2>2, <2>5, <4>1 DEF Notified
      <3>2. ClassIsFresh'
        BY <2>1, <2>2, <2>5 DEF ClassIsFresh
      <3> QED BY <2>1, <2>3, <2>4, <3>1, <3>2, SyncMoves
    <2>6. CASE cached.class.gen = api.class.gen
      <3>1. SameClassSpec(cached'.class, cached.class)
        BY <2>2, <2>6 DEF CopiesAreOld, SameClassSpec
      <3>2. \A g \in Gateways : Keeps(g)
        BY <2>1, <2>2, <2>6, <3>1 DEF Keeps
      <3>3. Resolves(cached)' <=> Resolves(cached)
        BY <2>2, <3>1 DEF Resolves, SameClassSpec
      <3>4. ClassIsFresh'
        BY <2>1, <2>2, <2>6, <3>1, <3>3 DEF ClassIsFresh, Judged, SameClassSpec
      <3> QED BY <2>1, <2>3, <2>4, <3>2, <3>4, SyncMoves DEF Notified
    <2> QED BY <2>5, <2>6
  <1>2. ASSUME NEW g \in Gateways, SyncGateway(g) PROVE ConfigInv'
    <2>1. /\ cached' = [cached EXCEPT !.gws[g] = api.gws[g]] /\ UNCHANGED <<api, w, used>>
          /\ queue' = queue \cup {g}
      BY <1>2 DEF SyncGateway
    <2>2. /\ Objects(cached') /\ cached'.class = cached.class /\ cached'.cfgs = cached.cfgs
          /\ cached'.deps = cached.deps /\ cached'.gws[g] = api.gws[g]
          /\ \A h \in Gateways \ {g} : cached'.gws[h] = cached.gws[h]
      <3>1. /\ api.gws[g] \in GatewayObjects
            /\ api.gws[g].gen > 0 => api.gws[g].spec \in GatewaySpecs
        BY DEF Types, Objects
      <3> QED BY <2>1, <3>1, GatewayReplaced DEF Types
    <2>3. Types'
      BY <2>1, <2>2 DEF Types, Worker, Objects
    <2>4. CopiesAreOld'
      BY <2>1, <2>2 DEF CopiesAreOld
    <2>5. \A h \in Gateways : Notified(h)
      BY <2>1, <2>2 DEF Notified, Keeps, SameClassSpec, CopiesAreOld
    <2>6. ClassIsFresh'
      <3>1. Resolves(cached)' <=> Resolves(cached)
        BY <2>2 DEF Resolves
      <3> QED BY <2>1, <2>2, <3>1 DEF ClassIsFresh, Judged, CopiesAreOld, Types
    <2> QED BY <2>1, <2>3, <2>4, <2>5, <2>6, SyncMoves
  <1>3. ASSUME NEW c \in Configs, SyncConfig(c) PROVE ConfigInv'
    <2>1. /\ cached' = [cached EXCEPT !.cfgs[c] = api.cfgs[c]] /\ UNCHANGED <<api, w, used>>
          /\ queue' = queue \cup {g \in Gateways : cached.gws[g].gen > 0}
      BY <1>3 DEF SyncConfig, allGatewaysRequests
    <2>2. /\ Objects(cached') /\ cached'.class = cached.class /\ cached'.gws = cached.gws
          /\ cached'.deps = cached.deps
      <3>1. api.cfgs[c] \in Configurations
        BY DEF Types, Objects
      <3> QED BY <2>1, <3>1, ConfigReplaced DEF Types
    <2>3. Types'
      BY <2>1, <2>2 DEF Types, Worker, Objects
    <2>4. CopiesAreOld'
      BY <2>1, <2>2 DEF CopiesAreOld
    <2>5. ASSUME NEW g \in Gateways PROVE Notified(g)
      <3>1. cached.gws[g].gen \in Nat
        BY DEF Types, Objects, GatewayObjects
      <3> QED BY <2>1, <2>2, <3>1 DEF Notified
    <2>6. ClassIsFresh'
      BY <2>1, <2>2 DEF ClassIsFresh
    <2> QED BY <2>1, <2>3, <2>4, <2>5, <2>6, SyncMoves
  <1>4. ASSUME NEW g \in Gateways, SyncDeployment(g) PROVE ConfigInv'
    <2>1. /\ cached' = [cached EXCEPT !.deps[g] = api.deps[g]] /\ UNCHANGED <<api, queue, w, used>>
      BY <1>4 DEF SyncDeployment
    <2>2. /\ Objects(cached') /\ cached'.class = cached.class /\ cached'.gws = cached.gws
          /\ cached'.cfgs = cached.cfgs /\ cached'.deps[g] = api.deps[g]
          /\ \A h \in Gateways \ {g} : cached'.deps[h] = cached.deps[h]
      <3> DEFINE x == api.deps[g]
      <3>1. /\ x = [version |-> x.version, object |-> x.object] /\ x.version \in Nat
            /\ x.version = 0 => x.object = NoTemplate
            /\ x.version > 0 => DOMAIN x.object.settings = Settings /\ Admitted(x.object)
        BY DEF Types, Objects
      <3>2. cached' = [cached EXCEPT !.deps[g] = x]
        BY <2>1
      <3> HIDE DEF x
      <3>3. /\ Objects(cached') /\ cached'.class = cached.class /\ cached'.gws = cached.gws
            /\ cached'.cfgs = cached.cfgs /\ cached'.deps[g] = x
            /\ \A h \in Gateways \ {g} : cached'.deps[h] = cached.deps[h]
        BY <3>1, <3>2, DeploymentReplaced DEF Types
      <3> QED BY <3>3 DEF x
    <2>3. Types'
      BY <2>1, <2>2 DEF Types, Worker, Objects
    <2>4. CopiesAreOld'
      <3>1. api.deps[g].version \in Nat
        BY DEF Types, Objects
      <3>2. api.deps[g].version <= api.deps[g].version
        BY <3>1
      <3>3. \A h \in Gateways :
               /\ cached'.deps[h].version <= api.deps[h].version
               /\ cached'.deps[h].version = api.deps[h].version => cached'.deps[h] = api.deps[h]
        BY <2>2, <3>2 DEF CopiesAreOld
      <3> QED BY <2>1, <2>2, <3>3 DEF CopiesAreOld
    <2>5. \A h \in Gateways : Notified(h)
      BY <2>1, <2>2 DEF Notified, Keeps, SameClassSpec
    <2>6. ClassIsFresh'
      <3>1. Resolves(cached)' <=> Resolves(cached)
        BY <2>2 DEF Resolves
      <3> QED BY <2>1, <2>2, <3>1 DEF ClassIsFresh, Judged
    <2> QED BY <2>1, <2>3, <2>4, <2>5, <2>6, SyncMoves
  <1> QED BY <1>1, <1>2, <1>3, <1>4 DEF Sync

\* A new process queues every Gateway there is.
LEMMA RestartSafe ==
    ASSUME ConfigInv, Restart
    PROVE  ConfigInv'
  <1> USE DEF ConfigInv
  <1>1. /\ w' = Idle /\ cached' = api /\ api' = api
        /\ queue' = {g \in Gateways : api.gws[g].gen > 0}
    BY DEF Restart
  <1>2. used' \in [count : Nat, unread : BOOLEAN]
    BY DisturbsTypes DEF Restart, Types
  <1>3. Types'
    <2>1. Worker'
      BY <1>1, WorkerTypes DEF Types
    <2> QED BY <1>1, <1>2, <2>1 DEF Types, Objects
  <1>4. CopiesAreOld'
    <2>1. /\ api.class.gen <= api.class.gen /\ api.class.version <= api.class.version
          /\ \A g \in Gateways : api.deps[g].version <= api.deps[g].version
      <3>1. /\ api.class.gen \in Nat /\ api.class.version \in Nat
            /\ \A g \in Gateways : api.deps[g].version \in Nat
        BY DEF Types, Objects, ClassObjects
      <3> QED BY <3>1
    <2>2. w'.class = NoClass /\ api' = api /\ cached' = api
      BY <1>1, AbsentTypes
    <2> QED BY <2>1, <2>2 DEF CopiesAreOld, SameClassSpec
  <1>5. InWork' /\ PassIsFresh'
    BY <1>1, AbsentTypes DEF InWork, PassIsFresh, PassFresh
  <1>6. DeploymentIsFresh' /\ ClassIsFresh'
    BY <1>1 DEF DeploymentIsFresh, DeploymentFresh, ClassIsFresh, Served
  <1> QED BY <1>3, <1>4, <1>5, <1>6
-----------------------------------------------------------------------------
(* The worker. *)

\* A step for one Gateway is nothing to the others.
LEMMA WorkMoves ==
    ASSUME ConfigInv, Types', CopiesAreOld', NEW g \in Gateways, cached' = cached,
           w.gw \in {{g}, {}}, w'.gw \in {{g}, {}}, w'.pc # "idle" => w'.gw = {g},
           queue \ {g} \subseteq queue', queue' \subseteq queue \cup {g},
           \A h \in Gateways \ {g} : api'.deps[h] = api.deps[h],
           used.unread => used'.unread,
           PassFresh(g)', DeploymentFresh(g)', ClassIsFresh'
    PROVE  ConfigInv'
  <1>1. ASSUME NEW h \in Gateways \ {g} PROVE PassFresh(h)' /\ DeploymentFresh(h)'
    <2>1. w.gw # {h} /\ w'.gw # {h}
      OBVIOUS
    <2>2. Keeps(h)
      BY DEF Keeps, SameClassSpec
    <2>3. Served(h)' => Served(h)
      BY <2>1 DEF Served
    <2>4. DeploymentFresh(h)
      BY DEF ConfigInv, DeploymentIsFresh
    <2> QED BY <2>1, <2>2, <2>3, <2>4, DeploymentKept DEF PassFresh
  <1>2. InWork'
    BY DEF InWork
  <1> QED BY <1>1, <1>2 DEF ConfigInv, PassIsFresh, DeploymentIsFresh

\* Whoever fails is queued, and that is all.
LEMMA ReturnsWithError ==
    ASSUME ConfigInv, NEW g \in Gateways, w.pc # "idle", w.gw = {g}, Return(g, TRUE),
           used' = used \/ Disturbs("failure"), UNCHANGED <<api, cached>>
    PROVE  ConfigInv'
  <1> USE DEF ConfigInv
  <1>1. w' = Idle /\ queue' = queue \cup {g}
    BY DEF Return
  <1>2. used' \in [count : Nat, unread : BOOLEAN] /\ (used.unread => used'.unread)
    BY DisturbsTypes DEF Types
  <1>3. Types'
    BY <1>1, <1>2, WorkerTypes DEF Types, Objects
  <1>4. CopiesAreOld'
    BY <1>1, AbsentTypes DEF CopiesAreOld
  <1>5. cached.gws[g].gen > 0
    BY DEF PassIsFresh, PassFresh
  <1>6. PassFresh(g)' /\ DeploymentFresh(g)' /\ ClassIsFresh'
    BY <1>1, <1>5, AbsentTypes DEF PassFresh, DeploymentFresh, Served, ClassIsFresh
  <1> QED BY <1>1, <1>2, <1>3, <1>4, <1>6, AbsentTypes, WorkMoves

\* Reconcile begins with the Gateway.
LEMMA FetchSafe ==
    ASSUME ConfigInv, NEW g \in Gateways, Fetch(g)
    PROVE  ConfigInv'
  <1> USE DEF ConfigInv
  <1>1. /\ w.pc = "idle" /\ g \in queue /\ queue' = queue \ {g} /\ UNCHANGED <<api, cached, used>>
        /\ w = Idle
    BY DEF Fetch, Types, Worker
  <1>2. CASE cached.gws[g].gen = 0
    <2>1. w' = Idle /\ ~(cached.gws[g].gen > 0)
      BY <1>2 DEF Fetch
    <2>2. Types'
      BY <1>1, <2>1, WorkerTypes DEF Types, Objects
    <2>3. CopiesAreOld'
      BY <1>1, <2>1 DEF CopiesAreOld
    <2>4. PassFresh(g)' /\ DeploymentFresh(g)'
      BY <1>1, <2>1, AbsentTypes DEF PassFresh, DeploymentFresh
    <2>5. ClassIsFresh'
      <3>1. Resolves(cached)' <=> Resolves(cached)
        BY <1>1 DEF Resolves
      <3> QED BY <1>1, <2>1, <3>1 DEF ClassIsFresh, Judged
    <2> QED BY <1>1, <2>1, <2>2, <2>3, <2>4, <2>5, AbsentTypes, WorkMoves
  <1>3. CASE cached.gws[g].gen # 0
    <2>1. w' = [pc |-> "class", gw |-> {g}, gateway |-> cached.gws[g], class |-> NoClass,
                merged |-> Nothing, ok |-> TRUE]
      BY <1>3 DEF Fetch, Idle
    <2>2. cached.gws[g].gen > 0
      <3>1. cached.gws[g].gen \in Nat
        BY DEF Types, Objects, GatewayObjects
      <3> QED BY <1>3, <3>1
    <2>3. /\ w'.pc = "class" /\ w'.gw = {g} /\ w'.gateway = cached.gws[g] /\ w'.class = NoClass
          /\ w'.merged = Nothing /\ w'.ok = TRUE
      BY <2>1
    <2>4. Types'
      <3>1. Worker'
        BY <2>1, AbsentTypes DEF Worker, NoClass
      <3> QED BY <1>1, <3>1 DEF Types, Objects
    <2>5. CopiesAreOld'
      BY <1>1, <2>3 DEF CopiesAreOld
    <2>6. PassFresh(g)'
      BY <1>1, <2>2, <2>3 DEF PassFresh, Reads
    <2>7. DeploymentFresh(g)' /\ ClassIsFresh'
      BY <2>3 DEF DeploymentFresh, Served, ClassIsFresh
    <2> QED BY <1>1, <2>3, <2>4, <2>5, <2>6, <2>7, AbsentTypes, WorkMoves
  <1> QED BY <1>2, <1>3

\* It goes on with the class, or ends when that is not its own.
LEMMA GetClassSafe ==
    ASSUME ConfigInv, NEW g \in Gateways, GetClass(g)
    PROVE  ConfigInv'
  <1> USE DEF ConfigInv
  <1>1. w.pc = "class" /\ w.gw = {g} /\ UNCHANGED <<api, cached, queue, used>>
    BY DEF GetClass
  <1>2. CASE cached.class.exists /\ cached.class.ours
    <2>1. w' = [w EXCEPT !.pc = "default", !.class = cached.class]
      BY <1>2 DEF GetClass
    <2>2. /\ w'.pc = "default" /\ w'.gw = {g} /\ w'.gateway = w.gateway /\ w'.class = cached.class
          /\ w'.merged = w.merged /\ w'.ok = w.ok
      BY <1>1, <2>1 DEF Types, Worker
    <2>3. Types'
      <3>1. Worker'
        BY <2>1, WorkerTypes DEF Types, Objects, Steps
      <3> QED BY <1>1, <3>1 DEF Types, Objects
    <2>4. CopiesAreOld'
      BY <1>1, <2>2 DEF CopiesAreOld
    <2>5. PassFresh(g)'
      BY <1>1, <1>2, <2>2 DEF PassIsFresh, PassFresh, Reads, SameClassSpec
    <2>6. DeploymentFresh(g)' /\ ClassIsFresh'
      BY <2>2 DEF DeploymentFresh, Served, ClassIsFresh
    <2> QED BY <1>1, <2>2, <2>3, <2>4, <2>5, <2>6, WorkMoves
  <1>3. CASE ~(cached.class.exists /\ cached.class.ours)
    <2>1. w' = Idle
      BY <1>3 DEF GetClass
    <2>2. Types'
      BY <1>1, <2>1, WorkerTypes DEF Types, Objects
    <2>3. CopiesAreOld'
      BY <1>1, <2>1, AbsentTypes DEF CopiesAreOld
    <2>4. PassFresh(g)' /\ DeploymentFresh(g)' /\ ClassIsFresh'
      BY <1>1, <1>3, <2>1, AbsentTypes DEF PassFresh, DeploymentFresh, ClassIsFresh
    <2> QED BY <1>1, <2>1, <2>2, <2>3, <2>4, AbsentTypes, WorkMoves
  <1> QED BY <1>2, <1>3

\* resolveTunnelConfig looks the default up that the class refers to.
LEMMA ResolveClassSafe ==
    ASSUME ConfigInv, NEW g \in Gateways, ResolveClassRef(g)
    PROVE  ConfigInv'
  <1> USE DEF ConfigInv
  <1> DEFINE ref == w.class.ref
             found == fetchTunnelConfig(ref.ns, ref.name)
  <1>1. w.pc = "default" /\ w.gw = {g} /\ UNCHANGED <<api, cached, queue>>
    BY DEF ResolveClassRef
  <1>2. used' \in [count : Nat, unread : BOOLEAN] /\ (used.unread => used'.unread)
    BY DisturbsTypes DEF ResolveClassRef, Types
  <1>3. /\ Worker' /\ w'.pc = "override" /\ w'.gw = {g} /\ w'.gateway = w.gateway
        /\ w'.class = w.class
    BY <1>1, WorkerTypes DEF ResolveClassRef, Types, Worker, Steps
  <1>4. Types'
    BY <1>1, <1>2, <1>3 DEF Types, Objects
  <1>5. CopiesAreOld'
    BY <1>1, <1>3 DEF CopiesAreOld
  <1>6. PassFresh(g)'
    <2>1. cached.gws[g].gen > 0 /\ w.class.exists /\ w.class.ours
      BY <1>1 DEF PassIsFresh, PassFresh
    <2>2. ASSUME g \notin queue PROVE Reads(g)'
      <3>1. /\ w.gateway = cached.gws[g] /\ w.class.gen = cached.class.gen
            /\ SameClassSpec(w.class, cached.class) /\ w.merged = Nothing /\ w.ok
        BY <1>1, <2>2 DEF PassIsFresh, PassFresh, Reads
      <3>2. cached.class.ref = ref
        BY <3>1 DEF SameClassSpec
      <3>3. /\ DefaultOf(cached)' = DefaultOf(cached) /\ (Resolves(cached)' <=> Resolves(cached))
        BY <1>1 DEF DefaultOf, ConfigOf, Resolves
      <3>4. /\ w'.merged \in {Nothing, DefaultOf(cached)}
            /\ ~used'.unread => w'.merged = DefaultOf(cached) /\ (w'.ok <=> Resolves(cached))
        <4>1. CASE ref.kind # "CloudflareTunnelConfig" /\ w' = [w EXCEPT !.pc = "override"]
          <5>1. w'.merged = Nothing /\ w'.ok = w.ok
            BY <3>1, <4>1 DEF Types, Worker
          <5>2. DefaultOf(cached) = Nothing /\ Resolves(cached)
            BY <3>2, <4>1 DEF DefaultOf, Resolves
          <5> QED BY <3>1, <5>1, <5>2
        <4>2. CASE /\ ref.kind = "CloudflareTunnelConfig"
                   /\ \E spec \in found : w' = [w EXCEPT !.pc = "override", !.merged = spec]
          <5>1. PICK spec \in found : w' = [w EXCEPT !.pc = "override", !.merged = spec]
            BY <4>2
          <5>2. w'.merged = spec /\ w'.ok = w.ok
            BY <5>1 DEF Types, Worker
          <5>3. /\ <<ref.ns, ref.name>> \in Configs /\ cached.cfgs[<<ref.ns, ref.name>>].exists
                /\ spec = cached.cfgs[<<ref.ns, ref.name>>].spec
            BY <5>1 DEF fetchTunnelConfig
          <5>4. DefaultOf(cached) = spec /\ Resolves(cached)
            BY <3>2, <4>2, <5>3 DEF DefaultOf, ConfigOf, Resolves
          <5> QED BY <3>1, <5>2, <5>4
        <4>3. CASE /\ ref.kind = "CloudflareTunnelConfig"
                   /\ found = {} \/ Disturbs("unread")
                   /\ w' = [w EXCEPT !.pc = "override", !.ok = FALSE]
          <5>1. w'.merged = Nothing /\ w'.ok = FALSE
            BY <3>1, <4>3 DEF Types, Worker
          <5>2. CASE found = {}
            <6>1. ~(<<ref.ns, ref.name>> \in Configs /\ cached.cfgs[<<ref.ns, ref.name>>].exists)
              BY <5>2 DEF fetchTunnelConfig
            <6>2. DefaultOf(cached) = Nothing /\ ~Resolves(cached)
              BY <3>2, <4>3, <6>1 DEF DefaultOf, ConfigOf, Resolves
            <6> QED BY <5>1, <6>2
          <5>3. CASE Disturbs("unread")
            <6>1. used'.unread
              BY <5>3 DEF Disturbs
            <6> QED BY <5>1, <6>1
          <5> QED BY <4>3, <5>2, <5>3
        <4> QED BY <4>1, <4>2, <4>3 DEF ResolveClassRef
      <3> QED BY <1>1, <1>3, <3>1, <3>3, <3>4 DEF Reads
    <2> QED BY <1>1, <1>3, <2>1, <2>2 DEF PassFresh
  <1>7. DeploymentFresh(g)' /\ ClassIsFresh'
    BY <1>3 DEF DeploymentFresh, Served, ClassIsFresh
  <1> QED BY <1>1, <1>2, <1>3, <1>4, <1>5, <1>6, <1>7, WorkMoves

\* The override wins field by field, and no override leaves the default.
LEMMA SumOfTwo ==
    ASSUME NEW a, NEW b
    PROVE  IsSum(mergeTunnelConfigSpec(a, b), a, b) /\ IsSum(a, a, Nothing)
  BY DEF IsSum, mergeTunnelConfigSpec, Overlay, Nothing

\* resolveTunnelConfig looks the override up that the Gateway refers to.
LEMMA ResolveGatewaySafe ==
    ASSUME ConfigInv, NEW g \in Gateways, ResolveGatewayRef(g)
    PROVE  ConfigInv'
  <1> USE DEF ConfigInv
  <1> DEFINE ref == w.gateway.spec.ref
             c == <<NamespaceOf[g], ref.name>>
             found == fetchTunnelConfig(NamespaceOf[g], ref.name)
  <1>1. w.pc = "override" /\ w.gw = {g} /\ UNCHANGED <<api, cached, queue>>
    BY DEF ResolveGatewayRef
  <1>2. used' \in [count : Nat, unread : BOOLEAN] /\ (used.unread => used'.unread)
    BY DisturbsTypes DEF ResolveGatewayRef, Types
  <1>3. /\ Worker' /\ w'.pc = "patch" /\ w'.gw = {g} /\ w'.gateway = w.gateway
        /\ w'.class = w.class /\ w'.ok = w.ok
    BY <1>1, WorkerTypes DEF ResolveGatewayRef, Types, Worker, Steps
  <1>4. Types'
    BY <1>1, <1>2, <1>3 DEF Types, Objects
  <1>5. CopiesAreOld'
    BY <1>1, <1>3 DEF CopiesAreOld
  <1>6. PassFresh(g)'
    <2>1. cached.gws[g].gen > 0 /\ w.class.exists /\ w.class.ours
      BY <1>1 DEF PassIsFresh, PassFresh
    <2>2. ASSUME g \notin queue PROVE Reads(g)'
      <3>1. /\ w.gateway = cached.gws[g] /\ w.class.gen = cached.class.gen
            /\ SameClassSpec(w.class, cached.class)
            /\ w.merged \in {Nothing, DefaultOf(cached)}
            /\ ~used.unread => w.merged = DefaultOf(cached) /\ (w.ok <=> Resolves(cached))
        BY <1>1, <2>2 DEF PassIsFresh, PassFresh, Reads
      <3>2. /\ DefaultOf(cached)' = DefaultOf(cached) /\ (Resolves(cached)' <=> Resolves(cached))
            /\ OverrideOf(cached, g)' = OverrideOf(cached, g)
        BY <1>1 DEF DefaultOf, OverrideOf, ConfigOf, Resolves
      <3>3. /\ \E over \in {Nothing, OverrideOf(cached, g)} : IsSum(w'.merged, w.merged, over)
            /\ ~used'.unread => IsSum(w'.merged, w.merged, OverrideOf(cached, g))
        <4>1. CASE /\ ref.kind = "CloudflareTunnelConfig"
                   /\ \E spec \in found :
                         w' = [w EXCEPT !.pc = "patch",
                                        !.merged = mergeTunnelConfigSpec(w.merged, spec)]
          <5>1. PICK spec \in found :
                   w' = [w EXCEPT !.pc = "patch",
                                  !.merged = mergeTunnelConfigSpec(w.merged, spec)]
            BY <4>1
          <5>2. w'.merged = mergeTunnelConfigSpec(w.merged, spec)
            BY <5>1 DEF Types, Worker
          <5>3. c \in Configs /\ cached.cfgs[c].exists /\ spec = cached.cfgs[c].spec
            BY <5>1 DEF fetchTunnelConfig
          <5>4. OverrideOf(cached, g) = spec
            BY <3>1, <4>1, <5>3 DEF OverrideOf, ConfigOf
          <5> QED BY <5>2, <5>4, SumOfTwo
        <4>2. CASE /\ \/ ref.kind # "CloudflareTunnelConfig"
                      \/ found = {}
                      \/ Disturbs("unread")
                   /\ w' = [w EXCEPT !.pc = "patch"]
          <5>1. w'.merged = w.merged
            BY <4>2 DEF Types, Worker
          <5>2. CASE ref.kind # "CloudflareTunnelConfig"
            <6>1. OverrideOf(cached, g) = Nothing
              BY <3>1, <5>2 DEF OverrideOf
            <6> QED BY <5>1, <6>1, SumOfTwo
          <5>3. CASE found = {}
            <6>1. ~(c \in Configs /\ cached.cfgs[c].exists)
              BY <5>3 DEF fetchTunnelConfig
            <6>2. OverrideOf(cached, g) = Nothing
              BY <3>1, <6>1 DEF OverrideOf, ConfigOf
            <6> QED BY <5>1, <6>2, SumOfTwo
          <5>4. CASE Disturbs("unread")
            <6>1. used'.unread
              BY <5>4 DEF Disturbs
            <6> QED BY <5>1, <6>1, SumOfTwo
          <5> QED BY <4>2, <5>2, <5>3, <5>4
        <4> QED BY <4>1, <4>2 DEF ResolveGatewayRef
      <3>4. Sums(cached, g, w.merged)'
        <4>1. PICK over \in {Nothing, OverrideOf(cached, g)} : IsSum(w'.merged, w.merged, over)
          BY <3>3
        <4> QED BY <1>2, <3>1, <3>2, <3>3, <4>1 DEF Sums, IsSum
      <3>5. ~used'.unread => (w'.ok <=> Resolves(cached)')
        BY <1>2, <1>3, <3>1, <3>2
      <3> QED BY <1>1, <1>3, <3>1, <3>4, <3>5 DEF Reads
    <2> QED BY <1>1, <1>3, <2>1, <2>2 DEF PassFresh
  <1>7. DeploymentFresh(g)' /\ ClassIsFresh'
    BY <1>3 DEF DeploymentFresh, Served, ClassIsFresh
  <1> QED BY <1>1, <1>2, <1>3, <1>4, <1>5, <1>6, <1>7, WorkMoves

\* The class is written only over the version the pass has read, so the verdict is about
\* the class as it is now.
LEMMA PatchSafe ==
    ASSUME ConfigInv, NEW g \in Gateways, PatchGatewayClassStatus(g)
    PROVE  ConfigInv'
  <1> USE DEF ConfigInv
  <1> DEFINE reason == IF w.ok THEN "Accepted" ELSE "InvalidParameters"
             new == [w.class EXCEPT !.reason = reason, !.observed = w.class.gen]
             written == [new EXCEPT !.version = @ + 1]
  <1>1. w.pc = "patch" /\ w.gw = {g} /\ UNCHANGED cached
    BY DEF PatchGatewayClassStatus
  <1>2. CASE ClassError(g) /\ UNCHANGED api /\ (UNCHANGED used \/ SpendsFailure)
    BY <1>1, <1>2, ReturnsWithError DEF ClassError, SpendsFailure
  <1>3. CASE /\ api.class.exists /\ api.class.version = w.class.version
             /\ api' = IF new = w.class THEN api ELSE [api EXCEPT !.class = written]
             /\ w' = [w EXCEPT !.pc = "deploy"] /\ UNCHANGED <<queue, used>>
    <2>1. api.class = w.class
      BY <1>3 DEF CopiesAreOld
    <2>2. /\ w.class \in ClassObjects /\ w.class.gen \in Nat /\ w.class.version \in Nat
          /\ reason \in {"Pending", "Accepted", "InvalidParameters"}
      BY DEF Types, Worker, ClassObjects
    <2>3. /\ new \in ClassObjects /\ new.gen = w.class.gen /\ new.observed = w.class.gen
          /\ new.reason = reason /\ new.version = w.class.version /\ SameClassSpec(new, w.class)
      BY <2>2 DEF ClassObjects, SameClassSpec
    <2>4. /\ written \in ClassObjects /\ written.gen = w.class.gen
          /\ written.observed = w.class.gen /\ written.reason = reason
          /\ written.version = w.class.version + 1 /\ SameClassSpec(written, w.class)
      <3> HIDE DEF new
      <3> QED BY <2>2, <2>3 DEF ClassObjects, SameClassSpec
    <2>5. \/ api' = api /\ api.class = new
          \/ api' = [api EXCEPT !.class = written]
      BY <1>3, <2>1
    <2> HIDE DEF new, written, reason
    <2>6. /\ Objects(api') /\ api'.gws = api.gws /\ api'.cfgs = api.cfgs /\ api'.deps = api.deps
          /\ api'.class \in {new, written} /\ (api'.class = written \/ api' = api)
      <3>1. written.observed <= written.gen
        BY <2>2, <2>4
      <3>2. CASE api' = api /\ api.class = new
        BY <3>2 DEF Types
      <3>3. CASE api' = [api EXCEPT !.class = written]
        BY <2>4, <3>1, <3>3, ClassReplaced DEF Types
      <3> QED BY <2>5, <3>2, <3>3
    <2>7. /\ Worker' /\ w'.pc = "deploy" /\ w'.gw = {g} /\ w'.gateway = w.gateway
          /\ w'.class = w.class /\ w'.merged = w.merged
      BY <1>1, <1>3, WorkerTypes DEF Types, Worker, Steps
    <2>8. Types'
      BY <1>1, <1>3, <2>6, <2>7 DEF Types, Objects
    <2>9. CopiesAreOld'
      <3>1. CASE api' = api
        BY <1>1, <2>7, <3>1 DEF CopiesAreOld
      <3>2. CASE api'.class = written
        <4>1. ASSUME NEW d \in {NoClass, cached.class, w.class}
              PROVE  /\ d.gen <= written.gen /\ d.version <= written.version
                     /\ d.gen = written.gen => SameClassSpec(d, written)
                     /\ d.version # written.version
          <5>1. /\ d.gen <= w.class.gen /\ d.version <= w.class.version
                /\ d.gen = w.class.gen => SameClassSpec(d, w.class)
            BY <2>1 DEF CopiesAreOld
          <5>2. d.version \in Nat
            BY AbsentTypes DEF Types, Objects, Worker, ClassObjects
          <5> QED BY <2>2, <2>4, <5>1, <5>2 DEF SameClassSpec
        <4> QED BY <1>1, <2>6, <2>7, <3>2, <4>1 DEF CopiesAreOld
      <3> QED BY <2>6, <3>1, <3>2
    <2>10. PassFresh(g) /\ cached.gws[g].gen > 0
      BY <1>1 DEF PassIsFresh, PassFresh
    <2>11. PassFresh(g)'
      <3>1. \A m : Sums(cached, g, m) => Sums(cached, g, m)'
        <4>1. Keeps(g)
          BY <1>1, <1>3 DEF Keeps, SameClassSpec
        <4> QED BY <4>1, SumsKept
      <3> QED BY <1>1, <1>3, <2>7, <2>10, <3>1 DEF PassFresh, Reads, SameClassSpec
    <2>12. DeploymentFresh(g)'
      BY <2>7 DEF DeploymentFresh, Served
    <2>13. ClassIsFresh'
      <3>1. CASE g \in queue
        BY <1>1, <1>3, <2>10, <3>1 DEF ClassIsFresh
      <3>2. CASE g \notin queue
        <4>1. ~used.unread => (w.ok <=> Resolves(cached))
          BY <1>1, <2>10, <3>2 DEF PassFresh, Reads
        <4>2. Resolves(cached)' <=> Resolves(cached)
          BY <1>1 DEF Resolves
        <4> QED BY <1>3, <2>3, <2>4, <2>6, <4>1, <4>2 DEF ClassIsFresh, Judged, reason
      <3> QED BY <3>1, <3>2
    <2> QED BY <1>1, <1>3, <2>6, <2>7, <2>8, <2>9, <2>11, <2>12, <2>13, WorkMoves
  <1> QED BY <1>2, <1>3 DEF PatchGatewayClassStatus

\* An update leaves the Deployment's own annotations as they are, and nothing else.
LEMMA AppliedIsBuilt ==
    ASSUME NEW existing, NEW gw, NEW m
    PROVE  LET new == Applied(existing, BuildCloudflaredDeployment(gw, m)) IN
           BuiltFrom(new, gw, m) /\ DOMAIN new.settings = Settings
  <1> DEFINE built == BuildCloudflaredDeployment(gw, m)
             new == Applied(existing, built)
  <1>1. DOMAIN built.settings = Settings
    BY DEF BuildCloudflaredDeployment
  <1>2. /\ new.settings = built.settings /\ new.labels = built.labels
        /\ new.podAnnotations = built.podAnnotations
    BY DEF Applied, BuildCloudflaredDeployment
  <1> QED BY <1>1, <1>2 DEF BuiltFrom

\* The Deployment is written only over the version in the cache, so it is the one that the
\* pass has built.
LEMMA DeploySafe ==
    ASSUME ConfigInv, NEW g \in Gateways, applyDeployment(g)
    PROVE  ConfigInv'
  <1> USE DEF ConfigInv
  <1> DEFINE existing == cached.deps[g]
             new == Applied(existing, BuildCloudflaredDeployment(w.gateway, w.merged))
             written == [version |-> existing.version + 1, object |-> new]
  <1>1. w.pc = "deploy" /\ w.gw = {g} /\ UNCHANGED cached
    BY DEF applyDeployment
  <1>2. CASE Return(g, TRUE) /\ UNCHANGED api /\ (UNCHANGED used \/ SpendsFailure)
    BY <1>1, <1>2, ReturnsWithError DEF SpendsFailure
  <1>3. CASE /\ api.deps[g].version = existing.version /\ Admitted(new)
             /\ api' = IF new = existing.object THEN api ELSE [api EXCEPT !.deps[g] = written]
             /\ w' = [w EXCEPT !.pc = "rest"] /\ UNCHANGED <<queue, used>>
    <2>1. api.deps[g] = existing
      BY <1>3 DEF CopiesAreOld
    <2>2. BuiltFrom(new, w.gateway, w.merged) /\ DOMAIN new.settings = Settings
      BY AppliedIsBuilt
    <2>3. /\ existing.version \in Nat
          /\ existing.version = 0 => existing.object = NoTemplate
      BY DEF Types, Objects
    <2>4. DOMAIN NoTemplate.settings # Settings
      BY DEF NoTemplate, Nothing, Settings
    <2>5. written.version \in Nat /\ written.version > 0 /\ written.object = new
      BY <2>3
    <2>6. \/ api' = api /\ api.deps[g].object = new /\ api.deps[g].version > 0
          \/ api' = [api EXCEPT !.deps[g] = written]
      BY <1>3, <2>1, <2>2, <2>3, <2>4
    <2>7. written = [version |-> written.version, object |-> written.object]
      OBVIOUS
    <2> HIDE DEF new, written
    <2>8. /\ Objects(api') /\ api'.class = api.class /\ api'.gws = api.gws
          /\ api'.cfgs = api.cfgs /\ (api'.deps[g] = written \/ api' = api)
          /\ api'.deps[g].object = new /\ api'.deps[g].version > 0
          /\ \A h \in Gateways \ {g} : api'.deps[h] = api.deps[h]
      <3>1. CASE api' = api /\ api.deps[g].object = new /\ api.deps[g].version > 0
        BY <3>1 DEF Types
      <3>2. CASE api' = [api EXCEPT !.deps[g] = written]
        <4>1. /\ written.version \in Nat /\ ~(written.version = 0)
              /\ DOMAIN written.object.settings = Settings /\ Admitted(written.object)
          BY <1>3, <2>2, <2>5
        <4>2. /\ Objects(api') /\ api'.class = api.class /\ api'.gws = api.gws
              /\ api'.cfgs = api.cfgs /\ api'.deps[g] = written
              /\ \A h \in Gateways \ {g} : api'.deps[h] = api.deps[h]
          BY <2>7, <3>2, <4>1, DeploymentReplaced DEF Types
        <4> QED BY <2>5, <4>2
      <3> QED BY <2>6, <3>1, <3>2
    <2>9. /\ Worker' /\ w'.pc = "rest" /\ w'.gw = {g} /\ w'.gateway = w.gateway
          /\ w'.class = w.class /\ w'.merged = w.merged
      BY <1>1, <1>3, WorkerTypes DEF Types, Worker, Steps
    <2>10. Types'
      BY <1>1, <1>3, <2>8, <2>9 DEF Types, Objects
    <2>11. CopiesAreOld'
      <3>1. \A h \in Gateways :
               /\ cached.deps[h].version <= api'.deps[h].version
               /\ cached.deps[h].version = api'.deps[h].version => cached.deps[h] = api'.deps[h]
        <4>1. CASE api' = api
          BY <4>1 DEF CopiesAreOld
        <4>2. CASE api'.deps[g] = written
          <5>1. existing.version <= written.version /\ existing.version # written.version
            BY <2>3 DEF written
          <5> QED BY <2>8, <4>2, <5>1 DEF CopiesAreOld
        <4> QED BY <2>8, <4>1, <4>2
      <3> QED BY <1>1, <2>8, <2>9, <3>1 DEF CopiesAreOld
    <2>12. PassFresh(g)
      BY DEF PassIsFresh
    <2>13. PassFresh(g)'
      BY <1>1, <1>3, <2>9, <2>12 DEF PassFresh, Reads, SameClassSpec
    <2>14. DeploymentFresh(g)'
      <3>1. CASE g \in queue
        BY <1>3, <3>1 DEF DeploymentFresh, Served
      <3>2. CASE g \notin queue
        <4>1. PICK m : m = w.merged
          OBVIOUS
        <4>2. Sums(cached, g, m) /\ w.gateway = cached.gws[g]
          BY <1>1, <2>12, <3>2, <4>1 DEF PassFresh, Reads
        <4>3. Keeps(g)
          BY <1>1, <1>3 DEF Keeps, SameClassSpec
        <4>4. Sums(cached, g, m)'
          BY <4>2, <4>3, SumsKept
        <4>5. BuiltFrom(api.deps[g].object, cached.gws[g], m)'
          BY <1>1, <2>2, <2>8, <4>1, <4>2 DEF BuiltFrom
        <4> QED BY <2>8, <4>4, <4>5 DEF DeploymentFresh
      <3> QED BY <3>1, <3>2
    <2>15. ClassIsFresh'
      <3>1. Resolves(cached)' <=> Resolves(cached)
        BY <1>1 DEF Resolves
      <3> QED BY <1>1, <1>3, <2>8, <3>1 DEF ClassIsFresh, Judged
    <2> QED BY <1>1, <1>3, <2>8, <2>9, <2>10, <2>11, <2>13, <2>14, <2>15, WorkMoves
  <1> QED BY <1>2, <1>3 DEF applyDeployment

\* The pass ends, or one of the steps that are not modelled fails.
LEMMA EndPassSafe ==
    ASSUME ConfigInv, NEW g \in Gateways, EndPass(g)
    PROVE  ConfigInv'
  <1> USE DEF ConfigInv
  <1>1. w.pc = "rest" /\ w.gw = {g} /\ UNCHANGED <<api, cached>>
    BY DEF EndPass
  <1>2. CASE SpendsFailure /\ Return(g, TRUE)
    BY <1>1, <1>2, ReturnsWithError DEF SpendsFailure
  <1>3. CASE Return(g, FALSE) /\ UNCHANGED used
    <2>1. w' = Idle /\ queue' = queue
      BY <1>3 DEF Return
    <2>2. Types'
      BY <1>1, <1>3, <2>1, WorkerTypes DEF Types, Objects
    <2>3. CopiesAreOld'
      BY <1>1, <2>1, AbsentTypes DEF CopiesAreOld
    <2>4. PassFresh(g)'
      BY <2>1, AbsentTypes DEF PassFresh
    <2>5. DeploymentFresh(g)'
      <3>1. Keeps(g)
        BY <1>1, <1>3 DEF Keeps, SameClassSpec
      <3> QED BY <1>1, <2>1, <3>1, DeploymentKept DEF DeploymentIsFresh, Served
    <2>6. ClassIsFresh'
      <3>1. Resolves(cached)' <=> Resolves(cached)
        BY <1>1 DEF Resolves
      <3> QED BY <1>1, <1>3, <2>1, <3>1 DEF ClassIsFresh, Judged
    <2> QED BY <1>1, <1>3, <2>1, <2>2, <2>3, <2>4, <2>5, <2>6, AbsentTypes, WorkMoves
  <1> QED BY <1>2, <1>3 DEF EndPass
-----------------------------------------------------------------------------
(* The theorems. *)

\* Every step of the specification preserves the invariant.
LEMMA ConfigStep == ConfigInv /\ [Next]_vars => ConfigInv'
  <1> SUFFICES ASSUME ConfigInv, [Next]_vars PROVE ConfigInv'
    OBVIOUS
  <1>1. CASE WorkerStep
    BY <1>1, GetClassSafe, ResolveClassSafe, ResolveGatewaySafe, PatchSafe, DeploySafe, EndPassSafe
       DEF WorkerStep
  <1>2. CASE \E g \in Gateways : Fetch(g)
    BY <1>2, FetchSafe
  <1>3. CASE Sync \/ UserStep \/ Restart
    BY <1>3, SyncSafe, UserSafe, RestartSafe
  <1>4. CASE UNCHANGED vars
    <2>1. UNCHANGED <<api, cached, queue, w, used>>
      BY <1>4 DEF vars
    <2>2. Types' /\ CopiesAreOld'
      BY <2>1 DEF ConfigInv, Types, Objects, Worker, CopiesAreOld
    <2> QED BY <2>1, <2>2, ApiMoves
  <1> QED BY <1>1, <1>2, <1>3, <1>4 DEF Next

\* The invariant holds for every value of the constants.
LEMMA ConfigInvariant == Spec => []ConfigInv
  BY ConfigInit, ConfigStep, PTL DEF Spec

\* Every variable has its type, and a Deployment that exists selects its own pods.
THEOREM TunnelConfigTypes == Spec => []TypeOK
  <1>1. ConfigInv => TypeOK
    <2> SUFFICES ASSUME ConfigInv PROVE TypeOK
      OBVIOUS
    <2>1. ASSUME NEW o \in {api, cached}
          PROVE  /\ DOMAIN o.class = DOMAIN NoClass /\ o.class.ref \in ClassRefs \cup {NoRef}
                 /\ o.class.reason \in {"Pending", "Accepted", "InvalidParameters"}
                 /\ o.class.observed <= o.class.gen
                 /\ \A g \in Gateways : o.gws[g].gen > 0 => o.gws[g].spec \in GatewaySpecs
                 /\ \A g \in Gateways : o.deps[g].version > 0 =>
                       DOMAIN o.deps[g].object.settings = Settings /\ Admitted(o.deps[g].object)
                 /\ \A c \in Configs : o.cfgs[c] \in Configurations
      BY DEF ConfigInv, Types, Objects, ClassObjects, NoClass
    <2>2. ASSUME NEW o \in {api, cached}, NEW c \in Configs, o.cfgs[c].exists
          PROVE  o.cfgs[c].spec \in ConfigSpecs
      <3>1. o.cfgs[c] # NoConfig
        BY <2>2 DEF NoConfig
      <3>2. o.cfgs[c] \in [exists : {TRUE}, spec : ConfigSpecs]
        BY <2>1, <3>1 DEF Configurations
      <3> QED BY <3>2
    <2>3. DOMAIN w = DOMAIN Idle
      BY DEF ConfigInv, Types, Worker, Idle
    <2> QED BY <2>1, <2>2, <2>3 DEF TypeOK, ConfigInv, Types, Worker
  <1> QED BY <1>1, ConfigInvariant, PTL

\* At rest the informers' copies are the objects, so what is built from the ones is
\* built from the others.
LEMMA RestingIsBuilt ==
    ASSUME ConfigInv, NEW g \in Gateways, Rests(g), Managed(g)
    PROVE  /\ cached = api /\ api.deps[g].version > 0
           /\ \E m : Sums(api, g, m) /\ BuiltFrom(api.deps[g].object, api.gws[g], m)
           /\ DefaultOf(api) = Default /\ OverrideOf(api, g) = Override(g)
  <1>1. cached = api /\ Served(g)
    BY DEF Rests, Served
  <1>2. /\ api.deps[g].version > 0
        /\ \E m : Sums(api, g, m) /\ BuiltFrom(api.deps[g].object, api.gws[g], m)
    BY <1>1 DEF ConfigInv, DeploymentIsFresh, DeploymentFresh, Managed
  <1>3. DefaultOf(api) = Default /\ OverrideOf(api, g) = Override(g)
    BY DEF DefaultOf, Default, OverrideOf, Override, ConfigOf, Existing
  <1> QED BY <1>1, <1>2, <1>3

\* A Gateway that is left alone has a Deployment with the settings, labels and annotations
\* now in force for it, although its pass reads four objects at four moments; unless a
\* configuration could not be read.
THEOREM DeploymentsAreConfigured == Spec => []DeploymentIsConfigured
  <1>1. ConfigInv => DeploymentIsConfigured
    <2> SUFFICES ASSUME ConfigInv, NEW g \in Gateways, Rests(g), Managed(g), ~used.unread
                 PROVE  Configured(g)
      BY DEF DeploymentIsConfigured
    <2> DEFINE object == api.deps[g].object
               gw == api.gws[g]
    <2>1. PICK m : Sums(api, g, m) /\ BuiltFrom(object, gw, m)
      BY RestingIsBuilt
    <2>2. IsSum(m, Default, Override(g))
      BY <2>1, RestingIsBuilt DEF Sums
    <2>3. \A f, none : (IF f \in DOMAIN m THEN m[f] ELSE none) = Wanted(g, f, none)
      BY <2>2 DEF IsSum, Wanted
    <2>4. \A f \in Settings : object.settings[f] = Wanted(g, f, "default")
      BY <2>1, <2>3 DEF BuiltFrom, BuildCloudflaredDeployment
    <2>5. \A f : MapOf(m, f) = Wanted(g, f, Nothing)
      BY <2>3 DEF MapOf
    <2>6. \A base, map, over :
             Carries(Overlay(Overlay(base, map), over), over, map, base)
      BY DEF Carries, Overlay
    <2>7. \A map, over : Carries(Overlay(map, over), over, map, Nothing)
      BY DEF Carries, Overlay, Nothing
    <2>8. /\ object.labels = Overlay(Overlay(Identity, MapOf(m, "podLabels")), gw.spec.labels)
          /\ object.podAnnotations = Overlay(MapOf(m, "podAnnotations"), gw.spec.annotations)
      BY <2>1 DEF BuiltFrom, BuildCloudflaredDeployment
    <2>9. PodsCarry(g)
      BY <2>5, <2>6, <2>7, <2>8 DEF PodsCarry
    <2> QED BY <2>4, <2>9, RestingIsBuilt DEF Configured
  <1> QED BY <1>1, ConfigInvariant, PTL

\* Once all is quiet the class says for its present generation whether its reference
\* resolves, whichever of its Gateways wrote that, unless a configuration could not be read.
THEOREM ClassesAreJudged == Spec => []ClassIsJudged
  <1>1. ConfigInv => ClassIsJudged
    <2> DEFINE ref == api.class.ref
               resolves == ref.kind = "CloudflareTunnelConfig" =>
                   /\ ref.ns # "" /\ <<ref.ns, ref.name>> \in Configs
                   /\ api.cfgs[<<ref.ns, ref.name>>].exists
    <2> SUFFICES ASSUME ConfigInv, Quiet, ~used.unread, NEW g \in Gateways, Managed(g)
                 PROVE  /\ api.class.observed = api.class.gen
                        /\ api.class.reason = IF resolves THEN "Accepted" ELSE "InvalidParameters"
      BY DEF ClassIsJudged
    <2>1. cached = api /\ \A h \in Gateways : h \notin queue /\ w.gw # {h}
      BY DEF Quiet, Rests
    <2>2. w.pc = "idle"
      BY <2>1 DEF ConfigInv, InWork
    <2>3. Judged
      BY <2>1, <2>2 DEF ConfigInv, ClassIsFresh, Managed, Types
    <2>4. resolves <=> Resolves(cached)
      <3>1. <<ref.ns, ref.name>> \in Configs => ref.ns # ""
        <4>1. <<ref.ns, ref.name>>[1] = ref.ns
          OBVIOUS
        <4> QED BY <4>1, ConfigAssumption
      <3> QED BY <2>1, <3>1 DEF Resolves
    <2> QED BY <2>3, <2>4 DEF Judged
  <1> QED BY <1>1, ConfigInvariant, PTL

\* Whatever could not be read, a Deployment that is left alone has no setting but those of
\* the configurations now in force and the defaults.
THEOREM SettingsDegradeToDefaults == Spec => []DegradesToDefaults
  <1>1. ConfigInv => DegradesToDefaults
    <2> SUFFICES ASSUME ConfigInv, NEW g \in Gateways, Rests(g), Managed(g), NEW f \in Settings
                 PROVE  api.deps[g].object.settings[f] \in {"default"} \cup
                            {cfg[f] : cfg \in {c \in {Default, Override(g)} : f \in DOMAIN c}}
      BY DEF DegradesToDefaults
    <2>1. PICK m : Sums(api, g, m) /\ BuiltFrom(api.deps[g].object, api.gws[g], m)
      BY RestingIsBuilt
    <2>2. PICK default \in {Nothing, Default}, override \in {Nothing, Override(g)} :
             IsSum(m, default, override)
      BY <2>1, RestingIsBuilt DEF Sums
    <2>3. api.deps[g].object.settings[f] = IF f \in DOMAIN m THEN m[f] ELSE "default"
      BY <2>1 DEF BuiltFrom, BuildCloudflaredDeployment
    <2>4. CASE f \in DOMAIN m
      <3>1. f \notin DOMAIN Nothing
        BY DEF Nothing
      <3>2. \/ f \in DOMAIN override /\ m[f] = override[f]
            \/ f \in DOMAIN default /\ m[f] = default[f]
        BY <2>2, <2>4 DEF IsSum
      <3> QED BY <2>2, <2>3, <2>4, <3>1, <3>2
    <2> QED BY <2>3, <2>4
  <1> QED BY <1>1, ConfigInvariant, PTL
=============================================================================
