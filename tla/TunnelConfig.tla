---------------------------- MODULE TunnelConfig ----------------------------
(***************************************************************************)
(* How the cloudflared Deployment of a Gateway gets its settings: the      *)
(* CloudflareTunnelConfig its GatewayClass refers to is the default, the   *)
(* one the Gateway's infrastructure refers to overrides it field by field  *)
(* (tunnelconfig.go), BuildCloudflaredDeployment makes the Deployment      *)
(* (deployment.go), applyDeployment writes it (reconciler.go), and the     *)
(* GatewayClass says whether its reference resolves (status.go).           *)
(*                                                                         *)
(* One GatewayClass, Gateways that come into being, configurations that    *)
(* come, change and go.  A configuration is the function of the fields it  *)
(* sets.  The steps of apply for Secret, tunnel, routes and Gateway status *)
(* are GatewayReconciler's; here they only may fail.                       *)
(***************************************************************************)
EXTENDS Naturals

CONSTANTS
    Gateways,
    NamespaceOf,           \* the namespace of each Gateway
    Configs,               \* <<namespace, name>> of the configurations there may be
    ConfigSpecs,           \* what a configuration may say
    InitialConfigs,        \* the configurations there are at first
    ClassRefs,             \* what the parametersRef of the class may be: [kind, ns, name]
    GatewaySpecs,          \* [ref, labels, annotations] in a Gateway's infrastructure
    Disturbances,          \* kinds of changes users make, "failure", "unread" and "restart"
    MaxDisturbances

VARIABLES
    api,      \* objects of the API server: class, gws, cfgs, deps
    cached,   \* the informers' copies
    queue,    \* the work queue
    w,        \* the worker
    used      \* how many disturbances there were, and if one was an unread configuration

vars == <<api, cached, queue, w, used>>

Nothing == [k \in {} |-> ""]
NoRef == [kind |-> "none", ns |-> "", name |-> ""]
NoGateway == [gen |-> 0, spec |-> [ref |-> NoRef, labels |-> Nothing, annotations |-> Nothing]]
NoClass == [exists |-> FALSE, ours |-> FALSE, ref |-> NoRef, gen |-> 0, version |-> 0,
            reason |-> "Pending", observed |-> 0]
NoConfig == [exists |-> FALSE, spec |-> Nothing]
Configurations == {NoConfig} \cup [exists : {TRUE}, spec : ConfigSpecs]
NoTemplate == [settings |-> Nothing, labels |-> Nothing, podAnnotations |-> Nothing,
               annotations |-> Nothing]
NoDeployment == [version |-> 0, object |-> NoTemplate]
Idle == [pc |-> "idle", gw |-> {}, gateway |-> NoGateway, class |-> NoClass,
         merged |-> Nothing, ok |-> TRUE]

ASSUME ConfigAssumption ==
    /\ Gateways \subseteq DOMAIN NamespaceOf
    /\ \A c \in Configs : c[1] # ""
    /\ InitialConfigs \in [Configs -> Configurations]
    /\ MaxDisturbances \in Nat

Disturbs(kind) ==
    /\ kind \in Disturbances /\ used.count < MaxDisturbances
    /\ used' = [count |-> used.count + 1, unread |-> used.unread \/ kind = "unread"]
-----------------------------------------------------------------------------
(* Configurations and Deployments. *)

Overlay(map, over) ==
    [k \in DOMAIN map \cup DOMAIN over |-> IF k \in DOMAIN over THEN over[k] ELSE map[k]]

mergeTunnelConfigSpec_mReplace(base, override) == override
mergeTunnelConfigSpec(base, override) == Overlay(base, override)

\* Fields copied into the Deployment, with defaults of their own.
Settings == {"replicas", "image", "resources", "logLevel", "metricsPort", "nodeSelector",
             "tolerations", "affinity"}
MapOf(cfg, f) == IF f \in DOMAIN cfg THEN cfg[f] ELSE Nothing
Identity == [k \in {"app"} |-> "cloudflared"]

BuildCloudflaredDeployment_mNoDefaults(gw, cfg) ==
    [settings |-> [f \in Settings \cap DOMAIN cfg |-> cfg[f]],
     labels |-> Overlay(Overlay(Identity, MapOf(cfg, "podLabels")), gw.spec.labels),
     podAnnotations |-> Overlay(MapOf(cfg, "podAnnotations"), gw.spec.annotations),
     annotations |-> gw.spec.annotations]
\* The labels of the Deployment and of its pod template are one Go map, which
\* infrastructure labels and pod labels are written into; the selector has its own.
BuildCloudflaredDeployment(gw, cfg) ==
    [settings |-> [f \in Settings |-> IF f \in DOMAIN cfg THEN cfg[f] ELSE "default"],
     labels |-> Overlay(Overlay(Identity, MapOf(cfg, "podLabels")), gw.spec.labels),
     podAnnotations |-> Overlay(MapOf(cfg, "podAnnotations"), gw.spec.annotations),
     annotations |-> gw.spec.annotations]

\* The API server refuses a Deployment whose pods its selector does not select.
Admitted(object) == object.labels["app"] = Identity["app"]
-----------------------------------------------------------------------------
Init ==
    /\ api = [class |-> NoClass, gws |-> [g \in Gateways |-> NoGateway],
              cfgs |-> InitialConfigs, deps |-> [g \in Gateways |-> NoDeployment]]
    /\ cached = api
    /\ queue = {}
    /\ w = Idle
    /\ used = [count |-> 0, unread |-> FALSE]
-----------------------------------------------------------------------------
(* The reconcile of a Gateway. *)

SpendsFailure == Disturbs("failure")

\* The pass returns; an error puts the Gateway back.
Return(g, err) ==
    /\ w' = Idle
    /\ queue' = IF err THEN queue \cup {g} ELSE queue

Fetch(g) ==
    /\ w.pc = "idle" /\ g \in queue
    /\ queue' = queue \ {g}
    /\ w' = IF cached.gws[g].gen = 0 THEN Idle
            ELSE [Idle EXCEPT !.pc = "class", !.gw = {g}, !.gateway = cached.gws[g]]
    /\ UNCHANGED <<api, cached, used>>

GetClass(g) ==
    /\ w.pc = "class" /\ w.gw = {g}
    /\ w' = IF cached.class.exists /\ cached.class.ours
            THEN [w EXCEPT !.pc = "default", !.class = cached.class] ELSE Idle
    /\ UNCHANGED <<api, cached, queue, used>>

\* fetchTunnelConfig: at most one specification.
fetchTunnelConfig(ns, name) ==
    IF <<ns, name>> \in Configs /\ cached.cfgs[<<ns, name>>].exists
    THEN {cached.cfgs[<<ns, name>>].spec} ELSE {}

\* resolveTunnelConfig, its first half: the default of the class.
ResolveClassRef(g) ==
    LET ref == w.class.ref IN
    /\ w.pc = "default" /\ w.gw = {g}
    /\ \/ /\ ref.kind # "CloudflareTunnelConfig"
          /\ w' = [w EXCEPT !.pc = "override"] /\ UNCHANGED used
       \/ /\ ref.kind = "CloudflareTunnelConfig"
          /\ \E spec \in fetchTunnelConfig(ref.ns, ref.name) :
                w' = [w EXCEPT !.pc = "override", !.merged = spec]
          /\ UNCHANGED used
       \/ /\ ref.kind = "CloudflareTunnelConfig"
          /\ \/ fetchTunnelConfig(ref.ns, ref.name) = {} /\ UNCHANGED used
             \/ ref.ns # "" /\ Disturbs("unread")
          /\ w' = [w EXCEPT !.pc = "override", !.ok = FALSE]
    /\ UNCHANGED <<api, cached, queue>>

\* Its second half: the override of the Gateway.
ResolveGatewayRef(g) ==
    LET ref == w.gateway.spec.ref
        found == fetchTunnelConfig(NamespaceOf[g], ref.name) IN
    /\ w.pc = "override" /\ w.gw = {g}
    /\ \/ /\ ref.kind = "CloudflareTunnelConfig"
          /\ \E spec \in found :
                w' = [w EXCEPT !.pc = "patch", !.merged = mergeTunnelConfigSpec(@, spec)]
          /\ UNCHANGED used
       \/ /\ \/ (ref.kind # "CloudflareTunnelConfig" \/ found = {}) /\ UNCHANGED used
             \/ ref.kind = "CloudflareTunnelConfig" /\ Disturbs("unread")
          /\ w' = [w EXCEPT !.pc = "patch"]
    /\ UNCHANGED <<api, cached, queue>>

\* What a failed update of the class does to the pass.
ClassError_mLogged(g) == w' = [w EXCEPT !.pc = "deploy"] /\ UNCHANGED queue
ClassError(g) == Return(g, TRUE)

PatchGatewayClassStatus(g) ==
    /\ w.pc = "patch" /\ w.gw = {g}
    /\ LET new == [w.class EXCEPT !.reason = IF w.ok THEN "Accepted" ELSE "InvalidParameters",
                                  !.observed = w.class.gen]
           current == api.class.exists /\ api.class.version = w.class.version IN
       \/ /\ current
          /\ api' = IF new = w.class THEN api
                    ELSE [api EXCEPT !.class = [new EXCEPT !.version = @ + 1]]
          /\ w' = [w EXCEPT !.pc = "deploy"]
          /\ UNCHANGED <<queue, used>>
       \/ ~current /\ ClassError(g) /\ UNCHANGED <<api, used>>
       \/ SpendsFailure /\ ClassError(g) /\ UNCHANGED api
    /\ UNCHANGED cached

\* applyDeployment: create, or update all but the annotations of the Deployment itself.
Applied(existing, desired) ==
    IF existing.version = 0 THEN desired
    ELSE [desired EXCEPT !.annotations = existing.object.annotations]

\* The steps before it may fail as it may.
applyDeployment(g) ==
    /\ w.pc = "deploy" /\ w.gw = {g}
    /\ LET existing == cached.deps[g]
           new == Applied(existing, BuildCloudflaredDeployment(w.gateway, w.merged))
           accepted == api.deps[g].version = existing.version /\ Admitted(new) IN
       \/ /\ accepted
          /\ api' = IF new = existing.object THEN api
                    ELSE [api EXCEPT !.deps[g] = [version |-> existing.version + 1, object |-> new]]
          /\ w' = [w EXCEPT !.pc = "rest"]
          /\ UNCHANGED <<queue, used>>
       \/ ~accepted /\ Return(g, TRUE) /\ UNCHANGED <<api, used>>
       \/ SpendsFailure /\ Return(g, TRUE) /\ UNCHANGED api
    /\ UNCHANGED cached

\* Routes, configuration, DNS and Gateway status.
EndPass(g) ==
    /\ w.pc = "rest" /\ w.gw = {g}
    /\ \/ Return(g, FALSE) /\ UNCHANGED used
       \/ SpendsFailure /\ Return(g, TRUE)
    /\ UNCHANGED <<api, cached>>

\* The process dies and starts again: informers list everything, which enqueues all.
Restart ==
    /\ Disturbs("restart")
    /\ w' = Idle /\ cached' = api
    /\ queue' = {g \in Gateways : api.gws[g].gen > 0}
    /\ UNCHANGED api
-----------------------------------------------------------------------------
(* Watches. *)

allGatewaysRequests_mNone == {}
allGatewaysRequests == {g \in Gateways : cached.gws[g].gen > 0}

SyncGateway(g) ==
    /\ cached.gws[g] # api.gws[g]
    /\ cached' = [cached EXCEPT !.gws[g] = api.gws[g]]
    /\ queue' = queue \cup {g}
    /\ UNCHANGED <<api, w, used>>

\* gatewayClassToGateways, on creation, deletion and new generations.
SyncClass ==
    /\ cached.class # api.class
    /\ cached' = [cached EXCEPT !.class = api.class]
    /\ queue' = queue \cup (IF cached.class.gen = api.class.gen THEN {}
                            ELSE {g \in Gateways : cached.gws[g].gen > 0})
    /\ UNCHANGED <<api, w, used>>

SyncConfig(c) ==
    /\ cached.cfgs[c] # api.cfgs[c]
    /\ cached' = [cached EXCEPT !.cfgs[c] = api.cfgs[c]]
    /\ queue' = queue \cup allGatewaysRequests
    /\ UNCHANGED <<api, w, used>>

\* Deployments are cached, and nothing watches them.
SyncDeployment(g) ==
    /\ cached.deps[g] # api.deps[g]
    /\ cached' = [cached EXCEPT !.deps[g] = api.deps[g]]
    /\ UNCHANGED <<api, queue, w, used>>
-----------------------------------------------------------------------------
(* Users. *)

Edit(kind) ==
    /\ Disturbs(kind)
    /\ UNCHANGED <<cached, queue, w>>

\* A Gateway is created, which is no edit, or its infrastructure changes.
CreateGateway(g) ==
    /\ api.gws[g].gen = 0
    /\ \E spec \in GatewaySpecs : api' = [api EXCEPT !.gws[g] = [gen |-> 1, spec |-> spec]]
    /\ UNCHANGED <<cached, queue, w, used>>
EditGateway(g) ==
    /\ Edit("gateway") /\ api.gws[g].gen > 0
    /\ \E spec \in GatewaySpecs \ {api.gws[g].spec} :
          api' = [api EXCEPT !.gws[g] = [gen |-> @.gen + 1, spec |-> spec]]

\* The class is created, once for nothing; is changed, deleted or replaced by another's.
Class(exists, ours, ref) ==
    [exists |-> exists, ours |-> ours, ref |-> ref, gen |-> api.class.gen + 1,
     version |-> api.class.version + 1, reason |-> "Pending", observed |-> 0]
CreateClass ==
    /\ api.class = NoClass
    /\ \E ref \in ClassRefs : api' = [api EXCEPT !.class = Class(TRUE, TRUE, ref)]
    /\ UNCHANGED <<cached, queue, w, used>>
EditClass ==
    /\ Edit("class")
    /\ \/ /\ api.class.exists
          /\ \E ref \in ClassRefs \ {api.class.ref} :
                api' = [api EXCEPT !.class = [Class(TRUE, @.ours, ref)
                            EXCEPT !.reason = api.class.reason, !.observed = api.class.observed]]
       \/ api.class.exists /\ api' = [api EXCEPT !.class = Class(FALSE, FALSE, NoRef)]
       \/ /\ ~api.class.exists /\ api.class.gen > 0
          /\ \E ref \in ClassRefs, ours \in BOOLEAN :
                api' = [api EXCEPT !.class = Class(TRUE, ours, ref)]

EditConfig(c) ==
    /\ Edit("config")
    /\ \E new \in Configurations \ {api.cfgs[c]} :
          api' = [api EXCEPT !.cfgs[c] = new]
-----------------------------------------------------------------------------
WorkerStep ==
    \E g \in Gateways :
       \/ GetClass(g) \/ ResolveClassRef(g) \/ ResolveGatewayRef(g)
       \/ PatchGatewayClassStatus(g) \/ applyDeployment(g) \/ EndPass(g)
Sync ==
    \/ SyncClass
    \/ \E g \in Gateways : SyncGateway(g) \/ SyncDeployment(g)
    \/ \E c \in Configs : SyncConfig(c)
UserStep ==
    \/ CreateClass \/ EditClass
    \/ \E g \in Gateways : CreateGateway(g) \/ EditGateway(g)
    \/ \E c \in Configs : EditConfig(c)
Next == WorkerStep \/ (\E g \in Gateways : Fetch(g)) \/ Sync \/ UserStep \/ Restart

Spec == Init /\ [][Next]_vars
-----------------------------------------------------------------------------
(* Properties. *)

\* Every variable has its type, and a Deployment that exists selects its own pods.
TypeOK ==
    /\ \A o \in {api, cached} :
          /\ DOMAIN o.class = DOMAIN NoClass /\ o.class.ref \in ClassRefs \cup {NoRef}
          /\ o.class.reason \in {"Pending", "Accepted", "InvalidParameters"}
          /\ o.class.observed <= o.class.gen
          /\ \A g \in Gateways : o.gws[g].gen > 0 => o.gws[g].spec \in GatewaySpecs
          /\ \A c \in Configs : o.cfgs[c].exists => o.cfgs[c].spec \in ConfigSpecs
          /\ \A g \in Gateways : o.deps[g].version > 0 =>
                DOMAIN o.deps[g].object.settings = Settings /\ Admitted(o.deps[g].object)
    /\ queue \subseteq Gateways /\ DOMAIN w = DOMAIN Idle
    /\ w.pc \in {"idle", "class", "default", "override", "patch", "deploy", "rest"}
    /\ w.ok \in BOOLEAN /\ w.gw \subseteq Gateways
    /\ used \in [count : Nat, unread : BOOLEAN]

\* Nothing is left to do, for one Gateway or for all.
Rests(g) == g \notin queue /\ w.gw # {g} /\ cached = api
Quiet == \A g \in Gateways : Rests(g)
Managed(g) == api.gws[g].gen > 0 /\ api.class.exists /\ api.class.ours

\* The configurations in force for a Gateway, each if it can be found.
Existing(c) == IF c \in Configs /\ api.cfgs[c].exists THEN api.cfgs[c].spec ELSE Nothing
Default ==
    IF api.class.ref.kind = "CloudflareTunnelConfig"
    THEN Existing(<<api.class.ref.ns, api.class.ref.name>>) ELSE Nothing
Override(g) ==
    LET ref == api.gws[g].spec.ref IN
    IF ref.kind = "CloudflareTunnelConfig" THEN Existing(<<NamespaceOf[g], ref.name>>) ELSE Nothing

\* "GatewayClass.spec.parametersRef (cluster-wide default) or
\* Gateway.spec.infrastructure.parametersRef (per-Gateway override)" (README), field by field.
Wanted(g, f, none) ==
    IF f \in DOMAIN Override(g) THEN Override(g)[f]
    ELSE IF f \in DOMAIN Default THEN Default[f] ELSE none

\* A pod carries a key if the infrastructure or the configuration wants it, in this order.
Carries(map, first, second, third) ==
    /\ DOMAIN map = DOMAIN first \cup DOMAIN second \cup DOMAIN third
    /\ \A k \in DOMAIN map :
          map[k] = IF k \in DOMAIN first THEN first[k]
                   ELSE IF k \in DOMAIN second THEN second[k] ELSE third[k]
PodsCarry(g) ==
    LET object == api.deps[g].object
        spec == api.gws[g].spec IN
    /\ Carries(object.labels, spec.labels, Wanted(g, "podLabels", Nothing), Identity)
    /\ Carries(object.podAnnotations, spec.annotations, Wanted(g, "podAnnotations", Nothing),
               Nothing)
Configured(g) ==
    /\ api.deps[g].version > 0
    /\ \A f \in Settings : api.deps[g].object.settings[f] = Wanted(g, f, "default")
    /\ PodsCarry(g)

\* Once a Gateway is at rest its Deployment has the settings now in force for it, although a
\* pass reads Gateway, class and the two configurations at different moments, writes the
\* Deployment from a cached copy that nothing watches, and may be next to a Gateway whose
\* Deployment is refused for ever; unless a configuration could not be read.
DeploymentIsConfigured ==
    \A g \in Gateways : Rests(g) /\ Managed(g) /\ ~used.unread => Configured(g)

\* Once all is quiet the class says for its present generation whether its reference
\* resolves, although each of its Gateways writes that from copies of its own, and a Gateway
\* that has an override too; unless a configuration could not be read.
ClassIsJudged ==
    LET ref == api.class.ref
        resolves == ref.kind = "CloudflareTunnelConfig" =>
            /\ ref.ns # "" /\ <<ref.ns, ref.name>> \in Configs
            /\ api.cfgs[<<ref.ns, ref.name>>].exists IN
    Quiet /\ ~used.unread /\ (\E g \in Gateways : Managed(g)) =>
        /\ api.class.observed = api.class.gen
        /\ api.class.reason = IF resolves THEN "Accepted" ELSE "InvalidParameters"

\* Whatever fails to be read, a Deployment that is left alone has nothing but settings in
\* force for its Gateway and defaults: never those of a configuration that was changed,
\* deleted or is no longer referred to.
DegradesToDefaults ==
    \A g \in Gateways : Rests(g) /\ Managed(g) => \A f \in Settings :
        api.deps[g].object.settings[f] \in {"default"} \cup
            {cfg[f] : cfg \in {c \in {Default, Override(g)} : f \in DOMAIN c}}
=============================================================================
