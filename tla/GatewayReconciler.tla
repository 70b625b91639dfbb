------------------------- MODULE GatewayReconciler -------------------------
(***************************************************************************)
(* The reconcile loop of internal/controller/reconciler.go: one worker     *)
(* takes Gateways off the work queue and drives, for each, the tunnel      *)
(* Secret, the Cloudflare tunnel, the cloudflared Deployment, the tunnel   *)
(* configuration, the DNS records and the Gateway status; or, for a        *)
(* Gateway being deleted, removes them and then the finalizer.             *)
(*                                                                         *)
(* Every step of the worker is one call to the Kubernetes or Cloudflare    *)
(* API.  Between two steps users edit objects, informer caches lag behind  *)
(* the API server, the garbage collector runs, calls fail (with or         *)
(* without having taken effect) and the controller process may crash.      *)
(*                                                                         *)
(* Zero stands for "absent" in every identifier: uid 0 is no Gateway,      *)
(* owner 0 no Secret or Deployment, tunnel id 0 no tunnel, key 0 no        *)
(* tunnel-secret entry.  An object's resourceVersion is abstracted to its  *)
(* content: an Update based on content that is no longer the API server's  *)
(* is rejected, as is one of an object that is gone.                       *)
(***************************************************************************)
EXTENDS Naturals, FiniteSets

CONSTANTS
    Gateways,        \* namespaced names of Gateways
    Names,           \* Gateway names without their namespace
    NameOf,          \* the name part of a namespaced name
    Hostnames,       \* concrete route hostnames that lie in some zone
    ManageDNS,       \* the controller-wide --enable-dns-management flag
    TamperKinds,     \* what users do to the objects the controller owns
    MaxCreates, MaxEdits, MaxClassChanges, MaxRouteEdits, MaxTampers,
    MaxFailures, MaxCrashes

ASSUME GatewaysAssumption ==
    /\ Gateways # {}
    /\ NameOf \in [Gateways -> Names]
    /\ ManageDNS \in BOOLEAN
    /\ {MaxCreates, MaxEdits, MaxClassChanges, MaxRouteEdits, MaxTampers,
        MaxFailures, MaxCrashes} \subseteq Nat

VARIABLES
    gateway,           \* the Gateway objects of the API server
    secret,            \* the tunnel Secrets of the API server
    deployment,        \* owner uid of each cloudflared Deployment
    cachedGateway, cachedSecret, cachedDeployment,   \* the informer caches
    class,             \* does the Gateway's class name this controller?
    routes,            \* hostnames of the routes attached to each Gateway
    queue,             \* the work queue
    w,                 \* the worker: program counter and local variables
    tunnel,            \* Cloudflare's tunnels, by name
    dns,               \* Cloudflare's CNAME records, by hostname
    fresh,             \* next uid, tunnel secret and tunnel id
    used               \* how much of each bound is used up

kube == <<gateway, secret, deployment>>
cache == <<cachedGateway, cachedSecret, cachedDeployment>>
cloud == <<tunnel, dns>>
env == <<class, routes>>
vars == <<kube, cache, env, queue, w, cloud, fresh, used>>
-----------------------------------------------------------------------------
(* Objects. *)

NoGateway == [uid |-> 0, deleting |-> FALSE, finalizer |-> FALSE,
              dnsManaged |-> TRUE, programmed |-> "Unknown", address |-> 0]
NoToken == [tunnel |-> 0, key |-> 0]
NoSecret == [owner |-> 0, key |-> 0, token |-> NoToken]
NoTunnel == [id |-> 0, key |-> 0, config |-> {}]
NoRecord == [present |-> FALSE, owner |-> 0, target |-> 0]
ForeignRecord == [present |-> TRUE, owner |-> 0, target |-> 0]

\* A tunnel-secret entry that is not 32 bytes long; real keys are larger.
BadKey == 1

\* The values of the Programmed condition.
ProgrammedValues == {"Unknown", "True", "False"}

\* The steps of apply and of cleanup, after AddFinalizer.
ApplySteps == {"EnsureTunnelSecret", "GetTunnel", "DeleteTunnel", "CreateTunnel",
               "StoreToken", "ApplyDeployment", "CollectRoutes", "PushConfig",
               "ReconcileDNS", "PatchStatus"}
CleanupSteps == {"CleanupGetTunnel", "CleanupDeleteTunnel", "CleanupDeployment",
                 "CleanupSecret", "TeardownDNS", "RemoveFinalizer"}

\* The straight-line order of the calls of apply and cleanup.
NextStep_mDNSFirst ==
    [CreateTunnel |-> "StoreToken", StoreToken |-> "ApplyDeployment",
     ApplyDeployment |-> "CollectRoutes", CollectRoutes |-> "ReconcileDNS",
     ReconcileDNS |-> "PushConfig", PushConfig |-> "PatchStatus",
     CleanupDeleteTunnel |-> "CleanupDeployment",
     CleanupDeployment |-> "CleanupSecret", CleanupSecret |-> "TeardownDNS",
     TeardownDNS |-> "RemoveFinalizer"]
NextStep ==
    [CreateTunnel |-> "StoreToken", StoreToken |-> "ApplyDeployment",
     ApplyDeployment |-> "CollectRoutes", CollectRoutes |-> "PushConfig",
     PushConfig |-> "ReconcileDNS", ReconcileDNS |-> "PatchStatus",
     CleanupDeleteTunnel |-> "CleanupDeployment",
     CleanupDeployment |-> "CleanupSecret", CleanupSecret |-> "TeardownDNS",
     TeardownDNS |-> "RemoveFinalizer"]

AnyGateway == CHOOSE g \in Gateways : TRUE
Idle == [pc |-> "idle", gw |-> AnyGateway, snap |-> NoGateway, key |-> 0,
         regenerated |-> FALSE, tunnel |-> 0, hosts |-> {}, err |-> FALSE]

GatewayObjects == [uid : Nat, deleting : BOOLEAN, finalizer : BOOLEAN,
                   dnsManaged : BOOLEAN, programmed : ProgrammedValues, address : Nat]
SecretObjects == [owner : Nat, key : Nat, token : [tunnel : Nat, key : Nat]]
TunnelObjects == [id : Nat, key : Nat, config : SUBSET Hostnames]
Records == [present : BOOLEAN, owner : Nat, target : Nat]
Steps == {"idle", "AddFinalizer"} \cup ApplySteps \cup CleanupSteps
Workers == [pc : Steps, gw : Gateways, snap : GatewayObjects, key : Nat,
            regenerated : BOOLEAN, tunnel : Nat, hosts : SUBSET Hostnames, err : BOOLEAN]
FreshCounters == [uid : Nat \ {0}, key : Nat \ {0}, tunnel : Nat \ {0}]
Budgets == [edits : Nat, classChanges : Nat, routeEdits : Nat, tampers : Nat,
            failures : Nat, crashes : Nat]

Init ==
    /\ gateway = [g \in Gateways |-> NoGateway] /\ cachedGateway = gateway
    /\ secret = [g \in Gateways |-> NoSecret] /\ cachedSecret = secret
    /\ deployment = [g \in Gateways |-> 0] /\ cachedDeployment = deployment
    /\ class = [g \in Gateways |-> TRUE]
    /\ routes = [g \in Gateways |-> {}]
    /\ queue = {}
    /\ w = Idle
    /\ tunnel = [n \in Names |-> NoTunnel]
    /\ dns = [h \in Hostnames |-> NoRecord]
    /\ fresh = [uid |-> 1, key |-> 2, tunnel |-> 1]
    /\ used = [edits |-> 0, classChanges |-> 0, routeEdits |-> 0,
               tampers |-> 0, failures |-> 0, crashes |-> 0]
-----------------------------------------------------------------------------
(* How a step of the worker ends. *)

name == NameOf[w.gw]
Goto(pc) == w' = [w EXCEPT !.pc = pc] /\ UNCHANGED <<queue, used>>

\* Reconcile returns nil: the worker is free.
Returns == w' = Idle /\ UNCHANGED <<queue, used>>

\* Reconcile returns a retriable error: controller-runtime requeues.
ReturnsError_mDropped == w' = Idle /\ UNCHANGED <<queue, used>>
ReturnsError == w' = Idle /\ queue' = queue \cup {w.gw} /\ UNCHANGED used

\* A call failed in transit or at the server, MaxFailures times at most.
SpendsFailure ==
    /\ used.failures < MaxFailures
    /\ used' = [used EXCEPT !.failures = @ + 1]
Fails == SpendsFailure /\ w' = Idle /\ queue' = queue \cup {w.gw}

\* The same inside cleanup and reconcileDNS: the error is kept and the work goes on.
FailsAndGoesOn(pc) ==
    /\ SpendsFailure
    /\ w' = [w EXCEPT !.pc = pc, !.err = TRUE]
    /\ UNCHANGED queue
-----------------------------------------------------------------------------
(* reconcile: fetch, class check, finalizer. *)

\* Where reconcile goes for the Gateway object it read, or "idle" for return nil.
FirstStep(g) ==
    LET gw == cachedGateway[g] IN
    IF gw.uid = 0 \/ ~class[g] THEN "idle"
    ELSE IF gw.deleting
         THEN IF gw.finalizer THEN "CleanupGetTunnel" ELSE "idle"
         ELSE IF gw.finalizer THEN "EnsureTunnelSecret" ELSE "AddFinalizer"

Fetch(g) ==
    /\ w.pc = "idle"
    /\ g \in queue
    /\ queue' = queue \ {g}
    /\ w' = IF FirstStep(g) = "idle" THEN Idle
            ELSE [Idle EXCEPT !.pc = FirstStep(g), !.gw = g, !.snap = cachedGateway[g]]
    /\ UNCHANGED <<kube, cache, env, cloud, fresh, used>>

AddFinalizer ==
    /\ w.pc = "AddFinalizer"
    /\ \/ /\ gateway[w.gw] = w.snap
          /\ gateway' = [gateway EXCEPT ![w.gw].finalizer = TRUE]
          /\ \/ /\ w' = [w EXCEPT !.pc = "EnsureTunnelSecret", !.snap.finalizer = TRUE]
                /\ UNCHANGED <<queue, used>>
             \/ Fails
       \/ /\ gateway[w.gw] # w.snap
          /\ ReturnsError
          /\ UNCHANGED gateway
       \/ Fails /\ UNCHANGED gateway
    /\ UNCHANGED <<secret, deployment, cache, env, cloud, fresh>>
-----------------------------------------------------------------------------
(* apply: the tunnel Secret and the tunnel. *)

\* The Secret has a Data map but no 32-byte tunnel-secret entry in it.
NeedsRegeneration(s) == s.owner # 0 /\ (s.key = BadKey \/ (s.key = 0 /\ s.token # NoToken))

\* The Secret has no Data at all: writing the entry panics on the nil map, which
\* controller-runtime recovers into an error.
HasNoData(s) == s.owner # 0 /\ s.key = 0 /\ s.token = NoToken

\* The Secret EnsureTunnelSecret writes when it does not use the one it read.
WrittenSecret(s) ==
    IF s.owner = 0 THEN [owner |-> w.snap.uid, key |-> fresh.key, token |-> NoToken]
    ELSE [s EXCEPT !.key = fresh.key]

HasTunnelSecret_mRegenerates(key, regenerated) ==
    w' = [w EXCEPT !.pc = "GetTunnel", !.key = fresh.key, !.regenerated = regenerated]
HasTunnelSecret(key, regenerated) ==
    w' = [w EXCEPT !.pc = "GetTunnel", !.key = key, !.regenerated = regenerated]

EnsureTunnelSecret ==
    LET s == cachedSecret[w.gw] IN
    /\ w.pc = "EnsureTunnelSecret"
    /\ \/ /\ s.key > BadKey
          /\ HasTunnelSecret(s.key, FALSE)
          /\ UNCHANGED <<secret, queue, fresh, used>>
       \/ /\ s.owner = 0 \/ NeedsRegeneration(s)
          /\ secret[w.gw] = s
          /\ secret' = [secret EXCEPT ![w.gw] = WrittenSecret(s)]
          /\ fresh' = [fresh EXCEPT !.key = @ + 1]
          /\ \/ HasTunnelSecret(fresh.key, NeedsRegeneration(s)) /\ UNCHANGED <<queue, used>>
             \/ Fails
       \/ /\ HasNoData(s) \/ (s.key <= BadKey /\ secret[w.gw] # s)
          /\ ReturnsError
          /\ UNCHANGED <<secret, fresh>>
       \/ Fails /\ UNCHANGED <<secret, fresh>>
    /\ UNCHANGED <<gateway, deployment, cache, env, cloud>>

\* What follows the lookup by name: create, recreate or reuse.
AfterGetTunnel(id, regenerated) ==
    IF id = 0 THEN "CreateTunnel"
    ELSE IF regenerated THEN "DeleteTunnel" ELSE "StoreToken"

GetTunnel ==
    /\ w.pc = "GetTunnel"
    /\ \/ /\ w' = [w EXCEPT !.tunnel = tunnel[name].id,
                            !.pc = AfterGetTunnel(tunnel[name].id, w.regenerated)]
          /\ UNCHANGED <<queue, used>>
       \/ Fails
    /\ UNCHANGED <<kube, cache, env, cloud, fresh>>

DeleteTunnel ==
    /\ w.pc = "DeleteTunnel"
    /\ \/ /\ tunnel[name].id = w.tunnel
          /\ tunnel' = [tunnel EXCEPT ![name] = NoTunnel]
          /\ Goto("CreateTunnel") \/ Fails
       \/ tunnel[name].id # w.tunnel /\ ReturnsError /\ UNCHANGED tunnel
       \/ Fails /\ UNCHANGED tunnel
    /\ UNCHANGED <<kube, cache, env, dns, fresh>>

\* The name is free: only this worker creates tunnels.
CreateTunnel ==
    /\ w.pc = "CreateTunnel"
    /\ \/ /\ tunnel' = [tunnel EXCEPT ![name] =
                          [id |-> fresh.tunnel, key |-> w.key, config |-> {}]]
          /\ fresh' = [fresh EXCEPT !.tunnel = @ + 1]
          /\ \/ /\ w' = [w EXCEPT !.pc = NextStep.CreateTunnel, !.tunnel = fresh.tunnel]
                /\ UNCHANGED <<queue, used>>
             \/ Fails
       \/ Fails /\ UNCHANGED <<tunnel, fresh>>
    /\ UNCHANGED <<kube, cache, env, dns>>

\* BuildTunnelToken and StoreTunnelToken: read the cached Secret, add the token.
StoreToken ==
    LET s == cachedSecret[w.gw]
        stored == [s EXCEPT !.token = [tunnel |-> w.tunnel, key |-> w.key]] IN
    /\ w.pc = "StoreToken"
    /\ \/ /\ s.owner # 0 /\ secret[w.gw] = s
          /\ secret' = [secret EXCEPT ![w.gw] = stored]
          /\ Goto(NextStep.StoreToken) \/ Fails
       \/ /\ s.owner = 0 \/ secret[w.gw] # s
          /\ ReturnsError
          /\ UNCHANGED secret
       \/ Fails /\ UNCHANGED secret
    /\ UNCHANGED <<gateway, deployment, cache, env, cloud, fresh>>
-----------------------------------------------------------------------------
(* apply: the Deployment, the configuration, DNS and the status. *)

\* An Update keeps the owner reference of the Deployment that was read.
AppliedOwner(cached) == IF cached = 0 THEN w.snap.uid ELSE cached

ApplyDeployment ==
    LET d == cachedDeployment[w.gw] IN
    /\ w.pc = "ApplyDeployment"
    /\ \/ /\ deployment[w.gw] = d
          /\ deployment' = [deployment EXCEPT ![w.gw] = AppliedOwner(d)]
          /\ Goto(NextStep.ApplyDeployment) \/ Fails
       \/ deployment[w.gw] # d /\ ReturnsError /\ UNCHANGED deployment
       \/ Fails /\ UNCHANGED deployment
    /\ UNCHANGED <<gateway, secret, cache, env, cloud, fresh>>

\* Routes, policies and backends are read from the caches; the rules are built.
CollectRoutes ==
    /\ w.pc = "CollectRoutes"
    /\ w' = [w EXCEPT !.pc = NextStep.CollectRoutes, !.hosts = routes[w.gw]]
    /\ UNCHANGED <<kube, cache, env, queue, cloud, fresh, used>>

PushConfig ==
    /\ w.pc = "PushConfig"
    /\ \/ /\ tunnel[name].id = w.tunnel
          /\ tunnel' = [tunnel EXCEPT ![name].config = w.hosts]
          /\ Goto(NextStep.PushConfig) \/ Fails
       \/ tunnel[name].id # w.tunnel /\ ReturnsError /\ UNCHANGED tunnel
       \/ Fails /\ UNCHANGED tunnel
    /\ UNCHANGED <<kube, cache, env, dns, fresh>>

DNSEnabled == ManageDNS /\ w.snap.dnsManaged
OwnedBy(u, h) == dns[h].present /\ dns[h].owner = u
Conflicts == {h \in w.hosts : dns[h].present /\ ~OwnedBy(w.snap.uid, h)}

\* planDNSChanges: what the record of h becomes when its change is applied.
PlannedRecord(h) ==
    IF h \in w.hosts \ Conflicts
    THEN [present |-> TRUE, owner |-> w.snap.uid, target |-> w.tunnel]
    ELSE IF OwnedBy(w.snap.uid, h) /\ h \notin w.hosts THEN NoRecord ELSE dns[h]

\* dns with the change of PlannedRecord-like plan applied to the hostnames in done.
Applied(Plan(_), done) == [h \in Hostnames |-> IF h \in done THEN Plan(h) ELSE dns[h]]

\* Conflicts are an error of reconcileDNS, though nothing is written for them.
DNSError_mIgnoreConflicts == FALSE
DNSError == Conflicts # {}

\* A failing pass has applied any part of the plan; apply goes on in any case.
ReconcileDNS ==
    /\ w.pc = "ReconcileDNS"
    /\ \/ /\ ~DNSEnabled
          /\ Goto(NextStep.ReconcileDNS)
          /\ UNCHANGED dns
       \/ /\ DNSEnabled
          /\ dns' = Applied(PlannedRecord, Hostnames)
          /\ w' = [w EXCEPT !.pc = NextStep.ReconcileDNS, !.err = DNSError]
          /\ UNCHANGED <<queue, used>>
       \/ /\ DNSEnabled
          /\ \E done \in SUBSET Hostnames : dns' = Applied(PlannedRecord, done)
          /\ FailsAndGoesOn(NextStep.ReconcileDNS)
    /\ UNCHANGED <<kube, cache, env, tunnel, fresh>>

\* The status of the Programmed condition.
ProgrammedStatus_mReason(err) == IF err THEN "DNSNotReady" ELSE "Programmed"
ProgrammedStatus(err) == IF err THEN "False" ELSE "True"

\* A failed route or policy status patch is a Fails with or without effect here:
\* the Gateway status is still attempted, and the error is returned after it.
PatchStatus ==
    LET patched == [w.snap EXCEPT !.programmed = ProgrammedStatus(w.err),
                                  !.address = w.tunnel] IN
    /\ w.pc = "PatchStatus"
    /\ \/ /\ gateway[w.gw] = w.snap
          /\ gateway' = [gateway EXCEPT ![w.gw] = patched]
          /\ \/ ~w.err /\ Returns
             \/ w.err /\ ReturnsError
             \/ Fails
       \/ gateway[w.gw] # w.snap /\ ReturnsError /\ UNCHANGED gateway
       \/ Fails /\ UNCHANGED gateway
    /\ UNCHANGED <<secret, deployment, cache, env, cloud, fresh>>
-----------------------------------------------------------------------------
(* cleanup: every step is tried, the first error is kept.                  *)

CleanupGetTunnel ==
    /\ w.pc = "CleanupGetTunnel"
    /\ \/ /\ w' = [w EXCEPT !.tunnel = tunnel[name].id,
                            !.pc = IF tunnel[name].id = 0 THEN "CleanupDeployment"
                                                          ELSE "CleanupDeleteTunnel"]
          /\ UNCHANGED <<queue, used>>
       \/ FailsAndGoesOn("CleanupDeployment")
    /\ UNCHANGED <<kube, cache, env, cloud, fresh>>

CleanupDeleteTunnel ==
    /\ w.pc = "CleanupDeleteTunnel"
    /\ \/ /\ tunnel[name].id = w.tunnel
          /\ tunnel' = [tunnel EXCEPT ![name] = NoTunnel]
          /\ \/ Goto(NextStep.CleanupDeleteTunnel)
             \/ FailsAndGoesOn(NextStep.CleanupDeleteTunnel)
       \/ /\ tunnel[name].id # w.tunnel
          /\ w' = [w EXCEPT !.pc = NextStep.CleanupDeleteTunnel, !.err = TRUE]
          /\ UNCHANGED <<tunnel, queue, used>>
       \/ FailsAndGoesOn(NextStep.CleanupDeleteTunnel) /\ UNCHANGED tunnel
    /\ UNCHANGED <<kube, cache, env, dns, fresh>>

\* Deletes whatever Deployment the API server has under the name, if the cache has one.
CleanupDeployment ==
    /\ w.pc = "CleanupDeployment"
    /\ \/ /\ deployment' = [deployment EXCEPT ![w.gw] =
                              IF cachedDeployment[w.gw] = 0 THEN @ ELSE 0]
          /\ \/ Goto(NextStep.CleanupDeployment)
             \/ cachedDeployment[w.gw] # 0 /\ FailsAndGoesOn(NextStep.CleanupDeployment)
       \/ /\ cachedDeployment[w.gw] # 0
          /\ FailsAndGoesOn(NextStep.CleanupDeployment)
          /\ UNCHANGED deployment
    /\ UNCHANGED <<gateway, secret, cache, env, cloud, fresh>>

CleanupSecret ==
    /\ w.pc = "CleanupSecret"
    /\ \/ /\ secret' = [secret EXCEPT ![w.gw] =
                          IF cachedSecret[w.gw].owner = 0 THEN @ ELSE NoSecret]
          /\ \/ Goto(NextStep.CleanupSecret)
             \/ cachedSecret[w.gw].owner # 0 /\ FailsAndGoesOn(NextStep.CleanupSecret)
       \/ /\ cachedSecret[w.gw].owner # 0
          /\ FailsAndGoesOn(NextStep.CleanupSecret)
          /\ UNCHANGED secret
    /\ UNCHANGED <<gateway, deployment, cache, env, cloud, fresh>>

\* Unlike reconcileDNS, teardownDNS does not look at the dns-managed annotation.
TeardownEnabled_mAnnotation == ManageDNS /\ w.snap.dnsManaged
TeardownEnabled == ManageDNS

TornDownRecord(h) == IF OwnedBy(w.snap.uid, h) THEN NoRecord ELSE dns[h]

TeardownDNS ==
    /\ w.pc = "TeardownDNS"
    /\ \/ /\ dns' = IF TeardownEnabled THEN Applied(TornDownRecord, Hostnames) ELSE dns
          /\ Goto(NextStep.TeardownDNS)
       \/ /\ TeardownEnabled
          /\ \E done \in SUBSET Hostnames : dns' = Applied(TornDownRecord, done)
          /\ FailsAndGoesOn(NextStep.TeardownDNS)
    /\ UNCHANGED <<kube, cache, env, tunnel, fresh>>

\* cleanup returned an error: the finalizer stays.
CleanupFailed_mIgnored == FALSE
CleanupFailed == w.err

\* Removing the last finalizer of an object being deleted removes the object.
RemoveFinalizer ==
    /\ w.pc = "RemoveFinalizer"
    /\ \/ /\ ~CleanupFailed
          /\ gateway[w.gw] = w.snap
          /\ gateway' = [gateway EXCEPT ![w.gw] = NoGateway]
          /\ Returns \/ Fails
       \/ /\ CleanupFailed \/ gateway[w.gw] # w.snap
          /\ ReturnsError
          /\ UNCHANGED gateway
       \/ ~CleanupFailed /\ Fails /\ UNCHANGED gateway
    /\ UNCHANGED <<secret, deployment, cache, env, cloud, fresh>>
-----------------------------------------------------------------------------
(* Users. *)

CreateGateway(g) ==
    /\ gateway[g].uid = 0
    /\ fresh.uid <= MaxCreates
    /\ gateway' = [gateway EXCEPT ![g] = [NoGateway EXCEPT !.uid = fresh.uid]]
    /\ fresh' = [fresh EXCEPT !.uid = @ + 1]
    /\ UNCHANGED <<secret, deployment, cache, env, queue, w, cloud, used>>

DeleteGateway(g) ==
    /\ gateway[g].uid # 0 /\ ~gateway[g].deleting
    /\ gateway' = [gateway EXCEPT ![g] =
                     IF @.finalizer THEN [@ EXCEPT !.deleting = TRUE] ELSE NoGateway]
    /\ UNCHANGED <<secret, deployment, cache, env, queue, w, cloud, fresh, used>>

\* Toggle the dns-managed annotation: no generation change, so no event.
EditGateway(g) ==
    /\ gateway[g].uid # 0
    /\ used.edits < MaxEdits
    /\ used' = [used EXCEPT !.edits = @ + 1]
    /\ gateway' = [gateway EXCEPT ![g].dnsManaged = ~@]
    /\ UNCHANGED <<secret, deployment, cache, env, queue, w, cloud, fresh>>

\* The class (dis)appears, or the Gateway is moved to or from this controller's class.
ChangeClass(g) ==
    /\ used.classChanges < MaxClassChanges
    /\ used' = [used EXCEPT !.classChanges = @ + 1]
    /\ class' = [class EXCEPT ![g] = ~@]
    /\ queue' = IF cachedGateway[g].uid = 0 THEN queue ELSE queue \cup {g}
    /\ UNCHANGED <<kube, cache, routes, w, cloud, fresh>>

\* routeToGateways enqueues a route's parents whether they exist or not.
RouteRequests_mKnownOnly(g) == IF g = w.gw /\ w.pc # "idle" THEN {} ELSE {g}
RouteRequests(g) == {g}
ChangeRoutes(g, hosts) ==
    /\ routes[g] # hosts
    /\ used.routeEdits < MaxRouteEdits
    /\ used' = [used EXCEPT !.routeEdits = @ + 1]
    /\ routes' = [routes EXCEPT ![g] = hosts]
    /\ queue' = queue \cup RouteRequests(g)
    /\ UNCHANGED <<kube, cache, class, w, cloud, fresh>>

Tampers(kind) ==
    /\ kind \in TamperKinds
    /\ used.tampers < MaxTampers
    /\ used' = [used EXCEPT !.tampers = @ + 1]

\* A user breaks the tunnel-secret entry, clears the Secret's data or deletes it.
TamperSecret(g) ==
    /\ secret[g].owner # 0
    /\ \/ Tampers("CorruptSecret") /\ secret' = [secret EXCEPT ![g].key = BadKey]
       \/ /\ Tampers("ClearSecret")
          /\ secret' = [secret EXCEPT ![g].key = 0, ![g].token = NoToken]
       \/ Tampers("DeleteSecret") /\ secret' = [secret EXCEPT ![g] = NoSecret]
    /\ UNCHANGED <<gateway, deployment, cache, env, queue, w, cloud, fresh>>

\* A tunnel is deleted in the Cloudflare dashboard.
TamperTunnel(n) ==
    /\ Tampers("DeleteTunnel")
    /\ tunnel[n].id # 0
    /\ tunnel' = [tunnel EXCEPT ![n] = NoTunnel]
    /\ UNCHANGED <<kube, cache, env, queue, w, dns, fresh>>

\* Someone else publishes a CNAME.
TamperDNS(h) ==
    /\ Tampers("ForeignRecord")
    /\ ~dns[h].present
    /\ dns' = [dns EXCEPT ![h] = ForeignRecord]
    /\ UNCHANGED <<kube, cache, env, queue, w, tunnel, fresh>>
-----------------------------------------------------------------------------
(* Kubernetes: watch events, garbage collection; and controller restarts.  *)

\* For(&Gateway{}) with GenerationChangedPredicate: creation, deletion timestamp, removal.
SyncGateway(g) ==
    /\ cachedGateway[g] # gateway[g]
    /\ cachedGateway' = [cachedGateway EXCEPT ![g] = gateway[g]]
    /\ queue' = IF \/ cachedGateway[g].uid # gateway[g].uid
                   \/ cachedGateway[g].deleting # gateway[g].deleting
                THEN queue \cup {g} ELSE queue
    /\ UNCHANGED <<kube, cachedSecret, cachedDeployment, env, w, cloud, fresh, used>>

\* Secrets and Deployments are read through caches but not watched for events.
SyncSecret(g) ==
    /\ cachedSecret[g] # secret[g]
    /\ cachedSecret' = [cachedSecret EXCEPT ![g] = secret[g]]
    /\ UNCHANGED <<kube, cachedGateway, cachedDeployment, env, queue, w, cloud, fresh, used>>

SyncDeployment(g) ==
    /\ cachedDeployment[g] # deployment[g]
    /\ cachedDeployment' = [cachedDeployment EXCEPT ![g] = deployment[g]]
    /\ UNCHANGED <<kube, cachedGateway, cachedSecret, env, queue, w, cloud, fresh, used>>

\* The garbage collector removes what a Gateway that no longer exists owns.
Orphaned(g, owner) == owner # 0 /\ gateway[g].uid # owner

CollectSecret(g) ==
    /\ Orphaned(g, secret[g].owner)
    /\ secret' = [secret EXCEPT ![g] = NoSecret]
    /\ UNCHANGED <<gateway, deployment, cache, env, queue, w, cloud, fresh, used>>

CollectDeployment(g) ==
    /\ Orphaned(g, deployment[g])
    /\ deployment' = [deployment EXCEPT ![g] = 0]
    /\ UNCHANGED <<gateway, secret, cache, env, queue, w, cloud, fresh, used>>

\* The process dies and another instance starts: new caches, every Gateway enqueued.
Crash ==
    /\ used.crashes < MaxCrashes
    /\ used' = [used EXCEPT !.crashes = @ + 1]
    /\ w' = Idle
    /\ queue' = {g \in Gateways : gateway[g].uid # 0}
    /\ cachedGateway' = gateway /\ cachedSecret' = secret /\ cachedDeployment' = deployment
    /\ UNCHANGED <<kube, env, cloud, fresh>>
-----------------------------------------------------------------------------
ApplyStep ==
    \/ AddFinalizer \/ EnsureTunnelSecret \/ GetTunnel \/ DeleteTunnel \/ CreateTunnel
    \/ StoreToken \/ ApplyDeployment \/ CollectRoutes \/ PushConfig \/ ReconcileDNS
    \/ PatchStatus
CleanupStep ==
    \/ CleanupGetTunnel \/ CleanupDeleteTunnel \/ CleanupDeployment \/ CleanupSecret
    \/ TeardownDNS \/ RemoveFinalizer
WorkerStep == ApplyStep \/ CleanupStep

UserStep ==
    \/ \E g \in Gateways :
          \/ CreateGateway(g) \/ DeleteGateway(g) \/ EditGateway(g) \/ ChangeClass(g)
          \/ \E hosts \in SUBSET Hostnames : ChangeRoutes(g, hosts)
          \/ TamperSecret(g)
    \/ \E n \in Names : TamperTunnel(n)
    \/ \E h \in Hostnames : TamperDNS(h)

KubeStep(g) ==
    \/ SyncGateway(g) \/ SyncSecret(g) \/ SyncDeployment(g)
    \/ CollectSecret(g) \/ CollectDeployment(g)

Next ==
    \/ \E g \in Gateways : Fetch(g)
    \/ WorkerStep
    \/ UserStep
    \/ \E g \in Gateways : KubeStep(g)
    \/ Crash

Spec == Init /\ [][Next]_vars

\* The worker never stops in the middle of a pass, the queue is fair to every
\* Gateway, watches deliver and the garbage collector runs.  Nothing is assumed
\* of users, failures or crashes beyond their bounds.
Fairness ==
    /\ WF_vars(WorkerStep)
    /\ \A g \in Gateways :
          /\ SF_vars(Fetch(g))
          /\ WF_vars(SyncGateway(g)) /\ WF_vars(SyncSecret(g)) /\ WF_vars(SyncDeployment(g))
          /\ WF_vars(CollectSecret(g)) /\ WF_vars(CollectDeployment(g))
LiveSpec == Spec /\ Fairness
-----------------------------------------------------------------------------
(* Properties. *)

\* Every variable has its type; in particular the Programmed condition is only
\* ever one of the values the Gateway API knows (status.go, PatchGatewayStatus).
TypeOK ==
    /\ gateway \in [Gateways -> GatewayObjects]
    /\ cachedGateway \in [Gateways -> GatewayObjects]
    /\ secret \in [Gateways -> SecretObjects]
    /\ cachedSecret \in [Gateways -> SecretObjects]
    /\ deployment \in [Gateways -> Nat]
    /\ cachedDeployment \in [Gateways -> Nat]
    /\ class \in [Gateways -> BOOLEAN]
    /\ routes \in [Gateways -> SUBSET Hostnames]
    /\ queue \subseteq Gateways
    /\ w \in Workers
    /\ tunnel \in [Names -> TunnelObjects]
    /\ dns \in [Hostnames -> Records]
    /\ fresh \in FreshCounters
    /\ used \in Budgets

\* A tunnel never outlives its Gateways: whatever fails, crashes or is read stale,
\* as long as a tunnel exists some Gateway of its name exists and still carries
\* the finalizer that makes the controller delete it (reconciler.go, cleanup).
NoOrphanTunnels ==
    \A n \in Names : tunnel[n].id # 0 =>
        \E g \in Gateways : NameOf[g] = n /\ gateway[g].uid # 0 /\ gateway[g].finalizer

\* A DNS record never outlives the Gateway incarnation whose uid its ownership
\* comment carries: "retain the finalizer if owned DNS records cannot be removed".
NoOrphanRecords ==
    \A h \in Hostnames : dns[h].owner # 0 =>
        \E g \in Gateways : gateway[g].uid = dns[h].owner /\ gateway[g].finalizer

\* "Publish DNS only after the tunnel configuration is ready" (reconciler.go): a
\* record is only ever pointed at a tunnel whose configuration serves the hostname.
PublishedHostsAreServed ==
    [][\A h \in Hostnames : dns'[h] # dns[h] /\ dns'[h].owner # 0 =>
          \E n \in Names : tunnel[n].id = dns'[h].target /\ h \in tunnel[n].config]_vars

\* A Gateway does "not advertise itself as ready for traffic while its hostnames
\* have no DNS records pointing at the tunnel" (status.go): when the Programmed
\* condition or the address under it changes, every configured hostname has its record.
ReadyMeansPublished ==
    [][\A g \in Gateways :
          LET was == gateway[g]  is == gateway'[g] IN
          /\ is.programmed = "True" /\ ManageDNS /\ is.dnsManaged
          /\ is.programmed # was.programmed \/ is.address # was.address
          => \A h \in tunnel[NameOf[g]].config :
                dns[h] = [present |-> TRUE, owner |-> is.uid, target |-> is.address]]_vars

Live(g) == gateway[g].uid # 0 /\ ~gateway[g].deleting /\ class[g]

\* The tunnel serves exactly the attached routes and the records follow it.
Served(g) ==
    /\ gateway[g].finalizer /\ gateway[g].programmed = "True"
    /\ gateway[g].address = tunnel[NameOf[g]].id
    /\ tunnel[NameOf[g]].config = routes[g]
    /\ ManageDNS => \A h \in Hostnames :
         IF h \in routes[g]
         THEN dns[h] = [present |-> TRUE, owner |-> gateway[g].uid, target |-> gateway[g].address]
         ELSE ~OwnedBy(gateway[g].uid, h)

\* No lost wake-up: when nothing is queued for a Gateway that the cache knows and
\* the worker is not on it, it is fully served, whatever changed, failed or crashed
\* while it was being reconciled (controller.go watches, Reconcile's error policy).
SettledIsServed ==
    \A g \in Gateways :
        /\ Live(g) /\ cachedGateway[g].uid = gateway[g].uid
        /\ g \notin queue
        /\ w.pc = "idle" \/ w.gw # g
        => Served(g)

\* The token cloudflared is given carries the key its tunnel was created with
\* (reconciler.go, secret.go): otherwise no connector ever authenticates.
TokensAuthenticate ==
    \A g \in Gateways, n \in Names :
        tunnel[n].id # 0 /\ secret[g].token.tunnel = tunnel[n].id
        => secret[g].token.key = tunnel[n].key

\* README: "Gateway deletion still cleans up its owned records": a Gateway being
\* deleted is eventually gone, and NoOrphanRecords says its records went before it;
\* if its class is there in the end, since Reconcile looks the class up first.
DeletionCompletes ==
    \A g \in Gateways : <>[]class[g] => (gateway[g].deleting ~> ~gateway[g].deleting)

\* Once users leave a live Gateway alone it is served for good, has a Deployment,
\* and its connectors hold a token for the tunnel it is served by.
Converges ==
    \A g \in Gateways : <>[]Live(g) =>
        <>[](/\ Served(g)
             /\ deployment[g] = gateway[g].uid
             /\ secret[g].token.tunnel = tunnel[NameOf[g]].id
             /\ secret[g].token.key = tunnel[NameOf[g]].key)
=============================================================================
