---------------------- MODULE GatewayReconciler_proofs ----------------------
(***************************************************************************)
(* Proofs about GatewayReconciler, for every set of Gateways, every naming *)
(* and every value of the bounds:                                          *)
(*                                                                         *)
(*   1. types, and that no tunnel and no DNS record outlives the Gateways  *)
(*      that own it (IndInv).  apply acts on a Gateway read from a cache   *)
(*      that may be out of date; what makes that safe is that a cached     *)
(*      Gateway with the finalizer and no deletion timestamp still exists, *)
(*      because the one worker only ever removes the finalizer of a        *)
(*      Gateway whose deletion the cache has already shown (CacheGuard and *)
(*      CleanupGuard);                                                     *)
(*   2. the order of a pass: the configuration is pushed before a record   *)
(*      is published, and the records before the Gateway is advertised     *)
(*      (ConfigGuard, RecordsGuard, PushedGuard);                          *)
(*   3. no wake-up is lost (SettleInv): a pass that has read the routes    *)
(*      and that nothing has enqueued since leaves its Gateway served;     *)
(*   4. tokens and tunnels carry one key (KeyInv and PassKeys).            *)
(***************************************************************************)
EXTENDS GatewayReconciler, TLAPS

\* Uids are never reused.
FreshUids ==
    /\ \A g \in Gateways : gateway[g].uid < fresh.uid /\ cachedGateway[g].uid < fresh.uid
    /\ w.snap.uid < fresh.uid

\* A cached Gateway that apply would act on is still there, finalizer and all, and
\* one the cache shows as being deleted is being deleted.
CacheGuard ==
    \A g \in Gateways : cachedGateway[g].uid # 0 =>
        /\ cachedGateway[g].finalizer /\ ~cachedGateway[g].deleting
             => gateway[g].uid = cachedGateway[g].uid /\ gateway[g].finalizer
        /\ cachedGateway[g].deleting /\ gateway[g].uid = cachedGateway[g].uid
             => gateway[g].deleting

\* So is the Gateway apply is working on.
ApplyGuard ==
    /\ w.pc = "AddFinalizer" => w.snap.uid # 0
    /\ w.pc \in ApplySteps =>
         w.snap.uid # 0 /\ gateway[w.gw].uid = w.snap.uid /\ gateway[w.gw].finalizer

\* cleanup works on a Gateway that every copy shows as being deleted.
CleanupGuard ==
    w.pc \in CleanupSteps =>
        /\ w.snap.uid # 0 /\ w.snap.deleting /\ w.snap.finalizer
        /\ gateway[w.gw].uid = w.snap.uid => gateway[w.gw].deleting
        /\ cachedGateway[w.gw].uid = w.snap.uid => cachedGateway[w.gw].deleting

\* What cleanup has already removed when it has met no error.
CleanupProgress ==
    ~w.err =>
        /\ w.pc \in {"CleanupDeployment", "CleanupSecret", "TeardownDNS", "RemoveFinalizer"}
             => tunnel[name].id = 0
        /\ w.pc = "RemoveFinalizer" => \A h \in Hostnames : dns[h].owner # w.snap.uid

\* Absent and foreign records have no owner; without --enable-dns-management all are such.
RecordOwners ==
    \A h \in Hostnames : dns[h].owner # 0 => dns[h].present /\ ManageDNS

IndInv ==
    /\ TypeOK
    /\ FreshUids /\ CacheGuard /\ ApplyGuard /\ CleanupGuard /\ CleanupProgress
    /\ RecordOwners /\ NoOrphanTunnels /\ NoOrphanRecords
-----------------------------------------------------------------------------
\* The values that stand for "absent" are well typed.
LEMMA AbsentTypes ==
    /\ NoGateway \in GatewayObjects /\ NoSecret \in SecretObjects
    /\ NoTunnel \in TunnelObjects /\ NoRecord \in Records /\ ForeignRecord \in Records
    /\ Idle \in Workers /\ Idle.pc = "idle" /\ Idle.snap.uid = 0
  <1>1. AnyGateway \in Gateways
    BY GatewaysAssumption DEF AnyGateway
  <1>2. NoGateway \in GatewayObjects /\ NoSecret \in SecretObjects
    BY DEF NoGateway, GatewayObjects, ProgrammedValues, NoSecret, SecretObjects, NoToken
  <1>3. /\ NoTunnel \in TunnelObjects /\ NoRecord \in Records /\ ForeignRecord \in Records
    BY DEF NoTunnel, TunnelObjects, NoRecord, ForeignRecord, Records
  <1>4. Idle \in Workers /\ Idle.pc = "idle" /\ Idle.snap.uid = 0
    BY <1>1, <1>2 DEF Idle, Workers, Steps, NoGateway
  <1>5. QED
    BY <1>2, <1>3, <1>4

\* The updates the actions make to the objects keep their types.
LEMMA UpdateTypes ==
    /\ \A x \in GatewayObjects :
          /\ [x EXCEPT !.finalizer = TRUE] \in GatewayObjects
          /\ [x EXCEPT !.deleting = TRUE] \in GatewayObjects
          /\ [x EXCEPT !.dnsManaged = ~x.dnsManaged] \in GatewayObjects
          /\ \A p \in ProgrammedValues, a \in Nat :
                [x EXCEPT !.programmed = p, !.address = a] \in GatewayObjects
    /\ \A x \in SecretObjects, k, t \in Nat :
          /\ [x EXCEPT !.key = k] \in SecretObjects
          /\ [x EXCEPT !.token = [tunnel |-> t, key |-> k]] \in SecretObjects
          /\ [x EXCEPT !.key = 0, !.token = NoToken] \in SecretObjects
    /\ \A o, k \in Nat : [owner |-> o, key |-> k, token |-> NoToken] \in SecretObjects
    /\ \A x \in TunnelObjects, c \in SUBSET Hostnames : [x EXCEPT !.config = c] \in TunnelObjects
    /\ \A i, k \in Nat : [id |-> i, key |-> k, config |-> {}] \in TunnelObjects
    /\ \A f \in FreshCounters :
          /\ f.uid \in Nat \ {0} /\ f.key \in Nat \ {0} /\ f.tunnel \in Nat \ {0}
          /\ [f EXCEPT !.uid = f.uid + 1] \in FreshCounters
          /\ [f EXCEPT !.key = f.key + 1] \in FreshCounters
          /\ [f EXCEPT !.tunnel = f.tunnel + 1] \in FreshCounters
  <1>1. \A x \in GatewayObjects :
          /\ [x EXCEPT !.finalizer = TRUE] \in GatewayObjects
          /\ [x EXCEPT !.deleting = TRUE] \in GatewayObjects
          /\ [x EXCEPT !.dnsManaged = ~x.dnsManaged] \in GatewayObjects
    BY DEF GatewayObjects
  <1>2. \A x \in GatewayObjects, p \in ProgrammedValues, a \in Nat :
          [x EXCEPT !.programmed = p, !.address = a] \in GatewayObjects
    BY DEF GatewayObjects
  <1>3. \A x \in SecretObjects, k, t \in Nat :
          /\ [x EXCEPT !.key = k] \in SecretObjects
          /\ [x EXCEPT !.token = [tunnel |-> t, key |-> k]] \in SecretObjects
          /\ [x EXCEPT !.key = 0, !.token = NoToken] \in SecretObjects
    BY DEF SecretObjects, NoToken
  <1>4. \A o, k \in Nat : [owner |-> o, key |-> k, token |-> NoToken] \in SecretObjects
    BY DEF SecretObjects, NoToken
  <1>5. /\ \A x \in TunnelObjects, c \in SUBSET Hostnames :
             [x EXCEPT !.config = c] \in TunnelObjects
        /\ \A i, k \in Nat : [id |-> i, key |-> k, config |-> {}] \in TunnelObjects
    BY DEF TunnelObjects
  <1>6. \A f \in FreshCounters :
          /\ f.uid \in Nat \ {0} /\ f.key \in Nat \ {0} /\ f.tunnel \in Nat \ {0}
          /\ [f EXCEPT !.uid = f.uid + 1] \in FreshCounters
          /\ [f EXCEPT !.key = f.key + 1] \in FreshCounters
          /\ [f EXCEPT !.tunnel = f.tunnel + 1] \in FreshCounters
    BY DEF FreshCounters
  <1>7. QED
    BY <1>1, <1>2, <1>3, <1>4, <1>5, <1>6

\* The initial state satisfies the invariant.
LEMMA InitInv == Init => IndInv
  BY AbsentTypes DEF Init, IndInv, TypeOK, FreshUids, CacheGuard, ApplyGuard, CleanupGuard,
     CleanupProgress, RecordOwners, NoOrphanTunnels, NoOrphanRecords, NoTunnel, NoRecord,
     NoGateway, ApplySteps, CleanupSteps, FreshCounters, Budgets

\* However a step of the worker ends, worker, queue and budget keep their types.
LEMMA EndTypes ==
    ASSUME TypeOK,
           \/ Returns \/ ReturnsError \/ Fails
           \/ \E pc \in Steps : Goto(pc) \/ FailsAndGoesOn(pc)
    PROVE  w' \in Workers /\ queue' \subseteq Gateways /\ used' \in Budgets
  <1>1. w.gw \in Gateways
    BY DEF TypeOK, Workers
  <1>2. SpendsFailure => used' \in Budgets
    BY DEF TypeOK, SpendsFailure, Budgets
  <1>3. ASSUME NEW pc \in Steps, Goto(pc)
        PROVE  w' \in Workers
    BY <1>3 DEF TypeOK, Goto, Workers
  <1>4. ASSUME NEW pc \in Steps, FailsAndGoesOn(pc)
        PROVE  w' \in Workers
    BY <1>4 DEF TypeOK, FailsAndGoesOn, Workers
  <1>5. QED
    BY <1>1, <1>2, <1>3, <1>4, AbsentTypes
       DEF TypeOK, Returns, ReturnsError, Fails, Goto, FailsAndGoesOn
\* Every step of apply keeps the types.
LEMMA ApplyTypes == TypeOK /\ ApplyStep => TypeOK'
  <1> SUFFICES ASSUME TypeOK, ApplyStep PROVE TypeOK'
    OBVIOUS
  <1> DEFINE Ends == w' \in Workers /\ queue' \subseteq Gateways /\ used' \in Budgets
  <1>0. /\ w \in Workers /\ w.gw \in Gateways /\ w.snap \in GatewayObjects
        /\ w.tunnel \in Nat /\ w.key \in Nat /\ w.hosts \in SUBSET Hostnames /\ name \in Names
        /\ ApplySteps \subseteq Steps
    BY GatewaysAssumption DEF TypeOK, Workers, Steps, name
  <1>1. CASE AddFinalizer
    <2>1. gateway' \in [Gateways -> GatewayObjects]
      <3>1. [gateway[w.gw] EXCEPT !.finalizer = TRUE] \in GatewayObjects
        BY <1>0, UpdateTypes DEF TypeOK
      <3>2. QED
        BY <1>0, <1>1, <3>1 DEF TypeOK, AddFinalizer
    <2>2. Ends
      <3>1. [w EXCEPT !.pc = "EnsureTunnelSecret", !.snap.finalizer = TRUE] \in Workers
        BY <1>0, UpdateTypes DEF Workers, ApplySteps
      <3>2. QED
        BY <1>1, <3>1, EndTypes DEF TypeOK, AddFinalizer
    <2>3. QED
      BY <1>1, <2>1, <2>2 DEF TypeOK, AddFinalizer, cache, env, cloud
  <1>2. CASE EnsureTunnelSecret
    <2>1. secret' \in [Gateways -> SecretObjects] /\ fresh' \in FreshCounters
      <3>1. w.snap.uid \in Nat
        BY <1>0 DEF GatewayObjects
      <3>2. WrittenSecret(cachedSecret[w.gw]) \in SecretObjects
        BY <1>0, <3>1, UpdateTypes DEF TypeOK, WrittenSecret
      <3>3. QED
        BY <1>0, <1>2, <3>2, UpdateTypes DEF TypeOK, EnsureTunnelSecret
    <2>2. Ends
      <3>1. cachedSecret[w.gw].key \in Nat /\ fresh.key \in Nat
        BY <1>0, UpdateTypes DEF TypeOK, SecretObjects
      <3>2. \A k \in Nat, b \in BOOLEAN : HasTunnelSecret(k, b) => w' \in Workers
        BY <1>0 DEF HasTunnelSecret, Workers, ApplySteps
      <3>3. NeedsRegeneration(cachedSecret[w.gw]) \in BOOLEAN
        BY DEF NeedsRegeneration
      <3>4. QED
        BY <1>2, <3>1, <3>2, <3>3, EndTypes DEF TypeOK, EnsureTunnelSecret
    <2>3. QED
      BY <1>2, <2>1, <2>2 DEF TypeOK, EnsureTunnelSecret, cache, env, cloud
  <1>3. CASE GetTunnel
    <2>1. Ends
      BY <1>0, <1>3, EndTypes DEF TypeOK, GetTunnel, AfterGetTunnel, Workers, TunnelObjects,
         ApplySteps
    <2>2. QED
      BY <1>3, <2>1 DEF TypeOK, GetTunnel, kube, cache, env, cloud
  <1>4. CASE DeleteTunnel
    <2>1. tunnel' \in [Names -> TunnelObjects]
      BY <1>4, AbsentTypes DEF TypeOK, DeleteTunnel
    <2>2. Ends
      BY <1>0, <1>4, EndTypes DEF DeleteTunnel, ApplySteps
    <2>3. QED
      BY <1>4, <2>1, <2>2 DEF TypeOK, DeleteTunnel, kube, cache, env
  <1>5. CASE CreateTunnel
    <2>1. tunnel' \in [Names -> TunnelObjects] /\ fresh' \in FreshCounters
      <3>1. /\ [id |-> fresh.tunnel, key |-> w.key, config |-> {}] \in TunnelObjects
            /\ [fresh EXCEPT !.tunnel = fresh.tunnel + 1] \in FreshCounters
        BY <1>0, UpdateTypes DEF TypeOK
      <3>2. QED
        BY <1>0, <1>5, <3>1 DEF TypeOK, CreateTunnel
    <2>2. Ends
      BY <1>0, <1>5, EndTypes DEF TypeOK, CreateTunnel, NextStep, Workers, FreshCounters,
         ApplySteps
    <2>3. QED
      BY <1>5, <2>1, <2>2 DEF TypeOK, CreateTunnel, kube, cache, env
  <1>6. CASE StoreToken
    <2>1. secret' \in [Gateways -> SecretObjects]
      <3>1. [cachedSecret[w.gw] EXCEPT !.token = [tunnel |-> w.tunnel, key |-> w.key]]
              \in SecretObjects
        BY <1>0, UpdateTypes DEF TypeOK
      <3>2. QED
        BY <1>0, <1>6, <3>1 DEF TypeOK, StoreToken
    <2>2. Ends
      BY <1>0, <1>6, EndTypes DEF StoreToken, NextStep, ApplySteps
    <2>3. QED
      BY <1>6, <2>1, <2>2 DEF TypeOK, StoreToken, cache, env, cloud
  <1>7. CASE ApplyDeployment
    <2>1. deployment' \in [Gateways -> Nat]
      BY <1>0, <1>7 DEF TypeOK, ApplyDeployment, AppliedOwner, GatewayObjects
    <2>2. Ends
      BY <1>0, <1>7, EndTypes DEF ApplyDeployment, NextStep, ApplySteps
    <2>3. QED
      BY <1>7, <2>1, <2>2 DEF TypeOK, ApplyDeployment, cache, env, cloud
  <1>8. CASE CollectRoutes
    <2>1. w' \in Workers
      BY <1>0, <1>8 DEF TypeOK, CollectRoutes, NextStep, Workers, ApplySteps
    <2>2. QED
      BY <1>8, <2>1 DEF TypeOK, CollectRoutes, kube, cache, env, cloud
  <1>9. CASE PushConfig
    <2>1. tunnel' \in [Names -> TunnelObjects]
      <3>1. [tunnel[name] EXCEPT !.config = w.hosts] \in TunnelObjects
        BY <1>0, UpdateTypes DEF TypeOK
      <3>2. QED
        BY <1>0, <1>9, <3>1 DEF TypeOK, PushConfig
    <2>2. Ends
      BY <1>0, <1>9, EndTypes DEF PushConfig, NextStep, ApplySteps
    <2>3. QED
      BY <1>9, <2>1, <2>2 DEF TypeOK, PushConfig, kube, cache, env
  <1>10. CASE ReconcileDNS
    <2>1. \A h \in Hostnames : PlannedRecord(h) \in Records
      BY <1>0, AbsentTypes DEF TypeOK, PlannedRecord, Records, GatewayObjects
    <2>2. dns' \in [Hostnames -> Records]
      BY <1>10, <2>1 DEF TypeOK, ReconcileDNS, Applied
    <2>3. Ends
      BY <1>0, <1>10, EndTypes DEF TypeOK, ReconcileDNS, DNSError, NextStep, Workers, ApplySteps
    <2>4. QED
      BY <1>10, <2>2, <2>3 DEF TypeOK, ReconcileDNS, kube, cache, env
  <1>11. CASE PatchStatus
    <2>1. gateway' \in [Gateways -> GatewayObjects]
      <3>1. ProgrammedStatus(w.err) \in ProgrammedValues
        BY DEF ProgrammedStatus, ProgrammedValues
      <3>2. [w.snap EXCEPT !.programmed = ProgrammedStatus(w.err), !.address = w.tunnel]
              \in GatewayObjects
        BY <1>0, <3>1, UpdateTypes
      <3>3. QED
        BY <1>0, <1>11, <3>2 DEF TypeOK, PatchStatus
    <2>2. Ends
      BY <1>11, EndTypes DEF PatchStatus
    <2>3. QED
      BY <1>11, <2>1, <2>2 DEF TypeOK, PatchStatus, cache, env, cloud
  <1>12. QED
    BY <1>1, <1>2, <1>3, <1>4, <1>5, <1>6, <1>7, <1>8, <1>9, <1>10, <1>11 DEF ApplyStep

\* So does every step of cleanup, and taking a Gateway off the queue.
LEMMA CleanupTypes == TypeOK /\ (CleanupStep \/ \E g \in Gateways : Fetch(g)) => TypeOK'
  <1> SUFFICES ASSUME TypeOK, CleanupStep \/ \E g \in Gateways : Fetch(g) PROVE TypeOK'
    OBVIOUS
  <1> DEFINE Ends == w' \in Workers /\ queue' \subseteq Gateways /\ used' \in Budgets
  <1>0. /\ w \in Workers /\ w.gw \in Gateways /\ w.snap \in GatewayObjects
        /\ w.tunnel \in Nat /\ name \in Names /\ CleanupSteps \subseteq Steps
    BY GatewaysAssumption DEF TypeOK, Workers, Steps, name
  <1>1. CASE CleanupGetTunnel
    <2>1. Ends
      BY <1>0, <1>1, EndTypes DEF TypeOK, CleanupGetTunnel, Workers, TunnelObjects, CleanupSteps
    <2>2. QED
      BY <1>1, <2>1 DEF TypeOK, CleanupGetTunnel, kube, cache, env, cloud
  <1>2. CASE CleanupDeleteTunnel
    <2>1. tunnel' \in [Names -> TunnelObjects]
      BY <1>2, AbsentTypes DEF TypeOK, CleanupDeleteTunnel
    <2>2. Ends
      BY <1>0, <1>2, EndTypes DEF TypeOK, CleanupDeleteTunnel, NextStep, Workers, CleanupSteps
    <2>3. QED
      BY <1>2, <2>1, <2>2 DEF TypeOK, CleanupDeleteTunnel, kube, cache, env
  <1>3. CASE CleanupDeployment
    <2>1. deployment' \in [Gateways -> Nat]
      BY <1>3 DEF TypeOK, CleanupDeployment
    <2>2. Ends
      BY <1>0, <1>3, EndTypes DEF CleanupDeployment, NextStep, CleanupSteps
    <2>3. QED
      BY <1>3, <2>1, <2>2 DEF TypeOK, CleanupDeployment, cache, env, cloud
  <1>4. CASE CleanupSecret
    <2>1. secret' \in [Gateways -> SecretObjects]
      BY <1>4, AbsentTypes DEF TypeOK, CleanupSecret
    <2>2. Ends
      BY <1>0, <1>4, EndTypes DEF CleanupSecret, NextStep, CleanupSteps
    <2>3. QED
      BY <1>4, <2>1, <2>2 DEF TypeOK, CleanupSecret, cache, env, cloud
  <1>5. CASE TeardownDNS
    <2>1. \A h \in Hostnames : TornDownRecord(h) \in Records
      BY AbsentTypes DEF TypeOK, TornDownRecord
    <2>2. dns' \in [Hostnames -> Records]
      BY <1>5, <2>1 DEF TypeOK, TeardownDNS, Applied
    <2>3. Ends
      BY <1>0, <1>5, EndTypes DEF TeardownDNS, NextStep, CleanupSteps
    <2>4. QED
      BY <1>5, <2>2, <2>3 DEF TypeOK, TeardownDNS, kube, cache, env
  <1>6. CASE RemoveFinalizer
    <2>1. gateway' \in [Gateways -> GatewayObjects]
      BY <1>6, AbsentTypes DEF TypeOK, RemoveFinalizer
    <2>2. Ends
      BY <1>6, EndTypes DEF RemoveFinalizer
    <2>3. QED
      BY <1>6, <2>1, <2>2 DEF TypeOK, RemoveFinalizer, cache, env, cloud
  <1>7. CASE \E g \in Gateways : Fetch(g)
    <2> PICK g \in Gateways : Fetch(g)
      BY <1>7
    <2>1. FirstStep(g) \in Steps
      BY DEF FirstStep, Steps, ApplySteps, CleanupSteps
    <2>2. w' \in Workers
      BY <2>1, AbsentTypes DEF TypeOK, Fetch, Workers
    <2>3. QED
      BY <2>2 DEF TypeOK, Fetch, kube, cache, env, cloud
  <1>8. QED
    BY <1>1, <1>2, <1>3, <1>4, <1>5, <1>6, <1>7 DEF CleanupStep

\* And so does everything that is not the worker.
LEMMA OtherTypes ==
    TypeOK /\ (UserStep \/ (\E g \in Gateways : KubeStep(g)) \/ Crash) => TypeOK'
  <1> SUFFICES ASSUME TypeOK, UserStep \/ (\E g \in Gateways : KubeStep(g)) \/ Crash
               PROVE  TypeOK'
    OBVIOUS
  <1>1. ASSUME NEW g \in Gateways, CreateGateway(g)
        PROVE  TypeOK'
    <2>1. fresh.uid \in Nat /\ fresh' \in FreshCounters
      BY <1>1, UpdateTypes DEF TypeOK, CreateGateway
    <2>2. [NoGateway EXCEPT !.uid = fresh.uid] \in GatewayObjects
      BY <2>1, AbsentTypes DEF GatewayObjects
    <2>3. QED
      BY <1>1, <2>1, <2>2 DEF TypeOK, CreateGateway, cache, env, cloud
  <1>2. ASSUME NEW g \in Gateways, DeleteGateway(g)
        PROVE  TypeOK'
    <2>1. [gateway[g] EXCEPT !.deleting = TRUE] \in GatewayObjects
      BY UpdateTypes DEF TypeOK
    <2>2. QED
      BY <1>2, <2>1, AbsentTypes DEF TypeOK, DeleteGateway, cache, env, cloud
  <1>3. ASSUME NEW g \in Gateways, EditGateway(g)
        PROVE  TypeOK'
    <2>1. [gateway[g] EXCEPT !.dnsManaged = ~gateway[g].dnsManaged] \in GatewayObjects
      BY UpdateTypes DEF TypeOK
    <2>2. used' \in Budgets
      BY <1>3 DEF TypeOK, EditGateway, Budgets
    <2>3. QED
      BY <1>3, <2>1, <2>2 DEF TypeOK, EditGateway, cache, env, cloud
  <1>4. ASSUME NEW g \in Gateways, ChangeClass(g)
        PROVE  TypeOK'
    <2>1. used' \in Budgets
      BY <1>4 DEF TypeOK, ChangeClass, Budgets
    <2>2. QED
      BY <1>4, <2>1 DEF TypeOK, ChangeClass, kube, cache, cloud
  <1>5. ASSUME NEW g \in Gateways, NEW hosts \in SUBSET Hostnames, ChangeRoutes(g, hosts)
        PROVE  TypeOK'
    <2>1. used' \in Budgets
      BY <1>5 DEF TypeOK, ChangeRoutes, Budgets
    <2>2. QED
      BY <1>5, <2>1 DEF TypeOK, ChangeRoutes, RouteRequests, kube, cache, cloud
  <1>6. ASSUME NEW g \in Gateways, TamperSecret(g)
        PROVE  TypeOK'
    <2>1. used' \in Budgets
      BY <1>6 DEF TypeOK, TamperSecret, Tampers, Budgets
    <2>2. /\ [secret[g] EXCEPT !.key = BadKey] \in SecretObjects
          /\ [secret[g] EXCEPT !.key = 0, !.token = NoToken] \in SecretObjects
      BY UpdateTypes DEF TypeOK, BadKey
    <2>3. secret' \in [Gateways -> SecretObjects]
      BY <1>6, <2>2, AbsentTypes DEF TypeOK, TamperSecret
    <2>4. QED
      BY <1>6, <2>1, <2>3 DEF TypeOK, TamperSecret, cache, env, cloud
  <1>7. ASSUME NEW n \in Names, TamperTunnel(n)
        PROVE  TypeOK'
    <2>1. used' \in Budgets
      BY <1>7 DEF TypeOK, TamperTunnel, Tampers, Budgets
    <2>2. QED
      BY <1>7, <2>1, AbsentTypes DEF TypeOK, TamperTunnel, kube, cache, env
  <1>8. ASSUME NEW h \in Hostnames, TamperDNS(h)
        PROVE  TypeOK'
    <2>1. used' \in Budgets
      BY <1>8 DEF TypeOK, TamperDNS, Tampers, Budgets
    <2>2. QED
      BY <1>8, <2>1, AbsentTypes DEF TypeOK, TamperDNS, kube, cache, env
  <1>9. ASSUME NEW g \in Gateways, KubeStep(g)
        PROVE  TypeOK'
    BY <1>9, AbsentTypes DEF TypeOK, KubeStep, SyncGateway, SyncSecret, SyncDeployment,
       CollectSecret, CollectDeployment, kube, cache, env, cloud
  <1>10. CASE Crash
    <2>1. used' \in Budgets
      BY <1>10 DEF TypeOK, Crash, Budgets
    <2>2. QED
      BY <1>10, <2>1, AbsentTypes DEF TypeOK, Crash, kube, env, cloud
  <1>11. QED
    BY <1>1, <1>2, <1>3, <1>4, <1>5, <1>6, <1>7, <1>8, <1>9, <1>10 DEF UserStep

\* Every variable keeps its type, for every value of the constants.
THEOREM TypeCorrect == Spec => []TypeOK
  <1>1. Init => TypeOK
    BY InitInv DEF IndInv
  <1>2. TypeOK /\ [Next]_vars => TypeOK'
    <2> SUFFICES ASSUME TypeOK, [Next]_vars PROVE TypeOK'
      OBVIOUS
    <2>1. CASE UNCHANGED vars
      BY <2>1 DEF TypeOK, vars, kube, cache, env, cloud
    <2>2. CASE Next
      BY <2>2, ApplyTypes, CleanupTypes, OtherTypes DEF Next, WorkerStep
    <2>3. QED
      BY <2>1, <2>2
  <1>3. QED
    BY <1>1, <1>2, PTL DEF Spec
-----------------------------------------------------------------------------
(* Everything in the invariant but the types. *)
Guards ==
    /\ FreshUids /\ CacheGuard /\ ApplyGuard /\ CleanupGuard /\ CleanupProgress
    /\ RecordOwners /\ NoOrphanTunnels /\ NoOrphanRecords

\* A step of apply after AddFinalizer returns, or goes on with the same Gateway; it
\* creates a tunnel only under that Gateway's name and records only for its uid.
LEMMA ApplyMoveInv ==
    ASSUME IndInv, TypeOK', w.pc \in ApplySteps,
           w' = Idle \/ (w'.pc \in ApplySteps /\ w'.gw = w.gw /\ w'.snap = w.snap),
           cachedGateway' = cachedGateway, fresh'.uid = fresh.uid,
           \A g \in Gateways : /\ gateway'[g].uid = gateway[g].uid
                               /\ gateway'[g].deleting = gateway[g].deleting
                               /\ gateway'[g].finalizer = gateway[g].finalizer,
           \A n \in Names : tunnel'[n].id # 0 => tunnel[n].id # 0 \/ n = name,
           \A h \in Hostnames : dns'[h].owner # 0 =>
               dns'[h] = dns[h] \/ (dns'[h].owner = w.snap.uid /\ dns'[h].present /\ ManageDNS)
    PROVE  Guards'
  <1>0. w.gw \in Gateways /\ fresh.uid \in Nat \ {0}
    BY UpdateTypes DEF IndInv, TypeOK, Workers
  <1>1. w.snap.uid # 0 /\ gateway[w.gw].uid = w.snap.uid /\ gateway[w.gw].finalizer
    BY DEF IndInv, ApplyGuard
  <1>2. FreshUids'
    BY <1>0, AbsentTypes DEF IndInv, FreshUids
  <1>3. CacheGuard'
    BY DEF IndInv, CacheGuard
  <1>4. ApplyGuard'
    BY <1>0, <1>1, AbsentTypes DEF ApplyGuard, ApplySteps
  <1>5. CleanupGuard' /\ CleanupProgress'
    BY AbsentTypes DEF CleanupGuard, CleanupProgress, ApplySteps, CleanupSteps
  <1>6. RecordOwners'
    BY DEF IndInv, RecordOwners
  <1>7. NoOrphanTunnels'
    BY <1>0, <1>1 DEF IndInv, NoOrphanTunnels, name
  <1>8. NoOrphanRecords'
    BY <1>0, <1>1 DEF IndInv, NoOrphanRecords
  <1>9. QED
    BY <1>2, <1>3, <1>4, <1>5, <1>6, <1>7, <1>8 DEF Guards

\* A step of cleanup before RemoveFinalizer goes on with the same Gateway and only
\* takes tunnels and records away.
LEMMA CleanupMoveInv ==
    ASSUME IndInv, TypeOK', w.pc \in CleanupSteps,
           w'.pc \in CleanupSteps, w'.gw = w.gw, w'.snap = w.snap,
           gateway' = gateway, cachedGateway' = cachedGateway, fresh' = fresh,
           \A n \in Names : tunnel'[n].id # 0 => tunnel[n].id # 0,
           \A h \in Hostnames : dns'[h].owner # 0 => dns'[h] = dns[h],
           CleanupProgress'
    PROVE  Guards'
  <1>1. FreshUids' /\ CacheGuard' /\ CleanupGuard'
    BY DEF IndInv, FreshUids, CacheGuard, CleanupGuard
  <1>2. ApplyGuard'
    BY DEF ApplyGuard, ApplySteps, CleanupSteps
  <1>3. RecordOwners' /\ NoOrphanTunnels' /\ NoOrphanRecords'
    BY DEF IndInv, RecordOwners, NoOrphanTunnels, NoOrphanRecords
  <1>4. QED
    BY <1>1, <1>2, <1>3 DEF Guards

\* Every step of apply preserves the invariant.
LEMMA ApplyInv == IndInv /\ ApplyStep => Guards'
  <1> SUFFICES ASSUME IndInv, ApplyStep PROVE Guards'
    OBVIOUS
  <1> DEFINE Moves == w' = Idle \/ (w'.pc \in ApplySteps /\ w'.gw = w.gw /\ w'.snap = w.snap)
             SameGateways == \A g \in Gateways : /\ gateway'[g].uid = gateway[g].uid
                                                 /\ gateway'[g].deleting = gateway[g].deleting
                                                 /\ gateway'[g].finalizer = gateway[g].finalizer
             Ends(pc) == Goto(pc) \/ Fails \/ ReturnsError
  <1>0. TypeOK /\ TypeOK' /\ w \in Workers /\ w.gw \in Gateways /\ fresh \in FreshCounters
    BY ApplyTypes DEF IndInv, TypeOK, Workers
  <1>a. ASSUME NEW pc \in ApplySteps, Ends(pc)
        PROVE  Moves
    BY <1>0, <1>a DEF Goto, Fails, ReturnsError, Workers
  <1>1. CASE AddFinalizer
    <2>1. /\ cachedGateway' = cachedGateway /\ fresh' = fresh /\ tunnel' = tunnel /\ dns' = dns
          /\ w.pc = "AddFinalizer" /\ w.snap.uid # 0 /\ w.snap.uid < fresh.uid
      BY <1>1 DEF AddFinalizer, cache, cloud, IndInv, ApplyGuard, FreshUids
    <2>2. \A g \in Gateways : /\ gateway'[g].uid = gateway[g].uid
                              /\ gateway'[g].deleting = gateway[g].deleting
                              /\ gateway[g].finalizer => gateway'[g].finalizer
      <3>1. \/ gateway' = gateway
            \/ gateway' = [gateway EXCEPT ![w.gw] = [gateway[w.gw] EXCEPT !.finalizer = TRUE]]
        BY <1>1 DEF AddFinalizer
      <3>2. /\ [gateway[w.gw] EXCEPT !.finalizer = TRUE].uid = gateway[w.gw].uid
            /\ [gateway[w.gw] EXCEPT !.finalizer = TRUE].deleting = gateway[w.gw].deleting
        BY <1>0 DEF TypeOK, GatewayObjects
      <3>3. [gateway[w.gw] EXCEPT !.finalizer = TRUE].finalizer = TRUE
        BY <1>0 DEF TypeOK, GatewayObjects
      <3>4. QED
        BY <1>0, <3>1, <3>2, <3>3 DEF TypeOK
    <2>3. \/ w' = Idle
          \/ /\ gateway[w.gw] = w.snap /\ gateway'[w.gw].finalizer
             /\ w'.pc = "EnsureTunnelSecret" /\ w'.gw = w.gw /\ w'.snap.uid = w.snap.uid
      <3>1. CASE w' = Idle
        BY <3>1
      <3>2. CASE w' # Idle
        <4>1. /\ gateway[w.gw] = w.snap
              /\ gateway' = [gateway EXCEPT ![w.gw] = [gateway[w.gw] EXCEPT !.finalizer = TRUE]]
              /\ w' = [w EXCEPT !.pc = "EnsureTunnelSecret",
                               !.snap = [w.snap EXCEPT !.finalizer = TRUE]]
          BY <1>1, <3>2 DEF AddFinalizer, Fails, ReturnsError
        <4>2. w.snap \in GatewayObjects
          BY <1>0 DEF Workers
        <4>3. /\ [w.snap EXCEPT !.finalizer = TRUE].uid = w.snap.uid
              /\ [w.snap EXCEPT !.finalizer = TRUE].finalizer
          BY <4>2 DEF GatewayObjects
        <4>4. gateway'[w.gw] = [w.snap EXCEPT !.finalizer = TRUE]
          BY <1>0, <4>1 DEF TypeOK
        <4>5. /\ w'.pc = "EnsureTunnelSecret" /\ w'.gw = w.gw
              /\ w'.snap = [w.snap EXCEPT !.finalizer = TRUE]
          BY <1>0, <4>1 DEF Workers
        <4>6. QED
          BY <4>1, <4>3, <4>4, <4>5
      <3>3. QED
        BY <3>1, <3>2
    <2>4. FreshUids'
      <3>1. fresh.uid \in Nat \ {0}
        BY <1>0, UpdateTypes
      <3>2. w'.snap.uid < fresh.uid
        BY <2>1, <2>3, <3>1, AbsentTypes
      <3>3. QED
        BY <2>1, <2>2, <3>2 DEF IndInv, FreshUids
    <2>5. CacheGuard'
      BY <2>1, <2>2 DEF IndInv, CacheGuard
    <2>6. RecordOwners' /\ NoOrphanTunnels' /\ NoOrphanRecords'
      BY <2>1, <2>2 DEF IndInv, RecordOwners, NoOrphanTunnels, NoOrphanRecords
    <2>7. ApplyGuard' /\ CleanupGuard' /\ CleanupProgress'
      BY <1>0, <2>1, <2>2, <2>3, AbsentTypes
         DEF ApplyGuard, CleanupGuard, CleanupProgress, ApplySteps, CleanupSteps
    <2>8. QED
      BY <2>4, <2>5, <2>6, <2>7 DEF Guards
  <1>2. CASE EnsureTunnelSecret
    <2>1. Moves
      BY <1>0, <1>2
         DEF EnsureTunnelSecret, HasTunnelSecret, Fails, ReturnsError, Workers, ApplySteps
    <2>2. fresh'.uid = fresh.uid
      BY <1>0, <1>2 DEF EnsureTunnelSecret, FreshCounters
    <2>3. QED
      BY <1>0, <1>2, <2>1, <2>2, ApplyMoveInv DEF EnsureTunnelSecret, cache, cloud, ApplySteps
  <1>3. CASE GetTunnel
    <2>1. Moves
      BY <1>0, <1>3 DEF GetTunnel, AfterGetTunnel, Fails, Workers, ApplySteps
    <2>2. QED
      BY <1>0, <1>3, <2>1, ApplyMoveInv DEF GetTunnel, kube, cache, cloud, ApplySteps
  <1>4. CASE DeleteTunnel
    <2>1. Moves
      BY <1>4, <1>a DEF DeleteTunnel, ApplySteps
    <2>2. \A n \in Names : tunnel'[n].id # 0 => tunnel[n].id # 0
      BY <1>0, <1>4 DEF DeleteTunnel, TypeOK, NoTunnel
    <2>3. QED
      BY <1>0, <1>4, <2>1, <2>2, ApplyMoveInv DEF DeleteTunnel, kube, cache, ApplySteps
  <1>5. CASE CreateTunnel
    <2>1. Moves
      BY <1>0, <1>5 DEF CreateTunnel, NextStep, Fails, Workers, ApplySteps
    <2>2. \A n \in Names : tunnel'[n].id # 0 => tunnel[n].id # 0 \/ n = name
      BY <1>0, <1>5 DEF CreateTunnel, TypeOK
    <2>3. fresh'.uid = fresh.uid
      BY <1>0, <1>5 DEF CreateTunnel, FreshCounters
    <2>4. QED
      BY <1>0, <1>5, <2>1, <2>2, <2>3, ApplyMoveInv DEF CreateTunnel, kube, cache, ApplySteps
  <1>6. CASE StoreToken
    <2>1. Moves
      BY <1>6, <1>a DEF StoreToken, NextStep, ApplySteps
    <2>2. QED
      BY <1>0, <1>6, <2>1, ApplyMoveInv DEF StoreToken, cache, cloud, ApplySteps
  <1>7. CASE ApplyDeployment
    <2>1. Moves
      BY <1>7, <1>a DEF ApplyDeployment, NextStep, ApplySteps
    <2>2. QED
      BY <1>0, <1>7, <2>1, ApplyMoveInv DEF ApplyDeployment, cache, cloud, ApplySteps
  <1>8. CASE CollectRoutes
    <2>1. Moves
      BY <1>0, <1>8 DEF CollectRoutes, NextStep, Workers, ApplySteps
    <2>2. QED
      BY <1>0, <1>8, <2>1, ApplyMoveInv DEF CollectRoutes, kube, cache, cloud, ApplySteps
  <1>9. CASE PushConfig
    <2>1. Moves
      BY <1>9, <1>a DEF PushConfig, NextStep, ApplySteps
    <2>2. \A n \in Names : tunnel'[n].id # 0 => tunnel[n].id # 0
      BY <1>0, <1>9 DEF PushConfig, TypeOK, TunnelObjects
    <2>3. QED
      BY <1>0, <1>9, <2>1, <2>2, ApplyMoveInv DEF PushConfig, kube, cache, ApplySteps
  <1>10. CASE ReconcileDNS
    <2>1. Moves
      BY <1>0, <1>10 DEF ReconcileDNS, Goto, FailsAndGoesOn, NextStep, Workers, ApplySteps
    <2>2. ASSUME NEW h \in Hostnames, dns'[h].owner # 0
          PROVE  dns'[h] = dns[h] \/ (dns'[h].owner = w.snap.uid /\ dns'[h].present /\ ManageDNS)
      BY <1>0, <1>10, <2>2 DEF ReconcileDNS, DNSEnabled, Applied, PlannedRecord, NoRecord, TypeOK
    <2>3. QED
      BY <1>0, <1>10, <2>1, <2>2, ApplyMoveInv DEF ReconcileDNS, kube, cache, ApplySteps
  <1>11. CASE PatchStatus
    <2>1. w' = Idle
      BY <1>11 DEF PatchStatus, Returns, ReturnsError, Fails
    <2>2. SameGateways
      <3> DEFINE patched == [w.snap EXCEPT !.programmed = ProgrammedStatus(w.err),
                                           !.address = w.tunnel]
      <3>2. \/ gateway' = gateway
            \/ gateway[w.gw] = w.snap /\ gateway' = [gateway EXCEPT ![w.gw] = patched]
        BY <1>11 DEF PatchStatus
      <3>3. /\ patched.uid = w.snap.uid /\ patched.deleting = w.snap.deleting
            /\ patched.finalizer = w.snap.finalizer
        BY <1>0 DEF Workers, GatewayObjects
      <3>4. QED
        BY <1>0, <3>2, <3>3 DEF TypeOK
    <2>3. QED
      BY <1>0, <1>11, <2>1, <2>2, ApplyMoveInv DEF PatchStatus, cache, cloud, ApplySteps
  <1>12. QED
    BY <1>1, <1>2, <1>3, <1>4, <1>5, <1>6, <1>7, <1>8, <1>9, <1>10, <1>11 DEF ApplyStep

\* Every step of cleanup preserves the invariant.
LEMMA CleanupInv == IndInv /\ CleanupStep => Guards'
  <1> SUFFICES ASSUME IndInv, CleanupStep PROVE Guards'
    OBVIOUS
  <1> DEFINE Moves(pc) == /\ w' = [w EXCEPT !.pc = pc] \/ w' = [w EXCEPT !.pc = pc, !.err = TRUE]
                          /\ pc \in CleanupSteps
             Kept == gateway' = gateway /\ cachedGateway' = cachedGateway /\ fresh' = fresh
  <1>0. /\ TypeOK /\ TypeOK' /\ w \in Workers /\ w.gw \in Gateways /\ name \in Names
        /\ fresh.uid \in Nat \ {0}
    BY CleanupTypes, GatewaysAssumption, UpdateTypes DEF IndInv, TypeOK, Workers, name
  <1>a. ASSUME NEW pc, Moves(pc)
        PROVE  /\ w'.pc = pc /\ w'.gw = w.gw /\ w'.snap = w.snap
               /\ w.err => w'.err
    BY <1>0, <1>a DEF Workers
  <1>1. CASE CleanupGetTunnel
    <2>1. /\ w'.gw = w.gw /\ w'.snap = w.snap
          /\ \/ w'.pc = "CleanupDeployment" /\ w'.err
             \/ w'.pc = "CleanupDeployment" /\ tunnel[name].id = 0
             \/ w'.pc = "CleanupDeleteTunnel"
      BY <1>0, <1>1 DEF CleanupGetTunnel, FailsAndGoesOn, Workers
    <2>2. Kept /\ tunnel' = tunnel /\ dns' = dns
      BY <1>1 DEF CleanupGetTunnel, kube, cache, cloud
    <2>3. CleanupProgress'
      BY <2>1, <2>2 DEF CleanupProgress, name
    <2>4. QED
      BY <1>0, <1>1, <2>1, <2>2, <2>3, CleanupMoveInv DEF CleanupGetTunnel, CleanupSteps
  <1>2. CASE CleanupDeleteTunnel
    <2>1. Moves("CleanupDeployment")
      BY <1>2 DEF CleanupDeleteTunnel, NextStep, Goto, FailsAndGoesOn, CleanupSteps
    <2>2. Kept /\ dns' = dns
      BY <1>2 DEF CleanupDeleteTunnel, kube, cache
    <2>3. \A n \in Names : tunnel'[n].id # 0 => tunnel[n].id # 0
      BY <1>0, <1>2 DEF CleanupDeleteTunnel, TypeOK, NoTunnel
    <2>4. tunnel'[name].id = 0 \/ w'.err
      <3>1. CASE tunnel' = [tunnel EXCEPT ![name] = NoTunnel]
        BY <1>0, <3>1 DEF TypeOK, NoTunnel
      <3>2. CASE w' = [w EXCEPT !.pc = NextStep.CleanupDeleteTunnel, !.err = TRUE]
        BY <1>0, <3>2 DEF Workers
      <3>3. QED
        BY <1>2, <3>1, <3>2 DEF CleanupDeleteTunnel, FailsAndGoesOn
    <2>5. CleanupProgress'
      <3>1. w'.pc = "CleanupDeployment" /\ w'.gw = w.gw
        BY <1>a, <2>1
      <3>2. QED
        BY <2>4, <3>1 DEF CleanupProgress, name
    <2>6. QED
      BY <1>0, <1>2, <1>a, <2>1, <2>2, <2>3, <2>5, CleanupMoveInv
         DEF CleanupDeleteTunnel, CleanupSteps
  <1>3. CASE CleanupDeployment
    <2>1. Moves("CleanupSecret")
      BY <1>3 DEF CleanupDeployment, NextStep, Goto, FailsAndGoesOn, CleanupSteps
    <2>2. Kept /\ tunnel' = tunnel /\ dns' = dns
      BY <1>3 DEF CleanupDeployment, cache, cloud
    <2>3. CleanupProgress'
      <3>1. w'.pc = "CleanupSecret" /\ w'.gw = w.gw /\ (w.err => w'.err)
        BY <1>a, <2>1
      <3>2. w.err \/ tunnel[name].id = 0
        BY <1>3 DEF IndInv, CleanupDeployment, CleanupProgress
      <3>3. QED
        BY <2>2, <3>1, <3>2 DEF CleanupProgress, name
    <2>4. QED
      BY <1>0, <1>3, <1>a, <2>1, <2>2, <2>3, CleanupMoveInv DEF CleanupDeployment, CleanupSteps
  <1>4. CASE CleanupSecret
    <2>1. Moves("TeardownDNS")
      BY <1>4 DEF CleanupSecret, NextStep, Goto, FailsAndGoesOn, CleanupSteps
    <2>2. Kept /\ tunnel' = tunnel /\ dns' = dns
      BY <1>4 DEF CleanupSecret, cache, cloud
    <2>3. CleanupProgress'
      <3>1. w'.pc = "TeardownDNS" /\ w'.gw = w.gw /\ (w.err => w'.err)
        BY <1>a, <2>1
      <3>2. w.err \/ tunnel[name].id = 0
        BY <1>4 DEF IndInv, CleanupSecret, CleanupProgress
      <3>3. QED
        BY <2>2, <3>1, <3>2 DEF CleanupProgress, name
    <2>4. QED
      BY <1>0, <1>4, <1>a, <2>1, <2>2, <2>3, CleanupMoveInv DEF CleanupSecret, CleanupSteps
  <1>5. CASE TeardownDNS
    <2>1. Moves("RemoveFinalizer")
      BY <1>5 DEF TeardownDNS, NextStep, Goto, FailsAndGoesOn, CleanupSteps
    <2>2. Kept /\ tunnel' = tunnel
      BY <1>5 DEF TeardownDNS, kube, cache
    <2>3. \A h \in Hostnames : dns'[h].owner # 0 => dns'[h] = dns[h]
      BY <1>0, <1>5 DEF TeardownDNS, Applied, TornDownRecord, NoRecord, TypeOK
    <2>4. w'.err \/ \A h \in Hostnames : dns'[h].owner # w.snap.uid
      <3>1. CASE FailsAndGoesOn(NextStep.TeardownDNS)
        BY <1>0, <3>1 DEF FailsAndGoesOn, Workers
      <3>2. CASE dns' = IF TeardownEnabled THEN Applied(TornDownRecord, Hostnames) ELSE dns
        <4>1. w.snap.uid # 0 /\ RecordOwners
          BY <1>5 DEF IndInv, CleanupGuard, TeardownDNS, CleanupSteps
        <4>2. ASSUME NEW h \in Hostnames
              PROVE  dns'[h].owner # w.snap.uid
          BY <1>0, <3>2, <4>1 DEF Applied, TornDownRecord, OwnedBy, NoRecord, RecordOwners,
             TeardownEnabled, TypeOK
        <4>3. QED
          BY <4>2
      <3>3. QED
        BY <1>5, <3>1, <3>2 DEF TeardownDNS
    <2>5. CleanupProgress'
      BY <1>5, <1>a, <2>1, <2>2, <2>4 DEF IndInv, TeardownDNS, CleanupProgress, name
    <2>6. QED
      BY <1>0, <1>5, <1>a, <2>1, <2>2, <2>3, <2>5, CleanupMoveInv DEF TeardownDNS, CleanupSteps
  <1>6. CASE RemoveFinalizer
    <2>1. /\ w' = Idle /\ fresh' = fresh /\ cachedGateway' = cachedGateway
          /\ tunnel' = tunnel /\ dns' = dns
      BY <1>6 DEF RemoveFinalizer, Returns, ReturnsError, Fails, cache, cloud
    <2>2. /\ w.snap.uid # 0 /\ w.snap.deleting
          /\ cachedGateway[w.gw].uid = w.snap.uid => cachedGateway[w.gw].deleting
      BY <1>6 DEF IndInv, CleanupGuard, RemoveFinalizer, CleanupSteps
    <2>3. CASE gateway' = gateway
      BY <1>0, <2>1, <2>3, AbsentTypes DEF Guards, IndInv, FreshUids, CacheGuard, ApplyGuard,
         CleanupGuard, CleanupProgress, RecordOwners, NoOrphanTunnels, NoOrphanRecords,
         ApplySteps, CleanupSteps
    <2>4. CASE /\ ~w.err /\ gateway[w.gw] = w.snap
               /\ gateway' = [gateway EXCEPT ![w.gw] = NoGateway]
      <3>1. /\ gateway'[w.gw].uid = 0
            /\ \A g \in Gateways \ {w.gw} : gateway'[g] = gateway[g]
        BY <1>0, <2>4 DEF TypeOK, NoGateway
      <3>2. FreshUids'
        BY <1>0, <2>1, <3>1, AbsentTypes DEF IndInv, FreshUids
      <3>3. CacheGuard'
        BY <2>1, <2>2, <2>4, <3>1 DEF IndInv, CacheGuard
      <3>4. ApplyGuard' /\ CleanupGuard' /\ CleanupProgress'
        BY <2>1, AbsentTypes DEF ApplyGuard, CleanupGuard, CleanupProgress, ApplySteps, CleanupSteps
      <3>5. tunnel[name].id = 0 /\ \A h \in Hostnames : dns[h].owner # w.snap.uid
        BY <1>6, <2>4 DEF IndInv, CleanupProgress, RemoveFinalizer
      <3>6. NoOrphanTunnels'
        BY <2>1, <3>1, <3>5 DEF IndInv, NoOrphanTunnels, name
      <3>7. RecordOwners' /\ NoOrphanRecords'
        BY <2>1, <2>4, <3>1, <3>5 DEF IndInv, RecordOwners, NoOrphanRecords
      <3>8. QED
        BY <3>2, <3>3, <3>4, <3>6, <3>7 DEF Guards
    <2>5. QED
      BY <1>6, <2>3, <2>4 DEF RemoveFinalizer, CleanupFailed
  <1>7. QED
    BY <1>1, <1>2, <1>3, <1>4, <1>5, <1>6 DEF CleanupStep

\* Taking a Gateway off the queue: the caches show what apply and cleanup rely on.
LEMMA FetchInv == IndInv /\ (\E g \in Gateways : Fetch(g)) => Guards'
  <1> SUFFICES ASSUME IndInv, NEW g \in Gateways, Fetch(g) PROVE Guards'
    OBVIOUS
  <1>0. TypeOK /\ TypeOK' /\ fresh.uid \in Nat \ {0}
    BY CleanupTypes, UpdateTypes DEF IndInv, TypeOK
  <1>1. /\ gateway' = gateway /\ cachedGateway' = cachedGateway /\ fresh' = fresh
        /\ tunnel' = tunnel /\ dns' = dns
    BY DEF Fetch, kube, cache, cloud
  <1>2. CASE FirstStep(g) = "idle"
    <2>1. w' = Idle
      BY <1>2 DEF Fetch
    <2>2. QED
      BY <1>0, <1>1, <2>1, AbsentTypes DEF Guards, IndInv, FreshUids, CacheGuard, ApplyGuard,
         CleanupGuard, CleanupProgress, RecordOwners, NoOrphanTunnels, NoOrphanRecords,
         ApplySteps, CleanupSteps
  <1>3. CASE FirstStep(g) # "idle"
    <2>1. /\ w'.pc = FirstStep(g) /\ w'.gw = g /\ w'.snap = cachedGateway[g]
      BY <1>3, AbsentTypes DEF Fetch, Workers
    <2>2. /\ cachedGateway[g].uid # 0
          /\ \/ FirstStep(g) = "AddFinalizer"
             \/ /\ FirstStep(g) = "EnsureTunnelSecret"
                /\ ~cachedGateway[g].deleting /\ cachedGateway[g].finalizer
             \/ /\ FirstStep(g) = "CleanupGetTunnel"
                /\ cachedGateway[g].deleting /\ cachedGateway[g].finalizer
      BY <1>3 DEF FirstStep
    <2>3. FreshUids' /\ CacheGuard'
      BY <1>1, <2>1 DEF IndInv, FreshUids, CacheGuard
    <2>4. ApplyGuard'
      BY <1>1, <2>1, <2>2 DEF IndInv, CacheGuard, ApplyGuard, ApplySteps
    <2>5. CleanupGuard'
      BY <1>1, <2>1, <2>2 DEF IndInv, CacheGuard, CleanupGuard, CleanupSteps
    <2>6. CleanupProgress'
      BY <2>1, <2>2 DEF CleanupProgress
    <2>7. RecordOwners' /\ NoOrphanTunnels' /\ NoOrphanRecords'
      BY <1>1 DEF IndInv, RecordOwners, NoOrphanTunnels, NoOrphanRecords
    <2>8. QED
      BY <2>3, <2>4, <2>5, <2>6, <2>7 DEF Guards
  <1>4. QED
    BY <1>2, <1>3

\* Nothing that users, Kubernetes or a crash do breaks the invariant.
LEMMA OtherInv ==
    IndInv /\ (UserStep \/ (\E g \in Gateways : KubeStep(g)) \/ Crash) => Guards'
  <1> SUFFICES ASSUME IndInv, UserStep \/ (\E g \in Gateways : KubeStep(g)) \/ Crash
               PROVE  Guards'
    OBVIOUS
  <1> DEFINE CloudKept == tunnel' = tunnel /\ dns' = dns
             KubeKept == /\ w' = w /\ gateway' = gateway
                         /\ cachedGateway' = cachedGateway /\ fresh' = fresh
  <1>0. TypeOK /\ TypeOK' /\ w \in Workers /\ w.gw \in Gateways /\ fresh.uid \in Nat \ {0}
    BY OtherTypes, UpdateTypes DEF IndInv, TypeOK, Workers
  <1>1. ASSUME NEW g \in Gateways, CreateGateway(g)
        PROVE  Guards'
    <2>1. /\ w' = w /\ cachedGateway' = cachedGateway /\ CloudKept
          /\ fresh'.uid = fresh.uid + 1 /\ gateway[g].uid = 0
      BY <1>0, <1>1 DEF CreateGateway, cache, cloud, TypeOK, FreshCounters
    <2>2. /\ gateway'[g].uid = fresh.uid
          /\ \A x \in Gateways \ {g} : gateway'[x] = gateway[x]
      BY <1>0, <1>1 DEF CreateGateway, NoGateway, TypeOK
    <2>3. FreshUids'
      <3>1. \A x \in Gateways : gateway[x].uid \in Nat /\ cachedGateway[x].uid \in Nat
        BY <1>0 DEF TypeOK, GatewayObjects
      <3>2. w.snap.uid \in Nat
        BY <1>0 DEF Workers, GatewayObjects
      <3>3. QED
        BY <1>0, <2>1, <2>2, <3>1, <3>2 DEF IndInv, FreshUids
    <2>4. CacheGuard' /\ ApplyGuard' /\ CleanupGuard'
      <3>1. /\ \A x \in Gateways : cachedGateway[x].uid # fresh.uid
            /\ w.snap.uid # fresh.uid
        BY <1>0 DEF IndInv, FreshUids
      <3>2. QED
        BY <1>0, <2>1, <2>2, <3>1 DEF IndInv, CacheGuard, ApplyGuard, CleanupGuard
    <2>5. CleanupProgress' /\ RecordOwners'
      BY <2>1 DEF IndInv, CleanupProgress, RecordOwners, name
    <2>6. NoOrphanTunnels' /\ NoOrphanRecords'
      BY <2>1, <2>2 DEF IndInv, NoOrphanTunnels, NoOrphanRecords
    <2>7. QED
      BY <2>3, <2>4, <2>5, <2>6 DEF Guards
  <1>2. ASSUME NEW g \in Gateways, DeleteGateway(g)
        PROVE  Guards'
    <2>1. w' = w /\ cachedGateway' = cachedGateway /\ CloudKept /\ fresh' = fresh
      BY <1>2 DEF DeleteGateway, cache, cloud
    <2>2. CASE gateway[g].finalizer
      <3>1. /\ gateway'[g].uid = gateway[g].uid /\ gateway'[g].deleting /\ gateway'[g].finalizer
            /\ \A x \in Gateways \ {g} : gateway'[x] = gateway[x]
        BY <1>0, <1>2, <2>2 DEF DeleteGateway, TypeOK, GatewayObjects
      <3>2. FreshUids' /\ CacheGuard' /\ ApplyGuard' /\ CleanupGuard'
        BY <1>0, <2>1, <2>2, <3>1 DEF IndInv, FreshUids, CacheGuard, ApplyGuard, CleanupGuard
      <3>3. CleanupProgress' /\ RecordOwners' /\ NoOrphanTunnels' /\ NoOrphanRecords'
        BY <2>1, <2>2, <3>1 DEF IndInv, CleanupProgress, RecordOwners, name, NoOrphanTunnels,
           NoOrphanRecords
      <3>4. QED
        BY <3>2, <3>3 DEF Guards
    <2>3. CASE ~gateway[g].finalizer
      <3>1. /\ gateway'[g].uid = 0
            /\ \A x \in Gateways \ {g} : gateway'[x] = gateway[x]
        BY <1>0, <1>2, <2>3 DEF DeleteGateway, TypeOK, NoGateway
      <3>2. FreshUids' /\ CacheGuard' /\ ApplyGuard' /\ CleanupGuard'
        BY <1>0, <2>1, <2>3, <3>1 DEF IndInv, FreshUids, CacheGuard, ApplyGuard, CleanupGuard
      <3>3. CleanupProgress' /\ RecordOwners' /\ NoOrphanTunnels' /\ NoOrphanRecords'
        BY <2>1, <2>3, <3>1 DEF IndInv, CleanupProgress, RecordOwners, name, NoOrphanTunnels,
           NoOrphanRecords
      <3>4. QED
        BY <3>2, <3>3 DEF Guards
    <2>4. QED
      BY <2>2, <2>3
  <1>3. ASSUME NEW g \in Gateways, EditGateway(g)
        PROVE  Guards'
    <2>1. w' = w /\ cachedGateway' = cachedGateway /\ CloudKept /\ fresh' = fresh
      BY <1>3 DEF EditGateway, cache, cloud
    <2>2. \A x \in Gateways : /\ gateway'[x].uid = gateway[x].uid
                              /\ gateway'[x].deleting = gateway[x].deleting
                              /\ gateway'[x].finalizer = gateway[x].finalizer
      BY <1>0, <1>3 DEF EditGateway, TypeOK, GatewayObjects
    <2>3. FreshUids' /\ CacheGuard' /\ ApplyGuard' /\ CleanupGuard'
      BY <1>0, <2>1, <2>2 DEF IndInv, FreshUids, CacheGuard, ApplyGuard, CleanupGuard
    <2>4. CleanupProgress' /\ RecordOwners' /\ NoOrphanTunnels' /\ NoOrphanRecords'
      BY <2>1, <2>2 DEF IndInv, CleanupProgress, RecordOwners, name, NoOrphanTunnels,
         NoOrphanRecords
    <2>5. QED
      BY <2>3, <2>4 DEF Guards
  <1>4. CASE KubeKept /\ CloudKept
    BY <1>4 DEF Guards, IndInv, FreshUids, CacheGuard, ApplyGuard, CleanupGuard, CleanupProgress,
       RecordOwners, NoOrphanTunnels, NoOrphanRecords, name
  <1>5. ASSUME NEW n \in Names, TamperTunnel(n)
        PROVE  Guards'
    <2>1. KubeKept /\ dns' = dns
      BY <1>5 DEF TamperTunnel, kube, cache
    <2>2. \A x \in Names : tunnel'[x].id # 0 => tunnel[x].id # 0
      BY <1>0, <1>5 DEF TamperTunnel, TypeOK, NoTunnel
    <2>3. tunnel'[name].id # 0 => tunnel[name].id # 0
      BY <1>0, <2>2, GatewaysAssumption DEF name
    <2>4. CleanupProgress' /\ NoOrphanTunnels'
      <3>1. tunnel'[name].id \in Nat /\ tunnel[name].id \in Nat
        BY <1>0, GatewaysAssumption DEF TypeOK, TunnelObjects, name
      <3>2. QED
        BY <2>1, <2>2, <2>3, <3>1 DEF IndInv, CleanupProgress, NoOrphanTunnels, name
    <2>5. QED
      BY <2>1, <2>4 DEF Guards, IndInv, FreshUids, CacheGuard, ApplyGuard, CleanupGuard,
         RecordOwners, NoOrphanRecords
  <1>6. ASSUME NEW h \in Hostnames, TamperDNS(h)
        PROVE  Guards'
    <2>1. KubeKept /\ tunnel' = tunnel
      BY <1>6 DEF TamperDNS, kube, cache
    <2>2. \A x \in Hostnames : dns'[x].owner = 0 \/ dns'[x] = dns[x]
      BY <1>0, <1>6 DEF TamperDNS, TypeOK, ForeignRecord
    <2>3. CleanupProgress'
      <3>1. w.pc = "RemoveFinalizer" => w.snap.uid # 0
        BY DEF IndInv, CleanupGuard, CleanupSteps
      <3>2. QED
        BY <2>1, <2>2, <3>1 DEF IndInv, CleanupProgress, name
    <2>4. RecordOwners' /\ NoOrphanRecords'
      BY <2>1, <2>2 DEF IndInv, RecordOwners, NoOrphanRecords
    <2>5. QED
      BY <2>1, <2>3, <2>4 DEF Guards, IndInv, FreshUids, CacheGuard, ApplyGuard, CleanupGuard,
         NoOrphanTunnels
  <1>7. ASSUME NEW g \in Gateways, SyncGateway(g)
        PROVE  Guards'
    <2>1. w' = w /\ gateway' = gateway /\ CloudKept /\ fresh' = fresh
      BY <1>7 DEF SyncGateway, kube, cloud
    <2>2. /\ cachedGateway'[g] = gateway[g]
          /\ \A x \in Gateways \ {g} : cachedGateway'[x] = cachedGateway[x]
      BY <1>0, <1>7 DEF SyncGateway, TypeOK
    <2>3. FreshUids' /\ CacheGuard' /\ ApplyGuard' /\ CleanupGuard'
      BY <1>0, <2>1, <2>2 DEF IndInv, FreshUids, CacheGuard, ApplyGuard, CleanupGuard
    <2>4. CleanupProgress' /\ RecordOwners' /\ NoOrphanTunnels' /\ NoOrphanRecords'
      BY <2>1 DEF IndInv, CleanupProgress, RecordOwners, name, NoOrphanTunnels, NoOrphanRecords
    <2>5. QED
      BY <2>3, <2>4 DEF Guards
  <1>8. CASE Crash
    <2>1. /\ w' = Idle /\ gateway' = gateway /\ cachedGateway' = gateway /\ CloudKept
          /\ fresh' = fresh
      BY <1>8 DEF Crash, kube, cloud
    <2>2. FreshUids' /\ CacheGuard'
      BY <1>0, <2>1, AbsentTypes DEF IndInv, FreshUids, CacheGuard
    <2>3. ApplyGuard' /\ CleanupGuard' /\ CleanupProgress'
      BY <2>1, AbsentTypes DEF ApplyGuard, CleanupGuard, CleanupProgress, ApplySteps, CleanupSteps
    <2>4. RecordOwners' /\ NoOrphanTunnels' /\ NoOrphanRecords'
      BY <2>1 DEF IndInv, RecordOwners, NoOrphanTunnels, NoOrphanRecords
    <2>5. QED
      BY <2>2, <2>3, <2>4 DEF Guards
  <1>9. ASSUME NEW g \in Gateways,
               \/ ChangeClass(g) \/ \E hosts \in SUBSET Hostnames : ChangeRoutes(g, hosts)
               \/ TamperSecret(g) \/ SyncSecret(g) \/ SyncDeployment(g)
               \/ CollectSecret(g) \/ CollectDeployment(g)
        PROVE  KubeKept /\ CloudKept
    BY <1>9 DEF ChangeClass, ChangeRoutes, TamperSecret, SyncSecret, SyncDeployment,
       CollectSecret, CollectDeployment, kube, cache, cloud
  <1>10. QED
    BY <1>1, <1>2, <1>3, <1>4, <1>5, <1>6, <1>7, <1>8, <1>9 DEF UserStep, KubeStep

\* The invariant holds in every reachable state.
THEOREM Invariance == Spec => []IndInv
  <1>1. IndInv /\ [Next]_vars => IndInv'
    <2> SUFFICES ASSUME IndInv, [Next]_vars PROVE IndInv'
      OBVIOUS
    <2>1. CASE UNCHANGED vars
      BY <2>1 DEF vars, kube, cache, env, cloud, IndInv, TypeOK, FreshUids, CacheGuard, ApplyGuard,
         CleanupGuard, CleanupProgress, RecordOwners, NoOrphanTunnels, NoOrphanRecords, name
    <2>2. CASE Next
      <3>1. TypeOK'
        BY <2>2, ApplyTypes, CleanupTypes, OtherTypes DEF Next, WorkerStep, IndInv
      <3>2. Guards'
        BY <2>2, ApplyInv, CleanupInv, FetchInv, OtherInv DEF Next, WorkerStep
      <3>3. QED
        BY <3>1, <3>2 DEF IndInv, Guards
    <2>3. QED
      BY <2>1, <2>2
  <1>2. QED
    BY InitInv, <1>1, PTL DEF Spec

\* As long as a tunnel exists, so does a Gateway of its name that still carries the
\* finalizer: cleanup (reconciler.go) can be interrupted anywhere, retried any number of
\* times and run on stale caches without leaking a tunnel.
THEOREM TunnelsAreNeverOrphaned == Spec => []NoOrphanTunnels
  <1>1. IndInv => NoOrphanTunnels
    BY DEF IndInv
  <1>2. QED
    BY Invariance, <1>1, PTL

\* As long as a DNS record names a Gateway's uid as its owner, that Gateway exists and
\* still carries the finalizer (dns.go, teardownDNS; reconciler.go, cleanup).
THEOREM RecordsAreNeverOrphaned == Spec => []NoOrphanRecords
  <1>1. IndInv => NoOrphanRecords
    BY DEF IndInv
  <1>2. QED
    BY Invariance, <1>1, PTL
-----------------------------------------------------------------------------
(* What the tunnel serves and what DNS points at it, within a pass. *)

\* Nobody deletes tunnels behind the controller's back.
NoTunnelTampering == "DeleteTunnel" \notin TamperKinds

\* Between PushConfig and the end of a pass the tunnel serves no other hostnames than
\* those collected; nobody having deleted it, it serves exactly those.
ConfigGuard ==
    w.pc \in {"ReconcileDNS", "PatchStatus"} => tunnel[name].config \subseteq w.hosts
PushedGuard ==
    w.pc \in {"ReconcileDNS", "PatchStatus"} =>
        tunnel[name].id = w.tunnel /\ tunnel[name].config = w.hosts

\* Once DNS has been reconciled without an error, the records are the planned ones.
RecordsGuard ==
    w.pc = "PatchStatus" /\ ~w.err /\ ManageDNS /\ w.snap.dnsManaged =>
        \A h \in Hostnames :
            IF h \in w.hosts
            THEN dns[h] = [present |-> TRUE, owner |-> w.snap.uid, target |-> w.tunnel]
            ELSE ~OwnedBy(w.snap.uid, h)

\* Only two steps lead to where the guards speak: a configuration that was accepted and
\* a pass over DNS, whether or not it met an error.
LEMMA LateSteps ==
    ASSUME TypeOK, WorkerStep \/ \E g \in Gateways : Fetch(g),
           w'.pc \in {"ReconcileDNS", "PatchStatus"}
    PROVE  /\ w'.gw = w.gw /\ w'.snap = w.snap /\ w'.hosts = w.hosts /\ w'.tunnel = w.tunnel
           /\ \/ /\ w.pc = "PushConfig" /\ w'.pc = "ReconcileDNS"
                 /\ tunnel'[name].id = w.tunnel /\ tunnel'[name].config = w.hosts
              \/ /\ w.pc = "ReconcileDNS" /\ w'.pc = "PatchStatus" /\ tunnel' = tunnel
                 /\ \/ w'.err \/ ~DNSEnabled
                    \/ Conflicts = {} /\ dns' = Applied(PlannedRecord, Hostnames)
  <1>0. w \in Workers /\ w.gw \in Gateways /\ name \in Names /\ w' # Idle
    BY GatewaysAssumption, AbsentTypes DEF TypeOK, Workers, name
  <1>1. CASE PushConfig
    <2>1. /\ tunnel[name].id = w.tunnel /\ Goto("ReconcileDNS")
          /\ tunnel' = [tunnel EXCEPT ![name].config = w.hosts]
      BY <1>0, <1>1 DEF PushConfig, NextStep, Fails, ReturnsError
    <2>2. /\ w'.pc = "ReconcileDNS" /\ w'.gw = w.gw /\ w'.snap = w.snap /\ w'.hosts = w.hosts
          /\ w'.tunnel = w.tunnel
      BY <1>0, <2>1 DEF Goto, Workers
    <2>3. tunnel'[name].id = w.tunnel /\ tunnel'[name].config = w.hosts
      BY <1>0, <2>1 DEF TypeOK, TunnelObjects
    <2>4. QED
      BY <1>1, <2>2, <2>3 DEF PushConfig
  <1>2. CASE ReconcileDNS
    <2>1. /\ w'.pc = "PatchStatus" /\ w'.gw = w.gw /\ w'.snap = w.snap /\ w'.hosts = w.hosts
          /\ w'.tunnel = w.tunnel
      BY <1>0, <1>2 DEF ReconcileDNS, NextStep, Goto, FailsAndGoesOn, Workers
    <2>2. \/ w'.err \/ ~DNSEnabled
          \/ Conflicts = {} /\ dns' = Applied(PlannedRecord, Hostnames)
      BY <1>0, <1>2 DEF ReconcileDNS, FailsAndGoesOn, DNSError, Workers
    <2>3. QED
      BY <1>2, <2>1, <2>2 DEF ReconcileDNS
  <1>3. CASE \/ AddFinalizer \/ EnsureTunnelSecret \/ GetTunnel \/ DeleteTunnel \/ CreateTunnel
             \/ StoreToken \/ ApplyDeployment \/ CollectRoutes \/ PatchStatus
    <2>1. \/ w' = Idle \/ Goto("CreateTunnel") \/ Goto("ApplyDeployment")
          \/ Goto("CollectRoutes")
          \/ \E k \in {"EnsureTunnelSecret", "GetTunnel", "DeleteTunnel", "CreateTunnel",
                       "StoreToken", "PushConfig"} : w'.pc = k
      BY <1>0, <1>3
         DEF AddFinalizer, EnsureTunnelSecret, HasTunnelSecret, GetTunnel, AfterGetTunnel,
             DeleteTunnel, CreateTunnel, StoreToken, ApplyDeployment, CollectRoutes, PatchStatus,
             NextStep, Returns, ReturnsError, Fails, Workers
    <2>2. QED
      BY <1>0, <2>1 DEF Goto, Workers
  <1>4. CASE CleanupStep
    <2>1. w' = Idle \/ \E k \in CleanupSteps : w'.pc = k
      BY <1>0, <1>4
         DEF CleanupStep, CleanupGetTunnel, CleanupDeleteTunnel, CleanupDeployment, CleanupSecret,
             TeardownDNS, RemoveFinalizer, NextStep, Goto, FailsAndGoesOn, Returns, ReturnsError,
             Fails, Workers, CleanupSteps
    <2>2. QED
      BY <1>0, <2>1 DEF CleanupSteps
  <1>5. CASE \E g \in Gateways : Fetch(g)
    <2> PICK g \in Gateways : Fetch(g)
      BY <1>5
    <2>1. w'.pc = FirstStep(g)
      BY <1>0, AbsentTypes DEF Fetch, Workers
    <2>2. QED
      BY <2>1 DEF FirstStep
  <1>6. QED
    BY <1>1, <1>2, <1>3, <1>4, <1>5 DEF WorkerStep, ApplyStep

\* The worker, the tunnels and the records an action other than the worker's leaves alone.
WorkerKept == w' = w /\ tunnel' = tunnel /\ dns' = dns

\* Of everything that is not the worker, only three kinds of step touch what a pass has
\* done: a tunnel deleted by hand, a record published by someone else and a crash.
LEMMA OtherFrame ==
    ASSUME TypeOK, UserStep \/ (\E g \in Gateways : KubeStep(g)) \/ Crash
    PROVE  \/ WorkerKept
           \/ \E n \in Names : TamperTunnel(n)
           \/ \E h \in Hostnames : TamperDNS(h)
           \/ Crash
  <1>1. ASSUME NEW g \in Gateways, KubeStep(g)
        PROVE  WorkerKept
    BY <1>1 DEF KubeStep, SyncGateway, SyncSecret, SyncDeployment, CollectSecret,
       CollectDeployment, WorkerKept, cloud
  <1>2. ASSUME NEW g \in Gateways,
               \/ CreateGateway(g) \/ DeleteGateway(g) \/ EditGateway(g) \/ ChangeClass(g)
               \/ \E hosts \in SUBSET Hostnames : ChangeRoutes(g, hosts)
               \/ TamperSecret(g)
        PROVE  WorkerKept
    BY <1>2 DEF CreateGateway, DeleteGateway, EditGateway, ChangeClass, ChangeRoutes,
       TamperSecret, WorkerKept, cloud
  <1>3. QED
    BY <1>1, <1>2 DEF UserStep

\* The planned records of the hostnames collected, when none is in conflict.
LEMMA PlanIsDone ==
    ASSUME TypeOK, w.snap.uid # 0, Conflicts = {}, dns' = Applied(PlannedRecord, Hostnames),
           NEW h \in Hostnames
    PROVE  IF h \in w.hosts
           THEN dns'[h] = [present |-> TRUE, owner |-> w.snap.uid, target |-> w.tunnel]
           ELSE ~(dns'[h].present /\ dns'[h].owner = w.snap.uid)
  <1>1. dns'[h] = PlannedRecord(h)
    BY DEF Applied
  <1>2. w.hosts \ Conflicts = w.hosts
    OBVIOUS
  <1>3. CASE h \in w.hosts
    BY <1>1, <1>2, <1>3 DEF PlannedRecord
  <1>4. CASE h \notin w.hosts
    <2>1. CASE OwnedBy(w.snap.uid, h)
      <3>1. dns'[h] = NoRecord
        BY <1>1, <1>4, <2>1 DEF PlannedRecord
      <3>2. QED
        BY <1>4, <3>1 DEF NoRecord
    <2>2. CASE ~OwnedBy(w.snap.uid, h)
      <3>1. dns'[h] = dns[h]
        BY <1>1, <1>4, <2>2 DEF PlannedRecord
      <3>2. QED
        BY <1>4, <2>2, <3>1 DEF OwnedBy
    <2>3. QED
      BY <2>1, <2>2
  <1>5. QED
    BY <1>3, <1>4

\* The guards about the configuration and the records hold whatever users do.
LEMMA PassGuards ==
    ASSUME IndInv, ConfigGuard, RecordsGuard, [Next]_vars
    PROVE  ConfigGuard' /\ RecordsGuard'
  <1>0. /\ TypeOK /\ w \in Workers /\ w.gw \in Gateways /\ name \in Names
        /\ w.pc \in {"ReconcileDNS", "PatchStatus"} => w.snap.uid # 0
    BY GatewaysAssumption DEF IndInv, TypeOK, Workers, name, ApplyGuard, ApplySteps
  <1>1. CASE WorkerKept
    BY <1>1 DEF WorkerKept, ConfigGuard, RecordsGuard, OwnedBy, name
  <1>2. CASE w'.pc \notin {"ReconcileDNS", "PatchStatus"}
    BY <1>2 DEF ConfigGuard, RecordsGuard
  <1>3. CASE /\ WorkerStep \/ \E g \in Gateways : Fetch(g)
             /\ w'.pc \in {"ReconcileDNS", "PatchStatus"}
    <2>1. w'.gw = w.gw /\ w'.snap = w.snap /\ w'.hosts = w.hosts /\ w'.tunnel = w.tunnel
      BY <1>0, <1>3, LateSteps
    <2>2. CASE w'.pc = "ReconcileDNS"
      <3>1. tunnel'[name].config = w.hosts
        BY <1>0, <1>3, <2>2, LateSteps
      <3>2. QED
        BY <2>1, <2>2, <3>1 DEF ConfigGuard, RecordsGuard, name
    <2>3. CASE w'.pc = "PatchStatus"
      <3>1. /\ w.pc = "ReconcileDNS" /\ tunnel' = tunnel
            /\ \/ w'.err \/ ~DNSEnabled
               \/ Conflicts = {} /\ dns' = Applied(PlannedRecord, Hostnames)
        BY <1>0, <1>3, <2>3, LateSteps
      <3>2. ConfigGuard'
        BY <2>1, <3>1 DEF ConfigGuard, name
      <3>3. CASE w'.err \/ ~DNSEnabled
        <4>1. w'.err \/ ~ManageDNS \/ ~w'.snap.dnsManaged
          BY <2>1, <3>3 DEF DNSEnabled
        <4>2. RecordsGuard'
          BY <4>1 DEF RecordsGuard
        <4>3. QED
          BY <3>2, <4>2
      <3>4. CASE Conflicts = {} /\ dns' = Applied(PlannedRecord, Hostnames)
        <4>1. w.snap.uid # 0
          BY <1>0, <3>1
        <4>2. QED
          BY <1>0, <2>1, <3>2, <3>4, <4>1, PlanIsDone DEF RecordsGuard, OwnedBy
      <3>5. QED
        BY <3>1, <3>2, <3>3, <3>4
    <2>4. QED
      BY <1>3, <2>2, <2>3
  <1>4. ASSUME NEW n \in Names, TamperTunnel(n)
        PROVE  ConfigGuard' /\ RecordsGuard'
    <2>1. w' = w /\ dns' = dns
      BY <1>4 DEF TamperTunnel
    <2>2. tunnel'[name] = NoTunnel \/ tunnel'[name] = tunnel[name]
      BY <1>0, <1>4 DEF TamperTunnel, TypeOK
    <2>3. QED
      <3>1. tunnel'[name].config \subseteq tunnel[name].config
        BY <2>2 DEF NoTunnel
      <3>2. ConfigGuard'
        BY <2>1, <3>1 DEF ConfigGuard, name
      <3>3. RecordsGuard'
        BY <2>1 DEF RecordsGuard, OwnedBy
      <3>4. QED
        BY <3>2, <3>3
  <1>5. ASSUME NEW h \in Hostnames, TamperDNS(h)
        PROVE  ConfigGuard' /\ RecordsGuard'
    <2>1. w' = w /\ tunnel' = tunnel /\ ~dns[h].present
      BY <1>5 DEF TamperDNS
    <2>2. \A x \in Hostnames : dns'[x] = dns[x] \/ (x = h /\ dns'[x].owner = 0)
      BY <1>0, <1>5 DEF TamperDNS, TypeOK, ForeignRecord
    <2>3. ConfigGuard'
      BY <2>1 DEF ConfigGuard, name
    <2>4. RecordsGuard'
      <3> SUFFICES ASSUME w.pc = "PatchStatus", ~w.err, ManageDNS, w.snap.dnsManaged,
                          NEW x \in Hostnames
                   PROVE  IF x \in w.hosts
                          THEN dns'[x] = [present |-> TRUE, owner |-> w.snap.uid,
                                          target |-> w.tunnel]
                          ELSE ~(dns'[x].present /\ dns'[x].owner = w.snap.uid)
        BY <2>1 DEF RecordsGuard, OwnedBy
      <3>1. IF x \in w.hosts
            THEN dns[x] = [present |-> TRUE, owner |-> w.snap.uid, target |-> w.tunnel]
            ELSE ~(dns[x].present /\ dns[x].owner = w.snap.uid)
        BY DEF RecordsGuard, OwnedBy
      <3>2. CASE dns'[x] = dns[x]
        BY <3>1, <3>2
      <3>3. CASE x = h /\ dns'[x].owner = 0
        <4>1. x \notin w.hosts
          BY <2>1, <3>1, <3>3
        <4>2. w.snap.uid # 0
          BY <1>0
        <4>3. QED
          BY <3>3, <4>1, <4>2
      <3>4. QED
        BY <2>2, <3>2, <3>3
    <2>5. QED
      BY <2>3, <2>4
  <1>6. CASE Crash
    BY <1>6, AbsentTypes DEF Crash, ConfigGuard, RecordsGuard
  <1>7. CASE UNCHANGED vars
    BY <1>7, <1>1 DEF vars, cloud, WorkerKept
  <1>8. CASE Next
    BY <1>0, <1>1, <1>2, <1>3, <1>4, <1>5, <1>6, <1>8, OtherFrame DEF Next
  <1>9. QED
    BY <1>7, <1>8

\* Nobody deleting tunnels, the tunnel also serves all that was collected.
LEMMA PushedGuards ==
    ASSUME NoTunnelTampering, IndInv, PushedGuard, [Next]_vars
    PROVE  PushedGuard'
  <1>0. TypeOK /\ w \in Workers /\ w.gw \in Gateways /\ name \in Names
    BY GatewaysAssumption DEF IndInv, TypeOK, Workers, name
  <1>1. CASE w' = w /\ tunnel' = tunnel
    BY <1>1 DEF PushedGuard, name
  <1>2. CASE w'.pc \notin {"ReconcileDNS", "PatchStatus"}
    BY <1>2 DEF PushedGuard
  <1>3. CASE /\ WorkerStep \/ \E g \in Gateways : Fetch(g)
             /\ w'.pc \in {"ReconcileDNS", "PatchStatus"}
    <2>1. /\ w'.gw = w.gw /\ w'.snap = w.snap /\ w'.hosts = w.hosts /\ w'.tunnel = w.tunnel
          /\ \/ w.pc = "PushConfig" /\ tunnel'[name].id = w.tunnel /\ tunnel'[name].config = w.hosts
             \/ w.pc = "ReconcileDNS" /\ tunnel' = tunnel
      BY <1>0, <1>3, LateSteps
    <2>2. QED
      BY <2>1 DEF PushedGuard, name
  <1>4. ~ \E n \in Names : TamperTunnel(n)
    BY DEF NoTunnelTampering, TamperTunnel, Tampers
  <1>5. ASSUME NEW h \in Hostnames, TamperDNS(h)
        PROVE  w' = w /\ tunnel' = tunnel
    BY <1>5 DEF TamperDNS
  <1>6. CASE Crash
    BY <1>6, AbsentTypes DEF Crash, PushedGuard
  <1>7. CASE UNCHANGED vars
    BY <1>7, <1>1 DEF vars, cloud
  <1>8. CASE Next
    BY <1>0, <1>1, <1>2, <1>3, <1>4, <1>5, <1>6, <1>8, OtherFrame DEF Next, WorkerKept
  <1>9. QED
    BY <1>7, <1>8

\* What a record becomes that a step points at a tunnel: only a pass over DNS does that,
\* for a hostname it collected and with the tunnel it looked up.
LEMMA PointedRecords ==
    ASSUME IndInv, [Next]_vars, NEW h \in Hostnames, dns'[h] # dns[h], dns'[h].owner # 0
    PROVE  /\ w.pc = "ReconcileDNS" /\ h \in w.hosts
           /\ dns'[h] = [present |-> TRUE, owner |-> w.snap.uid, target |-> w.tunnel]
  <1>1. CASE ReconcileDNS
    <2>1. dns'[h] = PlannedRecord(h)
      BY <1>1 DEF ReconcileDNS, Applied
    <2>2. QED
      <3>1. NoRecord.owner = 0
        BY DEF NoRecord
      <3>2. h \in w.hosts \ Conflicts
        BY <2>1, <3>1 DEF PlannedRecord
      <3>3. QED
        BY <1>1, <2>1, <3>2 DEF ReconcileDNS, PlannedRecord
  <1>2. CASE TeardownDNS
    BY <1>2 DEF TeardownDNS, Applied, TornDownRecord, NoRecord
  <1>3. ASSUME NEW x \in Hostnames, TamperDNS(x)
        PROVE  FALSE
    BY <1>3 DEF TamperDNS, ForeignRecord, IndInv, TypeOK
  <1>4. CASE dns' = dns
    BY <1>4
  <1>5. \/ dns' = dns \/ ReconcileDNS \/ TeardownDNS \/ \E x \in Hostnames : TamperDNS(x)
    <2>1. CASE ApplyStep
      BY <2>1 DEF ApplyStep, AddFinalizer, EnsureTunnelSecret, GetTunnel, DeleteTunnel,
         CreateTunnel, StoreToken, ApplyDeployment, CollectRoutes, PushConfig, PatchStatus, cloud
    <2>2. CASE CleanupStep
      BY <2>2 DEF CleanupStep, CleanupGetTunnel, CleanupDeleteTunnel, CleanupDeployment,
         CleanupSecret, RemoveFinalizer, cloud
    <2>3. CASE UserStep \/ (\E g \in Gateways : KubeStep(g)) \/ Crash
      BY <2>3, OtherFrame DEF IndInv, WorkerKept, TamperTunnel, Crash, cloud
    <2>4. CASE (\E g \in Gateways : Fetch(g)) \/ UNCHANGED vars
      BY <2>4 DEF Fetch, vars, cloud
    <2>5. QED
      BY <2>1, <2>2, <2>3, <2>4 DEF Next, WorkerStep
  <1>6. QED
    BY <1>1, <1>2, <1>3, <1>4, <1>5

\* "Publish DNS only after the tunnel configuration is ready" (reconciler.go): wherever
\* the worker is interrupted and whatever it has read, as long as nobody deletes tunnels
\* behind its back it points a record only at a tunnel that serves the hostname.
THEOREM ServedBeforePublished ==
    ASSUME NoTunnelTampering PROVE Spec => PublishedHostsAreServed
  <1>1. Init => PushedGuard
    BY AbsentTypes DEF Init, PushedGuard
  <1>2. IndInv /\ PushedGuard /\ [Next]_vars => PushedGuard'
    BY PushedGuards
  <1>3. IndInv /\ PushedGuard /\ [Next]_vars =>
          [\A h \in Hostnames : dns'[h] # dns[h] /\ dns'[h].owner # 0 =>
             \E n \in Names : tunnel[n].id = dns'[h].target /\ h \in tunnel[n].config]_vars
    <2> SUFFICES ASSUME IndInv, PushedGuard, [Next]_vars,
                        NEW h \in Hostnames, dns'[h] # dns[h], dns'[h].owner # 0
                 PROVE  \E n \in Names : tunnel[n].id = dns'[h].target /\ h \in tunnel[n].config
      OBVIOUS
    <2>1. name \in Names
      BY GatewaysAssumption DEF IndInv, TypeOK, Workers, name
    <2>2. /\ w.pc = "ReconcileDNS" /\ h \in w.hosts
          /\ dns'[h] = [present |-> TRUE, owner |-> w.snap.uid, target |-> w.tunnel]
      BY PointedRecords
    <2>3. tunnel[name].id = w.tunnel /\ tunnel[name].config = w.hosts
      BY <2>2 DEF PushedGuard
    <2>4. QED
      BY <2>1, <2>2, <2>3
  <1>4. QED
    BY <1>1, <1>2, <1>3, Invariance, PTL DEF Spec, PublishedHostsAreServed

\* Only a pass that met no error makes a Gateway programmed or moves its address.
LEMMA ProgrammedByPasses ==
    ASSUME IndInv, [Next]_vars, NEW g \in Gateways, gateway'[g].programmed = "True",
           \/ gateway'[g].programmed # gateway[g].programmed
           \/ gateway'[g].address # gateway[g].address
    PROVE  /\ w.pc = "PatchStatus" /\ ~w.err /\ w.gw = g
           /\ gateway'[g].uid = w.snap.uid /\ gateway'[g].address = w.tunnel
           /\ gateway'[g].dnsManaged = w.snap.dnsManaged
  <1>0. TypeOK /\ w \in Workers /\ w.gw \in Gateways /\ w.snap \in GatewayObjects
    BY DEF IndInv, TypeOK, Workers
  <1> DEFINE Kept(x) == /\ gateway'[x].programmed = gateway[x].programmed
                        /\ gateway'[x].address = gateway[x].address
             Gone(x) == gateway'[x].programmed # "True"
  <1>1. CASE PatchStatus
    <2> DEFINE patched == [w.snap EXCEPT !.programmed = ProgrammedStatus(w.err),
                                         !.address = w.tunnel]
    <2>1. gateway' = [gateway EXCEPT ![w.gw] = patched] /\ w.pc = "PatchStatus"
      BY <1>1 DEF PatchStatus
    <2>2. w.gw = g /\ gateway'[g] = patched
      BY <1>0, <2>1 DEF IndInv, TypeOK
    <2>3. /\ patched.programmed = ProgrammedStatus(w.err) /\ patched.address = w.tunnel
          /\ patched.uid = w.snap.uid /\ patched.dnsManaged = w.snap.dnsManaged
      BY <1>0 DEF GatewayObjects
    <2>4. ~w.err
      BY <2>2, <2>3 DEF ProgrammedStatus
    <2>5. QED
      BY <2>1, <2>2, <2>3, <2>4
  <1>2. CASE AddFinalizer
    <2>1. \/ gateway' = gateway
          \/ gateway' = [gateway EXCEPT ![w.gw] = [gateway[w.gw] EXCEPT !.finalizer = TRUE]]
      BY <1>2 DEF AddFinalizer
    <2>2. gateway[w.gw] \in GatewayObjects
      BY <1>0 DEF TypeOK
    <2>3. /\ [gateway[w.gw] EXCEPT !.finalizer = TRUE].programmed = gateway[w.gw].programmed
          /\ [gateway[w.gw] EXCEPT !.finalizer = TRUE].address = gateway[w.gw].address
      BY <2>2 DEF GatewayObjects
    <2>4. Kept(g)
      BY <1>0, <2>1, <2>3 DEF TypeOK
    <2>5. QED
      BY <2>4
  <1>3. CASE RemoveFinalizer
    BY <1>0, <1>3 DEF RemoveFinalizer, NoGateway, TypeOK
  <1>4. ASSUME NEW x \in Gateways, CreateGateway(x)
        PROVE  Kept(g) \/ Gone(g)
    BY <1>0, <1>4 DEF CreateGateway, NoGateway, TypeOK
  <1>5. ASSUME NEW x \in Gateways, DeleteGateway(x)
        PROVE  Kept(g) \/ Gone(g)
    <2>1. CASE gateway[x].finalizer
      BY <1>0, <1>5, <2>1 DEF DeleteGateway, TypeOK, GatewayObjects
    <2>2. CASE ~gateway[x].finalizer
      BY <1>0, <1>5, <2>2 DEF DeleteGateway, TypeOK, NoGateway
    <2>3. QED
      BY <2>1, <2>2
  <1>6. ASSUME NEW x \in Gateways, EditGateway(x)
        PROVE  Kept(g)
    BY <1>0, <1>6 DEF EditGateway, TypeOK, GatewayObjects
  <1>7. CASE gateway' = gateway
    BY <1>7
  <1>8. \/ gateway' = gateway \/ PatchStatus \/ AddFinalizer \/ RemoveFinalizer
        \/ \E x \in Gateways : CreateGateway(x) \/ DeleteGateway(x) \/ EditGateway(x)
    <2>1. CASE ApplyStep
      BY <2>1 DEF ApplyStep, EnsureTunnelSecret, GetTunnel, DeleteTunnel,
         CreateTunnel, StoreToken, ApplyDeployment, CollectRoutes, PushConfig, ReconcileDNS, kube
    <2>2. CASE CleanupStep
      BY <2>2 DEF CleanupStep, CleanupGetTunnel, CleanupDeleteTunnel, CleanupDeployment,
         CleanupSecret, TeardownDNS, kube
    <2>3. CASE UserStep
      BY <2>3 DEF UserStep, ChangeClass, ChangeRoutes, TamperSecret, TamperTunnel, TamperDNS, kube
    <2>4. CASE (\E x \in Gateways : KubeStep(x)) \/ Crash
      BY <2>4 DEF KubeStep, SyncGateway, SyncSecret, SyncDeployment, CollectSecret,
         CollectDeployment, Crash, kube
    <2>5. CASE (\E x \in Gateways : Fetch(x)) \/ UNCHANGED vars
      BY <2>5 DEF Fetch, vars, kube
    <2>6. QED
      BY <2>1, <2>2, <2>3, <2>4, <2>5 DEF Next, WorkerStep
  <1>9. QED
    BY <1>1, <1>2, <1>3, <1>4, <1>5, <1>6, <1>7, <1>8

\* A Gateway does "not advertise itself as ready for traffic while its hostnames have no
\* DNS records pointing at the tunnel" (status.go): with tampering, retries and stale
\* reads as they may be, the step that reports it programmed finds the records in place.
THEOREM ReadyAfterDNS == Spec => ReadyMeansPublished
  <1>1. Init => ConfigGuard /\ RecordsGuard
    BY AbsentTypes DEF Init, ConfigGuard, RecordsGuard
  <1>2. IndInv /\ ConfigGuard /\ RecordsGuard /\ [Next]_vars => ConfigGuard' /\ RecordsGuard'
    BY PassGuards
  <1> DEFINE Ready(g, was, is) ==
               (/\ is.programmed = "True" /\ ManageDNS /\ is.dnsManaged
                /\ is.programmed # was.programmed \/ is.address # was.address)
               => \A h \in tunnel[NameOf[g]].config :
                     dns[h] = [present |-> TRUE, owner |-> is.uid, target |-> is.address]
  <1>3. IndInv /\ ConfigGuard /\ RecordsGuard /\ [Next]_vars =>
          [\A g \in Gateways : Ready(g, gateway[g], gateway'[g])]_vars
    <2> SUFFICES ASSUME IndInv, ConfigGuard, RecordsGuard, [Next]_vars, NEW g \in Gateways,
                        gateway'[g].programmed = "True", ManageDNS, gateway'[g].dnsManaged,
                        \/ gateway'[g].programmed # gateway[g].programmed
                        \/ gateway'[g].address # gateway[g].address,
                        NEW h \in tunnel[NameOf[g]].config
                 PROVE  dns[h] = [present |-> TRUE, owner |-> gateway'[g].uid,
                                  target |-> gateway'[g].address]
      OBVIOUS
    <2>1. /\ w.pc = "PatchStatus" /\ ~w.err /\ w.gw = g
          /\ gateway'[g].uid = w.snap.uid /\ gateway'[g].address = w.tunnel
          /\ gateway'[g].dnsManaged = w.snap.dnsManaged
      BY ProgrammedByPasses
    <2>2. h \in w.hosts
      BY <2>1 DEF ConfigGuard, name
    <2>3. h \in Hostnames
      BY <2>2 DEF IndInv, TypeOK, Workers
    <2>4. QED
      BY <2>1, <2>2, <2>3 DEF RecordsGuard
  <1>4. QED
    BY <1>1, <1>2, <1>3, Invariance, PTL DEF Spec, ReadyMeansPublished

-----------------------------------------------------------------------------
(* No wake-up is lost.  A Gateway is served when nothing is queued for it   *)
(* and the worker is not on it: what its last pass read was current, or an  *)
(* event that says otherwise is in the queue.                               *)

\* The dns-managed annotation, whose edits raise no event, stays on.
NoAnnotationEdits == MaxEdits = 0

\* Gateways have names of their own, whatever their namespace: tunnels go by name.
OwnNames == \A g1, g2 \in Gateways : NameOf[g1] = NameOf[g2] => g1 = g2

\* Every copy of a Gateway has the annotation on.
Managed ==
    /\ \A g \in Gateways : gateway[g].dnsManaged /\ cachedGateway[g].dnsManaged
    /\ w.snap.dnsManaged

\* A uid belongs to one Gateway, in every copy.
UidsPlaced ==
    \A g \in Gateways : gateway[g].uid # 0 =>
        /\ \A x \in Gateways : gateway[g].uid \in {gateway[x].uid, cachedGateway[x].uid} => x = g
        /\ w.snap.uid = gateway[g].uid => w.gw = g

\* No event is pending for g, which this controller manages and the cache knows.
Current(g) == Live(g) /\ cachedGateway[g].uid = gateway[g].uid /\ g \notin queue

\* The pass on such a Gateway works with its uid and, once it has collected the
\* routes, with the hostnames of the routes as they are now.
Collected == {"PushConfig", "ReconcileDNS", "PatchStatus"}
PassIsCurrent ==
    w.pc # "idle" /\ Current(w.gw) =>
        /\ w.snap.uid = gateway[w.gw].uid
        /\ w.pc \in Collected => w.hosts = routes[w.gw]

SettleInv ==
    /\ ConfigGuard /\ RecordsGuard /\ PushedGuard /\ Managed /\ UidsPlaced
    /\ PassIsCurrent /\ SettledIsServed

\* A record that was there for another owner is left alone, and one that is written or
\* removed is for the owner u.
Touches(u) ==
    \A h \in Hostnames :
        \/ dns'[h] = dns[h]
        \/ (~dns[h].present \/ dns[h].owner = u) /\ dns'[h].owner \in {0, u}

\* A step of the worker touches nothing that belongs to another Gateway.
WorkerFrame ==
    /\ cachedGateway' = cachedGateway /\ class' = class /\ routes' = routes
    /\ \A g \in Gateways \ {w.gw} : gateway'[g] = gateway[g]
    /\ \A n \in Names \ {name} : tunnel'[n] = tunnel[n]
    /\ Touches(w.snap.uid)

\* The ways a step of the worker can end: within the pass, in a retry, with the status
\* written after no error, or with the finalizer and the object gone.
GoesOn ==
    /\ w'.pc # "idle" /\ w'.gw = w.gw /\ queue' = queue
    /\ w'.snap.uid = w.snap.uid /\ w'.snap.dnsManaged = w.snap.dnsManaged
    /\ gateway'[w.gw].uid = gateway[w.gw].uid
    /\ gateway'[w.gw].deleting = gateway[w.gw].deleting
    /\ gateway'[w.gw].dnsManaged = gateway[w.gw].dnsManaged
    /\ w'.pc \in Collected =>
         w'.hosts = routes[w.gw] \/ (w.pc \in Collected /\ w'.hosts = w.hosts)
Requeues ==
    /\ w' = Idle /\ queue' = queue \cup {w.gw}
    /\ \/ gateway'[w.gw] = NoGateway
       \/ /\ gateway'[w.gw].uid = gateway[w.gw].uid
          /\ gateway'[w.gw].dnsManaged = gateway[w.gw].dnsManaged
Finishes ==
    /\ w' = Idle /\ queue' = queue /\ w.pc = "PatchStatus" /\ ~w.err
    /\ gateway[w.gw] = w.snap /\ tunnel' = tunnel /\ dns' = dns
    /\ gateway'[w.gw].uid = w.snap.uid /\ gateway'[w.gw].finalizer = w.snap.finalizer
    /\ gateway'[w.gw].deleting = w.snap.deleting
    /\ gateway'[w.gw].dnsManaged = w.snap.dnsManaged
    /\ gateway'[w.gw].programmed = "True" /\ gateway'[w.gw].address = w.tunnel
Removes == w' = Idle /\ queue' = queue /\ gateway'[w.gw] = NoGateway

\* A pass over DNS and a teardown touch only records that are free or the Gateway's own.
LEMMA DNSTouches == TypeOK /\ (ReconcileDNS \/ TeardownDNS) => Touches(w.snap.uid)
  <1> SUFFICES ASSUME TypeOK, ReconcileDNS \/ TeardownDNS, NEW h \in Hostnames,
                      dns'[h] # dns[h]
               PROVE  (~dns[h].present \/ dns[h].owner = w.snap.uid)
                        /\ dns'[h].owner \in {0, w.snap.uid}
    BY DEF Touches
  <1>0. NoRecord.owner = 0
    BY DEF NoRecord
  <1>1. CASE ReconcileDNS
    <2>1. dns'[h] = PlannedRecord(h)
      BY <1>1 DEF ReconcileDNS, Applied
    <2>2. CASE h \in w.hosts \ Conflicts
      <3>1. dns'[h].owner = w.snap.uid
        BY <2>1, <2>2 DEF PlannedRecord
      <3>2. ~dns[h].present \/ dns[h].owner = w.snap.uid
        BY <2>2 DEF Conflicts, OwnedBy
      <3>3. QED
        BY <3>1, <3>2
    <2>3. CASE h \notin w.hosts \ Conflicts
      <3>1. OwnedBy(w.snap.uid, h) /\ dns'[h] = NoRecord
        BY <2>1, <2>3 DEF PlannedRecord
      <3>2. QED
        BY <1>0, <3>1 DEF OwnedBy
    <2>4. QED
      BY <2>2, <2>3
  <1>2. CASE TeardownDNS
    <2>1. OwnedBy(w.snap.uid, h) /\ dns'[h] = NoRecord
      BY <1>2 DEF TeardownDNS, Applied, TornDownRecord
    <2>2. QED
      BY <1>0, <2>1 DEF OwnedBy
  <1>3. QED
    BY <1>1, <1>2

\* No step of apply or cleanup touches what belongs to another Gateway.
LEMMA WorkersKeepTheirOwn == TypeOK /\ WorkerStep => WorkerFrame
  <1> SUFFICES ASSUME TypeOK, WorkerStep PROVE WorkerFrame
    OBVIOUS
  <1>1. cachedGateway' = cachedGateway /\ class' = class /\ routes' = routes
    <2>1. CASE ApplyStep
      BY <2>1 DEF ApplyStep, AddFinalizer, EnsureTunnelSecret, GetTunnel, DeleteTunnel,
         CreateTunnel, StoreToken, ApplyDeployment, CollectRoutes, PushConfig, ReconcileDNS,
         PatchStatus, cache, env
    <2>2. CASE CleanupStep
      BY <2>2 DEF CleanupStep, CleanupGetTunnel, CleanupDeleteTunnel, CleanupDeployment,
         CleanupSecret, TeardownDNS, RemoveFinalizer, cache, env
    <2>3. QED
      BY <2>1, <2>2 DEF WorkerStep
  <1>2. \A g \in Gateways \ {w.gw} : gateway'[g] = gateway[g]
    <2>1. CASE ApplyStep
      BY <2>1 DEF TypeOK, ApplyStep, AddFinalizer, EnsureTunnelSecret, GetTunnel, DeleteTunnel,
         CreateTunnel, StoreToken, ApplyDeployment, CollectRoutes, PushConfig, ReconcileDNS,
         PatchStatus, kube
    <2>2. CASE CleanupStep
      BY <2>2 DEF TypeOK, CleanupStep, CleanupGetTunnel, CleanupDeleteTunnel, CleanupDeployment,
         CleanupSecret, TeardownDNS, RemoveFinalizer, kube
    <2>3. QED
      BY <2>1, <2>2 DEF WorkerStep
  <1>3. \A n \in Names \ {name} : tunnel'[n] = tunnel[n]
    <2>1. CASE ApplyStep
      BY <2>1 DEF TypeOK, ApplyStep, AddFinalizer, EnsureTunnelSecret, GetTunnel, DeleteTunnel,
         CreateTunnel, StoreToken, ApplyDeployment, CollectRoutes, PushConfig, ReconcileDNS,
         PatchStatus, cloud
    <2>2. CASE CleanupStep
      BY <2>2 DEF TypeOK, CleanupStep, CleanupGetTunnel, CleanupDeleteTunnel, CleanupDeployment,
         CleanupSecret, TeardownDNS, RemoveFinalizer, cloud
    <2>3. QED
      BY <2>1, <2>2 DEF WorkerStep
  <1>4. Touches(w.snap.uid)
    <2>1. dns' = dns \/ ReconcileDNS \/ TeardownDNS
      <3>1. CASE ApplyStep
        BY <3>1 DEF ApplyStep, AddFinalizer, EnsureTunnelSecret, GetTunnel, DeleteTunnel,
           CreateTunnel, StoreToken, ApplyDeployment, CollectRoutes, PushConfig, PatchStatus, cloud
      <3>2. CASE CleanupStep
        BY <3>2 DEF CleanupStep, CleanupGetTunnel, CleanupDeleteTunnel, CleanupDeployment,
           CleanupSecret, RemoveFinalizer, cloud
      <3>3. QED
        BY <3>1, <3>2 DEF WorkerStep
    <2>2. QED
      BY <2>1, DNSTouches DEF Touches
  <1>5. QED
    BY <1>1, <1>2, <1>3, <1>4 DEF WorkerFrame

\* A step that only moves the worker on, or gives up without touching the Gateway, goes on
\* or requeues.
LEMMA MovesEnd ==
    ASSUME TypeOK, gateway' = gateway, NEW pc \in Steps \ {"idle"},
           pc \in Collected => w.pc \in Collected,
           Goto(pc) \/ FailsAndGoesOn(pc) \/ Fails \/ ReturnsError
    PROVE  GoesOn \/ Requeues
  <1>0. w \in Workers
    BY DEF TypeOK
  <1>1. CASE Fails \/ ReturnsError
    BY <1>1 DEF Fails, ReturnsError, Requeues
  <1>2. CASE Goto(pc) \/ FailsAndGoesOn(pc)
    <2>1. /\ w'.pc = pc /\ w'.gw = w.gw /\ w'.snap = w.snap /\ w'.hosts = w.hosts
          /\ queue' = queue
      BY <1>0, <1>2 DEF Goto, FailsAndGoesOn, Workers
    <2>2. QED
      BY <2>1 DEF GoesOn
  <1>3. QED
    BY <1>1, <1>2

\* Every step of apply ends in one of the four ways.
LEMMA ApplyEnds == TypeOK /\ ApplyStep => GoesOn \/ Requeues \/ Finishes
  <1> SUFFICES ASSUME TypeOK, ApplyStep PROVE GoesOn \/ Requeues \/ Finishes
    OBVIOUS
  <1>0. w \in Workers /\ w.gw \in Gateways /\ w.snap \in GatewayObjects
    BY DEF TypeOK, Workers
  <1>a. /\ {"GetTunnel", "CreateTunnel", "DeleteTunnel", "StoreToken", "ApplyDeployment",
            "CollectRoutes", "PushConfig", "ReconcileDNS", "PatchStatus"} \subseteq Steps \ {"idle"}
        /\ Collected = {"PushConfig", "ReconcileDNS", "PatchStatus"}
    BY DEF Steps, ApplySteps, Collected
  <1>b. ASSUME gateway' = gateway, w'.pc # "idle", w'.pc \notin Collected, w'.gw = w.gw,
               w'.snap = w.snap, queue' = queue
        PROVE  GoesOn
    BY <1>b DEF GoesOn
  <1>1. CASE AddFinalizer
    <2> DEFINE with(x) == [x EXCEPT !.finalizer = TRUE]
    <2>0. \A x \in GatewayObjects : /\ with(x).uid = x.uid /\ with(x).deleting = x.deleting
                                    /\ with(x).dnsManaged = x.dnsManaged
      BY DEF GatewayObjects
    <2>1. gateway' = gateway \/ gateway' = [gateway EXCEPT ![w.gw] = with(gateway[w.gw])]
      BY <1>1 DEF AddFinalizer
    <2>2. /\ gateway'[w.gw].uid = gateway[w.gw].uid
          /\ gateway'[w.gw].deleting = gateway[w.gw].deleting
          /\ gateway'[w.gw].dnsManaged = gateway[w.gw].dnsManaged
      BY <1>0, <2>0, <2>1 DEF TypeOK
    <2>3. CASE Fails \/ ReturnsError
      BY <2>2, <2>3 DEF Fails, ReturnsError, Requeues
    <2>4. CASE /\ w' = [w EXCEPT !.pc = "EnsureTunnelSecret", !.snap = with(w.snap)]
               /\ queue' = queue
      <3>1. /\ w'.pc = "EnsureTunnelSecret" /\ w'.gw = w.gw /\ w'.snap = with(w.snap)
        BY <1>0, <2>4 DEF Workers
      <3>2. w'.snap.uid = w.snap.uid /\ w'.snap.dnsManaged = w.snap.dnsManaged
        BY <1>0, <2>0, <3>1
      <3>3. QED
        BY <2>2, <2>4, <3>1, <3>2, <1>a DEF GoesOn
    <2>5. QED
      BY <1>1, <2>3, <2>4 DEF AddFinalizer
  <1>2. CASE EnsureTunnelSecret
    <2>1. gateway' = gateway
      BY <1>2 DEF EnsureTunnelSecret
    <2>2. CASE Fails \/ ReturnsError
      BY <2>1, <2>2 DEF Fails, ReturnsError, Requeues
    <2>3. ASSUME NEW k, NEW b, HasTunnelSecret(k, b), queue' = queue
          PROVE  GoesOn
      <3>1. w'.pc = "GetTunnel" /\ w'.gw = w.gw /\ w'.snap = w.snap
        BY <1>0, <2>3 DEF HasTunnelSecret, Workers
      <3>2. QED
        BY <1>a, <1>b, <2>1, <2>3, <3>1
    <2>4. QED
      BY <1>2, <2>2, <2>3 DEF EnsureTunnelSecret
  <1>3. CASE GetTunnel
    <2>1. gateway' = gateway
      BY <1>3 DEF GetTunnel, kube
    <2>2. CASE Fails
      BY <2>1, <2>2 DEF Fails, Requeues
    <2>3. CASE /\ w' = [w EXCEPT !.tunnel = tunnel[name].id,
                                 !.pc = AfterGetTunnel(tunnel[name].id, w.regenerated)]
               /\ queue' = queue
      <3>1. /\ w'.pc = AfterGetTunnel(tunnel[name].id, w.regenerated)
            /\ w'.gw = w.gw /\ w'.snap = w.snap
        BY <1>0, <2>3 DEF Workers
      <3>2. w'.pc \in {"CreateTunnel", "DeleteTunnel", "StoreToken"}
        BY <3>1 DEF AfterGetTunnel
      <3>3. QED
        BY <1>a, <1>b, <2>1, <2>3, <3>1, <3>2
    <2>4. QED
      BY <1>3, <2>2, <2>3 DEF GetTunnel
  <1>4. CASE DeleteTunnel
    BY <1>a, <1>4, MovesEnd DEF DeleteTunnel, kube
  <1>5. CASE CreateTunnel
    <2>1. gateway' = gateway
      BY <1>5 DEF CreateTunnel, kube
    <2>2. CASE Fails
      BY <2>1, <2>2 DEF Fails, Requeues
    <2>3. CASE /\ w' = [w EXCEPT !.pc = NextStep.CreateTunnel, !.tunnel = fresh.tunnel]
               /\ queue' = queue
      <3>1. w'.pc = "StoreToken" /\ w'.gw = w.gw /\ w'.snap = w.snap
        BY <1>0, <2>3 DEF Workers, NextStep
      <3>2. QED
        BY <1>a, <1>b, <2>1, <2>3, <3>1
    <2>4. QED
      BY <1>5, <2>2, <2>3 DEF CreateTunnel
  <1>6. CASE StoreToken
    BY <1>a, <1>6, MovesEnd DEF StoreToken, NextStep
  <1>7. CASE ApplyDeployment
    BY <1>a, <1>7, MovesEnd DEF ApplyDeployment, NextStep
  <1>8. CASE CollectRoutes
    <2>1. /\ w'.pc = "PushConfig" /\ w'.gw = w.gw /\ w'.snap = w.snap /\ w'.hosts = routes[w.gw]
          /\ queue' = queue /\ gateway' = gateway
      BY <1>0, <1>8 DEF CollectRoutes, NextStep, Workers, kube
    <2>2. QED
      BY <2>1 DEF GoesOn
  <1>9. CASE PushConfig
    BY <1>a, <1>9, MovesEnd DEF PushConfig, NextStep, kube
  <1>10. CASE ReconcileDNS
    <2>1. gateway' = gateway /\ queue' = queue /\ w.pc = "ReconcileDNS"
      BY <1>10 DEF ReconcileDNS, Goto, FailsAndGoesOn, kube
    <2>2. w'.pc = "PatchStatus" /\ w'.gw = w.gw /\ w'.snap = w.snap /\ w'.hosts = w.hosts
      BY <1>0, <1>10 DEF ReconcileDNS, NextStep, Goto, FailsAndGoesOn, Workers
    <2>3. QED
      BY <1>a, <2>1, <2>2 DEF GoesOn
  <1>11. CASE PatchStatus
    <2> DEFINE patched == [w.snap EXCEPT !.programmed = ProgrammedStatus(w.err),
                                         !.address = w.tunnel]
    <2>0. /\ patched.uid = w.snap.uid /\ patched.deleting = w.snap.deleting
          /\ patched.finalizer = w.snap.finalizer /\ patched.dnsManaged = w.snap.dnsManaged
          /\ patched.programmed = ProgrammedStatus(w.err) /\ patched.address = w.tunnel
      BY <1>0 DEF GatewayObjects
    <2>1. CASE gateway' = gateway /\ (Fails \/ ReturnsError)
      BY <2>1 DEF Fails, ReturnsError, Requeues
    <2>2. CASE gateway[w.gw] = w.snap /\ gateway' = [gateway EXCEPT ![w.gw] = patched]
      <3>1. gateway'[w.gw] = patched
        BY <1>0, <2>2 DEF TypeOK
      <3>2. CASE Fails \/ ReturnsError
        BY <2>0, <2>2, <3>1, <3>2 DEF Fails, ReturnsError, Requeues
      <3>3. CASE ~w.err /\ Returns
        <4>1. tunnel' = tunnel /\ dns' = dns /\ w.pc = "PatchStatus"
          BY <1>11 DEF PatchStatus, cloud
        <4>2. ProgrammedStatus(w.err) = "True"
          BY <3>3 DEF ProgrammedStatus
        <4>3. QED
          BY <2>0, <2>2, <3>1, <3>3, <4>1, <4>2 DEF Finishes, Returns
      <3>4. QED
        BY <1>11, <2>2, <3>2, <3>3 DEF PatchStatus
    <2>3. QED
      BY <1>11, <2>1, <2>2 DEF PatchStatus
  <1>12. QED
    BY <1>1, <1>2, <1>3, <1>4, <1>5, <1>6, <1>7, <1>8, <1>9, <1>10, <1>11 DEF ApplyStep

\* So does every step of cleanup.
LEMMA CleanupEnds == TypeOK /\ CleanupStep => GoesOn \/ Requeues \/ Removes
  <1> SUFFICES ASSUME TypeOK, CleanupStep PROVE GoesOn \/ Requeues \/ Removes
    OBVIOUS
  <1>0. w \in Workers /\ w.gw \in Gateways
    BY DEF TypeOK, Workers
  <1>a. /\ CleanupSteps \subseteq Steps \ {"idle"}
        /\ \A pc \in CleanupSteps : pc \notin Collected
    BY DEF Steps, CleanupSteps, Collected
  <1>b. ASSUME gateway' = gateway, w'.pc \in CleanupSteps, w'.gw = w.gw, w'.snap = w.snap,
               queue' = queue
        PROVE  GoesOn
    BY <1>a, <1>b DEF GoesOn
  <1>1. CASE CleanupGetTunnel
    <2>1. /\ w'.pc \in {"CleanupDeployment", "CleanupDeleteTunnel"} /\ w'.gw = w.gw
          /\ w'.snap = w.snap /\ queue' = queue /\ gateway' = gateway
      BY <1>0, <1>1 DEF CleanupGetTunnel, FailsAndGoesOn, Workers, kube
    <2>2. QED
      BY <1>b, <2>1 DEF CleanupSteps
  <1>2. CASE CleanupDeleteTunnel
    <2>1. /\ w'.pc = "CleanupDeployment" /\ w'.gw = w.gw
          /\ w'.snap = w.snap /\ queue' = queue /\ gateway' = gateway
      BY <1>0, <1>2 DEF CleanupDeleteTunnel, NextStep, Goto, FailsAndGoesOn, Workers, kube
    <2>2. QED
      BY <1>b, <2>1 DEF CleanupSteps
  <1>3. CASE CleanupDeployment
    BY <1>a, <1>3, MovesEnd DEF CleanupDeployment, NextStep, CleanupSteps
  <1>4. CASE CleanupSecret
    BY <1>a, <1>4, MovesEnd DEF CleanupSecret, NextStep, CleanupSteps
  <1>5. CASE TeardownDNS
    BY <1>a, <1>5, MovesEnd DEF TeardownDNS, NextStep, CleanupSteps, kube
  <1>6. CASE RemoveFinalizer
    <2>1. CASE gateway' = gateway /\ (Fails \/ ReturnsError)
      BY <2>1 DEF Fails, ReturnsError, Requeues
    <2>2. CASE gateway' = [gateway EXCEPT ![w.gw] = NoGateway] /\ (Fails \/ Returns)
      <3>1. gateway'[w.gw] = NoGateway
        BY <1>0, <2>2 DEF TypeOK
      <3>2. QED
        BY <2>2, <3>1 DEF Fails, Returns, Requeues, Removes
    <2>3. QED
      BY <1>6, <2>1, <2>2 DEF RemoveFinalizer
  <1>7. QED
    BY <1>1, <1>2, <1>3, <1>4, <1>5, <1>6 DEF CleanupStep

\* Steps that make no uid and no copy of their own keep every uid in its place.
LEMMA IdentitiesStay ==
    ASSUME Managed, UidsPlaced,
           \/ w' = Idle
           \/ /\ w'.gw = w.gw /\ w'.snap.uid = w.snap.uid
              /\ w'.snap.dnsManaged = w.snap.dnsManaged,
           \A g \in Gateways : /\ gateway'[g].uid \in {0, gateway[g].uid}
                               /\ gateway'[g].dnsManaged
                               /\ \/ cachedGateway'[g] = cachedGateway[g]
                                  \/ cachedGateway'[g] = gateway[g]
    PROVE  Managed' /\ UidsPlaced'
  <1>0. Idle.snap.uid = 0 /\ Idle.snap.dnsManaged
    BY DEF Idle, NoGateway
  <1>1. Managed'
    <2>1. w'.snap.dnsManaged
      BY <1>0 DEF Managed
    <2>2. \A g \in Gateways : cachedGateway'[g].dnsManaged
      BY DEF Managed
    <2>3. QED
      BY <2>1, <2>2 DEF Managed
  <1>2. ASSUME NEW g \in Gateways, gateway'[g].uid # 0
        PROVE  /\ \A x \in Gateways :
                     gateway'[g].uid \in {gateway'[x].uid, cachedGateway'[x].uid} => x = g
               /\ w'.snap.uid = gateway'[g].uid => w'.gw = g
    <2>1. gateway[g].uid = gateway'[g].uid /\ gateway[g].uid # 0
      BY <1>2
    <2>2. \A x \in Gateways : gateway[g].uid \in {gateway[x].uid, cachedGateway[x].uid} => x = g
      BY <2>1 DEF UidsPlaced
    <2>3. w.snap.uid = gateway[g].uid => w.gw = g
      BY <2>1 DEF UidsPlaced
    <2>4. ASSUME NEW x \in Gateways,
                 gateway'[g].uid \in {gateway'[x].uid, cachedGateway'[x].uid}
          PROVE  x = g
      BY <1>2, <2>1, <2>2, <2>4
    <2>5. QED
      BY <1>0, <1>2, <2>1, <2>3, <2>4
  <1>3. QED
    BY <1>1, <1>2 DEF UidsPlaced

\* What is served stays served when the worker is on another Gateway.
LEMMA ElsewhereServed ==
    ASSUME IndInv, UidsPlaced, OwnNames, WorkerFrame,
           NEW g \in Gateways, g # w.gw, Live(g), Served(g)
    PROVE  Served(g)'
  <1>0. w.gw \in Gateways /\ NameOf[g] \in Names
    BY GatewaysAssumption DEF IndInv, TypeOK, Workers
  <1>1. gateway'[g] = gateway[g] /\ routes' = routes
    BY DEF WorkerFrame
  <1>2. tunnel'[NameOf[g]] = tunnel[NameOf[g]]
    BY <1>0 DEF OwnNames, WorkerFrame, name
  <1>3. gateway[g].uid # 0 /\ w.snap.uid # gateway[g].uid
    BY DEF UidsPlaced, Live
  <1>4. ASSUME ManageDNS, NEW h \in Hostnames, h \in routes[g]
        PROVE  dns'[h] = [present |-> TRUE, owner |-> gateway[g].uid,
                          target |-> gateway[g].address]
    <2>1. dns[h] = [present |-> TRUE, owner |-> gateway[g].uid, target |-> gateway[g].address]
      BY <1>4 DEF Served
    <2>2. dns[h].present /\ dns[h].owner # w.snap.uid
      BY <1>3, <2>1
    <2>3. dns'[h] = dns[h]
      BY <2>2 DEF WorkerFrame, Touches
    <2>4. QED
      BY <2>1, <2>3
  <1>5. ASSUME ManageDNS, NEW h \in Hostnames, h \notin routes[g]
        PROVE  ~(dns'[h].present /\ dns'[h].owner = gateway[g].uid)
    <2>1. ~(dns[h].present /\ dns[h].owner = gateway[g].uid)
      BY <1>5 DEF Served, OwnedBy
    <2>2. dns'[h] = dns[h] \/ dns'[h].owner \in {0, w.snap.uid}
      BY DEF WorkerFrame, Touches
    <2>3. CASE dns'[h] = dns[h]
      BY <2>1, <2>3
    <2>4. CASE dns'[h].owner \in {0, w.snap.uid}
      BY <1>3, <2>4
    <2>5. QED
      BY <2>2, <2>3, <2>4
  <1>6. /\ gateway[g].finalizer /\ gateway[g].programmed = "True"
        /\ gateway[g].address = tunnel[NameOf[g]].id
        /\ tunnel[NameOf[g]].config = routes[g]
    BY DEF Served
  <1>7. QED
    BY <1>1, <1>2, <1>4, <1>5, <1>6 DEF Served, OwnedBy

\* The Gateway whose status was just written is served, unless an event is pending for it.
LEMMA FinishedServed ==
    ASSUME IndInv, SettleInv, WorkerFrame, Finishes, NEW g \in Gateways, g = w.gw,
           Live(g)', cachedGateway'[g].uid = gateway'[g].uid, g \notin queue'
    PROVE  Served(g)'
  <1>0. TypeOK /\ w \in Workers /\ w.gw \in Gateways
    BY DEF IndInv, TypeOK, Workers
  <1>1. Current(w.gw)
    BY DEF Finishes, WorkerFrame, Current, Live
  <1>2. w.hosts = routes[w.gw] /\ w.hosts \subseteq Hostnames
    BY <1>0, <1>1 DEF SettleInv, PassIsCurrent, Finishes, Collected, Workers
  <1>3. w.snap.finalizer /\ w.snap.dnsManaged /\ gateway'[g].uid = w.snap.uid
    BY DEF Finishes, IndInv, ApplyGuard, ApplySteps, SettleInv, Managed
  <1>4. tunnel'[name].id = w.tunnel /\ tunnel'[name].config = w.hosts
    BY DEF SettleInv, PushedGuard, Finishes
  <1>5. ASSUME ManageDNS, NEW h \in Hostnames
        PROVE  IF h \in w.hosts
               THEN dns'[h] = [present |-> TRUE, owner |-> w.snap.uid, target |-> w.tunnel]
               ELSE ~(dns'[h].present /\ dns'[h].owner = w.snap.uid)
    BY <1>3, <1>5 DEF SettleInv, RecordsGuard, Finishes, OwnedBy
  <1>6. /\ gateway'[g].finalizer /\ gateway'[g].programmed = "True"
        /\ gateway'[g].address = w.tunnel /\ routes' = routes
    BY <1>3 DEF Finishes, WorkerFrame
  <1>7. \A h \in Hostnames : ManageDNS =>
          IF h \in routes'[g]
          THEN dns'[h] = [present |-> TRUE, owner |-> gateway'[g].uid,
                          target |-> gateway'[g].address]
          ELSE ~(dns'[h].present /\ dns'[h].owner = gateway'[g].uid)
    BY <1>2, <1>3, <1>5, <1>6
  <1>8. /\ gateway'[g].address = tunnel'[NameOf[g]].id
        /\ tunnel'[NameOf[g]].config = routes'[g]
    BY <1>2, <1>4, <1>6 DEF name
  <1>9. QED
    BY <1>6, <1>7, <1>8 DEF Served, OwnedBy

\* apply and cleanup are steps of a pass.
LEMMA WorkersAreBusy == WorkerStep => w.pc # "idle"
  <1>1. ReconcileDNS => w.pc = "ReconcileDNS"
    BY DEF ReconcileDNS
  <1>2. TeardownDNS => w.pc = "TeardownDNS"
    BY DEF TeardownDNS
  <1>3. ApplyStep /\ ~ReconcileDNS => w.pc # "idle"
    BY DEF ApplyStep, AddFinalizer, EnsureTunnelSecret, GetTunnel, DeleteTunnel, CreateTunnel,
       StoreToken, ApplyDeployment, CollectRoutes, PushConfig, PatchStatus
  <1>4. CleanupStep /\ ~TeardownDNS => w.pc # "idle"
    BY DEF CleanupStep, CleanupGetTunnel, CleanupDeleteTunnel, CleanupDeployment, CleanupSecret,
       RemoveFinalizer
  <1>5. QED
    BY <1>1, <1>2, <1>3, <1>4 DEF WorkerStep

\* A step of apply or cleanup loses no wake-up.
LEMMA WorkerSettles ==
    ASSUME IndInv, SettleInv, OwnNames, WorkerStep
    PROVE  Managed' /\ UidsPlaced' /\ PassIsCurrent' /\ SettledIsServed'
  <1>0. TypeOK /\ w \in Workers /\ w.gw \in Gateways /\ w.pc # "idle"
    <2>1. TypeOK /\ w \in Workers /\ w.gw \in Gateways
      BY DEF IndInv, TypeOK, Workers
    <2>2. QED
      BY <2>1, WorkersAreBusy
  <1>1. WorkerFrame
    BY <1>0, WorkersKeepTheirOwn
  <1>2. GoesOn \/ Requeues \/ Finishes \/ Removes
    BY <1>0, ApplyEnds, CleanupEnds DEF WorkerStep
  <1>3. /\ gateway'[w.gw].uid \in {0, gateway[w.gw].uid} /\ gateway'[w.gw].dnsManaged
        /\ \/ w' = Idle
           \/ /\ w'.gw = w.gw /\ w'.snap.uid = w.snap.uid
              /\ w'.snap.dnsManaged = w.snap.dnsManaged
        /\ queue \subseteq queue'
    <2>1. NoGateway.uid = 0 /\ NoGateway.dnsManaged
      BY DEF NoGateway
    <2>2. gateway[w.gw].dnsManaged
      BY <1>0 DEF SettleInv, Managed
    <2>3. CASE GoesOn
      BY <2>2, <2>3 DEF GoesOn
    <2>4. CASE Requeues
      BY <2>1, <2>2, <2>4 DEF Requeues
    <2>5. CASE Finishes
      BY <2>2, <2>5 DEF Finishes
    <2>6. CASE Removes
      BY <2>1, <2>6 DEF Removes
    <2>7. QED
      BY <1>2, <2>3, <2>4, <2>5, <2>6
  <1>4. Managed' /\ UidsPlaced'
    <2>1. \A g \in Gateways : /\ gateway'[g].uid \in {0, gateway[g].uid}
                              /\ gateway'[g].dnsManaged
                              /\ cachedGateway'[g] = cachedGateway[g]
      BY <1>1, <1>3 DEF WorkerFrame, SettleInv, Managed
    <2>2. QED
      BY <1>3, <2>1, IdentitiesStay DEF SettleInv
  <1>5. PassIsCurrent'
    <2>1. CASE w' = Idle
      BY <2>1, AbsentTypes DEF PassIsCurrent
    <2>2. CASE GoesOn
      <3> SUFFICES ASSUME Current(w.gw)'
                   PROVE  /\ w'.snap.uid = gateway'[w.gw].uid
                          /\ w'.pc \in Collected => w'.hosts = routes'[w.gw]
        BY <2>2 DEF PassIsCurrent, GoesOn, Current, Live
      <3>1. Current(w.gw)
        BY <1>1, <2>2 DEF WorkerFrame, GoesOn, Current, Live
      <3>2. /\ w.snap.uid = gateway[w.gw].uid
            /\ w.pc \in Collected => w.hosts = routes[w.gw]
        BY <1>0, <3>1 DEF SettleInv, PassIsCurrent
      <3>3. QED
        BY <1>1, <2>2, <3>2 DEF WorkerFrame, GoesOn
    <2>3. QED
      BY <1>2, <2>1, <2>2 DEF Requeues, Finishes, Removes
  <1>6. ASSUME NEW g \in Gateways, Live(g)', cachedGateway'[g].uid = gateway'[g].uid,
               g \notin queue', w'.pc = "idle" \/ w'.gw # g
        PROVE  Served(g)'
    <2>1. CASE g # w.gw
      <3>1. gateway'[g] = gateway[g] /\ cachedGateway' = cachedGateway /\ class' = class
        BY <1>1, <2>1 DEF WorkerFrame
      <3>2. Live(g) /\ cachedGateway[g].uid = gateway[g].uid /\ g \notin queue
        BY <1>3, <1>6, <3>1 DEF Live
      <3>3. Served(g)
        BY <2>1, <3>2 DEF SettleInv, SettledIsServed
      <3>4. QED
        BY <1>1, <2>1, <3>2, <3>3, ElsewhereServed DEF SettleInv
    <2>2. CASE g = w.gw
      <3>1. ~GoesOn
        BY <1>6, <2>2 DEF GoesOn
      <3>2. ~Requeues
        BY <1>6, <2>2 DEF Requeues
      <3>3. ~Removes
        BY <1>6, <2>2 DEF Removes, Live, NoGateway
      <3>4. Finishes
        BY <1>2, <3>1, <3>2, <3>3
      <3>5. QED
        BY <1>1, <1>6, <2>2, <3>4, FinishedServed
    <2>3. QED
      BY <2>1, <2>2
  <1>7. SettledIsServed'
    BY <1>6 DEF SettledIsServed
  <1>8. QED
    BY <1>4, <1>5, <1>7

\* Taking a Gateway off the queue starts a pass on what the cache shows, or finds that
\* there is nothing to serve.
LEMMA FetchSettles ==
    ASSUME IndInv, SettleInv, NEW g \in Gateways, Fetch(g)
    PROVE  Managed' /\ UidsPlaced' /\ PassIsCurrent' /\ SettledIsServed'
  <1>0. TypeOK /\ Idle.pc = "idle" /\ Idle.snap.uid = 0 /\ Idle.snap.dnsManaged
    BY AbsentTypes DEF IndInv, Idle, NoGateway
  <1>1. /\ gateway' = gateway /\ cachedGateway' = cachedGateway /\ class' = class
        /\ routes' = routes /\ tunnel' = tunnel /\ dns' = dns
        /\ w.pc = "idle" /\ queue' = queue \ {g}
    BY DEF Fetch, kube, cache, env, cloud
  <1>2. \/ FirstStep(g) = "idle" /\ w' = Idle
        \/ /\ FirstStep(g) \notin Collected /\ FirstStep(g) # "idle"
           /\ w'.pc = FirstStep(g) /\ w'.gw = g /\ w'.snap = cachedGateway[g]
    <2>1. CASE FirstStep(g) = "idle"
      BY <2>1 DEF Fetch
    <2>2. CASE FirstStep(g) # "idle"
      <3>1. w'.pc = FirstStep(g) /\ w'.gw = g /\ w'.snap = cachedGateway[g]
        BY <2>2, AbsentTypes DEF Fetch, Workers
      <3>2. FirstStep(g) \notin Collected
        BY DEF FirstStep, Collected
      <3>3. QED
        BY <2>2, <3>1, <3>2
    <2>3. QED
      BY <2>1, <2>2
  <1>3. Managed'
    BY <1>0, <1>1, <1>2 DEF SettleInv, Managed
  <1>4. UidsPlaced'
    BY <1>0, <1>1, <1>2 DEF SettleInv, UidsPlaced
  <1>5. PassIsCurrent'
    <2>1. CASE w' = Idle
      BY <1>0, <2>1 DEF PassIsCurrent
    <2>2. CASE w'.pc \notin Collected /\ w'.gw = g /\ w'.snap = cachedGateway[g]
      BY <1>1, <2>2 DEF PassIsCurrent, Current
    <2>3. QED
      BY <1>2, <2>1, <2>2
  <1>6. ASSUME NEW x \in Gateways, Live(x)', cachedGateway'[x].uid = gateway'[x].uid,
               x \notin queue', w'.pc = "idle" \/ w'.gw # x
        PROVE  Served(x)'
    <2>1. Live(x) /\ cachedGateway[x].uid = gateway[x].uid
      BY <1>1, <1>6 DEF Live
    <2>2. x # g
      <3> SUFFICES ASSUME x = g PROVE FALSE
        OBVIOUS
      <3>1. FirstStep(g) = "idle"
        BY <1>2, <1>6
      <3>2. cachedGateway[g].uid # 0 /\ class[g]
        BY <2>1 DEF Live
      <3>3. cachedGateway[g].deleting
        BY <3>1, <3>2 DEF FirstStep
      <3>4. gateway[g].deleting
        BY <2>1, <3>2, <3>3 DEF IndInv, CacheGuard
      <3>5. QED
        BY <2>1, <3>4 DEF Live
    <2>3. Served(x)
      BY <1>1, <1>6, <2>1, <2>2 DEF SettleInv, SettledIsServed
    <2>4. QED
      BY <1>1, <2>3 DEF Served, OwnedBy
  <1>7. SettledIsServed'
    BY <1>6 DEF SettledIsServed
  <1>8. QED
    BY <1>3, <1>4, <1>5, <1>7

\* What goes on outside the worker either leaves a Gateway as it was, or raises an event
\* for it or takes it out of the controller's care.
LEMMA OutsideSettles ==
    ASSUME SettleInv, WorkerKept,
           \A g \in Gateways :
               /\ gateway'[g].uid # 0 /\ ~gateway'[g].deleting /\ class'[g]
               /\ cachedGateway'[g].uid = gateway'[g].uid /\ g \notin queue'
               => /\ Current(g)
                  /\ gateway'[g] = gateway[g] /\ routes'[g] = routes[g],
           w.gw \in Gateways
    PROVE  PassIsCurrent' /\ SettledIsServed'
  <1>1. PassIsCurrent'
    <2> SUFFICES ASSUME w.pc # "idle",
                        gateway'[w.gw].uid # 0, ~gateway'[w.gw].deleting, class'[w.gw],
                        cachedGateway'[w.gw].uid = gateway'[w.gw].uid, w.gw \notin queue'
                 PROVE  /\ w.snap.uid = gateway'[w.gw].uid
                        /\ w.pc \in Collected => w.hosts = routes'[w.gw]
      BY DEF WorkerKept, PassIsCurrent, Current, Live
    <2>1. Current(w.gw) /\ gateway'[w.gw] = gateway[w.gw] /\ routes'[w.gw] = routes[w.gw]
      OBVIOUS
    <2>2. QED
      BY <2>1 DEF SettleInv, PassIsCurrent
  <1>2. ASSUME NEW g \in Gateways, gateway'[g].uid # 0, ~gateway'[g].deleting, class'[g],
               cachedGateway'[g].uid = gateway'[g].uid, g \notin queue',
               w.pc = "idle" \/ w.gw # g
        PROVE  Served(g)'
    <2>1. Current(g) /\ gateway'[g] = gateway[g] /\ routes'[g] = routes[g]
      BY <1>2
    <2>2. Served(g)
      BY <1>2, <2>1 DEF SettleInv, SettledIsServed, Current
    <2>3. tunnel' = tunnel /\ dns' = dns
      BY DEF WorkerKept
    <2>4. QED
      BY <2>1, <2>2, <2>3 DEF Served, OwnedBy
  <1>3. SettledIsServed'
    BY <1>2 DEF SettledIsServed, Live, WorkerKept
  <1>4. QED
    BY <1>1, <1>3

\* The Gateway records in which only the deletion timestamp, or nothing, has changed.
LEMMA DeletedGateway ==
    ASSUME TypeOK, NEW g \in Gateways, DeleteGateway(g)
    PROVE  /\ gateway'[g].deleting \/ gateway'[g].uid = 0
           /\ gateway'[g].uid \in {0, gateway[g].uid}
           /\ gateway[g].dnsManaged => gateway'[g].dnsManaged
           /\ \A x \in Gateways \ {g} : gateway'[x] = gateway[x]
  <1>1. CASE gateway[g].finalizer
    <2>1. gateway'[g] = [gateway[g] EXCEPT !.deleting = TRUE]
      BY <1>1 DEF TypeOK, DeleteGateway
    <2>2. gateway[g] \in GatewayObjects
      BY DEF TypeOK
    <2>3. /\ [gateway[g] EXCEPT !.deleting = TRUE].deleting
          /\ [gateway[g] EXCEPT !.deleting = TRUE].uid = gateway[g].uid
          /\ [gateway[g] EXCEPT !.deleting = TRUE].dnsManaged = gateway[g].dnsManaged
      BY <2>2 DEF GatewayObjects
    <2>4. \A x \in Gateways \ {g} : gateway'[x] = gateway[x]
      BY DEF TypeOK, DeleteGateway
    <2>5. QED
      BY <2>1, <2>3, <2>4
  <1>2. CASE ~gateway[g].finalizer
    BY <1>2 DEF TypeOK, DeleteGateway, NoGateway
  <1>3. QED
    BY <1>1, <1>2

\* A uid that no copy has seen is nobody else's.
LEMMA CreatedIdentity ==
    ASSUME IndInv, Managed, UidsPlaced, NEW g \in Gateways, CreateGateway(g)
    PROVE  /\ Managed' /\ UidsPlaced'
           /\ gateway'[g].uid # 0 /\ cachedGateway'[g].uid # gateway'[g].uid
           /\ \A x \in Gateways \ {g} : gateway'[x] = gateway[x]
  <1>1. /\ w' = w /\ cachedGateway' = cachedGateway
        /\ gateway'[g].uid = fresh.uid /\ gateway'[g].dnsManaged
        /\ \A x \in Gateways \ {g} : gateway'[x] = gateway[x]
    BY DEF IndInv, TypeOK, CreateGateway, NoGateway, cache
  <1>2. /\ \A x \in Gateways : gateway[x].uid # fresh.uid /\ cachedGateway[x].uid # fresh.uid
        /\ w.snap.uid # fresh.uid /\ fresh.uid # 0
    <2>1. /\ fresh.uid \in Nat \ {0} /\ w.snap.uid \in Nat
          /\ \A x \in Gateways : gateway[x].uid \in Nat /\ cachedGateway[x].uid \in Nat
      <3>1. fresh.uid \in Nat \ {0}
        BY UpdateTypes DEF IndInv, TypeOK
      <3>2. w.snap.uid \in Nat
        BY DEF IndInv, TypeOK, GatewayObjects, Workers
      <3>3. \A x \in Gateways : gateway[x].uid \in Nat /\ cachedGateway[x].uid \in Nat
        BY DEF IndInv, TypeOK, GatewayObjects
      <3>4. QED
        BY <3>1, <3>2, <3>3
    <2>2. QED
      BY <2>1 DEF IndInv, FreshUids
  <1>3. Managed'
    BY <1>1 DEF Managed
  <1>4. ASSUME NEW y \in Gateways, gateway'[y].uid # 0
        PROVE  /\ \A x \in Gateways :
                     gateway'[y].uid \in {gateway'[x].uid, cachedGateway'[x].uid} => x = y
               /\ w'.snap.uid = gateway'[y].uid => w'.gw = y
    <2>1. CASE y = g
      BY <1>1, <1>2, <2>1
    <2>2. CASE y # g
      <3>1. gateway'[y] = gateway[y]
        BY <1>1, <2>2
      <3>2. QED
        BY <1>1, <1>2, <1>4, <2>2, <3>1 DEF UidsPlaced
    <2>3. QED
      BY <2>1, <2>2
  <1>5. UidsPlaced'
    BY <1>4 DEF UidsPlaced
  <1>6. QED
    BY <1>1, <1>2, <1>3, <1>5

\* Nothing that users, Kubernetes or a crash do loses a wake-up.
LEMMA OtherSettles ==
    ASSUME NoAnnotationEdits, NoTunnelTampering, IndInv, SettleInv,
           UserStep \/ (\E g \in Gateways : KubeStep(g)) \/ Crash
    PROVE  Managed' /\ UidsPlaced' /\ PassIsCurrent' /\ SettledIsServed'
  <1> DEFINE Settles == Managed' /\ UidsPlaced' /\ PassIsCurrent' /\ SettledIsServed'
             Same(g) == gateway'[g] = gateway[g] /\ routes'[g] = routes[g]
  <1>0. TypeOK /\ w \in Workers /\ w.gw \in Gateways
    BY DEF IndInv, TypeOK, Workers
  <1>a. /\ Managed /\ UidsPlaced
        /\ \A g \in Gateways : gateway[g].dnsManaged
    BY DEF SettleInv, Managed
  <1>1. ASSUME NEW g \in Gateways, CreateGateway(g)
        PROVE  Settles
    <2>1. /\ WorkerKept /\ cachedGateway' = cachedGateway /\ class' = class /\ routes' = routes
          /\ queue' = queue
      BY <1>1 DEF CreateGateway, WorkerKept, cache, env, cloud
    <2>2. /\ Managed' /\ UidsPlaced'
          /\ gateway'[g].uid # 0 /\ cachedGateway'[g].uid # gateway'[g].uid
          /\ \A x \in Gateways \ {g} : gateway'[x] = gateway[x]
      BY <1>1, <1>a, CreatedIdentity
    <2>3. QED
      BY <1>0, <2>1, <2>2, OutsideSettles DEF Current, Live
  <1>2. ASSUME NEW g \in Gateways, DeleteGateway(g)
        PROVE  Settles
    <2>1. /\ WorkerKept /\ cachedGateway' = cachedGateway /\ class' = class /\ routes' = routes
          /\ queue' = queue
      BY <1>2 DEF DeleteGateway, WorkerKept, cache, env, cloud
    <2>2. /\ gateway'[g].deleting \/ gateway'[g].uid = 0
          /\ gateway'[g].uid \in {0, gateway[g].uid} /\ gateway'[g].dnsManaged
          /\ \A x \in Gateways \ {g} : gateway'[x] = gateway[x]
      BY <1>0, <1>2, <1>a, DeletedGateway
    <2>3. Managed' /\ UidsPlaced'
      <3>1. \A x \in Gateways : /\ gateway'[x].uid \in {0, gateway[x].uid}
                                /\ gateway'[x].dnsManaged
                                /\ cachedGateway'[x] = cachedGateway[x]
        BY <1>a, <2>1, <2>2
      <3>2. QED
        BY <1>a, <2>1, <3>1, IdentitiesStay DEF WorkerKept
    <2>4. QED
      BY <1>0, <2>1, <2>2, <2>3, OutsideSettles DEF Current, Live
  <1>3. ASSUME NEW g \in Gateways
        PROVE  ~EditGateway(g)
    BY <1>0 DEF NoAnnotationEdits, EditGateway, TypeOK, Budgets
  <1>4. ASSUME NEW g \in Gateways, ChangeClass(g)
        PROVE  Settles
    <2>1. /\ WorkerKept /\ cachedGateway' = cachedGateway /\ gateway' = gateway
          /\ routes' = routes /\ queue \subseteq queue'
          /\ cachedGateway[g].uid # 0 => g \in queue'
          /\ \A x \in Gateways \ {g} : class'[x] = class[x]
      BY <1>0, <1>4 DEF ChangeClass, WorkerKept, TypeOK, kube, cache, cloud
    <2>2. Managed' /\ UidsPlaced'
      BY <1>a, <2>1 DEF Managed, UidsPlaced, WorkerKept
    <2>3. QED
      BY <1>0, <2>1, <2>2, OutsideSettles DEF Current, Live
  <1>5. ASSUME NEW g \in Gateways, NEW hosts \in SUBSET Hostnames, ChangeRoutes(g, hosts)
        PROVE  Settles
    <2>1. /\ WorkerKept /\ cachedGateway' = cachedGateway /\ gateway' = gateway
          /\ class' = class /\ queue \subseteq queue' /\ g \in queue'
          /\ \A x \in Gateways \ {g} : routes'[x] = routes[x]
      BY <1>0, <1>5 DEF ChangeRoutes, RouteRequests, WorkerKept, TypeOK, kube, cache, cloud
    <2>2. Managed' /\ UidsPlaced'
      BY <1>a, <2>1 DEF Managed, UidsPlaced, WorkerKept
    <2>3. QED
      BY <1>0, <2>1, <2>2, OutsideSettles DEF Current, Live
  <1>6. ~ \E n \in Names : TamperTunnel(n)
    BY DEF NoTunnelTampering, TamperTunnel, Tampers
  <1>7. ASSUME NEW h \in Hostnames, TamperDNS(h)
        PROVE  Settles
    <2>1. /\ w' = w /\ tunnel' = tunnel /\ gateway' = gateway /\ cachedGateway' = cachedGateway
          /\ class' = class /\ routes' = routes /\ queue' = queue
      BY <1>7 DEF TamperDNS, kube, cache, env
    <2>2. \A x \in Hostnames : \/ dns'[x] = dns[x]
                               \/ ~dns[x].present /\ dns'[x].owner = 0
      BY <1>0, <1>7 DEF TamperDNS, TypeOK, ForeignRecord
    <2>3. Managed' /\ UidsPlaced' /\ PassIsCurrent'
      BY <1>a, <2>1 DEF SettleInv, Managed, UidsPlaced, PassIsCurrent, Current, Live
    <2>4. ASSUME NEW x \in Gateways, Live(x), Served(x)
          PROVE  Served(x)'
      <3>1. ASSUME ManageDNS, NEW k \in Hostnames
            PROVE  IF k \in routes[x]
                   THEN dns'[k] = [present |-> TRUE, owner |-> gateway[x].uid,
                                   target |-> gateway[x].address]
                   ELSE ~(dns'[k].present /\ dns'[k].owner = gateway[x].uid)
        <4>1. IF k \in routes[x]
              THEN dns[k] = [present |-> TRUE, owner |-> gateway[x].uid,
                             target |-> gateway[x].address]
              ELSE ~(dns[k].present /\ dns[k].owner = gateway[x].uid)
          BY <2>4, <3>1 DEF Served, OwnedBy
        <4>2. CASE dns'[k] = dns[k]
          BY <4>1, <4>2
        <4>3. CASE ~dns[k].present /\ dns'[k].owner = 0
          <5>1. k \notin routes[x]
            BY <4>1, <4>3
          <5>2. gateway[x].uid # 0
            BY <2>4 DEF Live
          <5>3. QED
            BY <4>3, <5>1, <5>2
        <4>4. QED
          BY <2>2, <4>2, <4>3
      <3>2. QED
        BY <2>1, <2>4, <3>1 DEF Served, OwnedBy
    <2>5. SettledIsServed'
      BY <2>1, <2>4 DEF SettleInv, SettledIsServed, Live
    <2>6. QED
      BY <2>3, <2>5
  <1>8. ASSUME NEW g \in Gateways, SyncGateway(g)
        PROVE  Settles
    <2>1. /\ WorkerKept /\ gateway' = gateway /\ class' = class /\ routes' = routes
          /\ cachedGateway'[g] = gateway[g]
          /\ \A x \in Gateways \ {g} : cachedGateway'[x] = cachedGateway[x]
          /\ queue \subseteq queue'
          /\ cachedGateway[g].uid # gateway[g].uid => g \in queue'
      BY <1>0, <1>8 DEF SyncGateway, WorkerKept, TypeOK, kube, env, cloud
    <2>2. Managed' /\ UidsPlaced'
      <3>1. \A x \in Gateways : /\ gateway'[x].uid \in {0, gateway[x].uid}
                                /\ gateway'[x].dnsManaged
                                /\ \/ cachedGateway'[x] = cachedGateway[x]
                                   \/ cachedGateway'[x] = gateway[x]
        BY <1>a, <2>1
      <3>2. QED
        BY <1>a, <2>1, <3>1, IdentitiesStay DEF WorkerKept
    <2>3. QED
      BY <1>0, <2>1, <2>2, OutsideSettles DEF Current, Live
  <1>9. ASSUME NEW g \in Gateways,
               \/ TamperSecret(g) \/ SyncSecret(g) \/ SyncDeployment(g)
               \/ CollectSecret(g) \/ CollectDeployment(g)
        PROVE  Settles
    <2>1. /\ WorkerKept /\ gateway' = gateway /\ cachedGateway' = cachedGateway
          /\ class' = class /\ routes' = routes /\ queue' = queue
      BY <1>9 DEF TamperSecret, SyncSecret, SyncDeployment, CollectSecret, CollectDeployment,
         WorkerKept, kube, cache, env, cloud
    <2>2. Managed' /\ UidsPlaced'
      BY <1>a, <2>1 DEF Managed, UidsPlaced, WorkerKept
    <2>3. QED
      BY <1>0, <2>1, <2>2, OutsideSettles DEF Current, Live
  <1>10. CASE Crash
    <2>1. /\ w' = Idle /\ gateway' = gateway /\ cachedGateway' = gateway
          /\ queue' = {g \in Gateways : gateway[g].uid # 0}
      BY <1>10 DEF Crash, kube
    <2>2. Managed' /\ UidsPlaced'
      <3>1. \A x \in Gateways : /\ gateway'[x].uid \in {0, gateway[x].uid}
                                /\ gateway'[x].dnsManaged
                                /\ cachedGateway'[x] = gateway[x]
        BY <1>a, <2>1
      <3>2. QED
        BY <1>a, <2>1, <3>1, IdentitiesStay
    <2>3. PassIsCurrent' /\ SettledIsServed'
      BY <2>1, AbsentTypes DEF PassIsCurrent, SettledIsServed, Live
    <2>4. QED
      BY <2>2, <2>3
  <1>11. Settles
    BY <1>1, <1>2, <1>3, <1>4, <1>5, <1>6, <1>7, <1>8, <1>9, <1>10 DEF UserStep, KubeStep
  <1>12. QED
    BY <1>11

\* Nobody has asked for anything yet.
LEMMA SettleInit == Init => SettleInv
  <1> SUFFICES ASSUME Init PROVE SettleInv
    OBVIOUS
  <1>1. w.pc = "idle" /\ w.snap = NoGateway
    BY DEF Init, Idle
  <1>2. \A g \in Gateways : gateway[g] = NoGateway /\ cachedGateway[g] = NoGateway
    BY DEF Init
  <1>3. NoGateway.uid = 0 /\ NoGateway.dnsManaged
    BY DEF NoGateway
  <1>4. QED
    BY <1>1, <1>2, <1>3 DEF SettleInv, ConfigGuard, RecordsGuard, PushedGuard, Managed,
       UidsPlaced, PassIsCurrent, SettledIsServed, Live

\* No lost wake-up (controller.go, reconciler.go): whatever changed, failed or crashed
\* while a Gateway was reconciled, once nothing is queued for it and the worker is not on
\* it, its tunnel serves exactly the attached routes and the records follow it.
THEOREM NoLostWakeUp ==
    ASSUME NoAnnotationEdits, NoTunnelTampering, OwnNames
    PROVE  Spec => []SettledIsServed
  <1>1. IndInv /\ SettleInv /\ [Next]_vars => SettleInv'
    <2> SUFFICES ASSUME IndInv, SettleInv, [Next]_vars PROVE SettleInv'
      OBVIOUS
    <2>1. ConfigGuard' /\ RecordsGuard' /\ PushedGuard'
      BY PassGuards, PushedGuards DEF SettleInv
    <2>2. CASE UNCHANGED vars
      BY <2>1, <2>2 DEF vars, kube, cache, env, cloud, SettleInv, Managed, UidsPlaced,
         PassIsCurrent, SettledIsServed, Current, Live, Served, OwnedBy
    <2>3. CASE Next
      <3>1. Managed' /\ UidsPlaced' /\ PassIsCurrent' /\ SettledIsServed'
        BY <2>3, WorkerSettles, FetchSettles, OtherSettles DEF Next
      <3>2. QED
        BY <2>1, <3>1 DEF SettleInv
    <2>4. QED
      BY <2>2, <2>3
  <1>2. SettleInv => SettledIsServed
    BY DEF SettleInv
  <1>3. QED
    BY SettleInit, <1>1, <1>2, Invariance, PTL DEF Spec

-----------------------------------------------------------------------------
(* Tokens and tunnels carry the same key.  A Gateway has one key as long as *)
(* its Secret is left alone: the cache shows that key or no Secret at all,  *)
(* and a Secret is only missing where there is nothing else of the Gateway, *)
(* or where cleanup has begun and apply will not run again.                 *)

\* Nobody edits or deletes the Secrets.
NoSecretTampering == TamperKinds \cap {"CorruptSecret", "ClearSecret", "DeleteSecret"} = {}

\* A Gateway is created again only when the Secret of its predecessor is gone, from the
\* API server and from the cache.
CleanRecreation ==
    \A g \in Gateways : gateway[g].uid = 0 /\ gateway'[g].uid # 0 =>
        secret[g] = NoSecret /\ cachedSecret[g] = NoSecret

\* A Secret has a valid key, and its token is made with that key.
ValidSecret(s) ==
    /\ s.owner = 0 => s = NoSecret
    /\ s.owner # 0 => s.key > BadKey /\ (s.token.tunnel # 0 => s.token.key = s.key)
ValidSecrets ==
    /\ \A g \in Gateways : ValidSecret(secret[g]) /\ ValidSecret(cachedSecret[g])
    /\ fresh.key > BadKey

\* The cached Secret and the tunnel have the key of the Secret.
OneKey ==
    \A g \in Gateways : secret[g].owner # 0 =>
        /\ cachedSecret[g].owner # 0 => cachedSecret[g].key = secret[g].key
        /\ tunnel[NameOf[g]].id # 0 => tunnel[NameOf[g]].key = secret[g].key

\* The Secret of a Gateway that exists is its own.
SecretOwners ==
    \A g \in Gateways : gateway[g].uid # 0 /\ secret[g].owner # 0 =>
        secret[g].owner = gateway[g].uid

\* Without a Secret there is no tunnel, or the cache shows the Gateway being deleted; and
\* a Gateway the cache does not know yet has neither.
Nothing(g) == secret[g].owner = 0 /\ cachedSecret[g].owner = 0 /\ tunnel[NameOf[g]].id = 0
Doomed(g) == cachedGateway[g].uid = gateway[g].uid /\ cachedGateway[g].deleting
SecretsStay ==
    \A g \in Gateways : gateway[g].uid # 0 =>
        /\ secret[g].owner = 0 => Nothing(g) \/ Doomed(g)
        /\ cachedGateway[g].uid # gateway[g].uid => Nothing(g)

\* Tunnel ids are never reused, and a token is for the tunnel of its Gateway.
TunnelIds ==
    /\ \A n \in Names : tunnel[n].id < fresh.tunnel
    /\ \A g \in Gateways : secret[g].token.tunnel < fresh.tunnel
    /\ \A n1, n2 \in Names : tunnel[n1].id = tunnel[n2].id /\ tunnel[n1].id # 0 => n1 = n2
    /\ \A n \in Names, g \in Gateways :
          tunnel[n].id # 0 /\ secret[g].token.tunnel = tunnel[n].id => n = NameOf[g]

KeyInv == ValidSecrets /\ OneKey /\ SecretOwners /\ SecretsStay /\ TunnelIds

\* What a pass knows: the incarnation it works on is the cached one, apply has the key of
\* the Secret and the id of no other tunnel, and a cleanup that is late for its own
\* incarnation finds nothing of the next one.
KeySteps == ApplySteps \ {"EnsureTunnelSecret"}
SnapIsCached ==
    w.pc # "idle" /\ gateway[w.gw].uid = w.snap.uid => cachedGateway[w.gw].uid = w.snap.uid
ApplyKeys ==
    /\ w.pc = "AddFinalizer" => ~w.snap.deleting
    /\ w.pc = "EnsureTunnelSecret" => secret[w.gw].owner # 0 \/ Nothing(w.gw)
    /\ w.pc \in KeySteps => secret[w.gw].owner # 0 /\ secret[w.gw].key = w.key
CleanupKeys ==
    w.pc \in CleanupSteps /\ gateway[w.gw].uid \notin {0, w.snap.uid} => Nothing(w.gw)
PassTunnel ==
    /\ w.tunnel < fresh.tunnel
    /\ \A n \in Names : tunnel[n].id # 0 /\ w.tunnel = tunnel[n].id => n = name

PassKeys == SnapIsCached /\ ApplyKeys /\ CleanupKeys /\ PassTunnel

\* What is needed of the types.
LEMMA KeyTypes ==
    ASSUME TypeOK
    PROVE  /\ w \in Workers /\ w.gw \in Gateways /\ name \in Names /\ w.tunnel \in Nat
           /\ w.snap \in GatewayObjects /\ w.key \in Nat /\ w.snap.uid \in Nat
           /\ fresh.tunnel \in Nat \ {0} /\ fresh.key \in Nat
           /\ \A g \in Gateways : NameOf[g] \in Names
           /\ \A n \in Names : tunnel[n].id \in Nat /\ tunnel[n].key \in Nat
           /\ \A g \in Gateways : secret[g].token.tunnel \in Nat /\ secret[g].key \in Nat
  <1>1. /\ w \in Workers /\ w.gw \in Gateways /\ name \in Names /\ w.tunnel \in Nat
        /\ w.snap \in GatewayObjects /\ w.key \in Nat
    BY GatewaysAssumption DEF TypeOK, Workers, name
  <1>2. fresh.tunnel \in Nat \ {0} /\ fresh.key \in Nat
    BY UpdateTypes DEF TypeOK
  <1>3. \A g \in Gateways : NameOf[g] \in Names
    BY GatewaysAssumption
  <1>4. \A n \in Names : tunnel[n].id \in Nat /\ tunnel[n].key \in Nat
    BY DEF TypeOK, TunnelObjects
  <1>5. \A g \in Gateways : secret[g].token.tunnel \in Nat /\ secret[g].key \in Nat
    BY DEF TypeOK, SecretObjects
  <1>6. w.snap.uid \in Nat
    BY <1>1 DEF GatewayObjects
  <1>7. QED
    BY <1>1, <1>2, <1>3, <1>4, <1>5, <1>6

\* The Secrets as they are; caches may catch up, Gateways and tunnels go.
KeyFrame ==
    /\ secret' = secret /\ fresh'.key = fresh.key /\ fresh'.tunnel = fresh.tunnel
    /\ \A g \in Gateways :
          /\ cachedSecret'[g] = cachedSecret[g] \/ cachedSecret'[g] = secret[g]
          /\ gateway'[g].uid \in {0, gateway[g].uid}
          /\ cachedGateway'[g] = cachedGateway[g] \/ cachedGateway'[g] = gateway[g]
    /\ \A n \in Names :
          \/ tunnel'[n].id = 0
          \/ tunnel'[n].id = tunnel[n].id /\ tunnel'[n].key = tunnel[n].key

\* A Gateway seen to be deleted stays doomed.
LEMMA DoomedStays ==
    ASSUME IndInv, NEW g \in Gateways, Doomed(g), gateway[g].uid # 0,
           gateway'[g].uid = gateway[g].uid,
           cachedGateway'[g] = cachedGateway[g] \/ cachedGateway'[g] = gateway[g]
    PROVE  Doomed(g)'
  BY DEF Doomed, IndInv, CacheGuard

\* None of this brings keys out of step.
LEMMA KeysStay ==
    ASSUME IndInv, KeyInv, KeyFrame
    PROVE  KeyInv' /\ \A g \in Gateways : Nothing(g) => Nothing(g)'
  <1>0. TypeOK /\ \A g \in Gateways : NameOf[g] \in Names
    BY KeyTypes DEF IndInv
  <1>1. ValidSecrets'
    BY DEF KeyInv, KeyFrame, ValidSecrets, ValidSecret
  <1>2. OneKey'
    BY <1>0 DEF KeyInv, KeyFrame, OneKey
  <1>3. SecretOwners'
    BY DEF KeyInv, KeyFrame, SecretOwners
  <1>4. ASSUME NEW g \in Gateways, Nothing(g)
        PROVE  Nothing(g)'
    BY <1>0, <1>4 DEF KeyFrame, Nothing
  <1>5. ASSUME NEW g \in Gateways, gateway'[g].uid # 0
        PROVE  /\ secret'[g].owner = 0 => Nothing(g)' \/ Doomed(g)'
               /\ cachedGateway'[g].uid # gateway'[g].uid => Nothing(g)'
    <2>1. gateway'[g].uid = gateway[g].uid /\ gateway[g].uid # 0 /\ secret' = secret
      BY <1>5 DEF KeyFrame
    <2>2. cachedGateway'[g] = cachedGateway[g] \/ cachedGateway'[g] = gateway[g]
      BY DEF KeyFrame
    <2>3. Doomed(g) => Doomed(g)'
      BY <2>1, <2>2, DoomedStays
    <2>4. QED
      BY <1>4, <2>1, <2>2, <2>3 DEF KeyInv, SecretsStay
  <1>6. SecretsStay'
    BY <1>5 DEF SecretsStay
  <1>7. TunnelIds'
    <2>1. /\ \A n \in Names : tunnel'[n].id \in {0, tunnel[n].id}
          /\ secret' = secret /\ fresh'.tunnel = fresh.tunnel
      BY DEF KeyFrame
    <2>2. fresh.tunnel \in Nat \ {0}
      BY <1>0, KeyTypes
    <2>3. \A n \in Names : tunnel'[n].id < fresh'.tunnel
      BY <2>1, <2>2 DEF KeyInv, TunnelIds
    <2>4. QED
      BY <2>1, <2>3 DEF KeyInv, TunnelIds
  <1>8. QED
    BY <1>1, <1>2, <1>3, <1>4, <1>6, <1>7 DEF KeyInv

\* The worker idle, there is nothing a pass knows.
LEMMA IdleKnowsNothing ==
    ASSUME w' = Idle, fresh'.tunnel \in Nat \ {0}
    PROVE  PassKeys'
  <1>1. w'.pc = "idle" /\ w'.tunnel = 0
    BY DEF Idle
  <1>2. QED
    BY <1>1 DEF PassKeys, SnapIsCached, ApplyKeys, CleanupKeys, PassTunnel, KeySteps, ApplySteps,
       CleanupSteps

\* What a pass knows stays true while others act.
LEMMA PassKeysStay ==
    ASSUME IndInv, KeyInv, PassKeys, KeyFrame, w' = w
    PROVE  PassKeys'
  <1>0. TypeOK /\ w.gw \in Gateways /\ name \in Names
    BY KeyTypes DEF IndInv
  <1>1. \A g \in Gateways : Nothing(g) => Nothing(g)'
    BY KeysStay
  <1>2. SnapIsCached'
    <2> SUFFICES ASSUME w.pc # "idle", gateway'[w.gw].uid = w.snap.uid
                 PROVE  cachedGateway'[w.gw].uid = w.snap.uid
      BY DEF SnapIsCached
    <2>1. w.snap.uid # 0
      <3>1. w.pc \in {"AddFinalizer"} \cup ApplySteps \cup CleanupSteps
        BY <1>0 DEF TypeOK, Workers, Steps
      <3>2. QED
        BY <3>1 DEF IndInv, ApplyGuard, CleanupGuard
    <2>2. gateway[w.gw].uid = w.snap.uid
      BY <1>0, <2>1 DEF KeyFrame
    <2>3. cachedGateway[w.gw].uid = w.snap.uid
      BY <2>2 DEF PassKeys, SnapIsCached
    <2>4. QED
      BY <1>0, <2>2, <2>3 DEF KeyFrame
  <1>3. ApplyKeys'
    BY <1>0, <1>1 DEF PassKeys, ApplyKeys, KeyFrame
  <1>4. CleanupKeys'
    BY <1>0, <1>1 DEF PassKeys, CleanupKeys, KeyFrame
  <1>5. PassTunnel'
    BY <1>0 DEF PassKeys, PassTunnel, KeyFrame, name
  <1>6. QED
    BY <1>2, <1>3, <1>4, <1>5 DEF PassKeys

\* A step of a pass: it ends, or goes on with the key it has and with the tunnel it has
\* or has looked up.
KeepsKey ==
    \/ w' = Idle
    \/ /\ w'.gw = w.gw /\ w'.snap = w.snap /\ w'.tunnel \in {w.tunnel, tunnel[name].id}
       /\ \/ w.pc \in KeySteps /\ w'.pc \in KeySteps /\ w'.key = w.key
          \/ w.pc \in CleanupSteps /\ w'.pc \in CleanupSteps

\* What a pass knows stays true while it keeps its key.
LEMMA PassKeysGoOn ==
    ASSUME IndInv, KeyInv, PassKeys, KeyFrame, KeepsKey,
           cachedGateway' = cachedGateway, w' = Idle \/ \A g \in Gateways :
              gateway'[g].uid = gateway[g].uid
    PROVE  PassKeys'
  <1>0. /\ TypeOK /\ w.gw \in Gateways /\ name \in Names /\ fresh.tunnel \in Nat \ {0}
        /\ fresh'.tunnel = fresh.tunnel
    BY KeyTypes DEF IndInv, KeyFrame
  <1>1. \A g \in Gateways : Nothing(g) => Nothing(g)'
    BY KeysStay
  <1>2. CASE w' = Idle
    BY <1>0, <1>2, IdleKnowsNothing
  <1>3. CASE w' # Idle
    <2>1. /\ w'.gw = w.gw /\ w'.snap = w.snap /\ w'.tunnel \in {w.tunnel, tunnel[name].id}
          /\ \/ w.pc \in KeySteps /\ w'.pc \in KeySteps /\ w'.key = w.key
             \/ w.pc \in CleanupSteps /\ w'.pc \in CleanupSteps
          /\ \A g \in Gateways : gateway'[g].uid = gateway[g].uid
      BY <1>3 DEF KeepsKey
    <2>2. w.pc # "idle" /\ (w.pc \in KeySteps => w.pc \notin CleanupSteps)
      BY <2>1 DEF KeySteps, ApplySteps, CleanupSteps
    <2>3. SnapIsCached'
      BY <1>0, <2>1, <2>2 DEF PassKeys, SnapIsCached
    <2>4. ApplyKeys'
      <3>1. w'.pc # "AddFinalizer" /\ w'.pc # "EnsureTunnelSecret"
        BY <2>1 DEF KeySteps, ApplySteps, CleanupSteps
      <3>2. w'.pc \in KeySteps => w.pc \in KeySteps /\ w'.key = w.key
        BY <2>1 DEF KeySteps, ApplySteps, CleanupSteps
      <3>3. secret' = secret
        BY DEF KeyFrame
      <3>4. QED
        BY <2>1, <3>1, <3>2, <3>3 DEF PassKeys, ApplyKeys
    <2>5. CleanupKeys'
      <3>1. w'.pc \in CleanupSteps => w.pc \in CleanupSteps
        BY <2>1 DEF KeySteps, ApplySteps, CleanupSteps
      <3>2. gateway'[w.gw].uid = gateway[w.gw].uid
        BY <1>0, <2>1
      <3>3. Nothing(w.gw) => /\ secret'[w.gw].owner = 0 /\ cachedSecret'[w.gw].owner = 0
                             /\ tunnel'[NameOf[w.gw]].id = 0
        <4>1. \A g \in Gateways : Nothing(g) => /\ secret'[g].owner = 0
                                                /\ cachedSecret'[g].owner = 0
                                                /\ tunnel'[NameOf[g]].id = 0
          BY <1>1 DEF Nothing
        <4>2. QED
          BY <1>0, <4>1
      <3>4. QED
        BY <2>1, <3>1, <3>2, <3>3 DEF PassKeys, CleanupKeys, Nothing
    <2>6. PassTunnel'
      <3>1. w.tunnel < fresh.tunnel /\ tunnel[name].id < fresh.tunnel
        BY <1>0 DEF KeyInv, TunnelIds, PassKeys, PassTunnel
      <3>2. ASSUME NEW n \in Names, tunnel'[n].id # 0, w'.tunnel = tunnel'[n].id
            PROVE  n = name
        <4>1. tunnel'[n].id = tunnel[n].id
          BY <3>2 DEF KeyFrame
        <4>2. CASE w'.tunnel = w.tunnel
          BY <3>2, <4>1, <4>2 DEF PassKeys, PassTunnel
        <4>3. CASE w'.tunnel = tunnel[name].id
          BY <1>0, <3>2, <4>1, <4>3 DEF KeyInv, TunnelIds
        <4>4. QED
          BY <2>1, <4>2, <4>3
      <3>3. QED
        BY <1>0, <2>1, <3>1, <3>2 DEF PassTunnel, name
    <2>7. QED
      BY <2>3, <2>4, <2>5, <2>6 DEF PassKeys
  <1>4. QED
    BY <1>2, <1>3

\* The steps of apply and cleanup that write no Secret and create no tunnel.
PlainStep ==
    \/ GetTunnel \/ DeleteTunnel \/ ApplyDeployment \/ CollectRoutes \/ PushConfig
    \/ ReconcileDNS \/ PatchStatus
    \/ CleanupGetTunnel \/ CleanupDeleteTunnel \/ CleanupDeployment \/ TeardownDNS
    \/ RemoveFinalizer

\* They keep the key of the pass.
LEMMA PlainKeepsKey == TypeOK /\ PlainStep => KeepsKey
  <1> SUFFICES ASSUME TypeOK, PlainStep PROVE KeepsKey
    OBVIOUS
  <1>0. w \in Workers
    BY DEF TypeOK
  <1>a. ASSUME NEW pc, Goto(pc) \/ FailsAndGoesOn(pc) \/ Fails \/ ReturnsError \/ Returns,
               \/ w.pc \in KeySteps /\ pc \in KeySteps
               \/ w.pc \in CleanupSteps /\ pc \in CleanupSteps
        PROVE  KeepsKey
    <2>1. CASE Fails \/ ReturnsError \/ Returns
      BY <2>1 DEF Fails, ReturnsError, Returns, KeepsKey
    <2>2. CASE Goto(pc) \/ FailsAndGoesOn(pc)
      <3>1. /\ w'.pc = pc /\ w'.gw = w.gw /\ w'.snap = w.snap /\ w'.tunnel = w.tunnel
            /\ w'.key = w.key
        BY <1>0, <2>2 DEF Goto, FailsAndGoesOn, Workers
      <3>2. QED
        BY <1>a, <3>1 DEF KeepsKey
    <2>3. QED
      BY <1>a, <2>1, <2>2
  <1>1. CASE GetTunnel
    <2>1. \/ w' = Idle
          \/ /\ w'.gw = w.gw /\ w'.snap = w.snap /\ w'.tunnel = tunnel[name].id
             /\ w'.key = w.key
             /\ w'.pc = AfterGetTunnel(tunnel[name].id, w.regenerated)
      BY <1>0, <1>1 DEF GetTunnel, Fails, Workers
    <2>2. w.pc \in KeySteps /\ AfterGetTunnel(tunnel[name].id, w.regenerated) \in KeySteps
      BY <1>1 DEF GetTunnel, AfterGetTunnel, KeySteps, ApplySteps
    <2>3. QED
      BY <2>1, <2>2 DEF KeepsKey
  <1>2. CASE DeleteTunnel
    <2>1. /\ Goto("CreateTunnel") \/ Fails \/ ReturnsError
          /\ w.pc \in KeySteps /\ "CreateTunnel" \in KeySteps
      BY <1>2 DEF DeleteTunnel, KeySteps, ApplySteps
    <2>2. QED
      BY <1>a, <2>1
  <1>3. CASE ApplyDeployment
    <2>1. /\ Goto("CollectRoutes") \/ Fails \/ ReturnsError
          /\ w.pc \in KeySteps /\ "CollectRoutes" \in KeySteps
      BY <1>3 DEF ApplyDeployment, NextStep, KeySteps, ApplySteps
    <2>2. QED
      BY <1>a, <2>1
  <1>4. CASE CollectRoutes
    <2>1. /\ w'.gw = w.gw /\ w'.snap = w.snap /\ w'.tunnel = w.tunnel /\ w'.key = w.key
          /\ w'.pc = "PushConfig"
      BY <1>0, <1>4 DEF CollectRoutes, NextStep, Workers
    <2>2. w.pc \in KeySteps /\ "PushConfig" \in KeySteps
      BY <1>4 DEF CollectRoutes, KeySteps, ApplySteps
    <2>3. QED
      BY <2>1, <2>2 DEF KeepsKey
  <1>5. CASE PushConfig
    <2>1. /\ Goto("ReconcileDNS") \/ Fails \/ ReturnsError
          /\ w.pc \in KeySteps /\ "ReconcileDNS" \in KeySteps
      BY <1>5 DEF PushConfig, NextStep, KeySteps, ApplySteps
    <2>2. QED
      BY <1>a, <2>1
  <1>6. CASE ReconcileDNS
    <2>1. /\ w'.gw = w.gw /\ w'.snap = w.snap /\ w'.tunnel = w.tunnel /\ w'.key = w.key
          /\ w'.pc = "PatchStatus"
      BY <1>0, <1>6 DEF ReconcileDNS, NextStep, Goto, FailsAndGoesOn, Workers
    <2>2. w.pc = "ReconcileDNS"
      BY <1>6 DEF ReconcileDNS
    <2>3. QED
      BY <2>1, <2>2 DEF KeepsKey, KeySteps, ApplySteps
  <1>7. CASE PatchStatus \/ RemoveFinalizer
    BY <1>7 DEF PatchStatus, RemoveFinalizer, Returns, ReturnsError, Fails, KeepsKey
  <1>8. CASE CleanupGetTunnel
    <2>1. /\ w'.gw = w.gw /\ w'.snap = w.snap /\ w'.tunnel \in {w.tunnel, tunnel[name].id}
          /\ w'.pc \in {"CleanupDeployment", "CleanupDeleteTunnel"}
      BY <1>0, <1>8 DEF CleanupGetTunnel, FailsAndGoesOn, Workers
    <2>2. w.pc = "CleanupGetTunnel"
      BY <1>8 DEF CleanupGetTunnel
    <2>3. QED
      BY <2>1, <2>2 DEF KeepsKey, CleanupSteps
  <1>9. CASE CleanupDeleteTunnel
    <2>1. /\ w'.gw = w.gw /\ w'.snap = w.snap /\ w'.tunnel = w.tunnel
          /\ w'.pc = "CleanupDeployment"
      BY <1>0, <1>9 DEF CleanupDeleteTunnel, NextStep, Goto, FailsAndGoesOn, Workers
    <2>2. w.pc = "CleanupDeleteTunnel"
      BY <1>9 DEF CleanupDeleteTunnel
    <2>3. QED
      BY <2>1, <2>2 DEF KeepsKey, CleanupSteps
  <1>10. CASE CleanupDeployment
    <2>1. /\ Goto("CleanupSecret") \/ FailsAndGoesOn("CleanupSecret")
          /\ w.pc \in CleanupSteps /\ "CleanupSecret" \in CleanupSteps
      BY <1>10 DEF CleanupDeployment, NextStep, CleanupSteps
    <2>2. QED
      BY <1>a, <2>1
  <1>11. CASE TeardownDNS
    <2>1. Goto("RemoveFinalizer") \/ FailsAndGoesOn("RemoveFinalizer")
      BY <1>11 DEF TeardownDNS, NextStep
    <2>2. w.pc \in CleanupSteps /\ "RemoveFinalizer" \in CleanupSteps
      BY <1>11 DEF TeardownDNS, CleanupSteps
    <2>3. QED
      BY <1>a, <2>1, <2>2
  <1>12. QED
    BY <1>1, <1>2, <1>3, <1>4, <1>5, <1>6, <1>7, <1>8, <1>9, <1>10, <1>11 DEF PlainStep

\* They leave the Secrets alone and only take tunnels and Gateways away.
LEMMA PlainFrame ==
    ASSUME TypeOK, PlainStep
    PROVE  /\ KeyFrame /\ cachedGateway' = cachedGateway
           /\ w' = Idle \/ \A g \in Gateways : gateway'[g].uid = gateway[g].uid
  <1>0. w \in Workers /\ w.gw \in Gateways /\ name \in Names /\ w.snap \in GatewayObjects
    BY KeyTypes
  <1>1. /\ secret' = secret /\ fresh' = fresh /\ cachedSecret' = cachedSecret
        /\ cachedGateway' = cachedGateway
    BY DEF PlainStep, GetTunnel, DeleteTunnel, ApplyDeployment, CollectRoutes, PushConfig,
       ReconcileDNS, PatchStatus, CleanupGetTunnel, CleanupDeleteTunnel, CleanupDeployment,
       TeardownDNS, RemoveFinalizer, kube, cache
  <1>2. /\ \A g \in Gateways : gateway'[g].uid \in {0, gateway[g].uid}
        /\ w' = Idle \/ \A g \in Gateways : gateway'[g].uid = gateway[g].uid
    <2>1. CASE PatchStatus
      <3> DEFINE patched == [w.snap EXCEPT !.programmed = ProgrammedStatus(w.err),
                                           !.address = w.tunnel]
      <3>1. \/ gateway' = gateway
            \/ gateway[w.gw] = w.snap /\ gateway' = [gateway EXCEPT ![w.gw] = patched]
        BY <2>1 DEF PatchStatus
      <3>2. patched.uid = w.snap.uid
        BY <1>0 DEF GatewayObjects
      <3>3. \A g \in Gateways : gateway'[g].uid = gateway[g].uid
        BY <1>0, <3>1, <3>2 DEF TypeOK
      <3>4. QED
        BY <3>3
    <2>2. CASE RemoveFinalizer
      <3>1. w' = Idle
        BY <2>2 DEF RemoveFinalizer, Returns, ReturnsError, Fails
      <3>2. \A g \in Gateways : gateway'[g].uid \in {0, gateway[g].uid}
        BY <2>2 DEF RemoveFinalizer, TypeOK, NoGateway
      <3>3. QED
        BY <3>1, <3>2
    <2>3. CASE PlainStep /\ ~PatchStatus /\ ~RemoveFinalizer
      <3>1. gateway' = gateway
        BY <2>3 DEF PlainStep, GetTunnel, DeleteTunnel, ApplyDeployment, CollectRoutes, PushConfig,
           ReconcileDNS, CleanupGetTunnel, CleanupDeleteTunnel, CleanupDeployment, TeardownDNS,
           kube
      <3>2. QED
        BY <3>1
    <2>4. QED
      BY <2>1, <2>2, <2>3
  <1>3. \A n \in Names : \/ tunnel'[n].id = 0
                         \/ tunnel'[n].id = tunnel[n].id /\ tunnel'[n].key = tunnel[n].key
    <2>1. CASE PushConfig
      <3>1. \/ tunnel' = tunnel
            \/ tunnel' = [tunnel EXCEPT ![name] = [tunnel[name] EXCEPT !.config = w.hosts]]
        BY <2>1 DEF PushConfig
      <3>2. tunnel[name] \in TunnelObjects
        BY <1>0 DEF TypeOK
      <3>3. /\ [tunnel[name] EXCEPT !.config = w.hosts].id = tunnel[name].id
            /\ [tunnel[name] EXCEPT !.config = w.hosts].key = tunnel[name].key
        BY <3>2 DEF TunnelObjects
      <3>4. QED
        BY <1>0, <3>1, <3>3 DEF TypeOK
    <2>2. CASE DeleteTunnel \/ CleanupDeleteTunnel
      <3>1. tunnel' = tunnel \/ tunnel' = [tunnel EXCEPT ![name] = NoTunnel]
        BY <2>2 DEF DeleteTunnel, CleanupDeleteTunnel
      <3>2. QED
        BY <1>0, <3>1 DEF TypeOK, NoTunnel
    <2>3. CASE PlainStep /\ ~PushConfig /\ ~DeleteTunnel /\ ~CleanupDeleteTunnel
      <3>1. tunnel' = tunnel
        BY <2>3 DEF PlainStep, GetTunnel, ApplyDeployment, CollectRoutes, ReconcileDNS,
           PatchStatus, CleanupGetTunnel, CleanupDeployment, TeardownDNS, RemoveFinalizer, cloud
      <3>2. QED
        BY <3>1
    <2>4. QED
      BY <2>1, <2>2, <2>3
  <1>4. QED
    BY <1>1, <1>2, <1>3 DEF KeyFrame

\* A pass that goes on in apply, on a Gateway that stays where it is.
LEMMA ApplyGoesOn ==
    ASSUME IndInv, PassKeys, w.pc \in ApplySteps, w'.pc \in ApplySteps,
           w'.gw = w.gw, w'.snap = w.snap, gateway' = gateway, cachedGateway' = cachedGateway,
           ApplyKeys', PassTunnel'
    PROVE  PassKeys'
  <1>1. SnapIsCached'
    BY DEF PassKeys, SnapIsCached, ApplySteps
  <1>2. CleanupKeys'
    BY DEF CleanupKeys, ApplySteps, CleanupSteps
  <1>3. QED
    BY <1>1, <1>2 DEF PassKeys

\* The key of the Secret read, or of the Secret written, is the key of the pass.
LEMMA EnsureKeepsKeys ==
    ASSUME OwnNames, IndInv, KeyInv, PassKeys, EnsureTunnelSecret
    PROVE  KeyInv' /\ PassKeys'
  <1> DEFINE s == cachedSecret[w.gw]
  <1>0. /\ TypeOK /\ w \in Workers /\ w.gw \in Gateways /\ name \in Names
        /\ fresh.tunnel \in Nat \ {0} /\ fresh.key \in Nat
        /\ \A g \in Gateways : NameOf[g] \in Names
    BY KeyTypes DEF IndInv
  <1>1. /\ w.pc = "EnsureTunnelSecret" /\ w.pc \in ApplySteps
        /\ gateway' = gateway /\ cachedGateway' = cachedGateway /\ tunnel' = tunnel
        /\ cachedSecret' = cachedSecret
    BY DEF EnsureTunnelSecret, cache, cloud, ApplySteps
  <1>2. /\ w.snap.uid # 0 /\ gateway[w.gw].uid = w.snap.uid
        /\ cachedGateway[w.gw].uid = gateway[w.gw].uid
    BY <1>1 DEF IndInv, ApplyGuard, PassKeys, SnapIsCached
  <1>3. secret[w.gw].owner # 0 \/ Nothing(w.gw)
    BY <1>1 DEF PassKeys, ApplyKeys
  <1>4. ValidSecret(s) /\ ValidSecret(secret[w.gw]) /\ fresh.key > BadKey
    BY <1>0 DEF KeyInv, ValidSecrets
  <1>5. ~NeedsRegeneration(s)
    BY <1>4 DEF ValidSecret, NeedsRegeneration, BadKey
  <1>6. CASE secret' = secret /\ fresh' = fresh
    <2>1. KeyFrame
      BY <1>1, <1>6 DEF KeyFrame
    <2>2. KeyInv'
      BY <2>1, KeysStay
    <2>3. CASE w' = Idle
      BY <1>0, <1>6, <2>2, <2>3, IdleKnowsNothing
    <2>4. CASE s.key > BadKey /\ HasTunnelSecret(s.key, FALSE)
      <3>1. /\ w'.pc = "GetTunnel" /\ w'.key = s.key /\ w'.gw = w.gw /\ w'.snap = w.snap
            /\ w'.tunnel = w.tunnel
        BY <1>0, <2>4 DEF HasTunnelSecret, Workers
      <3>2. s.owner # 0
        BY <1>4, <2>4 DEF ValidSecret, NoSecret, BadKey
      <3>3. secret[w.gw].owner # 0
        BY <1>3, <3>2 DEF Nothing
      <3>4. secret[w.gw].key = s.key
        BY <1>0, <3>2, <3>3 DEF KeyInv, OneKey
      <3>5. ApplyKeys'
        BY <1>6, <3>1, <3>3, <3>4 DEF ApplyKeys
      <3>6. PassTunnel'
        BY <1>1, <1>6, <3>1 DEF PassKeys, PassTunnel, name
      <3>7. w'.pc \in ApplySteps
        BY <3>1 DEF ApplySteps
      <3>8. QED
        BY <1>1, <2>2, <3>1, <3>5, <3>6, <3>7, ApplyGoesOn
    <2>5. fresh' # [fresh EXCEPT !.key = fresh.key + 1]
      BY <1>0, <1>6 DEF TypeOK, FreshCounters
    <2>6. w' = Idle \/ (s.key > BadKey /\ HasTunnelSecret(s.key, FALSE))
      BY <2>5 DEF EnsureTunnelSecret, Fails, ReturnsError
    <2>7. QED
      BY <2>3, <2>4, <2>6
  <1>7. CASE ~(secret' = secret /\ fresh' = fresh)
    <2>1. /\ s.owner = 0 /\ secret[w.gw] = s
          /\ secret' = [secret EXCEPT ![w.gw] = WrittenSecret(s)]
          /\ fresh' = [fresh EXCEPT !.key = @ + 1]
          /\ w' = Idle \/ HasTunnelSecret(fresh.key, NeedsRegeneration(s))
      BY <1>5, <1>7 DEF EnsureTunnelSecret, Fails
    <2>2. Nothing(w.gw)
      BY <1>3, <2>1
    <2>3. /\ secret'[w.gw] = [owner |-> w.snap.uid, key |-> fresh.key, token |-> NoToken]
          /\ \A g \in Gateways \ {w.gw} : secret'[g] = secret[g]
      BY <1>0, <2>1 DEF WrittenSecret, TypeOK
    <2>4. /\ secret'[w.gw].owner = w.snap.uid /\ secret'[w.gw].key = fresh.key
          /\ secret'[w.gw].token.tunnel = 0
      BY <2>3 DEF NoToken
    <2>5. fresh'.tunnel = fresh.tunnel /\ fresh'.key = fresh.key + 1
      BY <1>0, <2>1 DEF TypeOK, FreshCounters
    <2>6. ValidSecrets'
      <3>1. ValidSecret(secret'[w.gw])
        BY <1>2, <1>4, <2>4 DEF ValidSecret
      <3>2. fresh'.key > BadKey
        BY <1>0, <1>4, <2>5 DEF BadKey
      <3>3. \A g \in Gateways : ValidSecret(secret'[g]) /\ ValidSecret(cachedSecret'[g])
        BY <1>1, <2>3, <3>1 DEF KeyInv, ValidSecrets
      <3>4. QED
        BY <3>2, <3>3 DEF ValidSecrets, ValidSecret
    <2>7. OneKey'
      BY <1>0, <1>1, <2>2, <2>3 DEF KeyInv, OneKey, Nothing
    <2>8. SecretOwners'
      BY <1>1, <1>2, <2>3, <2>4 DEF KeyInv, SecretOwners
    <2>9. SecretsStay'
      <3>1. ASSUME NEW g \in Gateways \ {w.gw}
            PROVE  (Nothing(g) => Nothing(g)') /\ (Doomed(g) => Doomed(g)')
        BY <1>1, <2>3 DEF Nothing, Doomed
      <3>2. QED
        BY <1>1, <1>2, <2>3, <2>4, <3>1 DEF KeyInv, SecretsStay
    <2>10. TunnelIds'
      <3>1. \A n \in Names : tunnel[n].id \in Nat
        BY <1>0, KeyTypes
      <3>2. QED
        BY <1>0, <1>1, <2>3, <2>4, <2>5, <3>1 DEF KeyInv, TunnelIds
    <2>11. KeyInv'
      BY <2>6, <2>7, <2>8, <2>9, <2>10 DEF KeyInv
    <2>12. CASE w' = Idle
      BY <1>0, <2>5, <2>11, <2>12, IdleKnowsNothing
    <2>13. CASE HasTunnelSecret(fresh.key, NeedsRegeneration(s))
      <3>1. /\ w'.pc = "GetTunnel" /\ w'.key = fresh.key /\ w'.gw = w.gw /\ w'.snap = w.snap
            /\ w'.tunnel = w.tunnel
        BY <1>0, <2>13 DEF HasTunnelSecret, Workers
      <3>2. ApplyKeys'
        BY <1>2, <2>4, <3>1 DEF ApplyKeys
      <3>3. PassTunnel'
        BY <1>1, <2>5, <3>1 DEF PassKeys, PassTunnel, name
      <3>4. w'.pc \in ApplySteps
        BY <3>1 DEF ApplySteps
      <3>5. QED
        BY <1>1, <2>11, <3>1, <3>2, <3>3, <3>4, ApplyGoesOn
    <2>14. QED
      BY <2>1, <2>12, <2>13
  <1>8. QED
    BY <1>6, <1>7

\* The new tunnel has the key of the Secret and an id of its own.
LEMMA CreateKeepsKeys ==
    ASSUME OwnNames, IndInv, KeyInv, PassKeys, CreateTunnel
    PROVE  KeyInv' /\ PassKeys'
  <1>0. /\ TypeOK /\ w \in Workers /\ w.gw \in Gateways /\ name \in Names
        /\ fresh.tunnel \in Nat \ {0} /\ w.tunnel \in Nat
        /\ \A g \in Gateways : NameOf[g] \in Names
        /\ \A n \in Names : tunnel[n].id \in Nat
        /\ \A g \in Gateways : secret[g].token.tunnel \in Nat
    BY KeyTypes DEF IndInv
  <1>1. /\ w.pc = "CreateTunnel" /\ w.pc \in ApplySteps /\ w.pc \in KeySteps
        /\ gateway' = gateway /\ cachedGateway' = cachedGateway /\ secret' = secret
        /\ cachedSecret' = cachedSecret
    BY DEF CreateTunnel, kube, cache, KeySteps, ApplySteps
  <1>2. /\ gateway[w.gw].uid = w.snap.uid /\ cachedGateway[w.gw].uid = gateway[w.gw].uid
        /\ secret[w.gw].owner # 0 /\ secret[w.gw].key = w.key
    BY <1>1 DEF IndInv, ApplyGuard, PassKeys, SnapIsCached, ApplyKeys
  <1>3. CASE tunnel' = tunnel /\ fresh' = fresh
    <2>1. KeyFrame /\ w' = Idle
      BY <1>1, <1>3, <1>0 DEF KeyFrame, CreateTunnel, Fails, TypeOK, FreshCounters
    <2>2. QED
      BY <1>0, <1>3, <2>1, KeysStay, IdleKnowsNothing
  <1>4. CASE /\ tunnel' = [tunnel EXCEPT ![name] =
                             [id |-> fresh.tunnel, key |-> w.key, config |-> {}]]
             /\ fresh' = [fresh EXCEPT !.tunnel = @ + 1]
    <2>1. /\ tunnel'[name].id = fresh.tunnel /\ tunnel'[name].key = w.key
          /\ \A n \in Names \ {name} : tunnel'[n] = tunnel[n]
          /\ fresh'.tunnel = fresh.tunnel + 1 /\ fresh'.key = fresh.key
      BY <1>0, <1>4 DEF TypeOK, FreshCounters
    <2>2. \A g \in Gateways \ {w.gw} : tunnel'[NameOf[g]] = tunnel[NameOf[g]]
      BY <1>0, <2>1 DEF OwnNames, name
    <2>3. ValidSecrets' /\ SecretOwners'
      BY <1>1, <2>1 DEF KeyInv, ValidSecrets, ValidSecret, SecretOwners
    <2>4. OneKey'
      <3>1. tunnel'[NameOf[w.gw]].key = w.key
        BY <2>1 DEF name
      <3>2. QED
        BY <1>1, <1>2, <2>2, <3>1 DEF KeyInv, OneKey
    <2>5. SecretsStay'
      <3>1. ASSUME NEW g \in Gateways \ {w.gw}
            PROVE  (Nothing(g) => Nothing(g)') /\ (Doomed(g) => Doomed(g)')
        BY <1>1, <2>2 DEF Nothing, Doomed
      <3>2. QED
        BY <1>1, <1>2, <3>1 DEF KeyInv, SecretsStay
    <2>6. TunnelIds'
      <3>1. /\ \A n \in Names : tunnel[n].id < fresh.tunnel
            /\ \A g \in Gateways : secret[g].token.tunnel < fresh.tunnel
        BY DEF KeyInv, TunnelIds
      <3>2. /\ \A n \in Names : tunnel'[n].id < fresh'.tunnel
            /\ \A g \in Gateways : secret'[g].token.tunnel < fresh'.tunnel
        BY <1>0, <1>1, <2>1, <3>1
      <3>3. \A n1, n2 \in Names : tunnel'[n1].id = tunnel'[n2].id /\ tunnel'[n1].id # 0 => n1 = n2
        BY <1>0, <2>1, <3>1 DEF KeyInv, TunnelIds
      <3>4. ASSUME NEW n \in Names, NEW g \in Gateways, tunnel'[n].id # 0,
                   secret'[g].token.tunnel = tunnel'[n].id
            PROVE  n = NameOf[g]
        <4>1. n # name
          BY <1>0, <1>1, <2>1, <3>1, <3>4
        <4>2. tunnel'[n] = tunnel[n]
          BY <2>1, <4>1
        <4>3. QED
          BY <1>1, <3>4, <4>2 DEF KeyInv, TunnelIds
      <3>5. QED
        BY <3>2, <3>3, <3>4 DEF TunnelIds
    <2>7. KeyInv'
      BY <2>3, <2>4, <2>5, <2>6 DEF KeyInv
    <2>8. CASE w' = Idle
      BY <1>0, <2>1, <2>7, <2>8, IdleKnowsNothing
    <2>9. CASE w' # Idle
      <3>1. /\ w'.pc = "StoreToken" /\ w'.key = w.key /\ w'.gw = w.gw /\ w'.snap = w.snap
            /\ w'.tunnel = fresh.tunnel
        BY <1>0, <2>9 DEF CreateTunnel, NextStep, Fails, Workers
      <3>2. ApplyKeys'
        BY <1>1, <1>2, <3>1 DEF ApplyKeys
      <3>3. PassTunnel'
        <4>1. w'.tunnel < fresh'.tunnel
          BY <1>0, <2>1, <3>1
        <4>2. ASSUME NEW n \in Names, w'.tunnel = tunnel'[n].id
              PROVE  n = name
          <5>1. tunnel[n].id < fresh.tunnel
            BY DEF KeyInv, TunnelIds
          <5>2. QED
            BY <1>0, <2>1, <3>1, <4>2, <5>1
        <4>3. QED
          BY <3>1, <4>1, <4>2 DEF PassTunnel, name
      <3>4. w'.pc \in ApplySteps
        BY <3>1 DEF ApplySteps
      <3>5. QED
        BY <1>1, <2>7, <3>1, <3>2, <3>3, <3>4, ApplyGoesOn
    <2>10. QED
      BY <2>8, <2>9
  <1>5. QED
    BY <1>3, <1>4 DEF CreateTunnel

\* The token is made with the key of the pass, for the tunnel of the pass.
LEMMA StoreKeepsKeys ==
    ASSUME IndInv, KeyInv, PassKeys, StoreToken
    PROVE  KeyInv' /\ PassKeys'
  <1> DEFINE s == cachedSecret[w.gw]
             stored == [s EXCEPT !.token = [tunnel |-> w.tunnel, key |-> w.key]]
  <1>0. /\ TypeOK /\ w \in Workers /\ w.gw \in Gateways /\ name \in Names
        /\ fresh.tunnel \in Nat \ {0} /\ w.tunnel \in Nat
        /\ \A g \in Gateways : NameOf[g] \in Names
    BY KeyTypes DEF IndInv
  <1>1. /\ w.pc = "StoreToken" /\ w.pc \in ApplySteps /\ w.pc \in KeySteps
        /\ gateway' = gateway /\ cachedGateway' = cachedGateway /\ tunnel' = tunnel
        /\ cachedSecret' = cachedSecret /\ fresh' = fresh
    BY DEF StoreToken, cache, cloud, KeySteps, ApplySteps
  <1>2. secret[w.gw].owner # 0 /\ secret[w.gw].key = w.key
    BY <1>1 DEF PassKeys, ApplyKeys
  <1>3. CASE secret' = secret
    <2>1. KeyFrame
      BY <1>1, <1>3 DEF KeyFrame
    <2>2. KeepsKey
      <3>1. w' = Idle \/ Goto("ApplyDeployment")
        BY DEF StoreToken, NextStep, Fails, ReturnsError
      <3>2. CASE Goto("ApplyDeployment")
        <4>1. /\ w'.pc = "ApplyDeployment" /\ w'.gw = w.gw /\ w'.snap = w.snap
              /\ w'.tunnel = w.tunnel /\ w'.key = w.key
          BY <1>0, <3>2 DEF Goto, Workers
        <4>2. QED
          BY <1>1, <4>1 DEF KeepsKey, KeySteps, ApplySteps
      <3>3. QED
        BY <3>1, <3>2 DEF KeepsKey
    <2>3. QED
      BY <1>1, <2>1, <2>2, KeysStay, PassKeysGoOn
  <1>4. CASE /\ s.owner # 0 /\ secret[w.gw] = s /\ secret' = [secret EXCEPT ![w.gw] = stored]
             /\ Goto("ApplyDeployment") \/ Fails
    <2>1. /\ secret'[w.gw] = stored
          /\ \A g \in Gateways \ {w.gw} : secret'[g] = secret[g]
      BY <1>0, <1>4 DEF TypeOK
    <2>2. s \in SecretObjects
      BY <1>0 DEF TypeOK
    <2>3. /\ stored.owner = s.owner /\ stored.key = s.key
          /\ stored.token = [tunnel |-> w.tunnel, key |-> w.key]
      BY <2>2 DEF SecretObjects
    <2>4. /\ secret'[w.gw].owner = secret[w.gw].owner /\ secret'[w.gw].key = w.key
          /\ secret'[w.gw].owner # 0
          /\ secret'[w.gw].token.tunnel = w.tunnel /\ secret'[w.gw].token.key = w.key
      <3>1. secret'[w.gw].owner = secret[w.gw].owner /\ secret'[w.gw].key = w.key
        BY <1>2, <1>4, <2>1, <2>3
      <3>2. secret'[w.gw].token = [tunnel |-> w.tunnel, key |-> w.key]
        BY <2>1, <2>3
      <3>3. secret'[w.gw].token.tunnel = w.tunnel /\ secret'[w.gw].token.key = w.key
        BY ONLY <3>2
      <3>4. QED
        BY <1>2, <3>1, <3>3
    <2>5. ValidSecrets'
      <3>1. ValidSecret(secret[w.gw])
        BY <1>0 DEF KeyInv, ValidSecrets
      <3>2. ValidSecret(secret'[w.gw])
        BY <1>2, <2>4, <3>1 DEF ValidSecret
      <3>3. \A g \in Gateways : ValidSecret(secret'[g]) /\ ValidSecret(cachedSecret'[g])
        BY <1>1, <2>1, <3>2 DEF KeyInv, ValidSecrets
      <3>4. QED
        BY <1>1, <3>3 DEF KeyInv, ValidSecrets, ValidSecret
    <2>6. OneKey' /\ SecretOwners'
      BY <1>1, <1>2, <2>1, <2>4 DEF KeyInv, OneKey, SecretOwners
    <2>7. \A g \in Gateways : (Nothing(g) => Nothing(g)') /\ (Doomed(g) => Doomed(g)')
      <3>1. \A g \in Gateways : secret[g].owner = 0 => secret'[g].owner = 0
        BY <1>2, <2>1
      <3>2. QED
        BY <1>1, <3>1 DEF Nothing, Doomed
    <2>8. SecretsStay'
      BY <1>1, <2>1, <2>4, <2>7 DEF KeyInv, SecretsStay
    <2>9. TunnelIds'
      <3>1. /\ w.tunnel < fresh.tunnel
            /\ \A n \in Names : tunnel[n].id # 0 /\ w.tunnel = tunnel[n].id => n = NameOf[w.gw]
        BY DEF PassKeys, PassTunnel, name
      <3>2. /\ \A n \in Names : tunnel'[n].id < fresh'.tunnel
            /\ \A n1, n2 \in Names : tunnel'[n1].id = tunnel'[n2].id /\ tunnel'[n1].id # 0
                                     => n1 = n2
        BY <1>1 DEF KeyInv, TunnelIds
      <3>3. ASSUME NEW g \in Gateways
            PROVE  /\ secret'[g].token.tunnel < fresh'.tunnel
                   /\ \A n \in Names : tunnel'[n].id # 0 /\ secret'[g].token.tunnel = tunnel'[n].id
                                       => n = NameOf[g]
        <4>1. CASE g = w.gw
          <5>1. secret'[g].token.tunnel = w.tunnel
            BY <2>4, <4>1
          <5>2. tunnel' = tunnel /\ fresh' = fresh
            BY <1>1
          <5>3. QED
            BY <3>1, <4>1, <5>1, <5>2
        <4>2. CASE g # w.gw
          <5>1. secret'[g] = secret[g]
            BY <2>1, <4>2
          <5>2. QED
            BY <1>1, <5>1 DEF KeyInv, TunnelIds
        <4>3. QED
          BY <4>1, <4>2
      <3>4. QED
        BY <3>2, <3>3 DEF TunnelIds
    <2>10. KeyInv'
      BY <2>5, <2>6, <2>8, <2>9 DEF KeyInv
    <2>11. CASE Fails
      BY <1>0, <1>1, <2>10, <2>11, IdleKnowsNothing DEF Fails
    <2>12. CASE Goto("ApplyDeployment")
      <3>1. /\ w'.pc = "ApplyDeployment" /\ w'.gw = w.gw /\ w'.snap = w.snap
            /\ w'.tunnel = w.tunnel /\ w'.key = w.key
        BY <1>0, <2>12 DEF Goto, Workers
      <3>2. ApplyKeys'
        BY <2>4, <3>1 DEF ApplyKeys
      <3>3. PassTunnel'
        BY <1>1, <3>1 DEF PassKeys, PassTunnel, name
      <3>4. w'.pc \in ApplySteps
        BY <3>1 DEF ApplySteps
      <3>5. QED
        BY <1>1, <2>10, <3>1, <3>2, <3>3, <3>4, ApplyGoesOn
    <2>13. QED
      BY <1>4, <2>11, <2>12
  <1>5. QED
    BY <1>3, <1>4 DEF StoreToken, NextStep

\* Secrets go, of Gateways that are gone or doomed.
LEMMA SecretGoes ==
    ASSUME IndInv, KeyInv, NEW g \in Gateways,
           gateway[g].uid # 0 => Doomed(g),
           secret' = [secret EXCEPT ![g] = NoSecret],
           gateway' = gateway, cachedGateway' = cachedGateway, tunnel' = tunnel,
           cachedSecret' = cachedSecret, fresh' = fresh
    PROVE  KeyInv' /\ \A x \in Gateways : Nothing(x) => Nothing(x)'
  <1>0. /\ TypeOK /\ fresh.tunnel \in Nat \ {0}
        /\ \A n \in Names : tunnel[n].id \in Nat
    BY KeyTypes DEF IndInv
  <1>1. /\ secret'[g] = NoSecret
        /\ \A x \in Gateways \ {g} : secret'[x] = secret[x]
    BY <1>0 DEF TypeOK
  <1>2. NoSecret.owner = 0 /\ NoSecret.token.tunnel = 0
    BY DEF NoSecret, NoToken
  <1>3. ValidSecrets'
    BY <1>1, <1>2 DEF KeyInv, ValidSecrets, ValidSecret
  <1>4. OneKey' /\ SecretOwners'
    BY <1>1, <1>2 DEF KeyInv, OneKey, SecretOwners
  <1>5. \A x \in Gateways : (Nothing(x) => Nothing(x)') /\ (Doomed(x) => Doomed(x)')
    BY <1>1, <1>2 DEF Nothing, Doomed
  <1>6. SecretsStay'
    BY <1>1, <1>5 DEF KeyInv, SecretsStay
  <1>7. TunnelIds'
    BY <1>0, <1>1, <1>2 DEF KeyInv, TunnelIds
  <1>8. QED
    BY <1>3, <1>4, <1>5, <1>6, <1>7 DEF KeyInv

\* cleanup only takes the Secret of a Gateway that is doomed, or that has none.
LEMMA CleanupSecretKeepsKeys ==
    ASSUME IndInv, KeyInv, PassKeys, CleanupSecret
    PROVE  KeyInv' /\ PassKeys'
  <1>0. /\ TypeOK /\ w \in Workers /\ w.gw \in Gateways /\ name \in Names
    BY KeyTypes DEF IndInv
  <1>1. /\ w.pc = "CleanupSecret" /\ w.pc \in CleanupSteps
        /\ gateway' = gateway /\ cachedGateway' = cachedGateway /\ tunnel' = tunnel
        /\ cachedSecret' = cachedSecret /\ fresh' = fresh
    BY DEF CleanupSecret, cache, cloud, CleanupSteps
  <1>2. /\ w'.pc = "TeardownDNS" /\ w'.gw = w.gw /\ w'.snap = w.snap /\ w'.tunnel = w.tunnel
    BY <1>0 DEF CleanupSecret, NextStep, Goto, FailsAndGoesOn, Workers
  <1>3. CASE secret' = secret
    <2>1. KeyFrame
      BY <1>1, <1>3 DEF KeyFrame
    <2>2. KeepsKey
      BY <1>1, <1>2 DEF KeepsKey, CleanupSteps
    <2>3. QED
      BY <1>1, <2>1, <2>2, KeysStay, PassKeysGoOn
  <1>4. CASE cachedSecret[w.gw].owner # 0 /\ secret' = [secret EXCEPT ![w.gw] = NoSecret]
    <2>1. gateway[w.gw].uid # 0 => Doomed(w.gw)
      <3>1. gateway[w.gw].uid \in {0, w.snap.uid}
        BY <1>1, <1>4 DEF PassKeys, CleanupKeys, Nothing
      <3>2. gateway[w.gw].uid = w.snap.uid => cachedGateway[w.gw].uid = w.snap.uid
        BY <1>1 DEF PassKeys, SnapIsCached
      <3>3. QED
        BY <1>1, <3>1, <3>2 DEF IndInv, CleanupGuard, Doomed
    <2>2. KeyInv' /\ \A x \in Gateways : Nothing(x) => Nothing(x)'
      BY <1>0, <1>1, <1>4, <2>1, SecretGoes
    <2>3. SnapIsCached'
      BY <1>1, <1>2 DEF PassKeys, SnapIsCached
    <2>4. ApplyKeys'
      BY <1>2 DEF ApplyKeys, KeySteps, ApplySteps
    <2>5. CleanupKeys'
      <3>1. \A x \in Gateways : Nothing(x) => /\ secret'[x].owner = 0
                                              /\ cachedSecret'[x].owner = 0
                                              /\ tunnel'[NameOf[x]].id = 0
        BY <2>2 DEF Nothing
      <3>2. QED
        BY <1>0, <1>1, <1>2, <3>1 DEF PassKeys, CleanupKeys, Nothing
    <2>6. PassTunnel'
      BY <1>1, <1>2 DEF PassKeys, PassTunnel, name
    <2>7. QED
      BY <2>2, <2>3, <2>4, <2>5, <2>6 DEF PassKeys
  <1>5. secret' = secret
          \/ (cachedSecret[w.gw].owner # 0 /\ secret' = [secret EXCEPT ![w.gw] = NoSecret])
    <2>1. [secret EXCEPT ![w.gw] = secret[w.gw]] = secret
      BY <1>0 DEF TypeOK
    <2>2. QED
      BY <2>1 DEF CleanupSecret
  <1>6. QED
    BY <1>3, <1>4, <1>5

\* The finalizer is added to the very object that was read; it was not being deleted, so
\* its Secret is there or nothing is.
LEMMA FinalizerKeepsKeys ==
    ASSUME IndInv, KeyInv, PassKeys, AddFinalizer
    PROVE  KeyInv' /\ PassKeys'
  <1>0. /\ TypeOK /\ w \in Workers /\ w.gw \in Gateways /\ name \in Names
        /\ fresh.tunnel \in Nat \ {0} /\ w.snap \in GatewayObjects
        /\ gateway \in [Gateways -> GatewayObjects]
    BY KeyTypes DEF IndInv, TypeOK
  <1>1. /\ w.pc = "AddFinalizer" /\ secret' = secret /\ cachedSecret' = cachedSecret
        /\ cachedGateway' = cachedGateway /\ tunnel' = tunnel /\ fresh' = fresh
    BY DEF AddFinalizer, cache, cloud
  <1>2. \A g \in Gateways : gateway'[g].uid = gateway[g].uid
    <2>1. gateway' = gateway \/ gateway' = [gateway EXCEPT ![w.gw].finalizer = TRUE]
      BY DEF AddFinalizer
    <2>2. [gateway[w.gw] EXCEPT !.finalizer = TRUE].uid = gateway[w.gw].uid
      BY <1>0 DEF GatewayObjects
    <2>3. QED
      BY <1>0, <2>1, <2>2
  <1>3. KeyFrame
    BY <1>1, <1>2 DEF KeyFrame
  <1>4. KeyInv'
    BY <1>3, KeysStay
  <1>5. CASE w' = Idle
    BY <1>0, <1>1, <1>4, <1>5, IdleKnowsNothing
  <1>6. CASE w' # Idle
    <2>1. /\ gateway[w.gw] = w.snap
          /\ w' = [w EXCEPT !.pc = "EnsureTunnelSecret", !.snap.finalizer = TRUE]
      BY <1>6 DEF AddFinalizer, Fails, ReturnsError
    <2>2. [w.snap EXCEPT !.finalizer = TRUE].uid = w.snap.uid
      BY <1>0 DEF GatewayObjects
    <2>3. /\ w'.pc = "EnsureTunnelSecret" /\ w'.gw = w.gw /\ w'.tunnel = w.tunnel
          /\ w'.snap.uid = w.snap.uid
      BY <1>0, <2>1, <2>2 DEF Workers
    <2>4. gateway[w.gw].uid = w.snap.uid /\ w.snap.uid # 0 /\ ~gateway[w.gw].deleting
      BY <1>1, <2>1 DEF IndInv, ApplyGuard, PassKeys, ApplyKeys
    <2>5. cachedGateway[w.gw].uid = gateway[w.gw].uid
      BY <1>1, <2>4 DEF PassKeys, SnapIsCached
    <2>6. ~Doomed(w.gw)
      BY <1>0, <2>4, <2>5 DEF Doomed, IndInv, CacheGuard
    <2>7. secret[w.gw].owner # 0 \/ Nothing(w.gw)
      BY <1>0, <2>4, <2>6 DEF KeyInv, SecretsStay
    <2>8. ApplyKeys'
      BY <1>1, <2>3, <2>7 DEF ApplyKeys, Nothing, KeySteps, ApplySteps
    <2>9. SnapIsCached'
      BY <1>1, <2>3, <2>5, <2>4 DEF SnapIsCached
    <2>10. CleanupKeys'
      BY <2>3 DEF CleanupKeys, CleanupSteps
    <2>11. PassTunnel'
      BY <1>1, <2>3 DEF PassKeys, PassTunnel, name
    <2>12. QED
      BY <1>4, <2>8, <2>9, <2>10, <2>11 DEF PassKeys
  <1>7. QED
    BY <1>5, <1>6

\* A pass starts on the cached Gateway.
LEMMA FetchKeepsKeys ==
    ASSUME IndInv, KeyInv, NEW g \in Gateways, Fetch(g)
    PROVE  KeyInv' /\ PassKeys'
  <1>0. TypeOK /\ fresh.tunnel \in Nat \ {0} /\ Idle \in Workers
    BY KeyTypes, AbsentTypes DEF IndInv
  <1>1. /\ secret' = secret /\ cachedSecret' = cachedSecret /\ gateway' = gateway
        /\ cachedGateway' = cachedGateway /\ tunnel' = tunnel /\ fresh' = fresh
    BY DEF Fetch, kube, cache, cloud
  <1>2. KeyFrame
    BY <1>1 DEF KeyFrame
  <1>3. KeyInv'
    BY <1>2, KeysStay
  <1>4. CASE w' = Idle
    BY <1>0, <1>1, <1>3, <1>4, IdleKnowsNothing
  <1>5. CASE w' # Idle
    <2>1. /\ FirstStep(g) # "idle"
          /\ w' = [Idle EXCEPT !.pc = FirstStep(g), !.gw = g, !.snap = cachedGateway[g]]
      BY <1>5 DEF Fetch
    <2>2. /\ w'.pc = FirstStep(g) /\ w'.gw = g /\ w'.snap = cachedGateway[g]
          /\ w'.tunnel = 0
      BY <1>0, <2>1 DEF Idle
    <2>3. /\ cachedGateway[g].uid # 0
          /\ \/ /\ w'.pc = "CleanupGetTunnel" /\ cachedGateway[g].deleting
             \/ w'.pc = "AddFinalizer" /\ ~cachedGateway[g].deleting
             \/ /\ w'.pc = "EnsureTunnelSecret" /\ ~cachedGateway[g].deleting
                /\ cachedGateway[g].finalizer
      BY <2>1, <2>2 DEF FirstStep
    <2>4. SnapIsCached'
      BY <1>1, <2>2 DEF SnapIsCached
    <2>5. ApplyKeys'
      <3>1. CASE w'.pc = "EnsureTunnelSecret" /\ ~cachedGateway[g].deleting
                   /\ cachedGateway[g].finalizer
        <4>1. gateway[g].uid = cachedGateway[g].uid
          BY <2>3, <3>1 DEF IndInv, CacheGuard
        <4>2. secret[g].owner # 0 \/ Nothing(g)
          BY <2>3, <3>1, <4>1 DEF KeyInv, SecretsStay, Doomed
        <4>3. secret'[g].owner # 0 \/ Nothing(g)'
          BY <1>1, <4>2 DEF Nothing
        <4>4. QED
          BY <1>1, <2>2, <3>1, <4>2 DEF ApplyKeys, Nothing, KeySteps, ApplySteps
      <3>2. CASE w'.pc = "AddFinalizer" /\ ~cachedGateway[g].deleting
        BY <2>2, <3>2 DEF ApplyKeys, KeySteps, ApplySteps
      <3>3. CASE w'.pc = "CleanupGetTunnel"
        BY <3>3 DEF ApplyKeys, KeySteps, ApplySteps
      <3>4. QED
        BY <2>3, <3>1, <3>2, <3>3
    <2>6. CleanupKeys'
      <3>1. gateway[g].uid \notin {0, cachedGateway[g].uid} => Nothing(g)
        BY DEF KeyInv, SecretsStay
      <3>2. QED
        BY <1>1, <2>2, <3>1 DEF CleanupKeys, Nothing
    <2>7. PassTunnel'
      BY <1>0, <1>1, <2>2 DEF PassTunnel
    <2>8. QED
      BY <1>3, <2>4, <2>5, <2>6, <2>7 DEF PassKeys
  <1>6. QED
    BY <1>4, <1>5

\* A step of the worker keeps keys in step.
LEMMA WorkerKeepsKeys ==
    ASSUME OwnNames, IndInv, KeyInv, PassKeys, WorkerStep
    PROVE  KeyInv' /\ PassKeys'
  <1>1. CASE PlainStep
    <2>1. TypeOK
      BY DEF IndInv
    <2>2. /\ KeyFrame /\ cachedGateway' = cachedGateway
          /\ w' = Idle \/ \A g \in Gateways : gateway'[g].uid = gateway[g].uid
      BY <1>1, <2>1, PlainFrame
    <2>3. KeepsKey
      BY <1>1, <2>1, PlainKeepsKey
    <2>4. QED
      BY <2>2, <2>3, KeysStay, PassKeysGoOn
  <1>2. QED
    BY <1>1, FinalizerKeepsKeys, EnsureKeepsKeys, CreateKeepsKeys, StoreKeepsKeys,
       CleanupSecretKeepsKeys DEF WorkerStep, ApplyStep, CleanupStep, PlainStep

\* A new Gateway finds nothing of its predecessor, and is not the one a pass works on.
LEMMA NewGatewayKeepsKeys ==
    ASSUME OwnNames, IndInv, KeyInv, PassKeys, NEW g \in Gateways, CreateGateway(g),
           secret[g] = NoSecret, cachedSecret[g] = NoSecret
    PROVE  KeyInv' /\ PassKeys'
  <1>0. /\ TypeOK /\ w.gw \in Gateways /\ name \in Names /\ fresh \in FreshCounters
        /\ fresh.uid \in Nat \ {0} /\ gateway \in [Gateways -> GatewayObjects]
        /\ \A x \in Gateways : NameOf[x] \in Names
    BY KeyTypes, UpdateTypes DEF IndInv, TypeOK
  <1>1. /\ secret' = secret /\ cachedSecret' = cachedSecret /\ cachedGateway' = cachedGateway
        /\ tunnel' = tunnel /\ w' = w /\ gateway[g].uid = 0
    BY DEF CreateGateway, cache, cloud
  <1>2. fresh'.tunnel = fresh.tunnel /\ fresh'.key = fresh.key
    BY <1>0 DEF CreateGateway, FreshCounters
  <1>3. /\ gateway'[g].uid = fresh.uid
        /\ \A x \in Gateways \ {g} : gateway'[x] = gateway[x]
    <2>1. [NoGateway EXCEPT !.uid = fresh.uid].uid = fresh.uid
      BY DEF NoGateway
    <2>2. QED
      BY <1>0, <2>1 DEF CreateGateway
  <1>4. Nothing(g)
    <2>1. tunnel[NameOf[g]].id = 0
      BY <1>0, <1>1 DEF IndInv, NoOrphanTunnels, OwnNames
    <2>2. QED
      BY <2>1 DEF Nothing, NoSecret
  <1>5. \A x \in Gateways : Nothing(x) => Nothing(x)'
    BY <1>1 DEF Nothing
  <1>6. ValidSecrets' /\ OneKey' /\ TunnelIds'
    BY <1>1, <1>2 DEF KeyInv, ValidSecrets, ValidSecret, OneKey, TunnelIds
  <1>7. SecretOwners'
    BY <1>1, <1>3, <1>4 DEF KeyInv, SecretOwners, Nothing
  <1>8. SecretsStay'
    <2>1. \A x \in Gateways \ {g} : Doomed(x) => Doomed(x)'
      BY <1>1, <1>3 DEF Doomed
    <2>2. Nothing(g)'
      BY <1>4, <1>5
    <2>3. \A x \in Gateways \ {g} :
             /\ secret'[x].owner = secret[x].owner /\ gateway'[x] = gateway[x]
             /\ cachedGateway'[x] = cachedGateway[x]
      BY <1>1, <1>3
    <2>4. QED
      BY <1>5, <2>1, <2>2, <2>3 DEF KeyInv, SecretsStay
  <1>9. SnapIsCached'
    <2>1. w.snap.uid # fresh.uid
      BY <1>0 DEF IndInv, FreshUids
    <2>2. QED
      BY <1>0, <1>1, <1>3, <2>1 DEF PassKeys, SnapIsCached
  <1>10. ApplyKeys'
    BY <1>0, <1>1 DEF PassKeys, ApplyKeys, Nothing
  <1>11. CleanupKeys'
    <2>1. CASE w.gw = g
      BY <1>1, <1>4, <2>1 DEF CleanupKeys, Nothing
    <2>2. CASE w.gw # g
      BY <1>0, <1>1, <1>3, <2>2 DEF PassKeys, CleanupKeys, Nothing
    <2>3. QED
      BY <2>1, <2>2
  <1>12. PassTunnel'
    BY <1>1, <1>2 DEF PassKeys, PassTunnel, name
  <1>13. QED
    BY <1>6, <1>7, <1>8, <1>9, <1>10, <1>11, <1>12 DEF KeyInv, PassKeys

\* The garbage collector takes the Secret of a Gateway that is gone.
LEMMA CollectKeepsKeys ==
    ASSUME IndInv, KeyInv, PassKeys, NEW g \in Gateways, CollectSecret(g)
    PROVE  KeyInv' /\ PassKeys'
  <1>0. TypeOK /\ w.gw \in Gateways
    BY KeyTypes DEF IndInv
  <1>1. /\ gateway' = gateway /\ cachedGateway' = cachedGateway /\ tunnel' = tunnel
        /\ cachedSecret' = cachedSecret /\ fresh' = fresh /\ w' = w
        /\ secret' = [secret EXCEPT ![g] = NoSecret] /\ secret[g].owner # 0
        /\ gateway[g].uid # secret[g].owner
    BY DEF CollectSecret, cache, cloud, Orphaned
  <1>2. gateway[g].uid = 0
    BY <1>1 DEF KeyInv, SecretOwners
  <1>3. KeyInv' /\ \A x \in Gateways : Nothing(x) => Nothing(x)'
    BY <1>1, <1>2, SecretGoes
  <1>4. SnapIsCached' /\ PassTunnel'
    BY <1>1 DEF PassKeys, SnapIsCached, PassTunnel, name
  <1>5. ApplyKeys'
    <2>1. w.pc \in ApplySteps => w.gw # g
      BY <1>2 DEF IndInv, ApplyGuard
    <2>2. w.pc \in ApplySteps => secret'[w.gw] = secret[w.gw]
      BY <1>0, <1>1, <2>1 DEF TypeOK
    <2>3. w.pc = "EnsureTunnelSecret" => w.pc \in ApplySteps
      BY DEF ApplySteps
    <2>4. w.pc \in KeySteps => w.pc \in ApplySteps
      BY DEF KeySteps
    <2>5. QED
      BY <1>1, <2>2, <2>3, <2>4 DEF PassKeys, ApplyKeys, Nothing
  <1>6. CleanupKeys'
    <2>1. \A x \in Gateways : Nothing(x) => /\ secret'[x].owner = 0
                                            /\ cachedSecret'[x].owner = 0
                                            /\ tunnel'[NameOf[x]].id = 0
      BY <1>3 DEF Nothing
    <2>2. QED
      BY <1>0, <1>1, <2>1 DEF PassKeys, CleanupKeys, Nothing
  <1>7. QED
    BY <1>3, <1>4, <1>5, <1>6 DEF PassKeys

\* What users and Kubernetes do otherwise touches no Secret.
LEMMA OthersFrameKeys ==
    ASSUME NoSecretTampering, IndInv, UserStep \/ \E g \in Gateways : KubeStep(g),
           \A g \in Gateways : ~CreateGateway(g) /\ ~CollectSecret(g)
    PROVE  KeyFrame /\ w' = w
  <1>0. TypeOK /\ gateway \in [Gateways -> GatewayObjects] /\ tunnel \in [Names -> TunnelObjects]
    BY DEF IndInv, TypeOK
  <1> DEFINE Frames == KeyFrame /\ w' = w
  <1>1. ASSUME NEW g \in Gateways, DeleteGateway(g) \/ EditGateway(g)
        PROVE  Frames
    <2>1. /\ secret' = secret /\ cachedSecret' = cachedSecret /\ tunnel' = tunnel
          /\ cachedGateway' = cachedGateway /\ fresh' = fresh /\ w' = w
      BY <1>1 DEF DeleteGateway, EditGateway, cache, cloud
    <2>2. \A x \in Gateways : gateway'[x].uid \in {0, gateway[x].uid}
      <3>1. /\ [gateway[g] EXCEPT !.deleting = TRUE].uid = gateway[g].uid
            /\ [gateway[g] EXCEPT !.dnsManaged = ~@].uid = gateway[g].uid
            /\ NoGateway.uid = 0
        BY <1>0 DEF GatewayObjects, NoGateway
      <3>2. CASE DeleteGateway(g)
        BY <1>0, <3>1, <3>2 DEF DeleteGateway
      <3>3. CASE EditGateway(g)
        BY <1>0, <3>1, <3>3 DEF EditGateway
      <3>4. QED
        BY <1>1, <3>2, <3>3
    <2>3. QED
      BY <2>1, <2>2 DEF KeyFrame
  <1>2. ASSUME NEW g \in Gateways, ChangeClass(g) \/ \E hosts \in SUBSET Hostnames :
                                                      ChangeRoutes(g, hosts)
        PROVE  Frames
    BY <1>2 DEF ChangeClass, ChangeRoutes, kube, cache, cloud, KeyFrame
  <1>3. ASSUME NEW g \in Gateways, TamperSecret(g)
        PROVE  Frames
    BY <1>3 DEF TamperSecret, Tampers, NoSecretTampering
  <1>4. ASSUME NEW n \in Names, TamperTunnel(n)
        PROVE  Frames
    <2>1. \A x \in Names : tunnel'[x] = tunnel[x] \/ tunnel'[x] = NoTunnel
      BY <1>0, <1>4 DEF TamperTunnel
    <2>2. NoTunnel.id = 0
      BY DEF NoTunnel
    <2>3. QED
      BY <1>4, <2>1, <2>2 DEF TamperTunnel, kube, cache, KeyFrame
  <1>5. ASSUME NEW h \in Hostnames, TamperDNS(h)
        PROVE  Frames
    BY <1>5 DEF TamperDNS, kube, cache, KeyFrame
  <1>6. ASSUME NEW g \in Gateways, SyncGateway(g)
        PROVE  Frames
    <2>1. \A x \in Gateways : cachedGateway'[x] \in {cachedGateway[x], gateway[x]}
      BY <1>0, <1>6 DEF SyncGateway, TypeOK
    <2>2. QED
      BY <1>6, <2>1 DEF SyncGateway, kube, cloud, KeyFrame
  <1>7. ASSUME NEW g \in Gateways, SyncSecret(g)
        PROVE  Frames
    <2>1. \A x \in Gateways : cachedSecret'[x] \in {cachedSecret[x], secret[x]}
      BY <1>0, <1>7 DEF SyncSecret, TypeOK
    <2>2. QED
      BY <1>7, <2>1 DEF SyncSecret, kube, cloud, KeyFrame
  <1>8. ASSUME NEW g \in Gateways, SyncDeployment(g) \/ CollectDeployment(g)
        PROVE  Frames
    BY <1>8 DEF SyncDeployment, CollectDeployment, kube, cache, cloud, KeyFrame
  <1> HIDE DEF Frames
  <1>9. Frames
    BY <1>1, <1>2, <1>3, <1>4, <1>5, <1>6, <1>7, <1>8 DEF UserStep, KubeStep
  <1>10. QED
    BY <1>9 DEF Frames

\* A crash forgets the pass and refreshes the caches.
LEMMA CrashKeepsKeys ==
    ASSUME IndInv, KeyInv, Crash
    PROVE  KeyInv' /\ PassKeys'
  <1>1. /\ KeyFrame /\ w' = Idle /\ fresh' = fresh
    BY DEF Crash, kube, cloud, KeyFrame
  <1>2. fresh.tunnel \in Nat \ {0}
    BY KeyTypes DEF IndInv
  <1>3. QED
    BY <1>1, <1>2, KeysStay, IdleKnowsNothing

\* At the start there is no Secret and no tunnel.
LEMMA KeysInit == Init => KeyInv /\ PassKeys
  <1> SUFFICES ASSUME Init PROVE KeyInv /\ PassKeys
    OBVIOUS
  <1>1. /\ w.pc = "idle" /\ w.tunnel = 0 /\ fresh.tunnel = 1 /\ fresh.key = 2
    BY DEF Init, Idle
  <1>2. /\ \A g \in Gateways : /\ gateway[g].uid = 0 /\ secret[g] = NoSecret
                               /\ cachedSecret[g] = NoSecret
        /\ \A n \in Names : tunnel[n].id = 0
    BY DEF Init, NoGateway, NoTunnel
  <1>3. NoSecret.owner = 0 /\ NoSecret.token.tunnel = 0
    BY DEF NoSecret, NoToken
  <1>4. KeyInv
    BY <1>1, <1>2, <1>3 DEF KeyInv, ValidSecrets, ValidSecret, OneKey, SecretOwners,
       SecretsStay, TunnelIds, BadKey
  <1>5. PassKeys
    BY <1>1, <1>2 DEF PassKeys, SnapIsCached, ApplyKeys, CleanupKeys, PassTunnel, KeySteps,
       ApplySteps, CleanupSteps
  <1>6. QED
    BY <1>4, <1>5

\* The token cloudflared is given carries the key its tunnel was created with (secret.go,
\* reconciler.go), whatever fails, crashes or is read stale, and even when tunnels are
\* deleted by hand: as long as nobody touches the Secrets, and a Gateway is created again
\* only after the garbage collector has taken its predecessor's Secret.
THEOREM TokensMatchTunnels ==
    ASSUME OwnNames, NoSecretTampering
    PROVE  Spec /\ [][CleanRecreation]_vars => []TokensAuthenticate
  <1>1. IndInv /\ KeyInv /\ PassKeys /\ [Next]_vars /\ [CleanRecreation]_vars
          => KeyInv' /\ PassKeys'
    <2> SUFFICES ASSUME IndInv, KeyInv, PassKeys, [Next]_vars, [CleanRecreation]_vars
                 PROVE  KeyInv' /\ PassKeys'
      OBVIOUS
    <2>1. CASE UNCHANGED vars
      <3>1. KeyFrame /\ w' = w
        BY <2>1 DEF vars, kube, cache, cloud, KeyFrame
      <3>2. QED
        BY <3>1, KeysStay, PassKeysStay
    <2>2. ASSUME NEW g \in Gateways, CreateGateway(g)
          PROVE  KeyInv' /\ PassKeys'
      <3>1. gateway[g].uid = 0 /\ gateway'[g].uid # 0
        <4>1. fresh.uid \in Nat \ {0} /\ gateway \in [Gateways -> GatewayObjects]
          BY UpdateTypes DEF IndInv, TypeOK
        <4>2. [NoGateway EXCEPT !.uid = fresh.uid].uid = fresh.uid
          BY DEF NoGateway
        <4>3. QED
          BY <2>2, <4>1, <4>2 DEF CreateGateway
      <3>2. CleanRecreation
        BY <3>1 DEF vars, kube
      <3>3. QED
        BY <2>2, <3>1, <3>2, NewGatewayKeepsKeys DEF CleanRecreation
    <2>3. ASSUME NEW g \in Gateways, CollectSecret(g)
          PROVE  KeyInv' /\ PassKeys'
      BY <2>3, CollectKeepsKeys
    <2>4. CASE Next
      <3>1. CASE WorkerStep
        BY <3>1, WorkerKeepsKeys
      <3>2. CASE \E g \in Gateways : Fetch(g)
        BY <3>2, FetchKeepsKeys
      <3>3. CASE Crash
        BY <3>3, CrashKeepsKeys
      <3>4. CASE UserStep \/ \E g \in Gateways : KubeStep(g)
        BY <2>2, <2>3, <3>4, OthersFrameKeys, KeysStay, PassKeysStay
      <3>5. QED
        BY <2>4, <3>1, <3>2, <3>3, <3>4 DEF Next
    <2>5. QED
      BY <2>1, <2>4
  <1>2. IndInv /\ KeyInv => TokensAuthenticate
    <2> SUFFICES ASSUME IndInv, KeyInv, NEW g \in Gateways, NEW n \in Names,
                        tunnel[n].id # 0, secret[g].token.tunnel = tunnel[n].id
                 PROVE  secret[g].token.key = tunnel[n].key
      BY DEF TokensAuthenticate
    <2>1. n = NameOf[g]
      BY DEF KeyInv, TunnelIds
    <2>2. secret[g].owner # 0
      BY DEF KeyInv, ValidSecrets, ValidSecret, NoSecret, NoToken
    <2>3. secret[g].token.key = secret[g].key
      BY <2>2 DEF KeyInv, ValidSecrets, ValidSecret
    <2>4. tunnel[n].key = secret[g].key
      BY <2>1, <2>2 DEF KeyInv, OneKey
    <2>5. QED
      BY <2>3, <2>4
  <1>3. QED
    BY KeysInit, Invariance, <1>1, <1>2, PTL DEF Spec
=============================================================================
