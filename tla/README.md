# A TLA+ development of cloudflared-gateway

`cloudflared-gateway` is a Kubernetes controller for the Gateway API. For every
`Gateway` of its class it runs one Cloudflare Tunnel and one `cloudflared`
Deployment, turns the attached routes into the tunnel's ingress rules, publishes
DNS records for their hostnames and applies its own policies (Cloudflare Access,
origin tuning). This directory holds TLA+ modules that model the controller's core,
the TLC configurations that check them, and proofs checked by TLAPS. `PROJECT.json`
maps every definition to the lines it models and lists runs, mutants, hazards,
findings and theorems.

Source paths below are relative to `internal/controller/` unless they start with
`cloudflare/` (that is, `internal/cloudflare/`).

## 1. Inventory

| Component | State it keeps | Operations | What makes it correct |
|---|---|---|---|
| Reconcile loop (`reconciler.go`, `errors.go`) | finalizer and status of Gateways, the tunnel, local variables of a pass | `Reconcile`, `reconcile`, `apply`, `cleanup`, `applyDeployment` | nothing in Cloudflare outlives its Gateway; no event or error is lost; a Gateway left alone is served; a deleted one disappears |
| Tunnel Secret and token (`secret.go`) | one Secret per Gateway: 32-byte key, token | `EnsureTunnelSecret`, `StoreTunnelToken` | the token carries the key its tunnel was created with |
| DNS (`dns.go`, batches in `cloudflare/client.go`) | CNAME records with an ownership comment | `reconcileDNS`, `teardownDNS`, `planDNSChanges`, `matchZone`, `chunkDNSChanges` | only own records change; each hostname is published once, in its longest zone; one failing zone does not stop the others |
| Policies (`policy.go`, `accesspolicy.go`, `originpolicy.go`) | ancestor statuses, `Overridden` and `PolicyAffected` conditions | `applyAccessPolicies`, `applyOriginPolicies`, `evaluatePolicyAcceptance`, the status patches and prunes | status and pushed configuration name the same policy; at most 16 ancestors; own writes do not keep the controller busy |
| Route attachment (`attachment.go`) | none (pure, reads Namespaces) | `routeAttachmentHostnames`, `intersectHostnames`, kind and namespace checks | a route serves exactly the hostnames it shares with an admitting listener |
| Ingress rules (`cloudflare/ingress.go`, `precedence.go`, `builtrule.go`, `merge.go`) | none (pure) | the `Build*IngressRules`, `SortByPrecedence`, `MergeOriginRequest` | first-match evaluation picks the most specific match, whatever order routes are listed in |
| Watches (`controller.go`) | the work queue | the watch predicates and map functions | every change that matters enqueues the right Gateways |
| Gateway, class and route status (`status.go`) | conditions, listener and parent statuses | the `Patch*Status` functions, `computeListenerCounts`, `collectUnsupportedMatchRoutes` | `Programmed=True` only with DNS in place; statuses speak of the present generation and of what was pushed |
| Backend resolution (`servicebackend.go`, `refgrant.go`, `xbackend.go`) | the collections of one pass: ports, permits, fetched XBackends | `collectServiceBackends`, `collectReferencedXBackends`, `resolveServiceRef`, `translateXBackend`, `CheckReferenceGrantTo`, `serviceToGateways` | what can be served is served, everything else fails closed; creating or deleting a Service or grant is enough |
| XBackend status (`xbackendstatus.go`) | at most 16 ancestor entries per XBackend | `patchXBackendStatuses`, `pruneXBackendAncestorStatus` | a verdict is about the generation it names |
| Backend TLS policies (`backendtls.go`) | none | `applyBackendTLSPolicies`, `GetBackendTLSConfig` | an external backend keeps its verification; a Service gets its own policy |
| Tunnel configuration resource (`tunnelconfig.go`) | none | `resolveTunnelConfig`, `mergeTunnelConfigSpec` | class defaults and Gateway override are merged field by field; what cannot be read is left out |
| cloudflared Deployment (`deployment.go`) | the Deployment of each Gateway | `BuildCloudflaredDeployment`, `applyDeployment` | it has the settings now in force |
| Start-up (`cmd/main.go`, `preflight.go`) | none | flags, credentials, CRD checks | the process never runs half configured, and runs once the cluster is ready |

How they interact. Informers deliver events to the watches, which put Gateways on a
work queue that holds each Gateway once. One worker takes a Gateway and runs a pass:
a straight line of calls to the Kubernetes and Cloudflare APIs. Reads come from
informer caches that lag; writes go to the API server and are rejected on a version
conflict. The only state a pass keeps is in local variables, so what a pass leaves
undone must be visible in the objects or in an error that requeues. The policies'
status writes come back as events of their own.

The hard behaviours are therefore: a failure or crash between two calls of a pass;
calls that took effect although they report an error; caches that show an earlier
incarnation; edits by users during a pass, which reads a dozen kinds of objects at
different moments; a Gateway deleted and recreated; two
listings of the same objects in one pass; records shared with other writers; and
whether anything still happens after the last event. The list with lines is under
`hazards` in `PROJECT.json`.

## 2. Plan

Done, in this order:

1. `GatewayReconciler`: the loop, its objects, failures, crashes; every safety property a
   run checks proved.
2. `DNSReconciler`: one DNS pass taken apart, and the abstract `DNSOwnership` it
   implements; the implementation and the outcome of a pass proved.
3. `PolicyAttachment`: winner, acceptance and statuses; proved.
4. `RouteTable`: attachment, rules, precedence, the pushes that bring them to
   Cloudflare, listener counts and `PartiallyInvalid`; proved.
5. `BackendTranslation` and `XBackend`: what an XBackend becomes and how origin settings
   are layered; proved for any ports and protocols.
6. `BackendResolution`: references, grants, watches, TLS policies, route and XBackend
   statuses, composed with the translation; proved.
7. `TunnelConfig`: configurations, Deployments and the condition of the class; proved.
8. `Startup`; proved.

What would come next: a version counter for Deployments shared by `GatewayReconciler` and
`TunnelConfig`.

## 3. Modules and how they correspond to the code

**GatewayReconciler** (`MCGatewayReconciler`). `gateway`, `secret`, `deployment` are
the API server's objects, `cachedX` the informer's copies, `tunnel` and `dns` what
Cloudflare holds, `queue` the work queue and `w` the worker: its program counter, the
cached Gateway it read (`snap`) and the local variables of `apply` and `cleanup`. Every
action of the worker is one remote call, named as in the code: `Fetch` (everything
`reconcile` decides from the cache), `AddFinalizer`, `EnsureTunnelSecret`, `GetTunnel`,
`DeleteTunnel`, `CreateTunnel`, `StoreToken`, `ApplyDeployment`, `CollectRoutes`,
`PushConfig`, `ReconcileDNS`, `PatchStatus`, and for deletion `CleanupGetTunnel` to
`RemoveFinalizer`. `Fails` ends a pass with an error, `FailsAndGoesOn` is cleanup's
best-effort rule; either can happen with or without the call having taken effect.
`Crash` forgets `w` and refills the queue. Users create, delete and edit Gateways,
classes and routes (`CreateGateway` ... `ChangeRoutes`), or tamper with what the
controller owns. A key is a number and a token the pair of tunnel and key; an object's
resourceVersion is its content. The set of hostnames stands for the ingress rules.

**DNSReconciler** (`MCDNSReconciler`) takes `ReconcileDNS` and `TeardownDNS` apart:
`Start`, `ListZones`, `ListRecords` (which plans), `ApplyBatch` once per batch,
`ZonesDone`, `Return`. A teardown is a pass that desires nothing. `Wish` stands for
whatever changes a Gateway's hostnames or tunnel, `ForeignCreate`, `ForeignEdit` and
`AddZone` for other users of the account; `meddled` remembers what they have done since the
pass began, for the properties. Names are sequences of labels, so `matchZone`
is translated, not assumed.

**DNSOwnership** is the promise: a record is created, changed or removed by the
controller only for the Gateway it works for, and only in slots that are free or that
this Gateway filled. `DNSReconciler!Ownership` is the refinement mapping; the history
field `maker` of a record exists for it.

**PolicyAttachment** (`MCPolicyAttachment`). `Start` takes the first listing and the
attached routes, `Push` the configuration, `ListAgain` the second listing of access
policies, `PatchPolicy` one status update at a time, `PatchGateway` the statuses of routes
and Gateway; `StartCleanup`, `PrunePolicy`, `RemoveFinalizer` the deletion. A condition is
its status, the generation it observed and the time of its last transition, which
`transitionTime` keeps while the status stays the same. A status update is rejected, and the
error dropped (`UpdateStatus`), if the policy has changed since the worker listed it
(`outdated`), as resource versions have it; an update that changes nothing, the times
included, is no new version. Any other one changes the policy for the informer too
(`undelivered`), whose watch has no predicate, so that the event wakes every Gateway.

**RouteTable** (`MCRouteTable`). Pure operators named as the functions they translate
(`intersectHostname`, `routeAttachmentHostnames`, `morePrecedent`, ...) inside a small
loop: `CollectRoutes` lists the routes of each kind in any order and builds the rules, one
per route rule, hostname and match, in the order of the code's loops (`Build`; a route's
hostnames in one fixed order, on which nothing depends), `PushConfig` sends
them, `PatchRouteStatuses` and `PatchGatewayStatus` report them, `EditRoute` and
`EditListeners` change the inputs at any time. `Covers`, `MatchesPath` and `Answer` say
what cloudflared does with the table. Hostnames are labels with a wildcard flag, paths are
segments; lengths count labels and segments, which orders any two names or literals that
match one request as their character counts do. A rule answers with its route and index;
where it forwards to is `BackendResolution`'s subject.

**BackendTranslation** holds the pure part of backends: `translateReason` runs the checks
of `translateXBackend` in their order, `translateOrigin` gives the origin settings,
`MergeOriginRequest`, `ruleOrigin` and `applyOriginPolicies` layer filters, backend and
policies. **XBackend** states what must hold of these operators for every spec an XBackend
may have (`AllXBackends`) in a process that has XBackend support on, which is the one thing
of `BackendResolution`'s state they depend on.

**BackendResolution** (`MCBackendResolution`). `api` is what the API server holds of routes,
Services, XBackends, ReferenceGrants and BackendTLSPolicies; `cached` the informers' copies
and the process's `ExperimentalBackends` flag. A pass is `CollectRoutes`,
`collectServiceBackends`, `collectReferencedXBackends`, `PushConfig`, one
`PatchRouteStatus` per route, `ListXBackends`, one `patchXBackendStatus` per XBackend,
`EndPass`; a deletion is `StartCleanup`, `pruneXBackendAncestorStatus`,
`RemoveFinalizer`. What earlier steps read is kept in `w`, as in the variables of `apply`.
`SyncX` brings a copy up to date and enqueues what the watch's predicate and map function
say. Objects with a status have a generation, which the watches look at, and a version,
which updates must match. `pushed` holds for each rule its service and its origin
settings. An order the code inherits from a listing is a choice of the model.

**TunnelConfig** (`MCTunnelConfig`). `Fetch`, `GetClass`, `ResolveClassRef`,
`ResolveGatewayRef`, `PatchGatewayClassStatus`, `applyDeployment` and `EndPass` are the
steps of `apply` that matter to a Deployment; a configuration is the function of the fields it
sets, so that merging is by field. A Deployment is its settings, the labels shared by it and its
pods, and annotations. The API server refuses one whose pods its selector misses
(`Admitted`). Deployments are cached and not watched: `SyncDeployment` enqueues nothing.

**Startup** (`MCStartup`). `ParseFlags`, `NewClientFromEnv`, `resourceExists` once per
resource and `CheckCRD` once per CRD; `EditCRDs` changes the cluster between any two, and
`StartAgain` is the kubelet. A bundle version is a release line with or without a
prerelease, missing, or invalid.

The modules overlap on purpose where one takes as a single step what another takes
apart: `GatewayReconciler.ReconcileDNS` is a `DNSReconciler` pass, its set of served
hostnames is `RouteTable`'s table, its `PatchStatus` includes `PolicyAttachment`'s and
`BackendResolution`'s, its `ApplyDeployment` is `TunnelConfig`'s with the settings left
out. Each module has the watches of the objects it models.

## 4. Runs

| Run | Checks | Shows |
|---|---|---|
| `lifecycle` | `TypeOK` `NoOrphanTunnels` `NoOrphanRecords` `SettledIsServed` `PublishedHostsAreServed` | a Gateway created, deleted and recreated, two hostnames, a failed call and a crash |
| `tampering` | `NoOrphanRecords` `ReadyMeansPublished` | Secret corrupted, cleared or deleted, tunnel deleted, foreign record, annotation and class changed |
| `convergence` | `TokensAuthenticate` `Converges` `DeletionCompletes` | liveness after failures, a crash, and a class that goes and comes back |
| `lost_regeneration` | `TokensAuthenticate`, violated | section 7 |
| `dns_pass` | `TypeOK` `PassOutcome` `PublishedOnce` `MarkerRespected` | nested zones, batches of one, while another zone appears or others create, delete, redirect or re-mark a record |
| `dns_settles` | `ImplementsOwnership` `EventuallySettled` | two Gateways that wish the same hostnames, other users in the zone; records end up as wished, and a name given up goes to the other Gateway |
| `policy_status` | `TypeOK` `StatusIsCurrent` `AcceptedIsApplied` `AffectedIsCurrent` | two policies and two Gateways that compete for one ancestor entry; the cap is part of `TypeOK` |
| `policy_rest` | `ComesToRest` | the controller's own writes, whose events wake it up, do not keep it busy, although every write could carry a new time |
| `routing` | `TypeOK` `ServesIntersection` `MostSpecificWins` `PartialIsCurrent` `ListenersAreCurrent` | five routes of four kinds, three sets of listeners, edits during a pass |
| `backends` | `TypeOK` `ServesResolvable` `ResolvedRefsIsCurrent` `XBackendVerdicts` `TLSOriginIsOwn` `ServiceTLSIsCurrent` | any two of: a changed route, Service, XBackend, grant or TLS policy, a deleted Gateway, a failed call, a restart with the flag on or off |
| | `TranslationIsDocumented` `VerificationIsKept` | every combination of type, port, protocol, TLS mode and validation, with every route kind, filter and policy layer |
| `config` | `TypeOK` `DeploymentIsConfigured` `ClassIsJudged` `DegradesToDefaults` | two Gateways of one class, any two of: a changed configuration, class or Gateway, a failed call, a configuration that cannot be read, a restart |
| `startup` | `StartFollowsTable` `EventuallyRuns` | every setting of flags, environment and credentials, three edits of the CRDs, a failed read |

`TranslationIsDocumented`, which also says when an XBackend is accepted, and
`VerificationIsKept` quantify over specs, not states: of the state they only say that the process has its flag on, and the rest is
evaluated once. The theorems about them hold for all ports and protocols.

**Bounds.** Every counter that could grow is bounded by a named constant (`MaxCreates`,
`MaxFailures`, ...) in the guard of the action that uses it. One failure and one crash
are enough for each window between two calls, because a pass starts from the objects
alone; a second failure finds a state that one failure at another place also leaves
behind. Two incarnations are needed for stale caches, two hostnames or zones for one to
fail while the other goes on, two writers for a race, an ancestor cap of one for two
Gateways to meet the limit. `dns_pass` sets the batch size to one so that every change
set spans several transactions, and has one edit of others, of every kind; what two edits in
a row do, such as a record that is deleted and created again, is left to the theorems, which
bound nothing. In `PolicyAttachment` failed passes and lost status writes share
`MaxFailures`: `policy_rest` has one of either kind, `policy_status` none, since its
properties speak of states in which no write was lost. Transition times are only compared for
equality with the one a condition has, so two `Times` tell a kept one from a new one; where
no property depends on them one is enough. `routing` has an exact and a wildcard name at each level
of a three-level name, path matches of every type, equal and different creation times,
and both namespaces on either side of the selector. `BackendResolution` and `TunnelConfig`
have one bound for all `Disturbances` together: users' edits, failures and restarts
compete for two, which is one change during a pass and another during the pass that
answers it, a BackendTLSPolicy that comes and goes, for example. In `backends` a TLS route
has a rule for an XBackend next to one for a Service, or two that name the same Service, so
that both halves of what is said of TLS origins have something to say. `backends` starts with all objects in place, so that one edit removes any of
them, and has references across namespaces with and without a grant, to a Service with a
UDP port or none, without a port, to an unknown kind, and several in one rule; ports for
the translation lie at both ends of the range and beyond. In `config` both configurations
exist at first and one of those they may become makes the API server refuse the
Deployment. `startup` has a release line below and above the one built against, and two of
the eight stable resources. `lifecycle` uses the symmetry of hostnames and `config` that
of Gateways, which no action names; no liveness run uses symmetry. Runs say
`CHECK_DEADLOCK FALSE` because the users' bounded edits end and the system then may
rest; that it rests only where it should is what `SettledIsServed`, `Converges`,
`EventuallySettled`, `StatusIsCurrent`, `ServesIntersection`, `ServesResolvable` and
`DeploymentIsConfigured` say.

**Fairness.** The worker is weakly fair: a goroutine in the middle of a pass goes on, and
every API call returns. Taking a given Gateway off the queue is strongly fair
(`SF_vars(Fetch(g))`, `Take(g)`): the work queue is first-in first-out and a Gateway with
a rate limit still comes up again, though not at every moment. Caches and the garbage
collector are weakly fair: watches deliver and collection runs. In `Startup` the
process goes on and the kubelet restarts a container that exits. Nothing is assumed of
users, failures and crashes except that they stop, which the bounds say; that a class is
there in the end, or that nobody else edits a zone, is a condition of `DeletionCompletes`
and `EventuallySettled`.

**Mutants.** For each property of each passing run `PROJECT.json` names an operator
(`X_mY` beside `X`) with a plausible bug under which TLC finds the property violated.

## 5. Proofs

Every safety property of section 4 is a theorem for all values of the constants, from the assumptions named in the modules. Where a theorem has a further
hypothesis it is one whose failure has a counterexample in the model, named below. The
constants that enlarge the instances (bounds on edits, failures, crashes, restarts) are
arbitrary in all of them.

**`GatewayReconciler_proofs`**, from `GatewaysAssumption`. `TypeCorrect`,
`TunnelsAreNeverOrphaned` and `RecordsAreNeverOrphaned` hold for every set of Gateways,
names and hostnames, and for Gateways that share a name. The two invariants are not
inductive: the worker acts on a cached Gateway, so one must know that what it read is still
true. `IndInv` adds

- `CacheGuard`: a Gateway the cache shows alive with its finalizer still exists with it,
  for only this controller removes the finalizer, and only from a Gateway it has seen
  being deleted;
- `ApplyGuard` and `CleanupGuard`: the same for the copy the current pass works on;
- `CleanupProgress`: without an error so far, the tunnel and the records of the Gateway
  are gone when `RemoveFinalizer` is reached;
- `FreshUids` (uids are not reused) and `RecordOwners` (only DNS management marks
  records).

`Invariance` proves `Spec => []IndInv`, one step per action of `Next`. On top of it:

- `ReadyAfterDNS` (`ReadyMeansPublished`) needs what a pass has done so far: the tunnel
  serves nothing but what it pushed (`ConfigGuard`) and, if it has met no error, the records
  are there (`RecordsGuard`). No condition: a tunnel somebody deletes has no configuration left.
- `ServedBeforePublished` (`PublishedHostsAreServed`) needs `PushedGuard`, that the tunnel
  still has the id and the configuration the pass pushed, and so `NoTunnelTampering`:
  between the push and the records somebody may delete the tunnel in the dashboard, and the
  record then points at nothing until the next pass.
- `NoLostWakeUp` (`SettledIsServed`) needs in addition `PassIsCurrent` (a pass has read the
  present routes, or its Gateway is queued), `UidsPlaced` and `Managed`. Its hypotheses are
  `NoTunnelTampering` (Cloudflare sends no event), `NoAnnotationEdits` (the dns-managed
  annotation changes no generation, so it raises none either) and `OwnNames` (Gateways of
  one name in two namespaces overwrite each other's tunnel, section 7).
- `TokensMatchTunnels` (`TokensAuthenticate`) needs `KeyInv`: Secret, cached copy and tunnel
  have one key (`OneKey`); a Secret is missing only where nothing else of the Gateway is
  left or the cache shows its deletion (`SecretsStay`); tunnel ids are not reused
  (`TunnelIds`). `PassKeys` says it of the pass. Tunnels may be deleted by hand here. The
  hypotheses are `OwnNames`, `NoSecretTampering` (a regenerated key can miss the tunnel) and
  `CleanRecreation` (so can the key of a predecessor); section 7 has both counterexamples.

**`DNSReconciler_proofs`**, from `DNSAssumption`: `TypeCorrect`, and `OwnershipIsRespected`,
that `Spec` implements `DNSOwnership!Spec`, for any zones, hostnames, Gateways and batch
size. Ownership is checked on the listed copy and the batch only names ids, so the
invariant is about ids: `FreshIds` (an id is used once), `MarksMatch` (a Gateway's mark is
on records made for it) and `PendingOwn` (a record that still has the id of a planned update
or delete was made for the Gateway of the pass). Each action then maps to `Mutate`, `Turn`,
`Others` or a stuttering step. `PassesPublish` (`PassOutcome`) follows a zone from listing
to last batch: `ZonePending` says that what the zone lacks is exactly what is still planned,
`ZonesDoneRight` that finished zones stay right. The property speaks of passes during which
others create records and zones but do not delete, redirect or re-mark existing records
(`NoForeignEdits`), which a pass cannot see between listing and return.
`HostnamesArePublishedOnce` (`PublishedOnce`) has no hypothesis: `NoSurplus` says that a
record of the Gateway beyond the desired ones is still planned for deletion, which nobody
else can spoil, and `SuffixOfLength` (two suffixes of one length are the same) that a name
is desired in one zone only. `MarkersAreRespected` (`MarkerRespected`) speaks of passes
during which nobody replaces a comment (`NoTakeover`), whatever else happens to the records:
a record that still has the id of a planned change has the mark it was listed with
(`PendingMarked`). A comment that is replaced between listing and batch does not protect
the record, for a batch names ids alone (`dns.go:181`); what holds then too is
`DNSOwnership`.

**`PolicyAttachment_proofs`**, from `PolicyAssumption` (finitely many policies and Gateways):
`AncestorsAreCapped` (types and the cap of 16), `StatusesAreCurrent`, `AcceptedPoliciesApply`
and `AffectedIsExact`. A pass lists twice and writes one status at a time, so `PassFresh`
says that a Gateway that is not queued works on the informers' present copies, and only on
copies the informers too have outdated, and `StatusFresh` that a status that differs from the
decision belongs to a version not yet delivered, whose event will queue the Gateway again.
`CopiesAgree` says that a copy of a policy that has not changed since is the policy, for
the informer's (`undelivered`) and the worker's (`outdated`). The two results about statuses speak, as the properties do, of states in which
no status write was lost.

**`BackendResolution_proofs`**, from `ResolutionAssumption`: `BackendTypes`,
`TunnelsServeResolvable`, `ResolvedRefsAreCurrent`, `XBackendsAreJudged`,
`TLSOriginsAreOwn` and `ServiceTLSFollowsPolicies`. `BackendInv` has the types, `CopiesAreOld`, `Verdicts` (an entry is
right for its generation), `InWork` and, for each Gateway, `Fresh`: it is queued, or all its
pass has read, pushed and reported is what reading the informers' copies at once would give.
The heart of the proof is the mapping of events: copies that differ for a Gateway
(`SameFor`) come with an event whose map function names that Gateway. `WorstIsWorst` says
that the fold over reasons is their maximum, `OnlyNameClaims` that the Service looked up by
hostname is a rule's own if no other one is named for that hostname.

**`TunnelConfig_proofs`**, from `ConfigAssumption`: `TunnelConfigTypes`,
`DeploymentsAreConfigured`, `ClassesAreJudged`, `SettingsDegradeToDefaults`. The pass reads
Gateway, class and two configurations at four moments; `PassIsFresh` says that each is still
the informers' unless the Gateway is queued, `DeploymentIsFresh` and `ClassIsFresh` that
what is at rest follows from the copies.

**`RouteTable_proofs`**, from `RouteAssumption` (finitely many routes and listeners, listener
names unique in a Gateway, specs as the CRDs admit them): `TypeIsRight`,
`TheIntersectionIsServed`, `TheMostSpecificWins`, `PartialRoutesAreReported`,
`ListenersAreReported`, and `PrecedenceIsAnOrder`, that `morePrecedent` is a strict weak
order on all rules. The argument has three parts.

- *The table is the routes' table.* A pass reads at one moment, pushes and reports at
  others. `TableInv` says that, unless the Gateway is queued again, the rules built
  (`Built`), pushed (`Pushed`) and reported on (`Reports`) are those of the routes attached
  now; `ListenerInv` says the same of what it has seen of the listeners and reported of
  them. An edit that maps to no Gateway changes no attached route (`UnmappedRules`).
- *Building and sorting.* The loops append every rule of every listed route and nothing else
  (`BuildsRouteRules`). `SortByPrecedenceSorts`: the sort is a permutation in which no rule
  stands after one it precedes, because the comparator orders (`PrecedenceIsAnOrder`, from
  a lexicographic argument on the eleven criteria, `PrecedenceDecides`) and ties keep their
  place. `ListingSorts` is the fact below both: ranks by a strict total order number a
  finite set. `IngressIsTabled` joins the bands.
- *What such a table answers.* `IntersectionCovers`: what two hostnames have in common
  covers a host if and only if both do, by lemmas on suffixes of label sequences, so
  the table serves the intersection (`TableServes`). The rule that answers is the first
  that matches; `OutranksPrecedes` shows that what the Gateway API's text prefers is also
  placed first by the code's ranking, so no matching rule outranks it (`TableAnswers`).

`Build` and `SortByPrecedence` are written by ranks (`Listing`) instead of recursion over
the rules, which is what brings them into the prover's reach; TLC evaluates the same
definitions.

**`Startup_proofs`**, from `StartupAssumption`: `StartsByTheTable`, for any list of stable
resources. `Progress` says what the steps of `main` so far have found, `Refusal` why the
process has exited.

**`XBackend_proofs`**, from `XBackendAssumption`: `TranslationFollowsTheTable`
and `VerificationIsNeverLost`, for any ports and protocols.
`NoCheckFails` turns the sequence of checks of `translateXBackend` into one condition, which
`TLSReasonIsEmpty` and `PortRange` make comparable with the documented table;
`FirstLayerWins` and `PolicyLayer` say what one layer of settings can do to another, and
`VerificationSurvives` follows a setting through the three of them. There is no behaviour
and so no induction in these.

Only model-checked: liveness under fairness (`Converges`, `DeletionCompletes`,
`EventuallySettled`, `ComesToRest`, `EventuallyRuns`), which is out of the prover's reach.

## 6. Not modelled

- Namespaces are not watched by the code: in `RouteTable` the set of selected namespaces is
  constant. TLS rules are not sorted, so `MostSpecificWins` allows any matching one.
- Sharing of pointers between rules: in `BackendTranslation` settings are values
  (`backendtls.go:168` copies them for that reason).
- SDK type conversions, durations, pagination, log and message texts, the fixed parts of the
  pod template: no behaviour the properties depend on.
- Transition times, except in the status of policies. Policies are watched without a
  predicate, so coming to rest depends on the times there (`ComesToRest`). The watches of
  Gateways, classes, routes and XBackends
  ignore status writes (`GenerationChangedPredicate`), and nothing reads the times.
- Leader election and the single worker are controller-runtime's; the models have one
  worker.
- API types and deep copies are declarations and generated code; chart and manifests are
  configuration.
- A long list of changes at once: two disturbances at most in `backends` and `config`.

## 7. Disagreements between the code and what it says

**Lost regeneration** (`lost_regeneration`; `secret.go:85`, `reconciler.go:155`) has a run in
which TLC finds the statement violated. That the tunnel is to be recreated is only in the
local `regenerated`. If the pass that rewrote a corrupt Secret fails before `DeleteTunnel`,
the next one finds a valid Secret and stores a token with the new key for the old tunnel.
README step 3: "recreating it if the secret was regenerated".

The models show more. No run is kept for the following; each statement is a definition of
the MC module named, which fails with the constants given.

`MCGatewayReconciler`, with one Gateway and one hostname:

| Statement | Constants | What the code does |
|---|---|---|
| `OwnTunnel`: "its own Cloudflare Tunnel" | `NameOf <- SharedName`, two Gateways | tunnels are looked up without the namespace (`reconciler.go:149`) |
| `KeepsDeployment`: "its own `cloudflared` Deployment" | `LiveSpec`, `MaxCreates = 2` | the predecessor's Deployment is updated, keeps its owner and is collected (`reconciler.go:453`) |
| `EnsuresValidSecret`: "a valid 32-byte tunnel secret" | `LiveSpec`, `TamperKinds = {"ClearSecret"}` | assigning to the nil `Data` map panics (`secret.go:81`) |
| `TokensAuthenticate` | `MaxCreates = 2` | a recreated Gateway takes the key from the cached Secret of its predecessor (`secret.go:34`) |
| `DeletionCompletes` without its condition: "Gateway deletion still cleans up its owned records" | `LiveSpec`, `MaxClassChanges = 1` | without its class a Gateway being deleted is skipped (`reconciler.go:82`) |

`MCDNSReconciler`:

| Statement | Constants | What the code does |
|---|---|---|
| `NothingFreeUnpublished`: "ensures a proxied CNAME ... exists for each attached route hostname" (`dns.go:132`) | `LiveSpec`, one zone, `ForeignKinds = {"other"}`, `ChunkSize = 2` | only CNAMEs are listed, so a hostname with an A record is planned as a create and its whole batch fails every time (`cloudflare/client.go:156`) |

`MCPolicyAttachment`, with one Gateway and `MaxEdits = 2`:

| Statement | Constants | What the code does |
|---|---|---|
| `AppliedIsAccepted`: "the same policy reported Accepted in status" (`accesspolicy.go:139`) | two policies, two routes | a policy that loses one of its targets is `Accepted=False` and applied on the others (`policy.go:237`) |
| `GatewayAccessCoversRoutes`: "all routes attached to it get Access enforcement" (`types.go:28`) | `L7Routes = {}` | TLS and TCP rules get no access policy (`reconciler.go:248`) |
| `OnlyThatRoute`: "only that route's ingress rules" (`types.go:29`) | `KeyOf <- OneKey`, one of two routes local | the route's namespace is not compared (`accesspolicy.go:36`) |
| `OverriddenIsCleared`: "it is cleared (set False)" (`originpolicy.go:122`) | origin policies, `MaxEdits = 3` | the condition is written only while the policy names the Gateway (`originpolicy.go:126`) |
| `NoLeakedAncestors`: "does not leak" (`accesspolicy.go:92`) | one policy | a conflict while pruning is logged and the finalizer goes (`accesspolicy.go:105`) |
| `AcceptedTargets` | `Groups = {"gateway", "other"}` | acceptance ignores a targetRef's group (`policy.go:228`), application does not |

`MCRouteTable`, with the small instances it defines before `MCHosts`:

| Statement | Constants | What the code does |
|---|---|---|
| `CountsPerListener`: "the number of attached routes per listener" (`status.go:32`) | `TwoListeners`, `Twins` | a listener counts all attached routes of its protocol (`reconciler.go:584`) |
| `RejectedServesNothing`: "report it rejected instead of silently accepting it" (`status.go:100`) | `UnknownProtocol` | attachment looks at the allowed kinds before the protocol (`attachment.go:174`) |
| `PartialForEveryKind`: "(method, header, or query-param match)" (`status.go:202`) | `OneGRPC`, `GRPCSpecs` | header matches of gRPC routes are dropped without the flag (`cloudflare/ingress.go:451`) |
| `PartialIsOwn`: "at least one ingress rule whose source match used" it (`reconciler.go:565`) | `Twins`, `TwinSpecs` | routes are collected by kind and name without the namespace (`reconciler.go:572`) |

`MCBackendResolution`, with `MaxDisturbances = 2`:

| Statement | Constants | What the code does |
|---|---|---|
| `XBackendStatusIsCurrent`: "every other XBackend has this Gateway's ancestor entry pruned" (`xbackendstatus.go:17`) | `Routes = {"tls1"}`, `MCRouteSpecs`, edits of routes | served is what the pass fetched before the configuration was pushed, and status changes pass no watch (`xbackendstatus.go:35`) |
| `RoomIsUsed` | two Gateways, `maxXBackendAncestors = 1` | a dropped entry is not written when another one leaves (`xbackendstatus.go:148`) |
| `NoLeakedXBackendEntries`: "would leak entries" (`xbackendstatus.go:60`) | edits of XBackends and Gateways | a failed prune is logged and the finalizer goes (`reconciler.go:436`) |
| `TLSPolicyFollowsBackend`: "targeting the backend services" (`backendtls.go:80`) | `Routes = {"tls2", "tls3"}` | of two TLS routes with one hostname the last one listed gives both its Service's settings (`backendtls.go:134`) |
| `AcceptedIsAttached`: "reads accepted route hostnames" (README) | `MCRouteSpecs`, edits of routes | the entry on a route that leaves stays, with `Accepted=True` (`status.go:499`) |

`MCTunnelConfig`, with the constants of `config`:

| Statement | What the code does |
|---|---|
| `AnnotationsArePropagated`: "Propagate Gateway infrastructure labels and annotations to the Deployment" (`deployment.go:156`) | the annotations of an existing Deployment are never updated (`reconciler.go:453`) |
| `PodLabelsAreAdmitted`: "PodLabels are added to the cloudflared pod template" (`tunnelconfig_types.go:50`) | the label `app` overwrites the one the selector demands, and every pass of the Gateway fails (`deployment.go:57`) |
