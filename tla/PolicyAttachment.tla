-------------------------- MODULE PolicyAttachment --------------------------
(***************************************************************************)
(* CloudflareAccessPolicy and CloudflareOriginPolicy: how policy.go,       *)
(* accesspolicy.go and originpolicy.go choose the policies that are pushed *)
(* to Cloudflare with the ingress rules of a Gateway and, later in the     *)
(* same reconcile and from another listing, the status they report on the  *)
(* policies, on the Gateway and on its routes.                             *)
(*                                                                         *)
(* Gateways and policies are in one namespace, routes also in others: a    *)
(* target is a Gateway or the key, kind and name, of routes.  A policy is  *)
(* named by a number, so that names are ordered.  A status update carries  *)
(* the resourceVersion of the copy it was computed from: it is rejected if *)
(* the policy has changed since that copy was read, and one that changes   *)
(* nothing, transition times included, makes no new version and no event.  *)
(* Versions are only compared with a copy's, so each reader has the set of *)
(* the policies that have changed since it read them.  Routes are only     *)
(* read, so `attached` is the informer's copy.                             *)
(* Reasons and messages, which follow from the listing, are left out.      *)
(***************************************************************************)
EXTENDS Naturals, FiniteSets

CONSTANTS
    Gateways, Routes,
    KeyOf,                 \* the kind and name of each route
    LocalRoutes,           \* the routes of the policies' namespace
    L7Routes,              \* the HTTPRoutes and GRPCRoutes
    Policies, KindOf,      \* policy names and their kind, "access" or "origin"
    Groups,                \* API groups a targetRef may name; "gateway" is Gateway API's
    MaxAncestors,          \* maxPolicyAncestors
    Times,                 \* what metav1.Now may return, for times are only compared for equality
    MaxEdits, MaxFailures

ASSUME PolicyAssumption ==
    /\ Policies \subseteq Nat \ {0} /\ IsFiniteSet(Policies) /\ IsFiniteSet(Gateways)
    /\ KindOf \in [Policies -> {"access", "origin"}]
    /\ L7Routes \cup LocalRoutes \subseteq Routes /\ DOMAIN KeyOf = Routes
    /\ Gateways \cap (Routes \cup {KeyOf[r] : r \in Routes}) = {}
    /\ "gateway" \in Groups
    /\ Times \subseteq Nat \ {0}
    /\ {MaxAncestors, MaxEdits, MaxFailures} \subseteq Nat

VARIABLES
    policy,      \* the policies of the API server
    cached,      \* the informer's copies
    undelivered, \* policies that have changed since the informer read them
    outdated,    \* policies that have changed since the worker listed them
    live,        \* is each Gateway "live", "deleting" or "gone"?
    attached,    \* routes attached to each Gateway
    queue,       \* the work queue
    w,           \* the worker
    pushed,      \* policies in the configuration Cloudflare has for each Gateway
    affected,    \* targets with a PolicyAffected condition, by Gateway and kind
    used         \* how much of each bound is used up

vars == <<policy, cached, undelivered, outdated, live, attached, queue, w, pushed, affected, used>>

RouteKeys == {KeyOf[r] : r \in Routes}
Targets == Gateways \cup RouteKeys
Kinds == {"access", "origin"}
TargetRef == [group : Groups, target : Targets]
NoCondition == [status |-> "absent", generation |-> 0, since |-> 0]
NoPolicy == [exists |-> FALSE, created |-> 0, refs |-> {}, generation |-> 0,
             accepted |-> [g \in Gateways |-> NoCondition],
             overridden |-> [g \in Gateways |-> NoCondition]]
NoRule == [access |-> 0, origin |-> 0, default |-> 0]
NoRules == [r \in Routes |-> NoRule]
-----------------------------------------------------------------------------
(* Choosing policies from a listing L. *)

Listed(L, kind) == {p \in Policies : L[p].exists /\ KindOf[p] = kind}

policyOlderThan(L, p, q) ==
    IF L[p].created # L[q].created THEN L[p].created < L[q].created ELSE p < q

targetsResource(L, p, t) == [group |-> "gateway", target |-> t] \in L[p].refs

\* targetKey drops the group.
TargetKeys(L, p) == {ref.target : ref \in L[p].refs}

validPolicyTargets(g, routes) == {g} \cup {KeyOf[r] : r \in routes}

Conflicts(L, p, t) ==
    \E q \in Listed(L, KindOf[p]) \ {p} : targetsResource(L, q, t) /\ policyOlderThan(L, q, p)
evaluatePolicyAcceptance_mLastTarget(L, p, valid) ==
    IF TargetKeys(L, p) \cap valid = {} THEN "TargetNotFound"
    ELSE IF \A t \in TargetKeys(L, p) \cap valid : Conflicts(L, p, t) THEN "Conflicted"
    ELSE "Accepted"
evaluatePolicyAcceptance(L, p, valid) ==
    IF TargetKeys(L, p) \cap valid = {} THEN "TargetNotFound"
    ELSE IF \E t \in TargetKeys(L, p) \cap valid : Conflicts(L, p, t) THEN "Conflicted"
    ELSE "Accepted"

\* findAccessConfigForTarget and originPolicyForTarget: the oldest policy, 0 for none.
Winner(L, kind, t) ==
    LET targeting == {p \in Listed(L, kind) : targetsResource(L, p, t)} IN
    IF targeting = {} THEN 0
    ELSE CHOOSE p \in targeting : \A q \in targeting \ {p} : policyOlderThan(L, p, q)

\* applyAccessPolicies: a Gateway's policy wins over a route's, on HTTP and gRPC rules.
accessFor(L, g, r) ==
    IF r \notin L7Routes THEN 0
    ELSE IF Winner(L, "access", g) # 0 THEN Winner(L, "access", g)
    ELSE Winner(L, "access", KeyOf[r])

\* applyOriginPolicies, effectiveOriginRequest: a route's policy is completed by the
\* Gateway's.
Rules(accessList, originList, g, routes) ==
    [r \in Routes |->
        IF r \notin routes THEN NoRule
        ELSE [access |-> accessFor(accessList, g, r),
              origin |-> Winner(originList, "origin", KeyOf[r]),
              default |-> Winner(originList, "origin", g)]]
-----------------------------------------------------------------------------
(* Statuses. *)

Idle == [pc |-> "idle", gw |-> {}, routes |-> {}, list |-> [p \in Policies |-> NoPolicy],
         todo |-> {}]

Ancestors(q) == {g \in Gateways : q.accepted[g].status # "absent"}
Flag(b) == IF b THEN "True" ELSE "False"

\* A condition keeps its time while its status is the same.
transitionTime_mNow(c, status, now) == now
transitionTime(c, status, now) == IF c.status = status THEN c.since ELSE now
setCondition(c, b, generation, now) ==
    [status |-> Flag(b), generation |-> generation, since |-> transitionTime(c, Flag(b), now)]

\* A Gateway-level default is overridden if an accepted policy targets a route.
routeOverrideExists(L, valid) ==
    \E p \in Listed(L, "origin") :
        TargetKeys(L, p) \cap RouteKeys # {} /\ evaluatePolicyAcceptance(L, p, valid) = "Accepted"

removeAncestor_mKeeps(q, g) == q
removeAncestor(q, g) == [q EXCEPT !.accepted[g] = NoCondition, !.overridden[g] = NoCondition]

\* upsertAncestorCondition for Accepted and, on an origin policy that targets the
\* Gateway, for Overridden; a full list takes no new entry.
upsertAncestorConditions_mNoCap(L, p, g, valid, now) ==
    LET accepted == evaluatePolicyAcceptance(L, p, valid) = "Accepted" IN
    [L[p] EXCEPT !.accepted[g] = setCondition(@, accepted, L[p].generation, now)]
upsertAncestorConditions(L, p, g, valid, now) ==
    IF g \notin Ancestors(L[p]) /\ Cardinality(Ancestors(L[p])) >= MaxAncestors THEN L[p]
    ELSE LET accepted == evaluatePolicyAcceptance(L, p, valid) = "Accepted"
             overridden == accepted /\ routeOverrideExists(L, valid) IN
         [L[p] EXCEPT
            !.accepted[g] = setCondition(@, accepted, L[p].generation, now),
            !.overridden[g] = IF KindOf[p] = "origin" /\ targetsResource(L, p, g)
                              THEN setCondition(@, overridden, L[p].generation, now) ELSE @]

\* addAffectedTargets over the accepted policies.
affectedTargets(L, kind, valid) ==
    UNION {TargetKeys(L, p) \cap valid :
             p \in {x \in Listed(L, kind) : evaluatePolicyAcceptance(L, x, valid) = "Accepted"}}

\* The policy becomes q: a new version, unless q is what it is.
Changed(p, q) == IF q = policy[p] THEN {} ELSE {p}
Becomes(p, q) ==
    /\ policy' = [policy EXCEPT ![p] = q]
    /\ undelivered' = undelivered \cup Changed(p, q) /\ outdated' = outdated \cup Changed(p, q)

MayFail == used.failures + used.lost < MaxFailures

\* Status().Update of the listed copy; its error is logged and dropped.
UpdateStatus(p, q) ==
    \/ p \notin outdated /\ Becomes(p, q) /\ UNCHANGED used
    \/ p \in outdated /\ UNCHANGED <<policy, undelivered, outdated, used>>
    \/ /\ MayFail
       /\ used' = [used EXCEPT !.lost = @ + 1] /\ UNCHANGED <<policy, undelivered, outdated>>

\* An entry is removed, and the removal written, only if the listed copy has one.
Prune(p, g) ==
    \/ g \in Ancestors(w.list[p]) /\ UpdateStatus(p, removeAncestor(w.list[p], g))
    \/ g \notin Ancestors(w.list[p]) /\ UNCHANGED <<policy, undelivered, outdated, used>>
-----------------------------------------------------------------------------
Init ==
    /\ policy = [p \in Policies |-> NoPolicy]
    /\ cached = policy /\ undelivered = {} /\ outdated = Policies
    /\ live = [g \in Gateways |-> "live"]
    /\ attached \in [Gateways -> SUBSET Routes]
    /\ queue = Gateways
    /\ w = Idle
    /\ pushed = [g \in Gateways |-> NoRules]
    /\ affected = [g \in Gateways |-> [k \in Kinds |-> {}]]
    /\ used = [edits |-> 0, failures |-> 0, lost |-> 0]
-----------------------------------------------------------------------------
(* The reconcile of a Gateway, as far as it concerns policies. *)

SpendsFailure ==
    /\ MayFail
    /\ used' = [used EXCEPT !.failures = @ + 1]

\* What Reconcile's result puts back on the queue: only an error does.
Requeued(g, err) == IF err THEN {g} ELSE {}

\* A worker that rests has listed nothing.
Rests == w' = Idle /\ outdated' = Policies

\* collect*Routes and listOriginPolicies.
Start(g) ==
    /\ w.pc = "idle" /\ g \in queue /\ live[g] = "live"
    /\ queue' = queue \ {g}
    /\ w' = [Idle EXCEPT !.pc = "push", !.gw = {g}, !.routes = attached[g], !.list = cached]
    /\ outdated' = undelivered
    /\ UNCHANGED <<policy, cached, undelivered, live, attached, pushed, affected, used>>

\* applyAccessPolicies lists the access policies; then the configuration is pushed.
Push(g) ==
    /\ w.pc = "push" /\ w.gw = {g}
    /\ \/ /\ pushed' = [pushed EXCEPT ![g] = Rules(cached, w.list, g, w.routes)]
          /\ w' = [w EXCEPT !.pc = "list"]
          /\ UNCHANGED <<outdated, queue, used>>
       \/ /\ SpendsFailure
          /\ Rests /\ queue' = queue \cup Requeued(g, TRUE)
          /\ UNCHANGED pushed
    /\ UNCHANGED <<policy, cached, undelivered, live, attached, affected>>

\* patchAccessPolicyStatuses lists the access policies again; patchOriginPolicyStatuses
\* works on the list that was pushed.
ListAgain ==
    /\ w.pc = "list"
    /\ outdated' = {p \in Policies : IF KindOf[p] = "access" THEN p \in undelivered
                                     ELSE p \in outdated}
    /\ LET L == [p \in Policies |-> IF KindOf[p] = "access" THEN cached[p] ELSE w.list[p]] IN
       w' = [w EXCEPT !.pc = "patch", !.list = L, !.todo = {p \in Policies : L[p].exists}]
    /\ UNCHANGED <<policy, cached, undelivered, live, attached, queue, pushed, affected, used>>

\* The loop body of patchAccessPolicyStatuses and patchOriginPolicyStatuses.
PatchPolicy(g, p) ==
    /\ w.pc = "patch" /\ w.gw = {g} /\ p \in w.todo
    /\ w' = [w EXCEPT !.todo = @ \ {p}]
    /\ LET valid == validPolicyTargets(g, w.routes)
           found == evaluatePolicyAcceptance(w.list, p, valid) # "TargetNotFound" IN
       \/ /\ found
          /\ \E now \in Times :
                UpdateStatus(p, upsertAncestorConditions(w.list, p, g, valid, now))
       \/ ~found /\ Prune(p, g)
    /\ UNCHANGED <<cached, live, attached, queue, pushed, affected>>

\* The PolicyAffected conditions of the Gateway and of its attached routes are set and
\* cleared by every pass; the status of a route that is detached is left alone.
Key(object) == IF object \in Gateways THEN object ELSE KeyOf[object]
NowAffected(g, k, objects) ==
    {o \in objects : Key(o) \in affectedTargets(w.list, k, validPolicyTargets(g, w.routes))}
PolicyAffected_mTrueOnly(g, k, objects) == affected[g][k] \cup NowAffected(g, k, objects)
PolicyAffected(g, k, objects) == (affected[g][k] \ objects) \cup NowAffected(g, k, objects)

\* The route statuses and the Gateway status, each best-effort; the first error is returned.
PatchGateway(g) ==
    /\ w.pc = "patch" /\ w.gw = {g} /\ w.todo = {}
    /\ Rests
    /\ \E patched \in SUBSET ({g} \cup w.routes) :
          /\ affected' = [affected EXCEPT ![g] = [k \in Kinds |-> PolicyAffected(g, k, patched)]]
          /\ \/ /\ patched = {g} \cup w.routes
                /\ queue' = queue \cup Requeued(g, FALSE)
                /\ UNCHANGED used
             \/ SpendsFailure /\ queue' = queue \cup Requeued(g, TRUE)
    /\ UNCHANGED <<policy, cached, undelivered, live, attached, pushed>>

\* cleanup, ending with prunePolicyAncestorStatus.
StartCleanup(g) ==
    /\ w.pc = "idle" /\ g \in queue /\ live[g] = "deleting"
    /\ queue' = queue \ {g}
    /\ w' = [Idle EXCEPT !.pc = "prune", !.gw = {g}, !.list = cached,
                         !.todo = {p \in Policies : cached[p].exists}]
    /\ outdated' = undelivered
    /\ pushed' = [pushed EXCEPT ![g] = NoRules]
    /\ UNCHANGED <<policy, cached, undelivered, live, attached, affected, used>>

PrunePolicy(g, p) ==
    /\ w.pc = "prune" /\ w.gw = {g} /\ p \in w.todo
    /\ w' = [w EXCEPT !.todo = @ \ {p}]
    /\ Prune(p, g)
    /\ UNCHANGED <<cached, live, attached, queue, pushed, affected>>

\* The finalizer is removed and the Gateway disappears.
RemoveFinalizer(g) ==
    /\ w.pc = "prune" /\ w.gw = {g} /\ w.todo = {}
    /\ Rests
    /\ \/ /\ live' = [live EXCEPT ![g] = "gone"]
          /\ queue' = queue \cup Requeued(g, FALSE)
          /\ UNCHANGED used
       \/ SpendsFailure /\ queue' = queue \cup Requeued(g, TRUE) /\ UNCHANGED live
    /\ UNCHANGED <<policy, cached, undelivered, attached, pushed, affected>>

\* A request for a Gateway that is gone.
NotFound(g) ==
    /\ w.pc = "idle" /\ g \in queue /\ live[g] = "gone"
    /\ queue' = queue \ {g}
    /\ UNCHANGED <<policy, cached, undelivered, outdated, live, attached, w, pushed, affected,
                   used>>
-----------------------------------------------------------------------------
(* Watches and users. *)

\* Any change of a policy, its status included, enqueues every Gateway.
allGatewaysRequests == {g \in Gateways : live[g] # "gone"}
SyncPolicy(p) ==
    /\ p \in undelivered
    /\ undelivered' = undelivered \ {p} /\ cached' = [cached EXCEPT ![p] = policy[p]]
    /\ queue' = queue \cup allGatewaysRequests
    /\ UNCHANGED <<policy, outdated, live, attached, w, pushed, affected, used>>

Edits ==
    /\ used.edits < MaxEdits
    /\ used' = [used EXCEPT !.edits = @ + 1]
    /\ UNCHANGED <<cached, w, pushed, affected>>

\* Creation times have a resolution of a second: a new policy may be as old as the last.
CreatePolicy(p) ==
    /\ Edits /\ ~policy[p].exists
    /\ \E refs \in SUBSET TargetRef \ {{}}, t \in 1 .. Cardinality(Policies) :
          /\ \A q \in Policies : policy[q].created <= t
          /\ Becomes(p, [NoPolicy EXCEPT !.exists = TRUE, !.created = t, !.refs = refs,
                                         !.generation = 1])
    /\ UNCHANGED <<live, attached, queue>>

RetargetPolicy(p) ==
    /\ Edits /\ policy[p].exists
    /\ \E refs \in SUBSET TargetRef \ {{}, policy[p].refs} :
          Becomes(p, [policy[p] EXCEPT !.refs = refs, !.generation = @ + 1])
    /\ UNCHANGED <<live, attached, queue>>

DeletePolicy(p) ==
    /\ Edits /\ policy[p].exists
    /\ Becomes(p, NoPolicy)
    /\ UNCHANGED <<live, attached, queue>>

\* routeToGateways: attaching or detaching a route enqueues its Gateway.
EditRoute(g, r) ==
    /\ Edits
    /\ attached' = [attached EXCEPT ![g] = IF r \in @ THEN @ \ {r} ELSE @ \cup {r}]
    /\ queue' = queue \cup {g}
    /\ UNCHANGED <<policy, undelivered, outdated, live>>

DeleteGateway(g) ==
    /\ Edits /\ live[g] = "live"
    /\ live' = [live EXCEPT ![g] = "deleting"]
    /\ queue' = queue \cup {g}
    /\ UNCHANGED <<policy, undelivered, outdated, attached>>
-----------------------------------------------------------------------------
WorkerStep ==
    \/ ListAgain
    \/ \E g \in Gateways :
          \/ Push(g) \/ PatchGateway(g) \/ RemoveFinalizer(g)
          \/ \E p \in Policies : PatchPolicy(g, p) \/ PrunePolicy(g, p)
Take(g) == Start(g) \/ StartCleanup(g) \/ NotFound(g)
Next ==
    \/ WorkerStep
    \/ \E g \in Gateways :
          Take(g) \/ DeleteGateway(g) \/ \E r \in Routes : EditRoute(g, r)
    \/ \E p \in Policies :
          SyncPolicy(p) \/ CreatePolicy(p) \/ RetargetPolicy(p) \/ DeletePolicy(p)

Spec == Init /\ [][Next]_vars

\* The worker runs, the queue is fair and informers catch up.
LiveSpec ==
    /\ Spec
    /\ WF_vars(WorkerStep)
    /\ \A g \in Gateways : SF_vars(Take(g))
    /\ \A p \in Policies : WF_vars(SyncPolicy(p))
-----------------------------------------------------------------------------
(* Properties. *)

\* The types of policies and rules.
Conditions == [status : {"absent", "True", "False"}, generation : Nat, since : Times \cup {0}]
PolicyRecords ==
    [exists : BOOLEAN, created : Nat, refs : SUBSET TargetRef, generation : Nat,
     accepted : [Gateways -> Conditions], overridden : [Gateways -> Conditions]]
RuleRecords == [access : Policies \cup {0}, origin : Policies \cup {0}, default : Policies \cup {0}]
Workers == [pc : {"idle", "push", "list", "patch", "prune"}, gw : SUBSET Gateways,
            routes : SUBSET Routes, list : [Policies -> PolicyRecords], todo : SUBSET Policies]

\* Every variable has its type, and no policy ever has more ancestors than GEP-713 allows,
\* whichever Gateways write to it (policy.go maxPolicyAncestors).
TypeOK ==
    /\ \A p \in Policies : Cardinality(Ancestors(policy[p])) <= MaxAncestors
    /\ policy \in [Policies -> PolicyRecords] /\ cached \in [Policies -> PolicyRecords]
    /\ undelivered \subseteq Policies /\ outdated \subseteq Policies
    /\ live \in [Gateways -> {"live", "deleting", "gone"}]
    /\ attached \in [Gateways -> SUBSET Routes]
    /\ queue \subseteq Gateways
    /\ w \in Workers
    /\ pushed \in [Gateways -> [Routes -> RuleRecords]]
    /\ affected \in [Gateways -> [Kinds -> SUBSET (Gateways \cup Routes)]]
    /\ used \in [edits : Nat, failures : Nat, lost : Nat]

\* Nothing is left to do: informers are up to date and no Gateway is queued.
Quiet == w.pc = "idle" /\ queue = {} /\ undelivered = {}
Valid(g) == validPolicyTargets(g, attached[g])
LiveGateways == {g \in Gateways : live[g] = "live"}

\* Although update conflicts are dropped, once all is quiet the ancestor status of every
\* policy is the verdict on its present generation: Gateways it no longer applies to are
\* pruned (accesspolicy.go "Prune any ancestor entry we wrote on a previous reconcile") and an
\* applicable Gateway is missing only from a list that is full.  A write that fails otherwise
\* is not made up for before the next event.
StatusIsCurrent ==
    Quiet /\ used.lost = 0 => \A g \in LiveGateways, p \in Policies : policy[p].exists =>
        LET verdict == evaluatePolicyAcceptance(policy, p, Valid(g))
            c == policy[p].accepted[g] IN
        IF verdict = "TargetNotFound" THEN c.status = "absent"
        ELSE \/ c.status = Flag(verdict = "Accepted") /\ c.generation = policy[p].generation
             \/ c.status = "absent" /\ Cardinality(Ancestors(policy[p])) >= MaxAncestors

\* Once all is quiet, a policy reported Accepted is the one in force, on every target it
\* names: "the config actually pushed to Cloudflare is the same policy reported Accepted in
\* status" (accesspolicy.go), unless a status write failed.  A route's access policy yields
\* to the Gateway's.
AcceptedIsApplied ==
    Quiet /\ used.lost = 0 => \A g \in LiveGateways : \A p \in Policies, r \in attached[g] :
        policy[p].exists /\ policy[p].accepted[g].status = "True" =>
            /\ KindOf[p] = "access" /\ r \in L7Routes /\ targetsResource(policy, p, g)
                 => pushed[g][r].access = p
            /\ KindOf[p] = "access" /\ r \in L7Routes /\ targetsResource(policy, p, KeyOf[r])
                 => \/ pushed[g][r].access = p
                    \/ Winner(policy, "access", g) # 0
                       /\ pushed[g][r].access = Winner(policy, "access", g)
            /\ KindOf[p] = "origin" /\ targetsResource(policy, p, KeyOf[r])
                 => pushed[g][r].origin = p
            /\ KindOf[p] = "origin" /\ targetsResource(policy, p, g)
                 => pushed[g][r].default = p

\* Once all is quiet the PolicyAffected conditions of a Gateway and its routes name exactly
\* the targets of accepted policies: "a condition is cleared when the last targeting policy
\* is removed" (policy.go).
AffectedIsCurrent ==
    Quiet => \A g \in LiveGateways, k \in Kinds : \A o \in {g} \cup attached[g] :
        o \in affected[g][k] <=> Key(o) \in affectedTargets(policy, k, Valid(g))

\* The controller's own status writes, which come back as events that no predicate filters
\* (controller.go), do not keep it busy: a status that is reconciled again is written as it
\* is, with the time of its last transition (policy.go "Preserve the transition time when the
\* status is unchanged"), so that once users stop the controller comes to rest.
ComesToRest == <>[]Quiet
=============================================================================
