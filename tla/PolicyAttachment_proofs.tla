------------------------ MODULE PolicyAttachment_proofs ------------------------
(***************************************************************************)
(* Proofs about PolicyAttachment, for any Gateways, routes, policies,      *)
(* groups and bounds: once the controller rests, the ancestor statuses,    *)
(* the PolicyAffected conditions and what Cloudflare has agree with the    *)
(* policies.                                                               *)
(*                                                                         *)
(* A pass lists the policies twice and writes one status after the other,  *)
(* each over the copy it has listed; a conflict is dropped.  Two facts     *)
(* make that safe.  Every change of a policy enqueues every Gateway once   *)
(* the informer delivers it, so a Gateway that is not queued works on the  *)
(* informer's copies, and only on copies the informer too has outdated     *)
(* (PassFresh); and a status that is not what the pass decided belongs to  *)
(* a policy the informer has not delivered (StatusFresh), whose event is   *)
(* still to come.                                                          *)
(***************************************************************************)
EXTENDS PolicyAttachment, TLAPS, FiniteSetTheorems, WellFoundedInduction

\* A policy never has more ancestors than its cap, neither has any copy of it.
PolicyCopies == {q \in PolicyRecords : Cardinality(Ancestors(q)) <= MaxAncestors}
Types ==
    /\ policy \in [Policies -> PolicyCopies] /\ cached \in [Policies -> PolicyCopies]
    /\ undelivered \subseteq Policies /\ outdated \subseteq Policies
    /\ live \in [Gateways -> {"live", "deleting", "gone"}]
    /\ attached \in [Gateways -> SUBSET Routes]
    /\ queue \subseteq Gateways
    /\ w \in Workers /\ w.list \in [Policies -> PolicyCopies]
    /\ pushed \in [Gateways -> [Routes -> RuleRecords]]
    /\ affected \in [Gateways -> [Kinds -> SUBSET (Gateways \cup Routes)]]
    /\ used \in [edits : Nat, failures : Nat, lost : Nat]

\* A copy of a policy that has not changed since is the policy.
CopiesAgree ==
    \A p \in Policies : /\ p \notin undelivered => cached[p] = policy[p]
                        /\ p \notin outdated => w.list[p] = policy[p]

InWork == IF w.pc = "idle" THEN w.gw = {} ELSE \E g \in Gateways : w.gw = {g}

\* A pass works on the present copies and routes, unless its Gateway is queued again.
PassFresh(g) ==
    w.gw = {g} =>
        /\ live[g] # "gone" /\ (w.pc = "prune" => live[g] = "deleting")
        /\ g \notin queue => w.list = cached /\ outdated \subseteq undelivered
        /\ g \notin queue /\ w.pc # "prune" => w.routes = attached[g] /\ live[g] = "live"

\* A Gateway that is not queued has, once its pass has come that far, its rules, ...
PushedFresh(g) ==
    g \notin queue /\ live[g] = "live" /\ (w.gw = {g} => w.pc \in {"list", "patch"}) =>
        pushed[g] = Rules(cached, cached, g, attached[g])

\* ... the statuses of its policies, if they are the informer's, ...
Right(g, p) ==
    LET verdict == evaluatePolicyAcceptance(cached, p, Valid(g))
        c == cached[p].accepted[g] IN
    IF verdict = "TargetNotFound" THEN c.status = "absent"
    ELSE \/ c.status = Flag(verdict = "Accepted") /\ c.generation = cached[p].generation
         \/ c.status = "absent" /\ Cardinality(Ancestors(cached[p])) >= MaxAncestors
StatusFresh(g, p) ==
    /\ g \notin queue /\ live[g] = "live" /\ (w.gw = {g} => w.pc = "patch" /\ p \notin w.todo)
    /\ p \notin undelivered /\ policy[p].exists /\ used.lost = 0
    => Right(g, p)

\* ... and the conditions of its routes and its own.
AffectedFresh(g) ==
    g \notin queue /\ live[g] = "live" /\ w.gw # {g} =>
        \A k \in Kinds : \A o \in {g} \cup attached[g] :
            o \in affected[g][k] <=> Key(o) \in affectedTargets(cached, k, Valid(g))

Fresh(g) ==
    PassFresh(g) /\ PushedFresh(g) /\ (\A p \in Policies : StatusFresh(g, p)) /\ AffectedFresh(g)

PolicyInv == Types /\ CopiesAgree /\ InWork /\ \A g \in Gateways : Fresh(g)
-----------------------------------------------------------------------------
(* Choosing policies. *)

\* Of any policies one is the oldest.
LEMMA OldestExists ==
    ASSUME NEW L \in [Policies -> PolicyRecords], NEW T, T \subseteq Policies, T # {}
    PROVE  \E p \in T : \A q \in T \ {p} : policyOlderThan(L, p, q)
  <1> DEFINE R == OpToRel(<, Nat)
             times == {L[p].created : p \in T}
  <1>1. \A m, n \in Nat : <<m, n>> \in R <=> m < n
    BY DEF OpToRel
  <1>2. Policies \subseteq Nat /\ \A p \in T : L[p].created \in Nat
    BY PolicyAssumption DEF PolicyRecords
  <1>3. times \subseteq Nat /\ times # {}
    BY <1>2
  <1> HIDE DEF R
  <1>4. PICK t \in times : \A s \in times : ~(<<s, t>> \in R)
    <2>1. IsWellFoundedOn(R, Nat)
      BY NatLessThanWellFounded DEF R
    <2> HIDE DEF times
    <2> QED BY <1>3, <2>1, WFMin
  <1>5. ASSUME NEW p \in T PROVE L[p].created >= t
    <2>1. L[p].created \in times
      OBVIOUS
    <2>2. ~(<<L[p].created, t>> \in R)
      BY <1>4, <2>1
    <2>3. L[p].created \in Nat /\ t \in Nat
      BY <1>2, <1>3, <1>4
    <2> HIDE DEF times
    <2> QED BY <1>1, <2>2, <2>3
  <1> DEFINE first == {p \in T : L[p].created = t}
  <1>6. first \subseteq Nat /\ first # {}
    BY <1>2, <1>4
  <1>7. PICK p \in first : \A q \in first : ~(<<q, p>> \in R)
    <2>1. IsWellFoundedOn(R, Nat)
      BY NatLessThanWellFounded DEF R
    <2> HIDE DEF first
    <2> QED BY <1>6, <2>1, WFMin
  <1>8. ASSUME NEW q \in T \ {p} PROVE policyOlderThan(L, p, q)
    <2>1. p \in Nat /\ q \in Nat /\ L[p].created = t /\ L[q].created \in Nat /\ t \in Nat
      BY <1>2, <1>3, <1>7
    <2>2. CASE L[q].created = t
      <3>1. ~(<<q, p>> \in R)
        BY <1>7, <2>2
      <3>2. ~(q < p)
        BY <1>1, <2>1, <3>1
      <3> QED BY <2>1, <2>2, <3>2 DEF policyOlderThan
    <2>3. CASE L[q].created # t
      BY <1>5, <2>1, <2>3 DEF policyOlderThan
    <2> QED BY <2>2, <2>3
  <1> QED BY <1>7, <1>8

\* The winner is one of the policies that target the resource, or none is.
LEMMA WinnerTargets ==
    ASSUME NEW L \in [Policies -> PolicyRecords], NEW kind, NEW t
    PROVE  LET targeting == {p \in Listed(L, kind) : targetsResource(L, p, t)} IN
           /\ Winner(L, kind, t) \in Policies \cup {0}
           /\ targeting # {} => /\ Winner(L, kind, t) \in targeting
                                /\ \A q \in targeting \ {Winner(L, kind, t)} :
                                      policyOlderThan(L, Winner(L, kind, t), q)
  <1> DEFINE T == {p \in Listed(L, kind) : targetsResource(L, p, t)}
             Oldest(p) == \A q \in T \ {p} : policyOlderThan(L, p, q)
  <1>1. T \subseteq Policies
    BY DEF Listed
  <1>2. Winner(L, kind, t) = IF T = {} THEN 0 ELSE CHOOSE p \in T : Oldest(p)
    BY DEF Winner
  <1>3. T # {} => \E p \in T : Oldest(p)
    <2> HIDE DEF T
    <2> QED BY <1>1, OldestExists
  <1>4. T # {} => Winner(L, kind, t) \in T /\ Oldest(Winner(L, kind, t))
    <2> HIDE DEF T, Oldest
    <2> QED BY <1>2, <1>3
  <1>5. Winner(L, kind, t) \in Policies \cup {0}
    <2> HIDE DEF T, Oldest
    <2> QED BY <1>1, <1>2, <1>4
  <1> QED BY <1>4, <1>5

\* A policy with no older one on a target wins it.
LEMMA UnopposedWins ==
    ASSUME NEW L \in [Policies -> PolicyRecords], NEW t, NEW p \in Policies, L[p].exists,
           targetsResource(L, p, t), ~Conflicts(L, p, t)
    PROVE  Winner(L, KindOf[p], t) = p
  <1> DEFINE T == {q \in Listed(L, KindOf[p]) : targetsResource(L, q, t)}
             x == Winner(L, KindOf[p], t)
  <1>1. p \in T
    BY DEF Listed
  <1>2. x \in T /\ \A q \in T \ {x} : policyOlderThan(L, x, q)
    BY <1>1, WinnerTargets
  <1>3. ASSUME x # p PROVE FALSE
    <2>1. policyOlderThan(L, x, p)
      BY <1>1, <1>2, <1>3
    <2> QED BY <1>2, <1>3, <2>1 DEF Conflicts
  <1> QED BY <1>3

\* Every rule names policies, or none.
LEMMA RulesTypes ==
    ASSUME NEW L \in [Policies -> PolicyRecords], NEW M \in [Policies -> PolicyRecords],
           NEW g, NEW routes
    PROVE  Rules(L, M, g, routes) \in [Routes -> RuleRecords]
  <1>1. \A kind, t : /\ Winner(L, kind, t) \in Policies \cup {0}
                     /\ Winner(M, kind, t) \in Policies \cup {0}
    BY WinnerTargets
  <1>2. NoRule \in RuleRecords
    BY DEF NoRule, RuleRecords
  <1>3. \A r \in Routes : accessFor(L, g, r) \in Policies \cup {0}
    BY <1>1 DEF accessFor
  <1>4. \A a, o, d \in Policies \cup {0} :
           [access |-> a, origin |-> o, default |-> d] \in RuleRecords
    BY DEF RuleRecords
  <1> QED BY <1>1, <1>2, <1>3, <1>4 DEF Rules
-----------------------------------------------------------------------------
(* Statuses. *)

\* What there is of a policy that was never created is a copy.
LEMMA NoPolicyTypes ==
    /\ NoCondition \in Conditions /\ NoCondition.status = "absent"
    /\ NoPolicy \in PolicyCopies /\ NoPolicy.exists = FALSE
    /\ Idle.pc = "idle" /\ Idle.gw = {} /\ Idle.todo = {} /\ Idle.routes = {}
    /\ Idle.list = [p \in Policies |-> NoPolicy]
  <1>1. NoCondition \in Conditions /\ NoCondition.status = "absent"
    BY DEF NoCondition, Conditions
  <1>2. NoPolicy \in PolicyRecords /\ NoPolicy.exists = FALSE
        /\ NoPolicy.accepted = [g \in Gateways |-> NoCondition]
    <2> HIDE DEF NoCondition
    <2> QED BY <1>1 DEF NoPolicy, PolicyRecords
  <1>3. Ancestors(NoPolicy) = {}
    BY <1>1, <1>2 DEF Ancestors
  <1>4. Cardinality({}) <= MaxAncestors
    BY FS_EmptySet, PolicyAssumption
  <1> QED BY <1>1, <1>2, <1>3, <1>4 DEF PolicyCopies, Idle

\* A condition that is set has the status and the generation it is given.
LEMMA ConditionTypes ==
    ASSUME NEW c \in Conditions, NEW b \in BOOLEAN, NEW n \in Nat, NEW now \in Times
    PROVE  /\ setCondition(c, b, n, now) \in Conditions
           /\ setCondition(c, b, n, now).status = Flag(b)
           /\ setCondition(c, b, n, now).generation = n
  <1>1. Flag(b) \in {"True", "False"}
    BY DEF Flag
  <1>2. transitionTime(c, Flag(b), now) \in Times \cup {0}
    BY DEF transitionTime, Conditions
  <1> QED BY <1>1, <1>2 DEF setCondition, Conditions

\* There are finitely many ancestors.
LEMMA AncestorsFinite ==
    ASSUME NEW q
    PROVE  IsFiniteSet(Ancestors(q)) /\ Cardinality(Ancestors(q)) \in Nat
  BY FS_Subset, FS_CardinalityType, PolicyAssumption DEF Ancestors

\* Without its entry a policy has fewer ancestors.
LEMMA RemoveTypes ==
    ASSUME NEW q \in PolicyCopies, NEW g \in Gateways
    PROVE  LET n == removeAncestor(q, g) IN
           n \in PolicyCopies /\ n.accepted[g].status = "absent"
  <1> DEFINE n == removeAncestor(q, g)
  <1>1. q \in PolicyRecords
    BY DEF PolicyCopies
  <1>2. n \in PolicyRecords /\ n.accepted = [q.accepted EXCEPT ![g] = NoCondition]
    <2> HIDE DEF NoCondition
    <2> QED BY <1>1, NoPolicyTypes DEF PolicyRecords, removeAncestor
  <1>3. /\ n.accepted[g] = NoCondition
        /\ \A h \in Gateways \ {g} : n.accepted[h] = q.accepted[h]
    BY <1>1, <1>2 DEF PolicyRecords
  <1> HIDE DEF n
  <1>4. n.accepted[g].status = "absent"
    BY <1>3, NoPolicyTypes
  <1>5. Ancestors(n) \in SUBSET Ancestors(q)
    BY <1>3, <1>4 DEF Ancestors
  <1>6. Cardinality(Ancestors(n)) <= Cardinality(Ancestors(q))
    BY <1>5, AncestorsFinite, FS_Subset
  <1>7. Cardinality(Ancestors(q)) <= MaxAncestors /\ MaxAncestors \in Nat
    BY PolicyAssumption DEF PolicyCopies
  <1>8. Cardinality(Ancestors(n)) <= MaxAncestors
    BY <1>6, <1>7, AncestorsFinite
  <1> QED BY <1>2, <1>4, <1>8 DEF PolicyCopies, n

\* With its entry it has the verdict on its generation, and no more ancestors than the cap.
LEMMA UpsertTypes ==
    ASSUME NEW L \in [Policies -> PolicyCopies], NEW p \in Policies, NEW g \in Gateways,
           NEW valid, NEW now \in Times
    PROVE  LET n == upsertAncestorConditions(L, p, g, valid, now) IN
           /\ n \in PolicyCopies
           /\ \/ /\ n.accepted[g].status
                       = Flag(evaluatePolicyAcceptance(L, p, valid) = "Accepted")
                 /\ n.accepted[g].generation = n.generation
              \/ n = L[p] /\ n.accepted[g].status = "absent"
                 /\ Cardinality(Ancestors(L[p])) >= MaxAncestors
  <1> DEFINE n == upsertAncestorConditions(L, p, g, valid, now)
             accepted == evaluatePolicyAcceptance(L, p, valid) = "Accepted"
             overridden == accepted /\ routeOverrideExists(L, valid)
             a == setCondition(L[p].accepted[g], accepted, L[p].generation, now)
             o == IF KindOf[p] = "origin" /\ targetsResource(L, p, g)
                  THEN setCondition(L[p].overridden[g], overridden, L[p].generation, now)
                  ELSE L[p].overridden[g]
  <1>1. L[p] \in PolicyRecords /\ L[p] \in PolicyCopies
    BY DEF PolicyCopies
  <1>2. CASE g \notin Ancestors(L[p]) /\ Cardinality(Ancestors(L[p])) >= MaxAncestors
    BY <1>1, <1>2 DEF upsertAncestorConditions, Ancestors
  <1>3. CASE ~(g \notin Ancestors(L[p]) /\ Cardinality(Ancestors(L[p])) >= MaxAncestors)
    <2>1. n = [L[p] EXCEPT !.accepted[g] = a, !.overridden[g] = o]
      BY <1>3 DEF upsertAncestorConditions
    <2>2. /\ L[p].accepted[g] \in Conditions /\ L[p].overridden[g] \in Conditions
          /\ L[p].generation \in Nat /\ accepted \in BOOLEAN /\ overridden \in BOOLEAN
      BY <1>1 DEF PolicyRecords
    <2>3. /\ a \in Conditions /\ o \in Conditions
          /\ a.status = Flag(accepted) /\ a.generation = L[p].generation
      <3> HIDE DEF accepted, overridden
      <3> QED BY <2>2, ConditionTypes
    <2>4. a.status # "absent"
      BY <2>3 DEF Flag
    <2> HIDE DEF a, o, accepted
    <2>5. /\ n \in PolicyRecords /\ n.generation = L[p].generation
          /\ n.accepted = [L[p].accepted EXCEPT ![g] = a]
      <3> HIDE DEF n
      <3> QED BY <1>1, <2>1, <2>3 DEF PolicyRecords
    <2>6. n.accepted[g] = a /\ \A h \in Gateways \ {g} : n.accepted[h] = L[p].accepted[h]
      <3> HIDE DEF n
      <3> QED BY <1>1, <2>5 DEF PolicyRecords
    <2> HIDE DEF n
    <2>7. Ancestors(n) = Ancestors(L[p]) \cup {g}
      BY <2>4, <2>6 DEF Ancestors
    <2>8. Cardinality(Ancestors(n)) =
             IF g \in Ancestors(L[p]) THEN Cardinality(Ancestors(L[p]))
             ELSE Cardinality(Ancestors(L[p])) + 1
      BY <2>7, AncestorsFinite, FS_AddElement
    <2>9. /\ Cardinality(Ancestors(L[p])) <= MaxAncestors /\ MaxAncestors \in Nat
          /\ Cardinality(Ancestors(L[p])) \in Nat
      BY <1>1, PolicyAssumption, AncestorsFinite DEF PolicyCopies
    <2>10. Cardinality(Ancestors(n)) <= MaxAncestors
      BY <1>3, <2>8, <2>9
    <2> QED BY <2>3, <2>5, <2>6, <2>10 DEF PolicyCopies, n, accepted
  <1> QED BY <1>2, <1>3

\* A policy that changes is marked as such for the informer and for the worker.
Marked ==
    /\ policy' \in [Policies -> PolicyCopies]
    /\ undelivered \subseteq undelivered' /\ undelivered' \subseteq Policies
    /\ outdated \subseteq outdated' /\ outdated' \subseteq Policies
    /\ outdated' \ outdated \subseteq undelivered'
    /\ \A x \in Policies : policy'[x] = policy[x] \/ x \in undelivered' \cap outdated'

\* Nothing is marked when nothing changes.
LEMMA NothingMarked == Types /\ UNCHANGED <<policy, undelivered, outdated>> => Marked
  BY DEF Marked, Types

\* A policy that becomes another is marked; one that is not marked was that already.
LEMMA BecomesMarks ==
    ASSUME Types, NEW p \in Policies, NEW q \in PolicyCopies, Becomes(p, q)
    PROVE  Marked /\ (p \notin undelivered' => q = policy[p])
  <1>1. /\ policy' \in [Policies -> PolicyCopies] /\ policy'[p] = q
        /\ \A x \in Policies \ {p} : policy'[x] = policy[x]
    BY DEF Becomes, Types
  <1>2. /\ undelivered' = undelivered \cup Changed(p, q)
        /\ outdated' = outdated \cup Changed(p, q)
    BY DEF Becomes
  <1>3. CASE q = policy[p]
    BY <1>1, <1>2, <1>3 DEF Marked, Changed, Types
  <1>4. CASE q # policy[p]
    BY <1>1, <1>2, <1>4 DEF Marked, Changed, Types
  <1> QED BY <1>3, <1>4

\* A status is written over the copy that was listed, or not at all: then nothing was to be
\* changed, the policy has changed meanwhile, or the write is lost.
LEMMA UpdateStatusSafe ==
    ASSUME Types, NEW p \in Policies, NEW q \in PolicyCopies, UpdateStatus(p, q)
    PROVE  /\ Marked
           /\ used' \in [edits : Nat, failures : Nat, lost : Nat]
           /\ used'.lost = 0 => used.lost = 0
           /\ used'.lost = 0 /\ p \notin undelivered' => p \in outdated \/ q = policy[p]
  <1>1. CASE p \notin outdated /\ Becomes(p, q) /\ UNCHANGED used
    BY <1>1, BecomesMarks DEF Types
  <1>2. CASE p \in outdated /\ UNCHANGED <<policy, undelivered, outdated, used>>
    BY <1>2, NothingMarked DEF Types
  <1>3. CASE used' = [used EXCEPT !.lost = @ + 1] /\ UNCHANGED <<policy, undelivered, outdated>>
    <2>1. /\ used' \in [edits : Nat, failures : Nat, lost : Nat]
          /\ used'.lost = used.lost + 1 /\ used.lost \in Nat
      BY <1>3 DEF Types
    <2>2. used'.lost # 0
      BY <2>1
    <2> QED BY <1>3, <2>1, <2>2, NothingMarked
  <1> QED BY <1>1, <1>2, <1>3 DEF UpdateStatus

\* An entry is pruned with the same effect.
LEMMA PruneSafe ==
    ASSUME Types, NEW p \in Policies, NEW g \in Gateways, Prune(p, g)
    PROVE  /\ Marked
           /\ used' \in [edits : Nat, failures : Nat, lost : Nat]
           /\ used'.lost = 0 => used.lost = 0
           /\ used'.lost = 0 /\ p \notin undelivered' =>
                 p \in outdated \/ policy[p].accepted[g].status = "absent"
                 \/ w.list[p].accepted[g].status = "absent"
  <1>1. CASE g \in Ancestors(w.list[p]) /\ UpdateStatus(p, removeAncestor(w.list[p], g))
    <2> DEFINE n == removeAncestor(w.list[p], g)
    <2>1. n \in PolicyCopies /\ n.accepted[g].status = "absent"
      BY RemoveTypes DEF Types
    <2> HIDE DEF n
    <2>2. UpdateStatus(p, n)
      BY <1>1 DEF n
    <2> QED BY <2>1, <2>2, UpdateStatusSafe
  <1>2. CASE g \notin Ancestors(w.list[p]) /\ UNCHANGED <<policy, undelivered, outdated, used>>
    BY <1>2, NothingMarked DEF Types, Ancestors
  <1> QED BY <1>1, <1>2 DEF Prune
-----------------------------------------------------------------------------
(* What a step leaves alone. *)

\* Copies of policies that are not marked agree after a step that marks what it changes.
LEMMA CopiesRemainTrue ==
    ASSUME Types, CopiesAgree, Marked, cached' = cached, w'.list = w.list
    PROVE  CopiesAgree'
  BY DEF CopiesAgree, Marked

\* A Gateway is not concerned by a step that leaves its objects, its place in the queue and
\* the informer's copies alone, and is no step of its pass.
LEMMA FreshKept ==
    ASSUME NEW g \in Gateways, Fresh(g), cached' = cached, g \in queue => g \in queue',
           live'[g] = live[g], attached'[g] = attached[g], pushed'[g] = pushed[g],
           affected'[g] = affected[g],
           \/ w' = w /\ outdated' \ outdated \subseteq undelivered'
           \/ w.gw # {g} /\ w'.gw # {g},
           used'.lost = 0 => used.lost = 0, undelivered \subseteq undelivered',
           \A p \in Policies : p \notin undelivered' => policy'[p] = policy[p]
    PROVE  Fresh(g)'
  <1>1. PassFresh(g)'
    BY DEF Fresh, PassFresh
  <1>2. PushedFresh(g)'
    BY DEF Fresh, PushedFresh
  <1>3. ASSUME NEW p \in Policies PROVE StatusFresh(g, p)'
    <2>1. Right(g, p) => Right(g, p)'
      BY DEF Right, Valid
    <2> QED BY <2>1 DEF Fresh, StatusFresh
  <1>4. AffectedFresh(g)'
    BY DEF Fresh, AffectedFresh, Valid
  <1> QED BY <1>1, <1>2, <1>3, <1>4 DEF Fresh

\* A Gateway that is queued, or goes, is only to be told from one that is gone.
LEMMA QueuedIsFresh ==
    ASSUME NEW g \in Gateways, g \in queue' \/ live'[g] # "live",
           w'.gw = {g} => live'[g] # "gone" /\ (w'.pc = "prune" => live'[g] = "deleting"),
           w'.gw = {g} => \/ g \in queue'
                         \/ /\ w'.list = cached' /\ outdated' \subseteq undelivered'
                            /\ w'.pc = "prune"
    PROVE  Fresh(g)'
  BY DEF Fresh, PassFresh, PushedFresh, StatusFresh, AffectedFresh
-----------------------------------------------------------------------------
(* The initial state, watches and users. *)

\* Every Gateway is queued and no policy exists.
LEMMA PolicyInit == Init => PolicyInv
  <1> SUFFICES ASSUME Init PROVE PolicyInv
    OBVIOUS
  <1>1. /\ policy = [p \in Policies |-> NoPolicy] /\ cached = policy /\ queue = Gateways
        /\ undelivered = {} /\ outdated = Policies
        /\ w = Idle /\ used = [edits |-> 0, failures |-> 0, lost |-> 0]
        /\ live = [g \in Gateways |-> "live"] /\ attached \in [Gateways -> SUBSET Routes]
        /\ pushed = [g \in Gateways |-> NoRules]
        /\ affected = [g \in Gateways |-> [k \in Kinds |-> {}]]
    BY DEF Init
  <1>2. Types
    <2>1. w \in Workers
      <3>1. NoPolicy \in PolicyRecords
        BY NoPolicyTypes DEF PolicyCopies
      <3> QED BY <1>1, <3>1 DEF Workers, Idle, Rests
    <2>2. NoRules \in [Routes -> RuleRecords]
      BY DEF NoRules, NoRule, RuleRecords
    <2> QED BY <1>1, <2>1, <2>2, NoPolicyTypes DEF Types
  <1>3. CopiesAgree
    BY <1>1, NoPolicyTypes DEF CopiesAgree
  <1>4. InWork
    BY <1>1, NoPolicyTypes DEF InWork
  <1>5. \A g \in Gateways : Fresh(g)
    BY <1>1, NoPolicyTypes DEF Fresh, PassFresh, PushedFresh, StatusFresh, AffectedFresh
  <1> QED BY <1>2, <1>3, <1>4, <1>5 DEF PolicyInv

\* Users: CreatePolicy, RetargetPolicy and DeletePolicy change a policy; the informer has not
\* delivered it.
LEMMA UsersOfPolicies ==
    ASSUME PolicyInv, NEW p \in Policies,
           CreatePolicy(p) \/ RetargetPolicy(p) \/ DeletePolicy(p)
    PROVE  PolicyInv'
  <1> USE DEF PolicyInv
  <1>1. UNCHANGED <<cached, live, attached, queue, w, pushed, affected>>
    BY DEF CreatePolicy, RetargetPolicy, DeletePolicy, Edits
  <1>2. /\ used' \in [edits : Nat, failures : Nat, lost : Nat]
        /\ used'.lost = used.lost
    <2>1. used' = [used EXCEPT !.edits = @ + 1]
      BY DEF CreatePolicy, RetargetPolicy, DeletePolicy, Edits
    <2> QED BY <2>1 DEF Types
  <1>3. /\ policy[p] \in PolicyRecords /\ policy[p] \in PolicyCopies /\ NoPolicy \in PolicyRecords
        /\ policy[p].generation + 1 \in Nat
    BY NoPolicyTypes DEF Types, PolicyCopies, PolicyRecords
  <1>4. PICK n \in PolicyCopies : Becomes(p, n)
    <2>1. CASE CreatePolicy(p)
      <3>1. PICK refs \in SUBSET TargetRef, t \in 1 .. Cardinality(Policies) :
               Becomes(p, [NoPolicy EXCEPT !.exists = TRUE, !.created = t, !.refs = refs,
                                           !.generation = 1])
        BY <2>1 DEF CreatePolicy
      <3> DEFINE n == [NoPolicy EXCEPT !.exists = TRUE, !.created = t, !.refs = refs,
                                       !.generation = 1]
      <3>2. t \in Nat
        BY PolicyAssumption, FS_CardinalityType
      <3>3. n \in PolicyRecords /\ n.accepted = NoPolicy.accepted
        <4> HIDE DEF NoPolicy
        <4> QED BY <1>3, <3>2 DEF PolicyRecords
      <3>4. Becomes(p, n)
        BY <3>1
      <3> HIDE DEF n
      <3>5. n \in PolicyCopies
        BY <3>3, NoPolicyTypes DEF PolicyCopies, Ancestors
      <3> QED BY <3>4, <3>5
    <2>2. CASE RetargetPolicy(p)
      <3>1. PICK refs \in SUBSET TargetRef :
               Becomes(p, [policy[p] EXCEPT !.refs = refs, !.generation = @ + 1])
        BY <2>2 DEF RetargetPolicy
      <3> DEFINE n == [policy[p] EXCEPT !.refs = refs, !.generation = @ + 1]
      <3>2. n \in PolicyRecords /\ n.accepted = policy[p].accepted
        BY <1>3 DEF PolicyRecords
      <3>3. Becomes(p, n)
        BY <3>1
      <3> HIDE DEF n
      <3>4. n \in PolicyCopies
        BY <1>3, <3>2 DEF PolicyCopies, Ancestors
      <3> QED BY <3>3, <3>4
    <2>3. CASE DeletePolicy(p)
      BY <2>3, NoPolicyTypes DEF DeletePolicy
    <2> QED BY <2>1, <2>2, <2>3
  <1>5. Marked
    BY <1>4, BecomesMarks
  <1>6. Types'
    BY <1>1, <1>2, <1>5 DEF Types, Marked
  <1>7. CopiesAgree'
    BY <1>1, <1>5, CopiesRemainTrue
  <1>8. \A g \in Gateways : Fresh(g)'
    BY <1>1, <1>2, <1>5, FreshKept DEF Marked
  <1> QED BY <1>1, <1>6, <1>7, <1>8 DEF InWork

\* The event of a policy enqueues every Gateway there is.
LEMMA SyncSafe ==
    ASSUME PolicyInv, NEW p \in Policies, SyncPolicy(p)
    PROVE  PolicyInv'
  <1> USE DEF PolicyInv
  <1>1. /\ cached' = [cached EXCEPT ![p] = policy[p]] /\ undelivered' = undelivered \ {p}
        /\ UNCHANGED <<policy, outdated, live, attached, w, pushed, affected, used>>
        /\ queue' = queue \cup {g \in Gateways : live[g] # "gone"}
    BY DEF SyncPolicy, allGatewaysRequests
  <1>2. Types'
    BY <1>1 DEF Types
  <1>3. CopiesAgree'
    BY <1>1 DEF CopiesAgree, Types
  <1>4. ASSUME NEW g \in Gateways PROVE Fresh(g)'
    <2>1. g \in queue' \/ live'[g] # "live"
      BY <1>1
    <2>2. w.gw = {g} => live[g] # "gone" /\ (w.pc = "prune" => live[g] = "deleting")
      BY DEF Fresh, PassFresh
    <2>3. w.gw = {g} => g \in queue'
      BY <1>1, <2>2
    <2> QED BY <1>1, <2>1, <2>2, <2>3, QueuedIsFresh
  <1> QED BY <1>1, <1>2, <1>3, <1>4 DEF InWork

\* Users: EditRoute and DeleteGateway enqueue the Gateway concerned.
LEMMA UsersOfGateways ==
    ASSUME PolicyInv, NEW g \in Gateways,
           DeleteGateway(g) \/ \E r \in Routes : EditRoute(g, r)
    PROVE  PolicyInv'
  <1> USE DEF PolicyInv
  <1>1. /\ UNCHANGED <<policy, cached, undelivered, outdated, w, pushed, affected>>
        /\ queue' = queue \cup {g}
        /\ live' \in [Gateways -> {"live", "deleting", "gone"}]
        /\ attached' \in [Gateways -> SUBSET Routes]
        /\ live'[g] = live[g] \/ (live[g] = "live" /\ live'[g] = "deleting")
        /\ \A h \in Gateways \ {g} : live'[h] = live[h] /\ attached'[h] = attached[h]
    <2>1. CASE DeleteGateway(g)
      BY <2>1 DEF DeleteGateway, Edits, Types
    <2>2. ASSUME NEW r \in Routes, EditRoute(g, r)
          PROVE  /\ UNCHANGED <<policy, cached, undelivered, outdated, w, pushed, affected,
                               live>>
                 /\ queue' = queue \cup {g}
                 /\ attached' \in [Gateways -> SUBSET Routes]
                 /\ \A h \in Gateways \ {g} : attached'[h] = attached[h]
      BY <2>2 DEF EditRoute, Edits, Types
    <2> QED BY <2>1, <2>2 DEF Types
  <1>2. /\ used' \in [edits : Nat, failures : Nat, lost : Nat]
        /\ used'.lost = used.lost
    BY DEF DeleteGateway, EditRoute, Edits, Types
  <1>3. Types'
    BY <1>1, <1>2 DEF Types
  <1>4. CopiesAgree'
    BY <1>1 DEF CopiesAgree
  <1>5. Fresh(g)'
    <2>1. w.gw = {g} => live[g] # "gone" /\ (w.pc = "prune" => live[g] = "deleting")
      BY DEF Fresh, PassFresh
    <2> QED BY <1>1, <2>1, QueuedIsFresh
  <1>6. \A h \in Gateways \ {g} : Fresh(h)'
    BY <1>1, <1>2, FreshKept
  <1> QED BY <1>1, <1>3, <1>4, <1>5, <1>6 DEF InWork
-----------------------------------------------------------------------------
(* The worker. *)

\* Failures are counted.
LEMMA FailureTypes ==
    ASSUME used \in [edits : Nat, failures : Nat, lost : Nat], used' = used \/ SpendsFailure
    PROVE  /\ used' \in [edits : Nat, failures : Nat, lost : Nat]
           /\ used'.lost = used.lost
  <1>1. CASE SpendsFailure
    BY <1>1 DEF SpendsFailure
  <1> QED BY <1>1

\* A step of the pass of one Gateway that writes no policy.
LEMMA WorkMoves ==
    ASSUME PolicyInv, NEW g \in Gateways, UNCHANGED <<policy, cached, undelivered, attached>>,
           w.gw \in {{g}, {}}, w'.gw \in {{g}, {}}, w'.gw = {} <=> w'.pc = "idle",
           queue \ {g} \subseteq queue', queue' \subseteq queue \cup {g},
           \A h \in Gateways \ {g} :
              live'[h] = live[h] /\ pushed'[h] = pushed[h] /\ affected'[h] = affected[h],
           live' \in [Gateways -> {"live", "deleting", "gone"}],
           w' \in Workers, w'.list \in [Policies -> PolicyCopies],
           pushed' \in [Gateways -> [Routes -> RuleRecords]],
           affected' \in [Gateways -> [Kinds -> SUBSET (Gateways \cup Routes)]],
           used' = used \/ SpendsFailure,
           outdated' \subseteq Policies,
           \A p \in Policies : p \notin outdated' => w'.list[p] = policy[p],
           Fresh(g)'
    PROVE  PolicyInv'
  <1> USE DEF PolicyInv
  <1>1. /\ used' \in [edits : Nat, failures : Nat, lost : Nat]
        /\ used'.lost = used.lost
    BY FailureTypes DEF Types
  <1>2. Types'
    BY <1>1 DEF Types
  <1>3. CopiesAgree'
    BY DEF CopiesAgree
  <1>4. \A h \in Gateways \ {g} : Fresh(h)'
    BY <1>1, FreshKept
  <1>5. InWork'
    BY DEF InWork
  <1> QED BY <1>2, <1>3, <1>4, <1>5

\* The pass returns with an error and its Gateway is queued.
LEMMA ReturnsWithError ==
    ASSUME PolicyInv, NEW g \in Gateways,
           UNCHANGED <<policy, cached, undelivered, attached, live, pushed>>,
           w.gw = {g}, Rests, queue' = queue \cup Requeued(g, TRUE), SpendsFailure,
           \A h \in Gateways \ {g} : affected'[h] = affected[h],
           affected' \in [Gateways -> [Kinds -> SUBSET (Gateways \cup Routes)]]
    PROVE  PolicyInv'
  <1>1. queue' = queue \cup {g}
    BY DEF Requeued
  <1>2. w' \in Workers /\ w'.list \in [Policies -> PolicyCopies]
    <2>1. NoPolicy \in PolicyRecords /\ NoPolicy \in PolicyCopies
      BY NoPolicyTypes DEF PolicyCopies
    <2> QED BY <2>1 DEF Workers, Idle, Rests
  <1>3. w'.gw = {} /\ w'.pc = "idle" /\ outdated' = Policies
    BY NoPolicyTypes DEF Rests
  <1>4. Fresh(g)'
    BY <1>1, <1>3, QueuedIsFresh
  <1>5. /\ live' \in [Gateways -> {"live", "deleting", "gone"}]
        /\ pushed' \in [Gateways -> [Routes -> RuleRecords]]
        /\ \A h \in Gateways \ {g} : live'[h] = live[h] /\ pushed'[h] = pushed[h]
    BY DEF PolicyInv, Types
  <1>6. queue \ {g} \subseteq queue' /\ queue' \subseteq queue \cup {g}
    BY <1>1
  <1> QED BY <1>2, <1>3, <1>4, <1>5, <1>6, WorkMoves

\* collect*Routes and listOriginPolicies read the informer's copies.
LEMMA StartSafe ==
    ASSUME PolicyInv, NEW g \in Gateways, Start(g)
    PROVE  PolicyInv'
  <1> USE DEF PolicyInv
  <1>1. /\ w.pc = "idle" /\ live[g] = "live" /\ queue' = queue \ {g}
        /\ outdated' = undelivered
        /\ UNCHANGED <<policy, cached, undelivered, live, attached, pushed, affected, used>>
    BY DEF Start
  <1>2. w' = [pc |-> "push", gw |-> {g}, routes |-> attached[g], list |-> cached, todo |-> {}]
    BY DEF Start, Idle
  <1>3. /\ w'.pc = "push" /\ w'.gw = {g} /\ w'.routes = attached[g] /\ w'.list = cached
    BY <1>2
  <1>4. w' \in Workers /\ w'.list \in [Policies -> PolicyCopies]
    <2>1. cached \in [Policies -> PolicyRecords]
      BY DEF Types, PolicyCopies
    <2> QED BY <1>2, <2>1 DEF Workers, Types
  <1>5. Fresh(g)'
    BY <1>1, <1>3 DEF Fresh, PassFresh, PushedFresh, StatusFresh, AffectedFresh
  <1>6. w.gw = {}
    BY <1>1 DEF InWork
  <1> QED BY <1>1, <1>3, <1>4, <1>5, <1>6, WorkMoves DEF Types, CopiesAgree

\* A request for a Gateway that is gone.
LEMMA NotFoundSafe ==
    ASSUME PolicyInv, NEW g \in Gateways, NotFound(g)
    PROVE  PolicyInv'
  <1> USE DEF PolicyInv
  <1>1. /\ w.pc = "idle" /\ live[g] = "gone" /\ queue' = queue \ {g}
        /\ UNCHANGED <<policy, cached, undelivered, outdated, live, attached, w, pushed, affected,
                       used>>
    BY DEF NotFound
  <1>2. w.gw = {}
    BY <1>1 DEF InWork
  <1>3. Fresh(g)'
    BY <1>1, <1>2, QueuedIsFresh
  <1> QED BY <1>1, <1>2, <1>3, WorkMoves DEF Types, CopiesAgree

\* The cleanup of a Gateway takes its rules away and lists the policies.
LEMMA StartCleanupSafe ==
    ASSUME PolicyInv, NEW g \in Gateways, StartCleanup(g)
    PROVE  PolicyInv'
  <1> USE DEF PolicyInv
  <1>1. /\ w.pc = "idle" /\ live[g] = "deleting" /\ queue' = queue \ {g}
        /\ UNCHANGED <<policy, cached, undelivered, live, attached, affected, used>>
        /\ outdated' = undelivered
        /\ pushed' = [pushed EXCEPT ![g] = NoRules]
    BY DEF StartCleanup
  <1>2. w' = [pc |-> "prune", gw |-> {g}, routes |-> {}, list |-> cached,
              todo |-> {p \in Policies : cached[p].exists}]
    BY DEF StartCleanup, Idle
  <1>3. /\ w'.pc = "prune" /\ w'.gw = {g} /\ w'.list = cached
    BY <1>2
  <1>4. w' \in Workers /\ w'.list \in [Policies -> PolicyCopies]
    <2>1. cached \in [Policies -> PolicyRecords]
      BY DEF Types, PolicyCopies
    <2> QED BY <1>2, <2>1 DEF Workers, Types
  <1>5. Fresh(g)'
    BY <1>1, <1>3, QueuedIsFresh
  <1>6. w.gw = {}
    BY <1>1 DEF InWork
  <1>7. /\ pushed' \in [Gateways -> [Routes -> RuleRecords]]
        /\ \A h \in Gateways \ {g} : pushed'[h] = pushed[h]
    <2>1. NoRules \in [Routes -> RuleRecords]
      BY DEF NoRules, NoRule, RuleRecords
    <2> QED BY <1>1, <2>1 DEF Types
  <1> QED BY <1>1, <1>3, <1>4, <1>5, <1>6, <1>7, WorkMoves DEF Types, CopiesAgree

\* The rules are those of the informer's copies, or the Gateway is queued again.
LEMMA PushSafe ==
    ASSUME PolicyInv, NEW g \in Gateways, Push(g)
    PROVE  PolicyInv'
  <1> USE DEF PolicyInv
  <1>1. /\ w.pc = "push" /\ w.gw = {g}
        /\ UNCHANGED <<policy, cached, undelivered, live, attached, affected>>
    BY DEF Push
  <1>2. CASE SpendsFailure /\ Rests /\ queue' = queue \cup Requeued(g, TRUE)
             /\ UNCHANGED pushed
    BY <1>1, <1>2, ReturnsWithError DEF Types
  <1>3. CASE /\ pushed' = [pushed EXCEPT ![g] = Rules(cached, w.list, g, w.routes)]
             /\ w' = [w EXCEPT !.pc = "list"] /\ UNCHANGED <<outdated, queue, used>>
    <2>1. /\ w'.pc = "list" /\ w'.gw = {g} /\ w'.list = w.list /\ w'.routes = w.routes
          /\ w' \in Workers
      BY <1>1, <1>3 DEF Types, Workers
    <2>2. Rules(cached, w.list, g, w.routes) \in [Routes -> RuleRecords]
      <3>1. cached \in [Policies -> PolicyRecords] /\ w.list \in [Policies -> PolicyRecords]
        BY DEF Types, PolicyCopies
      <3> QED BY <3>1, RulesTypes
    <2>3. /\ pushed' \in [Gateways -> [Routes -> RuleRecords]]
          /\ pushed'[g] = Rules(cached, w.list, g, w.routes)
          /\ \A h \in Gateways \ {g} : pushed'[h] = pushed[h]
      BY <1>3, <2>2 DEF Types
    <2>4. PassFresh(g)
      BY DEF Fresh
    <2>5. Fresh(g)'
      <3>1. PassFresh(g)'
        BY <1>1, <1>3, <2>1, <2>4 DEF PassFresh
      <3>2. PushedFresh(g)'
        BY <1>1, <1>3, <2>1, <2>3, <2>4 DEF PassFresh, PushedFresh
      <3>3. AffectedFresh(g)' /\ \A p \in Policies : StatusFresh(g, p)'
        BY <2>1 DEF AffectedFresh, StatusFresh
      <3> QED BY <3>1, <3>2, <3>3 DEF Fresh
    <2>6. /\ w'.list \in [Policies -> PolicyCopies] /\ outdated' \subseteq Policies
          /\ \A p \in Policies : p \notin outdated' => w'.list[p] = policy[p]
      BY <1>3, <2>1 DEF Types, CopiesAgree
    <2> QED BY <1>1, <1>3, <2>1, <2>3, <2>5, <2>6, WorkMoves DEF Types
  <1> QED BY <1>2, <1>3 DEF Push

\* The second listing of the access policies is the first one, unless the Gateway is queued.
LEMMA ListAgainSafe ==
    ASSUME PolicyInv, ListAgain
    PROVE  PolicyInv'
  <1> USE DEF PolicyInv
  <1> DEFINE L == [p \in Policies |-> IF KindOf[p] = "access" THEN cached[p] ELSE w.list[p]]
  <1>1. /\ w.pc = "list"
        /\ UNCHANGED <<policy, cached, undelivered, live, attached, queue, pushed, affected, used>>
        /\ outdated' = {p \in Policies : IF KindOf[p] = "access" THEN p \in undelivered
                                         ELSE p \in outdated}
        /\ w' = [w EXCEPT !.pc = "patch", !.list = L, !.todo = {p \in Policies : L[p].exists}]
    BY DEF ListAgain
  <1>2. PICK g \in Gateways : w.gw = {g}
    BY <1>1 DEF InWork
  <1>3. /\ L \in [Policies -> PolicyCopies]
        /\ \A p \in Policies : p \notin outdated' => L[p] = policy[p]
    BY <1>1 DEF Types, CopiesAgree
  <1>4. w.list = cached => L = cached
    BY DEF Types
  <1> HIDE DEF L
  <1>5. /\ w'.pc = "patch" /\ w'.gw = {g} /\ w'.routes = w.routes /\ w'.list = L
        /\ w'.todo = {p \in Policies : L[p].exists}
    BY <1>1, <1>2 DEF Types, Workers
  <1>6. w' \in Workers
    <2>1. L \in [Policies -> PolicyRecords]
      BY <1>3 DEF PolicyCopies
    <2> QED BY <1>1, <2>1 DEF Types, Workers
  <1>7. Fresh(g)'
    <2>1. PassFresh(g) /\ PushedFresh(g)
      BY DEF Fresh
    <2>2. PassFresh(g)'
      BY <1>1, <1>2, <1>4, <1>5, <2>1 DEF PassFresh
    <2>3. PushedFresh(g)'
      BY <1>1, <1>2, <1>5, <2>1 DEF PushedFresh
    <2>4. ASSUME NEW p \in Policies PROVE StatusFresh(g, p)'
      <3> SUFFICES ASSUME g \notin queue, p \notin w'.todo, p \notin undelivered,
                          policy[p].exists
                   PROVE  FALSE
        BY <1>1, <1>5 DEF StatusFresh
      <3>1. L = cached
        BY <1>2, <1>4, <2>1 DEF PassFresh
      <3> QED BY <1>5, <3>1 DEF CopiesAgree
    <2>5. AffectedFresh(g)'
      BY <1>5 DEF AffectedFresh
    <2> QED BY <2>2, <2>3, <2>4, <2>5 DEF Fresh
  <1> QED BY <1>1, <1>2, <1>3, <1>5, <1>6, <1>7, WorkMoves DEF Types

\* The Gateway disappears, or is queued again.
LEMMA RemoveFinalizerSafe ==
    ASSUME PolicyInv, NEW g \in Gateways, RemoveFinalizer(g)
    PROVE  PolicyInv'
  <1> USE DEF PolicyInv
  <1>1. /\ w.pc = "prune" /\ w.gw = {g} /\ Rests
        /\ UNCHANGED <<policy, cached, undelivered, attached, pushed, affected>>
    BY DEF RemoveFinalizer
  <1>2. CASE SpendsFailure /\ queue' = queue \cup Requeued(g, TRUE) /\ UNCHANGED live
    BY <1>1, <1>2, ReturnsWithError DEF Types
  <1>3. CASE /\ live' = [live EXCEPT ![g] = "gone"]
             /\ queue' = queue \cup Requeued(g, FALSE) /\ UNCHANGED used
    <2>1. /\ live' \in [Gateways -> {"live", "deleting", "gone"}] /\ live'[g] = "gone"
          /\ \A h \in Gateways \ {g} : live'[h] = live[h]
          /\ queue' = queue
      BY <1>3 DEF Types, Requeued
    <2>2. /\ w'.gw = {} /\ w'.pc = "idle" /\ outdated' = Policies
          /\ w' \in Workers /\ w'.list \in [Policies -> PolicyCopies]
      <3>1. NoPolicy \in PolicyRecords /\ NoPolicy \in PolicyCopies
        BY NoPolicyTypes DEF PolicyCopies
      <3> QED BY <1>1, <3>1 DEF Workers, Idle, Rests
    <2>3. Fresh(g)'
      BY <2>1, <2>2, QueuedIsFresh
    <2> QED BY <1>1, <1>3, <2>1, <2>2, <2>3, WorkMoves DEF Types
  <1> QED BY <1>2, <1>3 DEF RemoveFinalizer

\* A policy whose status changes is marked, so only the one just dealt with matters.
LEMMA StatusMoves ==
    ASSUME PolicyInv, NEW g \in Gateways, NEW p \in Policies, w.gw = {g}, p \in w.todo,
           w' = [w EXCEPT !.todo = @ \ {p}],
           UNCHANGED <<cached, live, attached, queue, pushed, affected>>,
           Marked,
           used' \in [edits : Nat, failures : Nat, lost : Nat], used'.lost = 0 => used.lost = 0,
           StatusFresh(g, p)'
    PROVE  PolicyInv'
  <1> USE DEF PolicyInv
  <1>1. /\ w'.pc = w.pc /\ w'.gw = {g} /\ w'.routes = w.routes /\ w'.list = w.list
        /\ w'.todo = w.todo \ {p} /\ w' \in Workers
    BY DEF Types, Workers
  <1>2. Types'
    BY <1>1 DEF Types, Marked
  <1>3. CopiesAgree'
    BY <1>1, CopiesRemainTrue
  <1>4. \A h \in Gateways \ {g} : Fresh(h)'
    BY <1>1, FreshKept DEF Marked
  <1>5. Fresh(g)'
    <2>1. Fresh(g)
      OBVIOUS
    <2>2. PassFresh(g)' /\ PushedFresh(g)' /\ AffectedFresh(g)'
      BY <1>1, <2>1 DEF Fresh, PassFresh, PushedFresh, AffectedFresh, Marked
    <2>3. ASSUME NEW x \in Policies \ {p} PROVE StatusFresh(g, x)'
      <3>1. Right(g, x) => Right(g, x)'
        BY DEF Right, Valid
      <3>2. StatusFresh(g, x)
        BY <2>1 DEF Fresh
      <3> QED BY <1>1, <3>1, <3>2 DEF StatusFresh, Marked
    <2> QED BY <2>2, <2>3 DEF Fresh
  <1>6. InWork'
    BY <1>1 DEF InWork
  <1> QED BY <1>2, <1>3, <1>4, <1>5, <1>6

\* The loop bodies of patchAccessPolicyStatuses and patchOriginPolicyStatuses.
LEMMA PatchPolicySafe ==
    ASSUME PolicyInv, NEW g \in Gateways, NEW p \in Policies, PatchPolicy(g, p)
    PROVE  PolicyInv'
  <1> USE DEF PolicyInv
  <1> DEFINE valid == validPolicyTargets(g, w.routes)
             verdict == evaluatePolicyAcceptance(w.list, p, valid)
  <1>1. /\ w.pc = "patch" /\ w.gw = {g} /\ p \in w.todo /\ w' = [w EXCEPT !.todo = @ \ {p}]
        /\ UNCHANGED <<cached, live, attached, queue, pushed, affected>>
    BY DEF PatchPolicy
  <1>2. ASSUME Marked, g \notin queue, p \notin undelivered'
        PROVE  /\ w.list = cached /\ p \notin outdated /\ cached[p] = policy[p]
               /\ verdict = evaluatePolicyAcceptance(cached, p, Valid(g))
    <2>1. w.list = cached /\ outdated \subseteq undelivered /\ w.routes = attached[g]
      BY <1>1, <1>2 DEF Fresh, PassFresh
    <2>2. p \notin undelivered
      BY <1>2 DEF Marked
    <2> QED BY <2>1, <2>2 DEF CopiesAgree, Valid
  <1>3. ASSUME Marked, used' \in [edits : Nat, failures : Nat, lost : Nat],
               used'.lost = 0 => used.lost = 0,
               g \notin queue /\ p \notin undelivered' /\ used'.lost = 0 => Right(g, p)
        PROVE  PolicyInv'
    <2>1. Right(g, p) => Right(g, p)'
      BY <1>1 DEF Right, Valid
    <2>2. StatusFresh(g, p)'
      BY <1>1, <1>3, <2>1 DEF StatusFresh
    <2> QED BY <1>1, <1>3, <2>2, StatusMoves
  <1>4. ASSUME verdict # "TargetNotFound", NEW now \in Times,
               UpdateStatus(p, upsertAncestorConditions(w.list, p, g, valid, now))
        PROVE  PolicyInv'
    <2> DEFINE n == upsertAncestorConditions(w.list, p, g, valid, now)
    <2>1. /\ n \in PolicyCopies
          /\ \/ /\ n.accepted[g].status = Flag(verdict = "Accepted")
                /\ n.accepted[g].generation = n.generation
             \/ n = w.list[p] /\ n.accepted[g].status = "absent"
                /\ Cardinality(Ancestors(w.list[p])) >= MaxAncestors
      <3>1. w.list \in [Policies -> PolicyCopies]
        BY DEF Types
      <3> HIDE DEF valid
      <3> QED BY <3>1, UpsertTypes
    <2>2. UpdateStatus(p, n)
      BY <1>4
    <2> HIDE DEF n, verdict, valid
    <2>3. /\ Marked /\ used' \in [edits : Nat, failures : Nat, lost : Nat]
          /\ used'.lost = 0 => used.lost = 0
          /\ used'.lost = 0 /\ p \notin undelivered' => p \in outdated \/ n = policy[p]
      BY <2>1, <2>2, UpdateStatusSafe
    <2>4. ASSUME g \notin queue, p \notin undelivered', used'.lost = 0
          PROVE  Right(g, p)
      <3>1. /\ w.list = cached /\ n = cached[p]
            /\ verdict = evaluatePolicyAcceptance(cached, p, Valid(g))
        BY <1>2, <2>3, <2>4
      <3> QED BY <1>4, <2>1, <3>1 DEF Right
    <2> QED BY <1>3, <2>3, <2>4
  <1>5. CASE verdict = "TargetNotFound" /\ Prune(p, g)
    <2> HIDE DEF verdict, valid
    <2>1. /\ Marked /\ used' \in [edits : Nat, failures : Nat, lost : Nat]
          /\ used'.lost = 0 => used.lost = 0
          /\ used'.lost = 0 /\ p \notin undelivered' =>
                p \in outdated \/ policy[p].accepted[g].status = "absent"
                \/ w.list[p].accepted[g].status = "absent"
      BY <1>5, PruneSafe
    <2>2. ASSUME g \notin queue, p \notin undelivered', used'.lost = 0
          PROVE  Right(g, p)
      <3>1. /\ cached[p].accepted[g].status = "absent"
            /\ verdict = evaluatePolicyAcceptance(cached, p, Valid(g))
        BY <1>2, <2>1, <2>2
      <3> QED BY <1>5, <3>1 DEF Right
    <2> QED BY <1>3, <2>1, <2>2
  <1> QED BY <1>4, <1>5 DEF PatchPolicy

\* The loop body of prunePolicyAncestorStatus.
LEMMA PrunePolicySafe ==
    ASSUME PolicyInv, NEW g \in Gateways, NEW p \in Policies, PrunePolicy(g, p)
    PROVE  PolicyInv'
  <1> USE DEF PolicyInv
  <1>1. /\ w.pc = "prune" /\ w.gw = {g} /\ p \in w.todo /\ w' = [w EXCEPT !.todo = @ \ {p}]
        /\ UNCHANGED <<cached, live, attached, queue, pushed, affected>> /\ Prune(p, g)
    BY DEF PrunePolicy
  <1>2. /\ Marked /\ used' \in [edits : Nat, failures : Nat, lost : Nat]
        /\ used'.lost = 0 => used.lost = 0
    BY <1>1, PruneSafe
  <1>3. live[g] # "live"
    BY <1>1 DEF Fresh, PassFresh
  <1>4. StatusFresh(g, p)'
    BY <1>1, <1>3 DEF StatusFresh
  <1> QED BY <1>1, <1>2, <1>4, StatusMoves

\* A pass that succeeds has set and cleared the conditions of its Gateway and its routes.
LEMMA PatchGatewaySafe ==
    ASSUME PolicyInv, NEW g \in Gateways, PatchGateway(g)
    PROVE  PolicyInv'
  <1> USE DEF PolicyInv
  <1>1. /\ w.pc = "patch" /\ w.gw = {g} /\ w.todo = {} /\ Rests
        /\ UNCHANGED <<policy, cached, undelivered, live, attached, pushed>>
    BY DEF PatchGateway
  <1>2. PICK patched \in SUBSET ({g} \cup w.routes) :
          /\ affected' = [affected EXCEPT ![g] = [k \in Kinds |-> PolicyAffected(g, k, patched)]]
          /\ \/ /\ patched = {g} \cup w.routes
                /\ queue' = queue \cup Requeued(g, FALSE)
                /\ UNCHANGED used
             \/ SpendsFailure /\ queue' = queue \cup Requeued(g, TRUE)
    BY DEF PatchGateway
  <1>3. /\ affected' \in [Gateways -> [Kinds -> SUBSET (Gateways \cup Routes)]]
        /\ affected'[g] = [k \in Kinds |-> PolicyAffected(g, k, patched)]
        /\ \A h \in Gateways \ {g} : affected'[h] = affected[h]
    <2>1. patched \subseteq Gateways \cup Routes
      BY <1>2 DEF Types, Workers
    <2>2. \A k \in Kinds : affected[g][k] \subseteq Gateways \cup Routes
      BY DEF Types
    <2>3. \A k \in Kinds : PolicyAffected(g, k, patched) \subseteq Gateways \cup Routes
      BY <2>1, <2>2 DEF PolicyAffected, NowAffected
    <2>4. [k \in Kinds |-> PolicyAffected(g, k, patched)]
             \in [Kinds -> SUBSET (Gateways \cup Routes)]
      BY <2>3
    <2> HIDE DEF PolicyAffected
    <2> QED BY <1>2, <2>4 DEF Types
  <1>4. CASE SpendsFailure /\ queue' = queue \cup Requeued(g, TRUE)
    BY <1>1, <1>3, <1>4, ReturnsWithError
  <1>5. CASE /\ patched = {g} \cup w.routes
             /\ queue' = queue \cup Requeued(g, FALSE) /\ UNCHANGED used
    <2>1. queue' = queue
      BY <1>5 DEF Requeued
    <2>2. /\ w'.gw = {} /\ w'.pc = "idle" /\ outdated' = Policies
          /\ w' \in Workers /\ w'.list \in [Policies -> PolicyCopies]
      <3>1. NoPolicy \in PolicyRecords /\ NoPolicy \in PolicyCopies
        BY NoPolicyTypes DEF PolicyCopies
      <3> QED BY <1>1, <3>1 DEF Workers, Idle, Rests
    <2>3. PassFresh(g) /\ PushedFresh(g) /\ \A p \in Policies : StatusFresh(g, p)
      BY DEF Fresh
    <2>4. Fresh(g)'
      <3>1. PassFresh(g)'
        BY <2>2 DEF PassFresh
      <3>2. PushedFresh(g)'
        BY <1>1, <2>1, <2>3 DEF PushedFresh
      <3>3. ASSUME NEW p \in Policies PROVE StatusFresh(g, p)'
        <4>1. Right(g, p) => Right(g, p)'
          BY <1>1 DEF Right, Valid
        <4> QED BY <1>1, <1>5, <2>1, <2>3, <4>1 DEF StatusFresh
      <3>4. AffectedFresh(g)'
        <4> SUFFICES ASSUME g \notin queue, NEW k \in Kinds, NEW o \in {g} \cup attached[g]
                     PROVE  o \in affected'[g][k]
                                <=> Key(o) \in affectedTargets(cached, k, Valid(g))
          BY <1>1, <2>1 DEF AffectedFresh, Valid
        <4>1. w.list = cached /\ w.routes = attached[g]
          BY <1>1, <2>3 DEF PassFresh
        <4>2. affected'[g][k] = (affected[g][k] \ ({g} \cup attached[g]))
                                \cup NowAffected(g, k, {g} \cup attached[g])
          BY <1>3, <1>5, <4>1 DEF PolicyAffected
        <4>3. NowAffected(g, k, {g} \cup attached[g])
              = {x \in {g} \cup attached[g] : Key(x) \in affectedTargets(cached, k, Valid(g))}
          BY <4>1 DEF NowAffected, Valid
        <4> QED BY <4>2, <4>3
      <3> QED BY <3>1, <3>2, <3>3, <3>4 DEF Fresh
    <2> QED BY <1>1, <1>3, <1>5, <2>1, <2>2, <2>4, WorkMoves DEF Types
  <1> QED BY <1>2, <1>4, <1>5
-----------------------------------------------------------------------------
(* The theorems. *)

\* Every step of the specification preserves the invariant.
LEMMA PolicyStep == PolicyInv /\ [Next]_vars => PolicyInv'
  <1> SUFFICES ASSUME PolicyInv, [Next]_vars PROVE PolicyInv'
    OBVIOUS
  <1>1. CASE WorkerStep
    BY <1>1, ListAgainSafe, PushSafe, PatchGatewaySafe, RemoveFinalizerSafe, PatchPolicySafe,
       PrunePolicySafe DEF WorkerStep
  <1>2. CASE \E g \in Gateways :
                Take(g) \/ DeleteGateway(g) \/ \E r \in Routes : EditRoute(g, r)
    BY <1>2, StartSafe, StartCleanupSafe, NotFoundSafe, UsersOfGateways DEF Take
  <1>3. CASE \E p \in Policies :
                SyncPolicy(p) \/ CreatePolicy(p) \/ RetargetPolicy(p) \/ DeletePolicy(p)
    BY <1>3, SyncSafe, UsersOfPolicies
  <1>4. CASE UNCHANGED vars
    <2>1. UNCHANGED <<policy, cached, undelivered, outdated, live, attached, queue, w, pushed,
                      affected, used>>
      BY <1>4 DEF vars
    <2>2. Types' /\ InWork' /\ CopiesAgree'
      BY <2>1 DEF PolicyInv, Types, InWork, CopiesAgree
    <2>3. \A g \in Gateways : Fresh(g)'
      BY <2>1, FreshKept DEF PolicyInv
    <2> QED BY <2>2, <2>3 DEF PolicyInv
  <1> QED BY <1>1, <1>2, <1>3, <1>4 DEF Next

\* The invariant holds for every value of the constants.
LEMMA PolicyInvariant == Spec => []PolicyInv
  BY PolicyInit, PolicyStep, PTL DEF Spec

\* Every variable has its type, and no policy has more ancestors than GEP-713 allows,
\* whichever Gateways write to it.
THEOREM AncestorsAreCapped == Spec => []TypeOK
  <1>1. PolicyInv => TypeOK
    BY DEF PolicyInv, Types, PolicyCopies, TypeOK
  <1> QED BY <1>1, PolicyInvariant, PTL

\* At rest nobody is queued, so that everything is fresh, and copies are the policies.
LEMMA RestingIsFresh ==
    ASSUME PolicyInv, Quiet, NEW g \in LiveGateways
    PROVE  /\ g \in Gateways /\ cached = policy /\ undelivered = {} /\ Fresh(g)
           /\ g \notin queue /\ live[g] = "live" /\ w.gw # {g}
  <1>1. \A p \in Policies : cached[p] = policy[p]
    BY DEF PolicyInv, CopiesAgree, Quiet
  <1>2. cached = policy
    BY <1>1 DEF PolicyInv, Types
  <1> QED BY <1>2 DEF PolicyInv, Quiet, LiveGateways, InWork

\* Although conflicts are dropped, the ancestor statuses are right once all is quiet, unless
\* a status write failed.
THEOREM StatusesAreCurrent == Spec => []StatusIsCurrent
  <1>1. PolicyInv => StatusIsCurrent
    <2> SUFFICES ASSUME PolicyInv, Quiet, used.lost = 0, NEW g \in LiveGateways,
                        NEW p \in Policies, policy[p].exists
                 PROVE  Right(g, p)
      BY RestingIsFresh DEF StatusIsCurrent, Right
    <2> QED BY RestingIsFresh DEF Fresh, StatusFresh
  <1> QED BY <1>1, PolicyInvariant, PTL

\* Once all is quiet the PolicyAffected conditions name the targets of accepted policies.
THEOREM AffectedIsExact == Spec => []AffectedIsCurrent
  <1>1. PolicyInv => AffectedIsCurrent
    BY RestingIsFresh DEF AffectedIsCurrent, Fresh, AffectedFresh
  <1> QED BY <1>1, PolicyInvariant, PTL

\* Once all is quiet a policy reported Accepted is the one in force on the targets it names,
\* although acceptance and choice are two algorithms over two listings.
THEOREM AcceptedPoliciesApply == Spec => []AcceptedIsApplied
  <1>1. PolicyInv => AcceptedIsApplied
    <2> SUFFICES ASSUME PolicyInv, Quiet, used.lost = 0, NEW g \in LiveGateways,
                        NEW p \in Policies, NEW r \in attached[g],
                        policy[p].exists, policy[p].accepted[g].status = "True"
                 PROVE  /\ KindOf[p] = "access" /\ r \in L7Routes /\ targetsResource(policy, p, g)
                             => pushed[g][r].access = p
                        /\ KindOf[p] = "access" /\ r \in L7Routes
                           /\ targetsResource(policy, p, KeyOf[r])
                             => \/ pushed[g][r].access = p
                                \/ Winner(policy, "access", g) # 0
                                   /\ pushed[g][r].access = Winner(policy, "access", g)
                        /\ KindOf[p] = "origin" /\ targetsResource(policy, p, KeyOf[r])
                             => pushed[g][r].origin = p
                        /\ KindOf[p] = "origin" /\ targetsResource(policy, p, g)
                             => pushed[g][r].default = p
      BY DEF AcceptedIsApplied
    <2>1. policy \in [Policies -> PolicyRecords] /\ r \in Routes /\ p # 0
      BY PolicyAssumption DEF PolicyInv, Types, PolicyCopies, LiveGateways
    <2>2. evaluatePolicyAcceptance(policy, p, Valid(g)) = "Accepted"
      <3>1. Right(g, p) /\ cached = policy
        BY RestingIsFresh DEF Fresh, StatusFresh
      <3> QED BY <3>1 DEF Right, Flag
    <2>3. \A t \in Valid(g) : targetsResource(policy, p, t) => Winner(policy, KindOf[p], t) = p
      <3> SUFFICES ASSUME NEW t \in Valid(g), targetsResource(policy, p, t)
                   PROVE  ~Conflicts(policy, p, t)
        BY <2>1, UnopposedWins
      <3>1. t \in TargetKeys(policy, p)
        <4>1. [group |-> "gateway", target |-> t].target = t
          OBVIOUS
        <4> QED BY <4>1 DEF targetsResource, TargetKeys
      <3> QED BY <2>2, <3>1 DEF evaluatePolicyAcceptance
    <2>4. g \in Valid(g) /\ KeyOf[r] \in Valid(g)
      BY DEF Valid, validPolicyTargets
    <2>5. pushed[g] = Rules(policy, policy, g, attached[g])
      BY RestingIsFresh DEF Fresh, PushedFresh
    <2>6. pushed[g][r] = [access |-> accessFor(policy, g, r),
                          origin |-> Winner(policy, "origin", KeyOf[r]),
                          default |-> Winner(policy, "origin", g)]
      BY <2>1, <2>5 DEF Rules
    <2>7. /\ pushed[g][r].access = accessFor(policy, g, r)
          /\ pushed[g][r].origin = Winner(policy, "origin", KeyOf[r])
          /\ pushed[g][r].default = Winner(policy, "origin", g)
      BY <2>6
    <2>8. /\ targetsResource(policy, p, g) => Winner(policy, KindOf[p], g) = p
          /\ targetsResource(policy, p, KeyOf[r]) => Winner(policy, KindOf[p], KeyOf[r]) = p
      BY <2>3, <2>4
    <2>9. ASSUME KindOf[p] = "access", r \in L7Routes
          PROVE  /\ targetsResource(policy, p, g) => pushed[g][r].access = p
                 /\ targetsResource(policy, p, KeyOf[r]) =>
                      \/ pushed[g][r].access = p
                      \/ Winner(policy, "access", g) # 0
                         /\ pushed[g][r].access = Winner(policy, "access", g)
      BY <2>1, <2>7, <2>8, <2>9 DEF accessFor
    <2>10. ASSUME KindOf[p] = "origin"
           PROVE  /\ targetsResource(policy, p, KeyOf[r]) => pushed[g][r].origin = p
                  /\ targetsResource(policy, p, g) => pushed[g][r].default = p
      BY <2>7, <2>8, <2>10
    <2> QED BY <2>9, <2>10
  <1> QED BY <1>1, PolicyInvariant, PTL
=============================================================================
