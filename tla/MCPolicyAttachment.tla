------------------------- MODULE MCPolicyAttachment -------------------------
(* Instances of PolicyAttachment for TLC, with policies of one kind, and statements of the *)
(* documentation that some of them refute.                                                 *)
EXTENDS PolicyAttachment

AllAccess == [p \in Policies |-> "access"]
AllOrigin == [p \in Policies |-> "origin"]

\* Routes have keys of their own, or one in common.
OwnKeys == [r \in Routes |-> r]
OneKey == [r \in Routes |-> "HTTPRoute/r"]
-----------------------------------------------------------------------------
\* "The config actually pushed to Cloudflare is the same policy reported Accepted in status"
\* (accesspolicy.go), read the other way: a policy in force is not reported Conflicted.
AppliedIsAccepted ==
    Quiet => \A g \in LiveGateways : \A r \in attached[g], p \in Policies :
        p = pushed[g][r].access => policy[p].accepted[g].status # "False"

\* The same sentence: a policy reported Accepted for a Gateway targets it or a route of it.
AcceptedTargets ==
    Quiet => \A g \in LiveGateways : \A p \in Policies :
        policy[p].accepted[g].status = "True" => \E t \in Valid(g) : targetsResource(policy, p, t)

\* "When targeting a Gateway, all routes attached to it get Access enforcement" (types.go).
GatewayAccessCoversRoutes ==
    Quiet => \A g \in LiveGateways : \A r \in attached[g], p \in Listed(policy, "access") :
        targetsResource(policy, p, g) => pushed[g][r].access # 0

\* "When targeting a route, only that route's ingress rules get Access enforcement"
\* (types.go); a targetRef is local to the namespace of its policy.
OnlyThatRoute ==
    Quiet => \A g \in LiveGateways : \A r \in attached[g] \ LocalRoutes : \A p \in Policies :
        pushed[g][r].access = p => targetsResource(policy, p, g)

\* The Overridden condition "is cleared (set False) when the policy stops applying its
\* defaults" (originpolicy.go).
OverriddenIsCleared ==
    Quiet => \A g \in LiveGateways, p \in Policies :
        policy[p].overridden[g].status = "True" => g \in TargetKeys(policy, p)

\* prunePolicyAncestorStatus is there "so a removed Gateway does not leak stale GEP-713
\* ancestor status" (accesspolicy.go).
NoLeakedAncestors ==
    Quiet => \A g \in Gateways, p \in Policies :
        live[g] = "gone" /\ policy[p].exists => policy[p].accepted[g].status = "absent"
=============================================================================
