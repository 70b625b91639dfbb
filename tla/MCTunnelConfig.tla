--------------------------- MODULE MCTunnelConfig ---------------------------
(* Instances of TunnelConfig for TLC: Gateways of one namespace and a class that may refer to *)
(* the configuration "shared" of another one, which Gateways refer to only in their own.      *)
EXTENDS TunnelConfig, TLC

Symmetry == Permutations(Gateways)
MCNamespaceOf == [g \in Gateways |-> "a"]
MCConfigs == {<<"b", "shared">>, <<"a", "own">>}

Config(ns, name) == [kind |-> "CloudflareTunnelConfig", ns |-> ns, name |-> name]
MCClassRefs == {Config("b", "shared"), Config("", "shared"),
                [kind |-> "ConfigMap", ns |-> "b", name |-> "shared"]}
Map(k, v) == [x \in {k} |-> v]
Spec0(ref, labels, annotations) == [ref |-> ref, labels |-> labels, annotations |-> annotations]
MCGatewaySpecs == {Spec0(NoRef, Nothing, Nothing),
                   Spec0(Config("", "own"), Map("team", "x"), Map("team", "x"))}
WithLabels(n, labels) ==
    [f \in {"replicas", "podLabels"} |-> IF f = "replicas" THEN n ELSE labels]
Plain == WithLabels("4", Map("tier", "y"))
Annotated == [f \in {"replicas", "podAnnotations"} |->
                 IF f = "replicas" THEN "3" ELSE Map("team", "z")]
MCConfigSpecs == {Plain, Annotated, WithLabels("4", Map("app", "mine"))}
MCInitialConfigs ==
    [c \in Configs |-> [exists |-> TRUE, spec |-> IF c[2] = "own" THEN Annotated ELSE Plain]]
-----------------------------------------------------------------------------
(* Statements of the documentation that this instance refutes. *)

\* "Propagate Gateway infrastructure labels and annotations to the Deployment and pod
\* template" (deployment.go): those of an existing Deployment are never updated.
AnnotationsArePropagated ==
    \A g \in Gateways : Rests(g) /\ Managed(g) =>
        api.deps[g].object.annotations = api.gws[g].spec.annotations

\* "PodLabels are added to the cloudflared pod template" (tunnelconfig_types.go): with the
\* label "app" the API server refuses the Deployment in every pass.
PodLabelsAreAdmitted ==
    \A g \in Gateways : w.pc = "deploy" /\ w.gw = {g} =>
        Admitted(BuildCloudflaredDeployment(w.gateway, w.merged))
=============================================================================
