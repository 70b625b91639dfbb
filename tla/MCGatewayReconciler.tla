------------------------ MODULE MCGatewayReconciler ------------------------
(* Instances of GatewayReconciler for TLC: how Gateways are named. *)
EXTENDS GatewayReconciler, TLC

\* Gateways with different names.
DistinctNames ==
    CHOOSE f \in [Gateways -> Names] : \A g1, g2 \in Gateways : f[g1] = f[g2] => g1 = g2

\* Gateways of the same name in different namespaces.
SharedName == [g \in Gateways |-> CHOOSE n \in Names : TRUE]

\* Hostnames are interchangeable: Init, Next and the safety properties name none.
HostSymmetry == Permutations(Hostnames)
-----------------------------------------------------------------------------
(* Statements of the documentation that some instances refute. *)

\* README: "Each Gateway gets its own Cloudflare Tunnel".
OwnTunnel ==
    \A g1, g2 \in Gateways :
        g1 # g2 /\ gateway[g1].address # 0 => gateway[g1].address # gateway[g2].address

\* README: each Gateway gets "its own cloudflared Deployment".
KeepsDeployment ==
    \A g \in Gateways : <>[]Live(g) => <>[](deployment[g] # 0)

\* secret.go: "EnsureTunnelSecret ensures a K8s Secret exists with a valid 32-byte
\* tunnel secret", when it reads the Secret as it is.
EnsuresValidSecret ==
    \A g \in Gateways :
        (w.pc = "EnsureTunnelSecret" /\ w.gw = g /\ cachedSecret[g] = secret[g])
            ~> (secret[g].key > BadKey \/ ~Live(g))
=============================================================================
