----------------------------- MODULE MCStartup -----------------------------
(* An instance of Startup for TLC: two of the eight stable resources. *)
EXTENDS Startup

MCStable == <<"gateways", "tcproutes">>

\* Either channel with every version, and what a custom CRD may lack.
MCAnnotated ==
    {m \in Metas : m.channel = "experimental" \/ m.version \in {Missing, <<BuiltLine, FALSE>>}}
=============================================================================
