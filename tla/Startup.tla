------------------------------- MODULE Startup -------------------------------
(***************************************************************************)
(* How the controller starts (main.go, preflight.go): its flags, its       *)
(* Cloudflare client, and the check of the Gateway API resources and of    *)
(* the CRDs' release, on a cluster whose CRDs are installed, upgraded and  *)
(* removed meanwhile.  A process that exits is started again.              *)
(*                                                                         *)
(* A bundle version is missing, invalid or a release line with or without  *)
(* a prerelease; patch versions do not matter.                             *)
(***************************************************************************)
EXTENDS Naturals, Sequences

CONSTANTS
    Stable,                \* the stable resources, in the order they are checked
    BuiltLine,             \* the release line the controller is built against
    Lines,                 \* release lines CRDs may be of
    Annotated,             \* annotations administrators put on CRDs
    MaxEdits, MaxFailures

VARIABLES
    config,     \* explicit flag and environment of each setting, and the credentials
    cluster,    \* resources served, and what is annotated on the two CRDs looked at
    p,          \* the process
    used        \* how much of each bound is used up

vars == <<config, cluster, p, used>>

Settings == {"backends", "dns"}
Resources == {Stable[i] : i \in 1 .. Len(Stable)} \cup {"xbackends"}
Missing == <<>>
Invalid == <<"invalid">>
Releases == {<<line, pre>> : line \in Lines, pre \in BOOLEAN}
Versions == {Missing, Invalid} \cup Releases
Metas == [channel : {"missing", "standard", "experimental", "other"}, version : Versions]
CRDs == {"core", "xbackend"}

\* A process that has just begun; `touched` says whether CRDs changed since.
Fresh == [pc |-> "flags", next |-> 1, warned |-> {}, touched |-> FALSE]

ASSUME StartupAssumption ==
    /\ Stable \in Seq(STRING) /\ \A i \in 1 .. Len(Stable) : Stable[i] # "xbackends"
    /\ BuiltLine \in Lines /\ Lines \subseteq Nat /\ Annotated \subseteq Metas
    /\ {MaxEdits, MaxFailures} \subseteq Nat
-----------------------------------------------------------------------------
(* What is checked. *)

\* An explicit flag wins over the environment, which must be a boolean.
booleanFlagEnabled(flag, env) ==
    IF flag # "unset" THEN flag ELSE IF env = "unset" THEN "false" ELSE env
Enabled(setting) == booleanFlagEnabled(config.flag[setting], config.env[setting])
requireXBackend == Enabled("backends") = "true"

\* The stable resources, and XBackend when it is enabled.
required == Stable \o (IF requireXBackend THEN <<"xbackends">> ELSE <<>>)

\* A CRD that stops the process; only XBackend's can.
Fatal_mOlderOnly(meta, experimental) ==
    /\ experimental
    /\ \/ meta.channel \notin {"missing", "experimental"}
       \/ meta.version = Invalid
       \/ meta.version \in Releases /\ meta.version[1] < BuiltLine
Fatal_mAnyCRD(meta, experimental) ==
    \/ meta.channel \notin {"missing", "experimental"}
    \/ meta.version = Invalid
    \/ meta.version \in Releases /\ meta.version # <<BuiltLine, FALSE>>
Fatal(meta, experimental) ==
    /\ experimental
    /\ \/ meta.channel \notin {"missing", "experimental"}
       \/ meta.version = Invalid
       \/ meta.version \in Releases /\ meta.version # <<BuiltLine, FALSE>>

\* A CRD that gets a warning.
Warns(meta) ==
    \/ meta.channel \in {"missing", "other"} \/ meta.version \in {Missing, Invalid}
    \/ meta.version \in Releases /\ meta.version[1] < BuiltLine
-----------------------------------------------------------------------------
Init ==
    /\ config \in [flag : [Settings -> {"unset", "true", "false"}],
                   env : [Settings -> {"unset", "true", "false", "bad"}], credentials : BOOLEAN]
    /\ config.flag["dns"] = "unset" /\ config.env["dns"] \in {"unset", "bad"}
    /\ cluster = [served |-> {},
                  meta |-> [c \in CRDs |-> [channel |-> "standard", version |-> Missing]]]
    /\ p = Fresh
    /\ used = [edits |-> 0, failures |-> 0]

Exit == p' = [p EXCEPT !.pc = "exited"]

\* A read of the cluster that fails.
SpendsFailure ==
    /\ used.failures < MaxFailures
    /\ used' = [used EXCEPT !.failures = @ + 1]

\* main: the two flags, then NewClientFromEnv.
ParseFlags ==
    /\ p.pc = "flags"
    /\ IF \A s \in Settings : Enabled(s) \in {"true", "false"}
       THEN p' = [p EXCEPT !.pc = "client"] ELSE Exit
    /\ UNCHANGED <<config, cluster, used>>
NewClientFromEnv ==
    /\ p.pc = "client"
    /\ IF config.credentials THEN p' = [p EXCEPT !.pc = "resources"] ELSE Exit
    /\ UNCHANGED <<config, cluster, used>>

\* preflightCheckCRDs, first loop: is each required resource served?
resourceExists ==
    /\ p.pc = "resources"
    /\ \/ p.next > Len(required) /\ p' = [p EXCEPT !.pc = "core"] /\ UNCHANGED used
       \/ /\ p.next <= Len(required)
          /\ \/ required[p.next] \in cluster.served /\ p' = [p EXCEPT !.next = @ + 1]
                /\ UNCHANGED used
             \/ required[p.next] \notin cluster.served /\ Exit /\ UNCHANGED used
             \/ SpendsFailure /\ Exit
    /\ UNCHANGED <<config, cluster>>

\* Its second loop: the core CRD, and XBackend's when it is enabled.  What cannot be read is
\* an error for XBackend only.
CheckCRD(crd) ==
    LET experimental == crd = "xbackend"
        after == IF ~experimental /\ requireXBackend THEN "xbackend" ELSE "running"
        meta == cluster.meta[crd] IN
    /\ p.pc = crd
    /\ \/ /\ IF Fatal(meta, experimental) THEN Exit
             ELSE p' = [p EXCEPT !.pc = after,
                                 !.warned = IF Warns(meta) THEN @ \cup {crd} ELSE @]
          /\ UNCHANGED used
       \/ /\ SpendsFailure
          /\ IF experimental THEN Exit ELSE p' = [p EXCEPT !.pc = after]
    /\ UNCHANGED <<config, cluster>>

\* The kubelet starts the container again.
StartAgain == p.pc = "exited" /\ p' = Fresh /\ UNCHANGED <<config, cluster, used>>

\* Administrators install, upgrade or remove CRDs.
EditCRDs ==
    /\ used.edits < MaxEdits
    /\ used' = [used EXCEPT !.edits = @ + 1]
    /\ \/ \E r \in Resources :
             cluster' = [cluster EXCEPT !.served = IF r \in @ THEN @ \ {r} ELSE @ \cup {r}]
       \/ cluster' = [cluster EXCEPT !.served = Resources]
       \/ \E crd \in CRDs, meta \in Annotated : cluster' = [cluster EXCEPT !.meta[crd] = meta]
    /\ p' = [p EXCEPT !.touched = TRUE]
    /\ UNCHANGED config

Step == ParseFlags \/ NewClientFromEnv \/ resourceExists \/ \E crd \in CRDs : CheckCRD(crd)
Next == Step \/ StartAgain \/ EditCRDs

\* The process goes on, and its container is restarted.
Spec == Init /\ [][Next]_vars /\ WF_vars(Step) /\ WF_vars(StartAgain)
-----------------------------------------------------------------------------
(* Properties. *)

\* The README's table of start-up behaviour ("Cluster and feature flag"): what a process
\* needs in order to start.
Startable(c) ==
    /\ config.credentials /\ \A s \in Settings : Enabled(s) # "bad"
    /\ Resources \ {"xbackends"} \subseteq c.served
    /\ requireXBackend =>
         /\ "xbackends" \in c.served
         /\ c.meta["xbackend"].channel \in {"missing", "experimental"}
         /\ c.meta["xbackend"].version \in {Missing, <<BuiltLine, FALSE>>}

\* "Missing annotations on custom CRDs produce a compatibility warning" (README).
Verified(meta) == meta = [channel |-> "experimental", version |-> <<BuiltLine, FALSE>>]

\* On a cluster that is not touched meanwhile, and read without errors, a process starts if
\* and only if the table says so, whatever the channel and version of the core CRD are; and
\* it never runs on an XBackend CRD whose release it could not verify without a warning.
StartFollowsTable ==
    ~p.touched /\ used.failures = 0 =>
        /\ p.pc = "running" => Startable(cluster)
        /\ p.pc = "exited" => ~Startable(cluster)
        /\ p.pc = "running" /\ requireXBackend /\ ~Verified(cluster.meta["xbackend"])
             => "xbackend" \in p.warned

\* Whatever order the CRDs are installed in and however often the process exits meanwhile,
\* once the cluster is as it should be and left alone the controller runs, for good.
EventuallyRuns == <>[]Startable(cluster) => <>[](p.pc = "running")
=============================================================================
