---------------------------- MODULE Startup_proofs ----------------------------
(***************************************************************************)
(* Proof about Startup, for any list of stable resources, release lines,   *)
(* annotations and bounds: a process that nothing disturbs starts if and   *)
(* only if the README's table says so.  The invariant says, for each step  *)
(* of main, what the steps before it have found (Progress), and why the    *)
(* process is no longer there (Refusal).                                   *)
(***************************************************************************)
EXTENDS Startup, TLAPS

\* Settings and cluster are such as users can make them.
Inputs ==
    /\ config \in [flag : [Settings -> {"unset", "true", "false"}],
                   env : [Settings -> {"unset", "true", "false", "bad"}], credentials : BOOLEAN]
    /\ cluster \in [served : SUBSET Resources, meta : [CRDs -> Metas]]

Processes ==
    [pc : {"flags", "client", "resources", "core", "xbackend", "running", "exited"},
     next : Nat \ {0}, warned : SUBSET CRDs, touched : BOOLEAN]

Undisturbed == ~p.touched /\ used.failures = 0

\* What the steps that are done have found.
Progress ==
    Undisturbed =>
        /\ p.pc \in {"flags", "client"} => p.next = 1
        /\ p.pc \notin {"flags", "exited"} => \A s \in Settings : Enabled(s) # "bad"
        /\ p.pc \notin {"flags", "client", "exited"} => config.credentials
        /\ p.pc = "resources" =>
              \A i \in 1 .. Len(required) : i < p.next => required[i] \in cluster.served
        /\ p.pc \in {"core", "xbackend", "running"} =>
              \A i \in 1 .. Len(required) : required[i] \in cluster.served
        /\ p.pc = "running" /\ requireXBackend =>
              /\ ~Fatal(cluster.meta["xbackend"], TRUE)
              /\ Warns(cluster.meta["xbackend"]) => "xbackend" \in p.warned

\* XBackend's CRD is looked at only if it is required, and a process that exited had a reason.
Refusal ==
    /\ p.pc = "xbackend" => requireXBackend
    /\ Undisturbed /\ p.pc = "exited" => ~Startable(cluster)

StartInv == Inputs /\ p \in Processes /\ used \in [edits : Nat, failures : Nat] /\ Progress /\ Refusal
-----------------------------------------------------------------------------
\* The resources required are the stable ones and, if it is enabled, XBackend's.
LEMMA RequiredAreServed ==
    ASSUME NEW served
    PROVE  (\A i \in 1 .. Len(required) : required[i] \in served)
             <=> /\ Resources \ {"xbackends"} \subseteq served
                 /\ requireXBackend => "xbackends" \in served
  <1> DEFINE Extra == IF requireXBackend THEN <<"xbackends">> ELSE <<>>
  <1>1. /\ Stable \in Seq(STRING) /\ Len(Stable) \in Nat
        /\ \A i \in 1 .. Len(Stable) : Stable[i] # "xbackends"
    BY StartupAssumption
  <1>2. Resources \ {"xbackends"} = {Stable[i] : i \in 1 .. Len(Stable)}
    BY <1>1 DEF Resources
  <1>3. CASE requireXBackend
    <2>1. /\ Len(required) = Len(Stable) + 1 /\ required[Len(Stable) + 1] = "xbackends"
          /\ \A i \in 1 .. Len(Stable) : required[i] = Stable[i]
      BY <1>1, <1>3 DEF required
    <2> QED BY <1>1, <1>2, <1>3, <2>1
  <1>4. CASE ~requireXBackend
    <2>1. /\ Len(required) = Len(Stable)
          /\ \A i \in 1 .. Len(Stable) : required[i] = Stable[i]
      BY <1>1, <1>4 DEF required
    <2> QED BY <1>1, <1>2, <1>4, <2>1
  <1> QED BY <1>3, <1>4

\* The channel required is a finite list of CRDs.
LEMMA RequiredLength == Len(required) \in Nat
  <1>1. Stable \in Seq(STRING)
    BY StartupAssumption
  <1> QED BY <1>1 DEF required

\* A version has one of three forms.
LEMMA VersionForms ==
    /\ Invalid # Missing /\ Invalid # <<BuiltLine, FALSE>> /\ Missing # <<BuiltLine, FALSE>>
    /\ <<BuiltLine, FALSE>> \in Releases /\ Missing \notin Releases /\ Invalid \notin Releases
  <1>1. \A line, pre : Len(<<line, pre>>) = 2 /\ Len(<<"invalid">>) = 1 /\ Len(<<>>) = 0
    OBVIOUS
  <1>2. \A v \in Releases : Len(v) = 2
    BY <1>1 DEF Releases
  <1>3. <<BuiltLine, FALSE>> \in Releases
    <2>1. BuiltLine \in Lines
      BY StartupAssumption
    <2>2. ASSUME NEW line \in Lines, NEW pre \in BOOLEAN PROVE <<line, pre>> \in Releases
      BY DEF Releases
    <2> QED BY <2>1, <2>2
  <1> QED BY <1>1, <1>2, <1>3 DEF Missing, Invalid

\* A CRD that does not stop the process is as the table asks, or gets a warning.
LEMMA FatalIsDocumented ==
    ASSUME NEW meta \in Metas
    PROVE  /\ ~Fatal(meta, TRUE) <=> /\ meta.channel \in {"missing", "experimental"}
                                     /\ meta.version \in {Missing, <<BuiltLine, FALSE>>}
           /\ ~Fatal(meta, TRUE) /\ ~Warns(meta) => Verified(meta)
  <1>1. /\ meta.version \in {Missing, Invalid} \cup Releases
        /\ meta = [channel |-> meta.channel, version |-> meta.version]
    BY DEF Metas, Versions
  <1>2. ~Fatal(meta, TRUE) <=> /\ meta.channel \in {"missing", "experimental"}
                               /\ meta.version \in {Missing, <<BuiltLine, FALSE>>}
    BY <1>1, VersionForms DEF Fatal
  <1> QED BY <1>1, <1>2 DEF Warns, Verified

\* A setting is on, off or not a boolean.
LEMMA EnabledValues == Inputs => \A s \in Settings : Enabled(s) \in {"true", "false", "bad"}
  BY DEF Inputs, Enabled, booleanFlagEnabled
-----------------------------------------------------------------------------
\* The process has read nothing.
LEMMA StartInit == Init => StartInv
  <1> SUFFICES ASSUME Init PROVE StartInv
    OBVIOUS
  <1>1. [channel |-> "standard", version |-> Missing] \in Metas
    BY DEF Metas, Versions
  <1>2. Inputs
    BY <1>1 DEF Init, Inputs
  <1> QED BY <1>2 DEF Init, StartInv, Fresh, Processes, Progress, Refusal

\* Every step of the specification preserves the invariant.
LEMMA StartStep == StartInv /\ [Next]_vars => StartInv'
  <1> SUFFICES ASSUME StartInv, [Next]_vars PROVE StartInv'
    OBVIOUS
  <1> USE DEF StartInv
  <1>0. p \in Processes /\ p.next \in Nat /\ Inputs
    BY DEF Processes
  <1>1. CASE UNCHANGED vars
    BY <1>1 DEF vars, Inputs, Progress, Refusal, Undisturbed, Enabled, requireXBackend, required,
        Startable
  <1>2. CASE Step /\ UNCHANGED <<config, cluster>>
    <2>1. /\ Inputs' /\ requireXBackend' = requireXBackend /\ required' = required
          /\ (\A s \in Settings : Enabled(s)' = Enabled(s)) /\ cluster' = cluster
          /\ Startable(cluster)' = Startable(cluster) /\ config' = config
      BY <1>0, <1>2 DEF Inputs, Enabled, requireXBackend, required, Startable
    <2>2. CASE ParseFlags
      <3>1. p' \in Processes /\ used' = used /\ p'.touched = p.touched
        BY <1>0, <2>2 DEF ParseFlags, Exit, Processes
      <3>2. CASE \A s \in Settings : Enabled(s) \in {"true", "false"}
        <4>1. p'.pc = "client" /\ p'.next = p.next /\ p.pc = "flags"
          BY <1>0, <2>2, <3>2 DEF ParseFlags, Processes
        <4>2. \A s \in Settings : Enabled(s) # "bad"
          BY <3>2
        <4> QED BY <2>1, <3>1, <4>1, <4>2 DEF Progress, Refusal, Undisturbed
      <3>3. CASE \E s \in Settings : Enabled(s) \notin {"true", "false"}
        <4>1. p'.pc = "exited"
          BY <1>0, <2>2, <3>3 DEF ParseFlags, Exit, Processes
        <4>2. ~Startable(cluster)
          BY <1>0, <3>3, EnabledValues DEF Startable
        <4> QED BY <2>1, <3>1, <4>1, <4>2 DEF Progress, Refusal
      <3> QED BY <3>2, <3>3
    <2>3. CASE NewClientFromEnv
      <3>1. p' \in Processes /\ used' = used /\ p'.touched = p.touched
        BY <1>0, <2>3 DEF NewClientFromEnv, Exit, Processes
      <3>2. CASE config.credentials
        <4>1. p'.pc = "resources" /\ p'.next = p.next /\ p.pc = "client"
          BY <1>0, <2>3, <3>2 DEF NewClientFromEnv, Processes
        <4>2. Undisturbed' => /\ \A s \in Settings : Enabled(s) # "bad"
                              /\ \A i \in 1 .. Len(required) : ~(i < p'.next)
          BY <3>1, <4>1, RequiredLength DEF Progress, Undisturbed
        <4> QED BY <2>1, <3>1, <3>2, <4>1, <4>2 DEF Progress, Refusal
      <3>3. CASE ~config.credentials
        <4>1. p'.pc = "exited" /\ ~Startable(cluster)
          BY <1>0, <2>3, <3>3 DEF NewClientFromEnv, Exit, Processes, Startable
        <4> QED BY <2>1, <3>1, <4>1 DEF Progress, Refusal
      <3> QED BY <3>2, <3>3
    <2>4. CASE resourceExists
      <3>1. p' \in Processes /\ p'.touched = p.touched /\ p.pc = "resources"
            /\ used' \in [edits : Nat, failures : Nat]
        BY <1>0, <2>4, RequiredLength DEF resourceExists, Exit, Processes, SpendsFailure
      <3>2. CASE used' = used /\ p.next > Len(required) /\ p' = [p EXCEPT !.pc = "core"]
        BY <1>0, <2>1, <3>1, <3>2, RequiredLength DEF Progress, Refusal, Undisturbed, Processes
      <3>3. CASE /\ used' = used /\ required[p.next] \in cluster.served
                 /\ p' = [p EXCEPT !.next = @ + 1]
        <4>1. p'.pc = "resources" /\ \A i \in 1 .. Len(required) : i < p'.next => i < p.next \/ i = p.next
          BY <1>0, <3>1, <3>3 DEF Processes
        <4> QED BY <1>0, <2>1, <3>1, <3>3, <4>1 DEF Progress, Refusal, Undisturbed
      <3>4. CASE /\ used' = used /\ p.next <= Len(required) /\ Exit
                 /\ required[p.next] \notin cluster.served
        <4>1. p'.pc = "exited"
          BY <1>0, <3>4 DEF Exit, Processes
        <4>2. p.next \in 1 .. Len(required)
          BY <1>0, <3>4, RequiredLength DEF Processes
        <4>3. ~Startable(cluster)
          BY <3>4, <4>2, RequiredAreServed DEF Startable
        <4> QED BY <2>1, <3>1, <4>1, <4>3 DEF Progress, Refusal
      <3>5. CASE SpendsFailure /\ Exit
        BY <1>0, <2>1, <3>1, <3>5 DEF Progress, Refusal, Undisturbed, SpendsFailure, Exit, Processes
      <3> QED BY <2>4, <3>2, <3>3, <3>4, <3>5 DEF resourceExists
    <2>5. ASSUME NEW crd \in CRDs, CheckCRD(crd) PROVE StartInv'
      <3> DEFINE after == IF ~(crd = "xbackend") /\ requireXBackend THEN "xbackend" ELSE "running"
                 meta == cluster.meta[crd]
      <3>0. meta \in Metas /\ p.pc = crd /\ crd \in {"core", "xbackend"}
        BY <1>0, <2>5 DEF Inputs, CheckCRD, CRDs
      <3>1. p' \in Processes /\ p'.touched = p.touched /\ used' \in [edits : Nat, failures : Nat]
        <4>1. \/ used' = used /\ Exit
              \/ used' = used /\ p' = [p EXCEPT !.pc = after]
              \/ used' = used /\ p' = [p EXCEPT !.pc = after, !.warned = @ \cup {crd}]
              \/ SpendsFailure /\ Exit
              \/ SpendsFailure /\ p' = [p EXCEPT !.pc = after]
          <5>1. [p EXCEPT !.pc = after, !.warned = p.warned] = [p EXCEPT !.pc = after]
            BY <1>0 DEF Processes
          <5> QED BY <2>5, <5>1 DEF CheckCRD
        <4>2. p.warned \cup {crd} \in SUBSET CRDs /\ after \in {"xbackend", "running"}
          BY <1>0 DEF Processes
        <4>3. SpendsFailure => used' \in [edits : Nat, failures : Nat]
          BY DEF SpendsFailure
        <4> HIDE DEF after
        <4> QED BY <1>0, <4>1, <4>2, <4>3 DEF Exit, Processes
      <3>2. CASE used' = used /\ Fatal(meta, crd = "xbackend") /\ Exit
        <4>1. p'.pc = "exited" /\ crd = "xbackend" /\ requireXBackend
          BY <1>0, <3>0, <3>2 DEF Exit, Processes, Fatal, Refusal
        <4>2. ~Startable(cluster)
          BY <3>0, <3>2, <4>1, FatalIsDocumented DEF Startable
        <4> QED BY <2>1, <3>1, <4>1, <4>2 DEF Progress, Refusal
      <3>3. CASE /\ used' = used /\ ~Fatal(meta, crd = "xbackend")
                 /\ p' = [p EXCEPT !.pc = after,
                                   !.warned = IF Warns(meta) THEN @ \cup {crd} ELSE @]
        <4>1. /\ p'.pc = after
              /\ Warns(meta) => crd \in p'.warned
          BY <1>0, <3>3 DEF Processes
        <4>2. /\ p'.pc \in {"xbackend", "running"}
              /\ p'.pc = "xbackend" => requireXBackend
              /\ p'.pc = "running" /\ requireXBackend => crd = "xbackend"
          BY <3>0, <4>1
        <4>3. Undisturbed' => /\ \A s \in Settings : Enabled(s) # "bad"
                              /\ config.credentials
                              /\ \A i \in 1 .. Len(required) : required[i] \in cluster.served
          BY <3>0, <3>1, <3>3 DEF Progress, Undisturbed
        <4> HIDE DEF after
        <4> QED BY <2>1, <3>1, <3>3, <4>1, <4>2, <4>3 DEF Progress, Refusal
      <3>4. CASE SpendsFailure
        <4>1. ~Undisturbed'
          BY <3>1, <3>4 DEF Undisturbed, SpendsFailure
        <4>2. p'.pc = "xbackend" => requireXBackend
          BY <1>0, <2>5, <3>0 DEF CheckCRD, Exit, Processes, Refusal
        <4> QED BY <2>1, <3>1, <4>1, <4>2 DEF Progress, Refusal
      <3> QED BY <2>5, <3>2, <3>3, <3>4 DEF CheckCRD
    <2> QED BY <1>2, <2>2, <2>3, <2>4, <2>5 DEF Step
  <1>3. CASE StartAgain
    BY <1>0, <1>3 DEF StartAgain, Fresh, Processes, Inputs, Progress, Refusal, Undisturbed
  <1>4. CASE EditCRDs
    <2>1. p' \in Processes /\ p'.touched /\ p'.pc = p.pc /\ used' \in [edits : Nat, failures : Nat]
      <3>1. p' = [p EXCEPT !.touched = TRUE] /\ used' = [used EXCEPT !.edits = @ + 1]
        BY <1>4 DEF EditCRDs
      <3>2. used' \in [edits : Nat, failures : Nat]
        BY <3>1
      <3>3. p' \in Processes /\ p'.pc = p.pc
        BY <1>0, <3>1 DEF Processes
      <3>4. p'.touched
        BY <1>0, <3>1, Zenon DEF Processes
      <3> QED BY <3>2, <3>3, <3>4
    <2>2. Inputs'
      BY <1>0, <1>4, StartupAssumption DEF EditCRDs, Inputs
    <2>3. requireXBackend' = requireXBackend
      BY <1>4 DEF EditCRDs, requireXBackend, Enabled
    <2> QED BY <2>1, <2>2, <2>3 DEF Progress, Refusal, Undisturbed
  <1> QED BY <1>1, <1>2, <1>3, <1>4 DEF Next, Step, ParseFlags, NewClientFromEnv, resourceExists,
             CheckCRD

\* A process that nothing disturbs runs or exits as the README's table says, and runs on an
\* XBackend CRD it could not verify only with a warning, for any constants.
THEOREM StartsByTheTable == Spec => []StartFollowsTable
  <1>1. StartInv => StartFollowsTable
    <2> SUFFICES ASSUME StartInv, Undisturbed PROVE StartFollowsTable
      BY DEF StartFollowsTable, Undisturbed
    <2>1. p.pc = "running" => Startable(cluster)
      <3> SUFFICES ASSUME p.pc = "running" PROVE Startable(cluster)
        OBVIOUS
      <3>1. cluster.meta["xbackend"] \in Metas
        BY DEF StartInv, Inputs, CRDs
      <3> QED BY <3>1, RequiredAreServed, FatalIsDocumented DEF StartInv, Progress, Startable
    <2>2. p.pc = "running" /\ requireXBackend /\ ~Verified(cluster.meta["xbackend"])
            => "xbackend" \in p.warned
      <3>1. cluster.meta["xbackend"] \in Metas
        BY DEF StartInv, Inputs, CRDs
      <3> QED BY <3>1, FatalIsDocumented DEF StartInv, Progress
    <2> QED BY <2>1, <2>2 DEF StartInv, Refusal, StartFollowsTable
  <1> QED BY <1>1, StartInit, StartStep, PTL DEF Spec
=============================================================================
