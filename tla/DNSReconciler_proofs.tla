----------------------- MODULE DNSReconciler_proofs ------------------------
(***************************************************************************)
(* Proofs about DNSReconciler for any zones, hostnames, Gateways, batch    *)
(* size and bounds: type correctness, that the passes implement            *)
(* DNSOwnership, and what a pass that reports success has done.            *)
(*                                                                         *)
(* A batch names the records it changes by the ids of an earlier listing.  *)
(* It is safe because ids are never reused: a record that still has a      *)
(* planned id is the very record that was listed with the Gateway's mark   *)
(* (PendingOwn), and only the Gateway itself puts its mark on a record     *)
(* (MarksMatch).  What others may undo while a pass is running, the        *)
(* properties themselves leave out (NoForeignEdits, NoTakeover).           *)
(***************************************************************************)
EXTENDS DNSReconciler, FiniteSetTheorems, TLAPS

\* Ids are never reused, and only an empty slot has id 0.
FreshIds ==
    /\ \A s \in Slots : rec[s].id < nextId /\ (rec[s].id = 0 => rec[s] = NoRecord)
    /\ \A c \in pass.pending : c.id < nextId

\* A record that carries a Gateway's mark was created for that Gateway.
MarksMatch == \A s \in Slots : rec[s].owner # 0 => rec[s].maker = rec[s].owner

\* A record that still has the id of a planned update or delete was created for the
\* Gateway the pass works for.
PendingOwn ==
    \A z \in pass.zone, c \in pass.pending : c.op # "create" =>
        c.id # 0 /\ (rec[<<z, c.host>>].id = c.id => rec[<<z, c.host>>].maker = pass.owner)

\* A pass works for a Gateway.
BusyPass == pass.pc # "idle" => pass.owner \in Owners

IndInv == TypeOK /\ FreshIds /\ MarksMatch /\ PendingOwn /\ BusyPass
-----------------------------------------------------------------------------
\* The values a slot and the worker start from are well typed.
LEMMA EmptyTypes == NoRecord \in Records /\ Idle \in Passes
  BY DNSAssumption DEF NoRecord, Idle, Records, Passes, Uids

\* Every planned change is one the batch endpoint understands, has the id the slot had
\* at the listing, and is an update or a delete only where the Gateway's mark is.
LEMMA PlanTypes ==
    ASSUME TypeOK, NEW z \in Zones, NEW c \in Plan(pass, z)
    PROVE  /\ c \in Changes
           /\ c.id = rec[<<z, c.host>>].id
           /\ c.op # "create" => Owned(pass.owner, <<z, c.host>>)
  <1>1. \A h \in Hostnames : <<z, h>> \in Slots /\ rec[<<z, h>>].id \in Nat
    BY DEF TypeOK, Slots, Records
  <1>2. Desired(pass, z) \subseteq Hostnames
    BY DEF Desired, TypeOK, Passes
  <1>3. CASE c \in Deletes(pass, z)
    <2>1. PICK h \in Hostnames : c = Change("delete", z, h) /\ Owned(pass.owner, <<z, h>>)
      BY <1>2, <1>3 DEF Deletes
    <2>2. c = [op |-> "delete", host |-> h, id |-> rec[<<z, h>>].id]
      BY <2>1 DEF Change
    <2> QED BY <1>1, <2>1, <2>2 DEF Changes
  <1>4. CASE c \in Updates(pass, z)
    <2>1. PICK h \in Hostnames : c = Change("update", z, h) /\ Owned(pass.owner, <<z, h>>)
      BY <1>2, <1>4 DEF Updates
    <2>2. c = [op |-> "update", host |-> h, id |-> rec[<<z, h>>].id]
      BY <2>1 DEF Change
    <2> QED BY <1>1, <2>1, <2>2 DEF Changes
  <1>5. CASE c \in Creates(pass, z)
    <2>1. PICK h \in Hostnames : c = Change("create", z, h)
      BY <1>2, <1>5 DEF Creates
    <2>2. c = [op |-> "create", host |-> h, id |-> rec[<<z, h>>].id]
      BY <2>1 DEF Change
    <2> QED BY <1>1, <2>1, <2>2 DEF Changes
  <1> QED BY <1>3, <1>4, <1>5 DEF Plan

\* A failing zone leaves a well-typed pass with nothing pending.
LEMMA ZoneFailedTypes ==
    ASSUME TypeOK, NEW z \in Zones
    PROVE  /\ ZoneFailed(z) \in Passes
           /\ ZoneFailed(z).pc = "zones" /\ ZoneFailed(z).owner = pass.owner
           /\ ZoneFailed(z).zone = {} /\ ZoneFailed(z).pending = {}
  BY DEF TypeOK, Passes, ZoneFailed

\* What an accepted batch does to a slot: the record there keeps its id and its maker, or
\* there is none, or it is a new one made for this Gateway; and the record that was there
\* is unchanged unless it was made for this Gateway.
LEMMA BatchedSlot ==
    ASSUME IndInv, NEW z \in Zones, NEW chunk \in SUBSET pass.pending, pass.zone = {z},
           pass.pc = "apply", Acceptable(z, chunk), NEW s \in Slots
    PROVE  LET r == Batched(z, chunk)[s] IN
           /\ r \in Records
           /\ r = rec[s] \/ rec[s] = NoRecord \/ rec[s].maker = pass.owner
           /\ \/ r = rec[s]
              \/ r = NoRecord
              \/ r.id = rec[s].id /\ r.id # 0 /\ r.maker = pass.owner /\ r.owner = pass.owner
              \/ r.id = nextId /\ r.maker = pass.owner /\ r.owner = pass.owner
  <1> DEFINE r == Batched(z, chunk)[s]
  <1>1. CASE ~(s[1] = z /\ \E c \in chunk : c.host = s[2])
    <2>1. r = rec[s]
      BY <1>1 DEF Batched
    <2> QED BY <2>1 DEF IndInv, TypeOK
  <1>2. CASE s[1] = z /\ \E c \in chunk : c.host = s[2]
    <2>1. PICK c \in chunk : c.host = s[2] /\ r = Changed(c, s)
      BY <1>2 DEF Batched
    <2>2. s = <<z, c.host>>
      BY <1>2, <2>1 DEF Slots
    <2>3. c \in Changes
      BY DEF IndInv, TypeOK, Passes
    <2>4. /\ rec[s] \in Records
          /\ nextId \in Nat /\ pass.owner \in Uids /\ pass.target \in Targets \cup {0}
          /\ pass.owner \in Owners
      BY DEF IndInv, TypeOK, Passes, BusyPass
    <2>5. CASE c.op = "create"
      <3>1. rec[s] = NoRecord
        BY <2>2, <2>5 DEF Acceptable
      <3>2. r = [id |-> nextId, kind |-> "CNAME", owner |-> pass.owner,
                 target |-> pass.target, maker |-> pass.owner]
        BY <2>1, <2>5 DEF Changed
      <3> QED BY <3>1, <3>2, <2>4 DEF Records
    <2>6. CASE c.op # "create"
      <3>1. rec[s].id = c.id /\ c.id # 0 /\ rec[s].maker = pass.owner
        BY <2>2, <2>6 DEF Acceptable, IndInv, PendingOwn
      <3>2. CASE c.op = "delete"
        <4>1. r = NoRecord
          BY <2>1, <3>2 DEF Changed
        <4> QED BY <3>1, <4>1, EmptyTypes
      <3>3. CASE c.op = "update"
        <4>1. r = [rec[s] EXCEPT !.kind = "CNAME", !.owner = pass.owner,
                                 !.target = pass.target]
          BY <2>1, <3>3 DEF Changed
        <4> QED BY <3>1, <4>1, <2>4 DEF Records
      <3> QED BY <2>3, <2>6, <3>2, <3>3 DEF Changes
    <2> QED BY <2>5, <2>6
  <1> QED BY <1>1, <1>2
-----------------------------------------------------------------------------
\* The invariant holds initially: no records, no pass.
LEMMA InitInv == Init => IndInv
  <1> SUFFICES ASSUME Init PROVE IndInv
    OBVIOUS
  <1>1. TypeOK
    BY EmptyTypes, DNSAssumption DEF Init, TypeOK, Wishes
  <1>2. FreshIds /\ MarksMatch /\ PendingOwn /\ BusyPass
    BY DEF Init, FreshIds, MarksMatch, PendingOwn, BusyPass, NoRecord, Idle
  <1> QED BY <1>1, <1>2 DEF IndInv

\* A step that leaves the records alone and the pending changes no larger keeps the
\* facts about ids.
LEMMA PassOnly ==
    ASSUME IndInv, UNCHANGED <<rec, nextId>>, pass' \in Passes,
           pass'.pending = {} \/ (pass'.pending \subseteq pass.pending /\ pass'.zone = pass.zone
                                  /\ pass'.owner = pass.owner)
    PROVE  (FreshIds /\ MarksMatch /\ PendingOwn)'
  BY DEF IndInv, FreshIds, MarksMatch, PendingOwn

\* The listing steps of a pass.
LEMMA ListRecordsInv ==
    ASSUME IndInv, NEW z \in Zones, ListRecords(z)
    PROVE  IndInv'
  <1> USE DEF IndInv
  <1>0. Plan(pass, z) \subseteq Changes
    BY PlanTypes
  <1>1. CASE pass' = ZoneFailed(z) /\ SpendsFailure
    <2>1. pass' \in Passes /\ pass'.pending = {} /\ pass'.owner = pass.owner
          /\ pass.pc # "idle"
      BY <1>1, ZoneFailedTypes DEF ListRecords
    <2>2. TypeOK'
      BY <1>1, <2>1 DEF TypeOK, ListRecords, SpendsFailure
    <2>3. (FreshIds /\ MarksMatch /\ PendingOwn)'
      BY <2>1, PassOnly DEF ListRecords
    <2> QED BY <2>1, <2>2, <2>3 DEF BusyPass
  <1>2. CASE /\ pass' = [pass EXCEPT !.pc = IF Plan(pass, z) = {} THEN "zones" ELSE "apply",
                                     !.todo = @ \ {z},
                                     !.zone = IF Plan(pass, z) = {} THEN {} ELSE {z},
                                     !.pending = Plan(pass, z),
                                     !.err = @ \/ Conflicts(pass, z) # {}]
             /\ UNCHANGED used
    <2>1. /\ pass' \in Passes /\ pass'.owner = pass.owner /\ pass'.pending = Plan(pass, z)
          /\ pass'.zone \subseteq {z} /\ pass.pc # "idle" /\ pass'.pc # "idle"
      BY <1>0, <1>2 DEF ListRecords, TypeOK, Passes
    <2>2. TypeOK'
      BY <1>2, <2>1 DEF TypeOK, ListRecords
    <2>3. \A c \in Plan(pass, z) :
             /\ c.host \in Hostnames /\ c.id < nextId
             /\ c.op # "create" => /\ c.id # 0
                                   /\ rec[<<z, c.host>>].maker = pass.owner
      <3> SUFFICES ASSUME NEW c \in Plan(pass, z)
                   PROVE  /\ c.host \in Hostnames /\ c.id < nextId
                          /\ c.op # "create" => /\ c.id # 0
                                                /\ rec[<<z, c.host>>].maker = pass.owner
        OBVIOUS
      <3>1. /\ c.host \in Hostnames /\ c.id = rec[<<z, c.host>>].id
            /\ c.op # "create" => Owned(pass.owner, <<z, c.host>>)
        BY PlanTypes DEF Changes
      <3>2. <<z, c.host>> \in Slots
        BY <3>1 DEF Slots
      <3>3. pass.owner # 0
        BY DNSAssumption DEF ListRecords, BusyPass
      <3>4. c.op # "create" => rec[<<z, c.host>>] # NoRecord
        BY <3>1 DEF Owned, IsCNAME, NoRecord
      <3> QED BY <3>1, <3>2, <3>3, <3>4 DEF FreshIds, MarksMatch, Owned
    <2>4. FreshIds' /\ MarksMatch'
      BY <2>1, <2>3 DEF FreshIds, MarksMatch, ListRecords
    <2>5. PendingOwn'
      BY <2>1, <2>3 DEF PendingOwn, ListRecords
    <2> QED BY <2>1, <2>2, <2>4, <2>5 DEF BusyPass
  <1> QED BY <1>1, <1>2 DEF ListRecords

\* A batch keeps ids fresh and changes only records of the Gateway it works for.
LEMMA ApplyBatchInv ==
    ASSUME IndInv, NEW z \in Zones, ApplyBatch(z)
    PROVE  IndInv'
  <1> USE DEF IndInv
  <1>1. PICK chunk \in Chunks(pass.pending) :
          \/ /\ Acceptable(z, chunk)
             /\ rec' = Batched(z, chunk)
             /\ nextId' = nextId + 1
             /\ \/ /\ pass' = [pass EXCEPT !.pending = @ \ chunk,
                                           !.pc = IF pass.pending = chunk THEN "zones" ELSE "apply",
                                           !.zone = IF pass.pending = chunk THEN {} ELSE @]
                   /\ UNCHANGED used
                \/ SpendsFailure /\ pass' = ZoneFailed(z)
          \/ /\ ~Acceptable(z, chunk)
             /\ pass' = ZoneFailed(z)
             /\ UNCHANGED <<rec, nextId, used>>
          \/ SpendsFailure /\ pass' = ZoneFailed(z) /\ UNCHANGED <<rec, nextId>>
    BY DEF ApplyBatch
  <1>2. chunk \in SUBSET pass.pending /\ pass.zone = {z} /\ pass.pc = "apply"
    BY DEF Chunks, ApplyBatch
  <1>3. /\ pass' \in Passes /\ pass'.owner = pass.owner /\ pass'.pc # "idle"
        /\ pass'.pending \subseteq pass.pending /\ pass'.zone \subseteq pass.zone
        /\ pass'.pending = {} \/ pass'.zone = pass.zone
    <2>1. CASE pass' = ZoneFailed(z)
      BY <2>1, ZoneFailedTypes
    <2>2. CASE pass' = [pass EXCEPT !.pending = @ \ chunk,
                                    !.pc = IF pass.pending = chunk THEN "zones" ELSE "apply",
                                    !.zone = IF pass.pending = chunk THEN {} ELSE @]
      BY <2>2, <1>2 DEF TypeOK, Passes
    <2> QED BY <1>1, <2>1, <2>2
  <1>4. used' \in [wishes : Nat, foreign : Nat, failures : Nat]
    BY <1>1 DEF TypeOK, SpendsFailure
  <1>5. UNCHANGED <<zones, wish, dirty, meddled>>
    BY DEF ApplyBatch
  <1>6. CASE UNCHANGED <<rec, nextId>>
    <2>1. TypeOK'
      BY <1>3, <1>4, <1>5, <1>6 DEF TypeOK
    <2>2. (FreshIds /\ MarksMatch /\ PendingOwn)'
      BY <1>3, <1>6, PassOnly
    <2> QED BY <1>2, <1>3, <2>1, <2>2 DEF BusyPass
  <1>7. CASE Acceptable(z, chunk) /\ rec' = Batched(z, chunk) /\ nextId' = nextId + 1
    <2>1. \A s \in Slots :
             /\ rec'[s] \in Records
             /\ \/ rec'[s] = rec[s]
                \/ rec'[s] = NoRecord
                \/ /\ rec'[s].id = rec[s].id /\ rec'[s].id # 0
                   /\ rec'[s].maker = pass.owner /\ rec'[s].owner = pass.owner
                \/ /\ rec'[s].id = nextId
                   /\ rec'[s].maker = pass.owner /\ rec'[s].owner = pass.owner
      BY <1>2, <1>7, BatchedSlot
    <2>2. TypeOK'
      <3>1. rec' \in [Slots -> Records]
        BY <1>7, <2>1 DEF Batched
      <3> QED BY <1>3, <1>4, <1>5, <1>7, <3>1 DEF TypeOK
    <2>3. nextId \in Nat \ {0} /\ \A s \in Slots : rec[s].id \in Nat
      BY DEF TypeOK, Records
    <2>4. \A c \in pass.pending : c.id \in Nat /\ c.host \in Hostnames
      BY DEF TypeOK, Passes, Changes
    <2>5. FreshIds'
      BY <1>3, <1>7, <2>1, <2>3, <2>4 DEF FreshIds, NoRecord
    <2>6. MarksMatch'
      BY <2>1 DEF MarksMatch, NoRecord
    <2>7. PendingOwn'
      <3> SUFFICES ASSUME NEW y \in pass'.zone, NEW c \in pass'.pending, c.op # "create"
                   PROVE  c.id # 0 /\ (rec'[<<y, c.host>>].id = c.id
                                         => rec'[<<y, c.host>>].maker = pass'.owner)
        BY DEF PendingOwn
      <3>1. y \in pass.zone /\ c \in pass.pending
        BY <1>3
      <3>2. <<y, c.host>> \in Slots
        BY <1>2, <2>4, <3>1 DEF Slots
      <3>3. c.id # 0 /\ c.id < nextId /\ c.id \in Nat
        BY <2>4, <3>1 DEF PendingOwn, FreshIds
      <3>4. rec[<<y, c.host>>].id = c.id => rec[<<y, c.host>>].maker = pass.owner
        BY <3>1 DEF PendingOwn
      <3>5. NoRecord.id = 0
        BY DEF NoRecord
      <3> QED BY <1>3, <2>1, <2>3, <3>2, <3>3, <3>4, <3>5
    <2> QED BY <1>2, <1>3, <2>2, <2>5, <2>6, <2>7 DEF BusyPass
  <1> QED BY <1>1, <1>6, <1>7
-----------------------------------------------------------------------------
\* What others do never reuses an id nor marks a record.
LEMMA ForeignInv ==
    ASSUME IndInv, NEW s \in Slots, ForeignCreate(s) \/ ForeignEdit(s)
    PROVE  IndInv'
  <1> USE DEF IndInv
  <1>0. /\ UNCHANGED <<zones, wish, dirty, pass>> /\ nextId' \in {nextId, nextId + 1}
        /\ used' \in [wishes : Nat, foreign : Nat, failures : Nat]
        /\ meddled' \subseteq ForeignKinds
    BY DEF ForeignCreate, ForeignEdit, Meddles, TypeOK
  <1>1. \E r \in Records :
          /\ rec' = [rec EXCEPT ![s] = r]
          /\ \/ r = NoRecord
             \/ r.id = nextId /\ r.owner = 0 /\ nextId' = nextId + 1
             \/ /\ rec[s] # NoRecord /\ r.id = rec[s].id /\ r.maker = rec[s].maker
                /\ r.owner \in {rec[s].owner, 0}
    <2>1. CASE ForeignCreate(s)
      <3>1. PICK kind \in {"CNAME", "other"} :
              rec' = [rec EXCEPT ![s] = [NoRecord EXCEPT !.id = nextId, !.kind = kind]]
        BY <2>1 DEF ForeignCreate
      <3> DEFINE r == [NoRecord EXCEPT !.id = nextId, !.kind = kind]
      <3>2. r \in Records /\ r.id = nextId /\ r.owner = 0
        BY DNSAssumption DEF NoRecord, Records, TypeOK, Uids
      <3> QED BY <2>1, <3>1, <3>2 DEF ForeignCreate
    <2>2. CASE ForeignEdit(s)
      <3>0. rec[s] \in Records /\ 0 \in Uids /\ rec[s] # NoRecord
        BY <2>2 DEF TypeOK, Uids, ForeignEdit
      <3>1. CASE rec' = [rec EXCEPT ![s] = NoRecord]
        BY <3>1, EmptyTypes
      <3>2. CASE rec' = [rec EXCEPT ![s].target = 0]
        <4> DEFINE r == [rec[s] EXCEPT !.target = 0]
        <4>1. /\ r \in Records /\ r.id = rec[s].id /\ r.maker = rec[s].maker
              /\ r.owner = rec[s].owner
          BY <3>0 DEF Records
        <4> QED BY <3>0, <3>2, <4>1
      <3>3. CASE rec' = [rec EXCEPT ![s].owner = 0]
        <4> DEFINE r == [rec[s] EXCEPT !.owner = 0]
        <4>1. r \in Records /\ r.id = rec[s].id /\ r.maker = rec[s].maker /\ r.owner = 0
          BY <3>0 DEF Records
        <4> QED BY <3>0, <3>3, <4>1
      <3> QED BY <2>2, <3>1, <3>2, <3>3 DEF ForeignEdit
    <2> QED BY <2>1, <2>2
  <1>2. PICK r \in Records :
          /\ rec' = [rec EXCEPT ![s] = r]
          /\ \/ r = NoRecord
             \/ r.id = nextId /\ r.owner = 0 /\ nextId' = nextId + 1
             \/ /\ rec[s] # NoRecord /\ r.id = rec[s].id /\ r.maker = rec[s].maker
                /\ r.owner \in {rec[s].owner, 0}
    BY <1>1
  <1>3. TypeOK'
    BY <1>0, <1>2 DEF TypeOK
  <1>4. rec'[s] = r /\ \A t \in Slots : t # s => rec'[t] = rec[t]
    BY <1>2 DEF TypeOK
  <1>5. NoRecord.id = 0 /\ NoRecord.owner = 0
    BY DEF NoRecord
  <1>6. /\ nextId \in Nat \ {0} /\ \A t \in Slots : rec[t].id \in Nat
        /\ \A c \in pass.pending : c.id \in Nat /\ c.host \in Hostnames
        /\ pass.zone \subseteq Zones
    BY DEF TypeOK, Records, Passes, Changes
  <1>7. FreshIds'
    BY <1>0, <1>2, <1>4, <1>5, <1>6 DEF FreshIds
  <1>8. MarksMatch'
    BY <1>2, <1>4, <1>5 DEF MarksMatch
  <1>9. PendingOwn'
    <2> SUFFICES ASSUME NEW z \in pass.zone, NEW c \in pass.pending, c.op # "create"
                 PROVE  c.id # 0 /\ (rec'[<<z, c.host>>].id = c.id
                                       => rec'[<<z, c.host>>].maker = pass.owner)
      BY <1>0 DEF PendingOwn
    <2>1. c.id # 0 /\ (rec[<<z, c.host>>].id = c.id => rec[<<z, c.host>>].maker = pass.owner)
      BY DEF PendingOwn
    <2>2. c.id < nextId /\ <<z, c.host>> \in Slots
      BY <1>6 DEF FreshIds, Slots
    <2> QED BY <1>2, <1>4, <1>5, <1>6, <2>1, <2>2
  <1> QED BY <1>0, <1>3, <1>7, <1>8, <1>9 DEF BusyPass

\* Every step preserves the invariant.
LEMMA NextInv == IndInv /\ [Next]_vars => IndInv'
  <1> SUFFICES ASSUME IndInv, [Next]_vars PROVE IndInv'
    OBVIOUS
  <1> USE DEF IndInv
  <1>1. CASE UNCHANGED vars
    BY <1>1 DEF vars, TypeOK, FreshIds, MarksMatch, PendingOwn, BusyPass
  <1>2. ASSUME NEW u \in Owners, Start(u) PROVE IndInv'
    <2>1. wish[u] \in Wishes
      BY DEF TypeOK
    <2>2. pass' = [Idle EXCEPT !.pc = "listZones", !.owner = u, !.target = wish[u].target,
                               !.hosts = IF wish[u].live THEN wish[u].hosts ELSE {}]
      BY <1>2 DEF Start
    <2>3. pass' \in Passes /\ pass'.owner = u /\ pass'.pending = {}
      BY <2>1, <2>2 DEF Idle, Passes, Wishes, Uids
    <2>4. TypeOK'
      BY <1>2, <2>3 DEF TypeOK, Start
    <2>5. (FreshIds /\ MarksMatch /\ PendingOwn)'
      BY <1>2, <2>3, PassOnly DEF Start
    <2> QED BY <2>3, <2>4, <2>5 DEF BusyPass
  <1>3. CASE ListZones
    <2>1. /\ pass' \in Passes /\ pass'.owner = pass.owner /\ pass.pc # "idle"
          /\ pass'.pending = pass.pending /\ pass'.zone = pass.zone
      BY <1>3 DEF ListZones, TypeOK, Passes
    <2>2. used' \in [wishes : Nat, foreign : Nat, failures : Nat]
      BY <1>3 DEF ListZones, TypeOK, SpendsFailure
    <2>3. TypeOK'
      BY <1>3, <2>1, <2>2 DEF TypeOK, ListZones
    <2>4. (FreshIds /\ MarksMatch /\ PendingOwn)'
      BY <1>3, <2>1, PassOnly DEF ListZones
    <2> QED BY <2>1, <2>3, <2>4 DEF BusyPass
  <1>4. CASE ZonesDone
    <2>1. /\ pass' \in Passes /\ pass'.owner = pass.owner /\ pass.pc # "idle"
          /\ pass'.pending = pass.pending /\ pass'.zone = pass.zone
      BY <1>4 DEF ZonesDone, TypeOK, Passes
    <2>2. TypeOK'
      BY <1>4, <2>1 DEF TypeOK, ZonesDone
    <2>3. (FreshIds /\ MarksMatch /\ PendingOwn)'
      BY <1>4, <2>1, PassOnly DEF ZonesDone
    <2> QED BY <2>1, <2>2, <2>3 DEF BusyPass
  <1>5. CASE Return
    <2>1. pass' \in Passes /\ pass'.pending = {} /\ pass'.pc = "idle"
      BY <1>5, EmptyTypes DEF Return, Idle
    <2>2. Requeued(pass) \subseteq Owners
      BY <1>5 DEF Requeued, BusyPass, Return
    <2>3. TypeOK'
      BY <1>5, <2>1, <2>2 DEF TypeOK, Return
    <2>4. (FreshIds /\ MarksMatch /\ PendingOwn)'
      BY <1>5, <2>1, PassOnly DEF Return
    <2> QED BY <2>1, <2>3, <2>4 DEF BusyPass
  <1>6. ASSUME NEW z \in Zones, ListRecords(z) PROVE IndInv'
    BY <1>6, ListRecordsInv
  <1>7. ASSUME NEW z \in Zones, ApplyBatch(z) PROVE IndInv'
    BY <1>7, ApplyBatchInv
  <1>8. ASSUME NEW u \in Owners, Wish(u) PROVE IndInv'
    <2>0. used' \in [wishes : Nat, foreign : Nat, failures : Nat]
      BY <1>8 DEF Wish, TypeOK
    <2>1. wish' \in [Owners -> Wishes]
      <3>0. wish \in [Owners -> Wishes] /\ wish[u] \in Wishes
        BY DEF TypeOK
      <3>1. CASE wish' = [wish EXCEPT ![u].live = FALSE]
        BY <3>0, <3>1 DEF Wishes
      <3>2. CASE \E hosts \in SUBSET Hostnames, t \in Targets :
                    wish' = [wish EXCEPT ![u].hosts = hosts, ![u].target = t]
        <4>1. PICK hosts \in SUBSET Hostnames, t \in Targets :
                 wish' = [wish EXCEPT ![u].hosts = hosts, ![u].target = t]
          BY <3>2
        <4>2. [wish[u] EXCEPT !.hosts = hosts, !.target = t] \in Wishes
          BY <3>0 DEF Wishes
        <4>3. wish' = [wish EXCEPT ![u] = [wish[u] EXCEPT !.hosts = hosts, !.target = t]]
          BY <3>0, <4>1 DEF Wishes
        <4> QED BY <3>0, <4>2, <4>3
      <3> QED BY <1>8, <3>1, <3>2 DEF Wish
    <2>2. TypeOK'
      BY <1>8, <2>0, <2>1 DEF TypeOK, Wish
    <2> QED BY <1>8, <2>2 DEF Wish, FreshIds, MarksMatch, PendingOwn, BusyPass
  <1>9. ASSUME NEW s \in Slots, ForeignCreate(s) \/ ForeignEdit(s) PROVE IndInv'
    BY <1>9, ForeignInv
  <1>10. ASSUME NEW z \in Zones, AddZone(z) PROVE IndInv'
    BY <1>10 DEF AddZone, Meddles, TypeOK, FreshIds, MarksMatch, PendingOwn, BusyPass
  <1> QED
    BY <1>1, <1>2, <1>3, <1>4, <1>5, <1>6, <1>7, <1>8, <1>9, <1>10 DEF Next, PassStep

\* The inductive invariant holds in every reachable state.
THEOREM Invariance == Spec => []IndInv
  BY InitInv, NextInv, PTL DEF Spec

\* The state of the DNS model keeps its types, whatever fails and whatever others do.
THEOREM TypeCorrect == Spec => []TypeOK
  <1>1. IndInv => TypeOK
    BY DEF IndInv
  <1> QED BY <1>1, Invariance, PTL
-----------------------------------------------------------------------------
\* What a slot holds is a content that DNSOwnership knows.
LEMMA ContentTypes ==
    ASSUME IndInv' PROVE \A s \in Slots : Content(s)' \in Ownership!Contents
  <1> SUFFICES ASSUME NEW s \in Slots PROVE Content(s)' \in Ownership!Contents
    OBVIOUS
  <1>1. rec'[s] \in Records
    BY DEF IndInv, TypeOK
  <1> QED BY <1>1 DEF Content, Ownership!Contents, Records, Uids

\* A step that changes neither the records nor whom the pass works for is a stutter.
LEMMA RefineQuiet ==
    ASSUME UNCHANGED rec, pass'.pc = "idle" <=> pass.pc = "idle", pass'.owner = pass.owner
    PROVE  UNCHANGED Ownership!vars
  BY DEF Ownership!vars, Content, WorksFor

\* A batch is a step of DNSOwnership that changes free slots and the Gateway's own.
LEMMA RefineBatch ==
    ASSUME IndInv, IndInv', NEW z \in Zones, ApplyBatch(z)
    PROVE  [Ownership!Next]_(Ownership!vars)
  <1>1. PICK chunk \in Chunks(pass.pending) :
           \/ Acceptable(z, chunk) /\ rec' = Batched(z, chunk)
           \/ UNCHANGED rec
    BY DEF ApplyBatch
  <1>2. chunk \in SUBSET pass.pending /\ pass.zone = {z} /\ pass.pc = "apply"
    BY DEF Chunks, ApplyBatch
  <1>3. pass'.owner = pass.owner /\ pass'.pc # "idle"
    <2>0. TypeOK
      BY DEF IndInv
    <2>1. CASE pass' = ZoneFailed(z)
      BY <2>0, <2>1, ZoneFailedTypes
    <2>2. ASSUME NEW ch \in SUBSET pass.pending,
                 pass' = [pass EXCEPT !.pending = @ \ ch,
                                      !.pc = IF pass.pending = ch THEN "zones" ELSE "apply",
                                      !.zone = IF pass.pending = ch THEN {} ELSE @]
          PROVE  pass'.owner = pass.owner /\ pass'.pc # "idle"
      BY <2>0, <2>2 DEF TypeOK, Passes
    <2> QED BY <2>1, <2>2 DEF ApplyBatch, Chunks
  <1>4. WorksFor' = WorksFor /\ WorksFor = {pass.owner}
    BY <1>2, <1>3 DEF WorksFor
  <1>5. CASE UNCHANGED rec
    BY <1>2, <1>3, <1>5, RefineQuiet
  <1>6. CASE Acceptable(z, chunk) /\ rec' = Batched(z, chunk)
    <2>1. \A s \in Slots : Content(s)' \in Ownership!Contents
      BY ContentTypes
    <2>2. \A s \in Slots : \/ Content(s)' = Content(s)
                           \/ \A r \in Content(s) \cup Content(s)' : r.maker = pass.owner
      <3> SUFFICES ASSUME NEW s \in Slots
                   PROVE  \/ Content(s)' = Content(s)
                          \/ \A r \in Content(s) \cup Content(s)' : r.maker = pass.owner
        OBVIOUS
      <3>1. /\ rec'[s] = rec[s] \/ rec[s] = NoRecord \/ rec[s].maker = pass.owner
            /\ rec'[s] = rec[s] \/ rec'[s] = NoRecord \/ rec'[s].maker = pass.owner
        BY <1>2, <1>6, BatchedSlot
      <3> QED BY <3>1 DEF Content
    <2>3. Ownership!Mutate
      BY <1>4, <2>1, <2>2 DEF Ownership!Mutate
    <2> QED BY <2>3 DEF Ownership!Next
  <1> QED BY <1>1, <1>5, <1>6

\* A change of one slot that leaves no target and no other maker is one of the others'.
LEMMA RefineOther ==
    ASSUME NEW s \in Slots, WorksFor' = WorksFor, Content(s)' \in Ownership!Contents,
           \A t \in Slots : t # s => Content(t)' = Content(t),
           \/ Content(s)' = {}
           \/ Content(s) = {} /\ Content(s)' = {[maker |-> 0, target |-> 0]}
           \/ \E m, t : /\ Content(s) = {[maker |-> m, target |-> t]}
                       /\ Content(s)' = {[maker |-> m, target |-> 0]}
    PROVE  [Ownership!Next]_(Ownership!vars)
  <1> DEFINE before == Content(s)
             after == Content(s)'
  <1>1. \A r \in after : /\ r.target = 0
                        /\ \/ before = {} /\ r.maker = 0
                           \/ \E old \in before : r.maker = old.maker
    <2>1. CASE after = {}
      BY <2>1
    <2>2. CASE before = {} /\ after = {[maker |-> 0, target |-> 0]}
      BY <2>2
    <2>3. ASSUME NEW m, NEW t, before = {[maker |-> m, target |-> t]},
                 after = {[maker |-> m, target |-> 0]}
          PROVE  \A r \in after : r.target = 0 /\ \E old \in before : r.maker = old.maker
      BY <2>3
    <2> HIDE DEF before, after
    <2> QED BY <2>1, <2>2, <2>3 DEF before, after
  <1>2. [x \in Slots |-> Content(x)']
          = [[x \in Slots |-> Content(x)] EXCEPT ![s] = after]
    OBVIOUS
  <1>3. after \in Ownership!Contents /\ [x \in Slots |-> Content(x)][s] = before
    OBVIOUS
  <1>4. \E slot \in Slots, new \in Ownership!Contents :
           /\ [x \in Slots |-> Content(x)'] = [[x \in Slots |-> Content(x)] EXCEPT ![slot] = new]
           /\ \A r \in new : /\ r.target = 0
                             /\ \/ [x \in Slots |-> Content(x)][slot] = {} /\ r.maker = 0
                                \/ \E old \in [x \in Slots |-> Content(x)][slot] :
                                      r.maker = old.maker
    <2> DEFINE F == [x \in Slots |-> Content(x)]
               G == [x \in Slots |-> Content(x)']
               Fits(slot, new) == /\ G = [F EXCEPT ![slot] = new]
                                  /\ \A r \in new : /\ r.target = 0
                                                    /\ \/ F[slot] = {} /\ r.maker = 0
                                                       \/ \E old \in F[slot] : r.maker = old.maker
    <2>1. F[s] = before /\ G = [F EXCEPT ![s] = after]
      BY <1>2, <1>3
    <2>2. Fits(s, after)
      <3> HIDE DEF F, G, before, after
      <3> QED BY <1>1, <2>1
    <2>3. \E slot \in Slots, new \in Ownership!Contents : Fits(slot, new)
      <3> HIDE DEF Fits, F, G, before, after
      <3> QED BY <1>3, <2>2, Zenon
    <2> QED BY <2>3, Zenon
  <1>5. Ownership!Others
    BY <1>4 DEF Ownership!Others
  <1> QED BY <1>5 DEF Ownership!Next

\* What others do is a step of DNSOwnership's others.
LEMMA RefineForeign ==
    ASSUME IndInv, IndInv', NEW s \in Slots, ForeignCreate(s) \/ ForeignEdit(s)
    PROVE  [Ownership!Next]_(Ownership!vars)
  <1>1. WorksFor' = WorksFor
    BY DEF ForeignCreate, ForeignEdit, Meddles, WorksFor
  <1>2. Content(s)' \in Ownership!Contents
    BY ContentTypes
  <1>3. \A t \in Slots : t # s => Content(t)' = Content(t)
    <2>1. \A t \in Slots : t # s => rec'[t] = rec[t]
      BY DEF ForeignCreate, ForeignEdit, IndInv, TypeOK
    <2> QED BY <2>1 DEF Content
  <1>4. CASE ForeignCreate(s)
    <2>0. PICK kind \in {"CNAME", "other"} :
            rec' = [rec EXCEPT ![s] = [NoRecord EXCEPT !.id = nextId, !.kind = kind]]
      BY <1>4 DEF ForeignCreate
    <2>1. /\ rec[s] = NoRecord /\ rec'[s].maker = 0 /\ rec'[s].target = 0
          /\ rec'[s] # NoRecord
      BY <1>4, <2>0 DEF ForeignCreate, IndInv, TypeOK, NoRecord
    <2>2. Content(s) = {} /\ Content(s)' = {[maker |-> 0, target |-> 0]}
      BY <2>1 DEF Content
    <2> QED BY <1>1, <1>2, <1>3, <2>2, RefineOther
  <1>5. CASE ForeignEdit(s) /\ rec' = [rec EXCEPT ![s] = NoRecord]
    <2>1. Content(s)' = {}
      BY <1>5 DEF Content, IndInv, TypeOK
    <2> QED BY <1>1, <1>2, <1>3, <2>1, RefineOther
  <1>6. CASE ForeignEdit(s) /\ rec' = [rec EXCEPT ![s].target = 0]
    <2>1. rec[s] # NoRecord /\ rec[s] \in Records /\ rec[s].id # 0
      BY <1>6 DEF ForeignEdit, IndInv, FreshIds, TypeOK
    <2>2. rec'[s].id = rec[s].id /\ rec'[s].maker = rec[s].maker /\ rec'[s].target = 0
      BY <1>6, <2>1 DEF IndInv, TypeOK, Records
    <2>3. rec'[s] # NoRecord
      BY <2>1, <2>2 DEF NoRecord
    <2>4. /\ Content(s) = {[maker |-> rec[s].maker, target |-> rec[s].target]}
          /\ Content(s)' = {[maker |-> rec[s].maker, target |-> 0]}
      BY <2>1, <2>2, <2>3 DEF Content
    <2> QED BY <1>1, <1>2, <1>3, <2>4, RefineOther
  <1>7. CASE ForeignEdit(s) /\ rec' = [rec EXCEPT ![s].owner = 0]
    <2>1. rec[s] # NoRecord /\ rec[s] \in Records /\ rec[s].id # 0
      BY <1>7 DEF ForeignEdit, IndInv, FreshIds, TypeOK
    <2>2. /\ rec'[s].id = rec[s].id /\ rec'[s].maker = rec[s].maker
          /\ rec'[s].target = rec[s].target
      BY <1>7, <2>1 DEF IndInv, TypeOK, Records
    <2>3. rec'[s] # NoRecord
      BY <2>1, <2>2 DEF NoRecord
    <2>4. Content(s)' = Content(s)
      BY <2>1, <2>2, <2>3 DEF Content
    <2>5. \A t \in Slots : Content(t)' = Content(t)
      BY <1>3, <2>4
    <2> QED BY <1>1, <2>5 DEF Ownership!vars
  <1> QED BY <1>4, <1>5, <1>6, <1>7 DEF ForeignEdit

\* Every step of a pass and of everyone else is a step that DNSOwnership allows.
LEMMA RefineNext == IndInv /\ IndInv' /\ [Next]_vars => [Ownership!Next]_(Ownership!vars)
  <1> SUFFICES ASSUME IndInv, IndInv', [Next]_vars PROVE [Ownership!Next]_(Ownership!vars)
    OBVIOUS
  <1>1. CASE UNCHANGED vars
    BY <1>1, RefineQuiet DEF vars
  <1>2. ASSUME NEW u \in Owners, Start(u) PROVE [Ownership!Next]_(Ownership!vars)
    <2>1. pass'.pc = "listZones" /\ pass'.owner = u /\ UNCHANGED rec
      BY <1>2 DEF Start, Idle
    <2>2. WorksFor' = {u} /\ \A s \in Slots : Content(s)' = Content(s)
      BY <2>1 DEF WorksFor, Content
    <2>3. Ownership!Turn
      BY <2>2 DEF Ownership!Turn, Ownership!Employers
    <2> QED BY <2>3 DEF Ownership!Next
  <1>3. CASE Return
    <2>1. WorksFor' = {} /\ \A s \in Slots : Content(s)' = Content(s)
      BY <1>3 DEF Return, Idle, WorksFor, Content
    <2>2. Ownership!Turn
      BY <2>1 DEF Ownership!Turn, Ownership!Employers
    <2> QED BY <2>2 DEF Ownership!Next
  <1>4. CASE ListZones \/ ZonesDone
    <2>0. pass \in Passes
      BY DEF IndInv, TypeOK
    <2>1. UNCHANGED rec /\ pass'.owner = pass.owner /\ pass.pc # "idle" /\ pass'.pc # "idle"
      BY <1>4, <2>0 DEF ListZones, ZonesDone, Passes
    <2> QED BY <2>1, RefineQuiet
  <1>5. ASSUME NEW z \in Zones, ListRecords(z) PROVE [Ownership!Next]_(Ownership!vars)
    <2>1. UNCHANGED rec /\ pass'.owner = pass.owner /\ pass.pc # "idle" /\ pass'.pc # "idle"
      <3>0. TypeOK
        BY DEF IndInv
      <3>1. CASE pass' = ZoneFailed(z)
        BY <1>5, <3>0, <3>1, ZoneFailedTypes DEF ListRecords
      <3>2. CASE pass' # ZoneFailed(z)
        BY <1>5, <3>0, <3>2 DEF ListRecords, TypeOK, Passes
      <3> QED BY <3>1, <3>2
    <2> QED BY <2>1, RefineQuiet
  <1>6. ASSUME NEW z \in Zones, ApplyBatch(z) PROVE [Ownership!Next]_(Ownership!vars)
    BY <1>6, RefineBatch
  <1>7. ASSUME NEW u \in Owners, Wish(u) PROVE [Ownership!Next]_(Ownership!vars)
    BY <1>7, RefineQuiet DEF Wish
  <1>8. ASSUME NEW s \in Slots, ForeignCreate(s) \/ ForeignEdit(s)
        PROVE [Ownership!Next]_(Ownership!vars)
    BY <1>8, RefineForeign
  <1>9. ASSUME NEW z \in Zones, AddZone(z) PROVE [Ownership!Next]_(Ownership!vars)
    BY <1>9, RefineQuiet DEF AddZone, Meddles
  <1> QED
    BY <1>1, <1>2, <1>3, <1>4, <1>5, <1>6, <1>7, <1>8, <1>9 DEF Next, PassStep

\* Passes that list, plan and apply in separate steps, that fail half way and that race
\* with other users of the zones change and remove only records created for the Gateway
\* they work for.
THEOREM OwnershipIsRespected == Spec => ImplementsOwnership
  <1>1. Init => Ownership!Init
    BY DEF Init, Ownership!Init, Content, WorksFor, Idle
  <1> QED BY <1>1, RefineNext, Invariance, PTL DEF Spec, ImplementsOwnership, Ownership!Spec
-----------------------------------------------------------------------------
(* A pass during which nobody changes records leaves the zones as it should. *)

\* What is left to do for a hostname in zone z, given the changes still planned there.
Left(z, h, planned) ==
    /\ Owned(pass.owner, <<z, h>>) =>
          \/ h \in Desired(pass, z) /\ rec[<<z, h>>].target = pass.target
          \/ \E c \in planned : c.host = h /\ c.op # "create"
    /\ h \in Desired(pass, z) =>
          \/ Owned(pass.owner, <<z, h>>)
          \/ pass.err
          \/ \E c \in planned : c.host = h /\ c.op = "create"

\* One change per hostname, and deletes are of hostnames that are not desired.
Sound(z, planned) ==
    /\ \A c, d \in planned : c.host = d.host => c = d
    /\ \A c \in planned : c.op = "delete" <=> c.host \notin Desired(pass, z)

\* In the zones that are done nothing is left; in the current one, what is pending.
ZonesDoneRight ==
    \A z \in pass.zones \ (pass.todo \cup pass.zone \cup pass.failed), h \in Hostnames :
        Left(z, h, {})
ZonePending ==
    \A z \in pass.zone : Sound(z, pass.pending) /\ \A h \in Hostnames : Left(z, h, pass.pending)
ZonesTaken ==
    /\ pass.todo \subseteq pass.zones
    /\ pass.pc \in {"idle", "listZones"} => pass.zones = {}
    /\ pass.pc = "done" => pass.todo = {}
    /\ pass.pc # "apply" => pass.zone = {}
    /\ pass.failed # {} => pass.err
OutcomeInv == ZonesTaken /\ ZonesDoneRight /\ ZonePending

\* Owners differ from the owner of foreign records.
LEMMA BusyOwner == ASSUME IndInv, pass.pc # "idle" PROVE pass.owner # 0
  BY DNSAssumption DEF IndInv, BusyPass

\* An accepted batch does what it planned in each slot of the zone.
LEMMA BatchOutcome ==
    ASSUME IndInv, NEW z \in Zones, NEW chunk \in SUBSET pass.pending, pass.zone = {z},
           pass.pc = "apply", Acceptable(z, chunk), rec' = Batched(z, chunk),
           Sound(z, pass.pending), NEW h \in Hostnames, Left(z, h, pass.pending),
           pass'.owner = pass.owner, pass'.target = pass.target, pass'.err = pass.err,
           pass'.pending = pass.pending \ chunk, Desired(pass, z)' = Desired(pass, z)
    PROVE  Left(z, h, pass.pending)'
  <1> DEFINE s == <<z, h>>
  <1>0. s \in Slots /\ rec[s] \in Records /\ pass.pending \subseteq Changes
    BY DEF Slots, IndInv, TypeOK, Passes
  <1>1. CASE ~\E c \in chunk : c.host = h
    <2>1. rec'[s] = rec[s]
      BY <1>0, <1>1 DEF Batched
    <2>2. Owned(pass.owner, s)' <=> Owned(pass.owner, s)
      BY <2>1 DEF Owned, IsCNAME
    <2> QED BY <1>1, <2>1, <2>2 DEF Left
  <1>2. CASE \E c \in chunk : c.host = h
    <2>1. PICK c \in chunk : c.host = h
      BY <1>2
    <2>2. \A d \in chunk : d.host = h <=> d = c
      BY <2>1 DEF Sound
    <2>3. (CHOOSE d \in chunk : d.host = h) = c
      BY <2>1, <2>2
    <2>4. rec'[s] = Changed(c, s)
      BY <1>0, <1>2, <2>3 DEF Batched
    <2>5. c \in Changes /\ c \in pass.pending
      BY <1>0
    <2>6. CASE c.op = "delete"
      <3>1. rec'[s] = NoRecord
        BY <2>4, <2>6 DEF Changed
      <3>2. h \notin Desired(pass, z)'
        BY <2>1, <2>5, <2>6 DEF Sound
      <3>3. ~Owned(pass.owner, s)'
        BY <3>1 DEF Owned, IsCNAME, NoRecord
      <3> QED BY <3>2, <3>3 DEF Left
    <2>7. CASE c.op # "delete"
      <3>1. rec'[s].kind = "CNAME" /\ rec'[s].owner = pass.owner /\ rec'[s].target = pass.target
        <4>1. CASE c.op = "update"
          <5>1. rec'[s] = [rec[s] EXCEPT !.kind = "CNAME", !.owner = pass.owner,
                                         !.target = pass.target]
            BY <2>4, <4>1 DEF Changed
          <5> QED BY <1>0, <5>1 DEF Records
        <4>2. CASE c.op = "create"
          BY <2>4, <4>2 DEF Changed
        <4> QED BY <2>5, <2>7, <4>1, <4>2 DEF Changes
      <3>2. h \in Desired(pass, z)'
        BY <2>1, <2>5, <2>7 DEF Sound
      <3>3. Owned(pass.owner, s)'
        BY <3>1 DEF Owned, IsCNAME
      <3> QED BY <3>1, <3>2, <3>3 DEF Left
    <2> QED BY <2>6, <2>7
  <1> QED BY <1>1, <1>2

\* planDNSChanges leaves nothing out and plans nothing twice.
LEMMA PlanOutcome ==
    ASSUME IndInv, NEW z \in Zones, pass.pc = "zones"
    PROVE  /\ Sound(z, Plan(pass, z))
           /\ \A h \in Hostnames :
                 /\ Owned(pass.owner, <<z, h>>) =>
                       \/ h \in Desired(pass, z) /\ rec[<<z, h>>].target = pass.target
                       \/ \E c \in Plan(pass, z) : c.host = h /\ c.op # "create"
                 /\ h \in Desired(pass, z) =>
                       \/ Owned(pass.owner, <<z, h>>)
                       \/ h \in Conflicts(pass, z)
                       \/ \E c \in Plan(pass, z) : c.host = h /\ c.op = "create"
  <1>0. Desired(pass, z) \subseteq Hostnames
    BY DEF Desired, IndInv, TypeOK, Passes
  <1>1. \A op, h : /\ Change(op, z, h).op = op /\ Change(op, z, h).host = h
                   /\ Change(op, z, h).id = rec[<<z, h>>].id
    BY DEF Change
  <1>2. \A c \in Plan(pass, z) :
           \/ /\ c = Change("delete", z, c.host) /\ c.op = "delete"
              /\ c.host \notin Desired(pass, z) /\ Owned(pass.owner, <<z, c.host>>)
           \/ /\ c = Change("update", z, c.host) /\ c.op = "update"
              /\ c.host \in Desired(pass, z) /\ Owned(pass.owner, <<z, c.host>>)
           \/ /\ c = Change("create", z, c.host) /\ c.op = "create"
              /\ c.host \in Desired(pass, z) /\ ~IsCNAME(<<z, c.host>>)
    <2> SUFFICES ASSUME NEW c \in Plan(pass, z)
                 PROVE  \/ /\ c = Change("delete", z, c.host) /\ c.op = "delete"
                           /\ c.host \notin Desired(pass, z)
                           /\ Owned(pass.owner, <<z, c.host>>)
                        \/ /\ c = Change("update", z, c.host) /\ c.op = "update"
                           /\ c.host \in Desired(pass, z)
                           /\ Owned(pass.owner, <<z, c.host>>)
                        \/ /\ c = Change("create", z, c.host) /\ c.op = "create"
                           /\ c.host \in Desired(pass, z) /\ ~IsCNAME(<<z, c.host>>)
      OBVIOUS
    <2>1. CASE c \in Deletes(pass, z)
      <3>1. PICK h \in Hostnames \ Desired(pass, z) :
               c = Change("delete", z, h) /\ Owned(pass.owner, <<z, h>>)
        BY <2>1 DEF Deletes
      <3> QED BY <1>1, <3>1
    <2>2. CASE c \in Updates(pass, z)
      <3>1. PICK h \in Desired(pass, z) :
               c = Change("update", z, h) /\ Owned(pass.owner, <<z, h>>)
        BY <2>2 DEF Updates
      <3> QED BY <1>1, <3>1
    <2>3. CASE c \in Creates(pass, z)
      <3>1. PICK h \in Desired(pass, z) :
               c = Change("create", z, h) /\ ~IsCNAME(<<z, h>>)
        BY <2>3 DEF Creates
      <3> QED BY <1>1, <3>1
    <2> QED BY <2>1, <2>2, <2>3 DEF Plan
  <1>3. Sound(z, Plan(pass, z))
    <2>1. ASSUME NEW c \in Plan(pass, z), NEW d \in Plan(pass, z), c.host = d.host
          PROVE  c = d
      <3>1. c.op = d.op
        BY <1>2, <2>1 DEF Owned
      <3> QED BY <1>2, <2>1, <3>1
    <2> QED BY <1>2, <2>1 DEF Sound
  <1>4. ASSUME NEW h \in Hostnames, Owned(pass.owner, <<z, h>>)
        PROVE  \/ h \in Desired(pass, z) /\ rec[<<z, h>>].target = pass.target
               \/ \E c \in Plan(pass, z) : c.host = h /\ c.op # "create"
    <2>1. CASE h \notin Desired(pass, z)
      <3>1. Change("delete", z, h) \in Plan(pass, z)
        BY <1>4, <2>1 DEF Plan, Deletes
      <3> QED BY <1>1, <3>1
    <2>2. CASE h \in Desired(pass, z) /\ rec[<<z, h>>].target # pass.target
      <3>1. Change("update", z, h) \in Plan(pass, z)
        BY <1>4, <2>2 DEF Plan, Updates
      <3> QED BY <1>1, <3>1
    <2> QED BY <2>1, <2>2
  <1>5. ASSUME NEW h \in Desired(pass, z)
        PROVE  \/ Owned(pass.owner, <<z, h>>)
               \/ h \in Conflicts(pass, z)
               \/ \E c \in Plan(pass, z) : c.host = h /\ c.op = "create"
    <2>1. CASE IsCNAME(<<z, h>>)
      BY <2>1 DEF Conflicts
    <2>2. CASE ~IsCNAME(<<z, h>>)
      <3>1. Change("create", z, h) \in Plan(pass, z)
        BY <2>2 DEF Plan, Creates
      <3> QED BY <1>1, <3>1
    <2> QED BY <2>1, <2>2
  <1> QED BY <1>3, <1>4, <1>5

\* What is left in a slot does not change with a step that leaves the slot alone.
LEMMA LeftKept ==
    ASSUME NEW z \in Zones, NEW h \in Hostnames, NEW planned, Left(z, h, planned),
           Owned(pass.owner, <<z, h>>)' <=> Owned(pass.owner, <<z, h>>),
           Owned(pass.owner, <<z, h>>) => rec'[<<z, h>>].target = rec[<<z, h>>].target,
           pass'.target = pass.target, pass.err => pass'.err,
           Desired(pass, z)' = Desired(pass, z)
    PROVE  Left(z, h, planned)'
  BY DEF Left

\* The wishes of a pass do not change while it runs.
LEMMA DesiredKept ==
    ASSUME pass'.hosts = pass.hosts, pass'.zones = pass.zones
    PROVE  \A z : Desired(pass, z)' = Desired(pass, z)
  BY DEF Desired, matchZone, InZone

\* A failing zone leaves the others as they are.
LEMMA ZoneFailedOutcome ==
    ASSUME IndInv, OutcomeInv, NEW z \in Zones, pass' = ZoneFailed(z),
           pass.pc \in {"zones", "apply"}, pass.zone \subseteq {z},
           \A y \in Zones \ {z}, h \in Hostnames : rec'[<<y, h>>] = rec[<<y, h>>]
    PROVE  OutcomeInv'
  <1>1. /\ pass'.pc = "zones" /\ pass'.todo = pass.todo \ {z} /\ pass'.zone = {}
        /\ pass'.err = TRUE /\ pass'.failed = pass.failed \cup {z} /\ pass'.zones = pass.zones
        /\ pass'.owner = pass.owner /\ pass'.target = pass.target /\ pass'.hosts = pass.hosts
    BY DEF ZoneFailed, IndInv, TypeOK, Passes
  <1>2. ZonesTaken'
    BY <1>1 DEF OutcomeInv, ZonesTaken
  <1>3. ZonePending'
    BY <1>1 DEF ZonePending
  <1>4. ASSUME NEW y \in pass'.zones \ (pass'.todo \cup pass'.zone \cup pass'.failed),
               NEW h \in Hostnames
        PROVE  Left(y, h, {})'
    <2>1. y \in pass.zones \ (pass.todo \cup pass.zone \cup pass.failed) /\ y # z /\ y \in Zones
      BY <1>1 DEF IndInv, TypeOK, Passes
    <2>2. Left(y, h, {}) /\ rec'[<<y, h>>] = rec[<<y, h>>]
      BY <2>1 DEF OutcomeInv, ZonesDoneRight
    <2>3. Owned(pass.owner, <<y, h>>)' <=> Owned(pass.owner, <<y, h>>)
      BY <1>1, <2>2 DEF Owned, IsCNAME
    <2>4. Desired(pass, y)' = Desired(pass, y)
      BY <1>1, DesiredKept
    <2> QED BY <1>1, <2>1, <2>2, <2>3, <2>4, LeftKept
  <1>5. ZonesDoneRight'
    BY <1>4 DEF ZonesDoneRight
  <1> QED BY <1>2, <1>3, <1>5 DEF OutcomeInv

\* The listing of a zone finds all there is to do there.
LEMMA ListRecordsOutcome ==
    ASSUME IndInv, OutcomeInv, NEW z \in Zones, ListRecords(z)
    PROVE  OutcomeInv'
  <1>0. pass.pc = "zones" /\ z \in pass.todo /\ UNCHANGED rec /\ pass.zone = {}
    BY DEF ListRecords, OutcomeInv, ZonesTaken
  <1>1. CASE pass' = ZoneFailed(z)
    BY <1>0, <1>1, ZoneFailedOutcome
  <1>2. CASE pass' # ZoneFailed(z)
    <2>0. pass' = [pass EXCEPT !.pc = IF Plan(pass, z) = {} THEN "zones" ELSE "apply",
                               !.todo = @ \ {z},
                               !.zone = IF Plan(pass, z) = {} THEN {} ELSE {z},
                               !.pending = Plan(pass, z),
                               !.err = @ \/ Conflicts(pass, z) # {}]
      BY <1>2 DEF ListRecords
    <2>1. /\ pass'.pc = IF Plan(pass, z) = {} THEN "zones" ELSE "apply"
          /\ pass'.zone = IF Plan(pass, z) = {} THEN {} ELSE {z}
          /\ pass'.todo = pass.todo \ {z} /\ pass'.pending = Plan(pass, z)
          /\ pass'.err = (pass.err \/ Conflicts(pass, z) # {})
          /\ pass'.failed = pass.failed /\ pass'.zones = pass.zones
          /\ pass'.owner = pass.owner /\ pass'.target = pass.target /\ pass'.hosts = pass.hosts
      BY <2>0 DEF IndInv, TypeOK, Passes
    <2>2. ZonesTaken'
      BY <1>0, <2>1 DEF OutcomeInv, ZonesTaken
    <2>3. \A y : Desired(pass, y)' = Desired(pass, y)
      BY <2>1, DesiredKept
    <2>4. \A s : Owned(pass.owner, s)' <=> Owned(pass.owner, s)
      BY <1>0, <2>1 DEF Owned, IsCNAME
    <2>5. \A h \in Hostnames : Left(z, h, pass.pending)'
      <3> SUFFICES ASSUME NEW h \in Hostnames PROVE Left(z, h, pass.pending)'
        OBVIOUS
      <3>1. Owned(pass.owner, <<z, h>>) =>
               \/ h \in Desired(pass, z) /\ rec[<<z, h>>].target = pass.target
               \/ \E c \in Plan(pass, z) : c.host = h /\ c.op # "create"
        BY <1>0, PlanOutcome
      <3>2. h \in Desired(pass, z) =>
               \/ Owned(pass.owner, <<z, h>>)
               \/ h \in Conflicts(pass, z)
               \/ \E c \in Plan(pass, z) : c.host = h /\ c.op = "create"
        BY <1>0, PlanOutcome
      <3>3. h \in Conflicts(pass, z) => pass'.err
        BY <2>1
      <3> QED BY ONLY <1>0, <2>1, <2>3, <2>4, <3>1, <3>2, <3>3 DEF Left
    <2>6. Sound(z, pass.pending)'
      BY <1>0, <2>1, <2>3, PlanOutcome DEF Sound
    <2>7. ZonePending'
      BY <2>1, <2>5, <2>6 DEF ZonePending
    <2>8. ASSUME NEW y \in pass'.zones \ (pass'.todo \cup pass'.zone \cup pass'.failed),
                 NEW h \in Hostnames
          PROVE  Left(y, h, {})'
      <3>1. CASE y = z
        <4>1. pass'.pending = {}
          BY <2>1, <3>1
        <4> QED BY <2>5, <3>1, <4>1
      <3>2. CASE y # z
        <4>1. y \in pass.zones \ (pass.todo \cup pass.zone \cup pass.failed) /\ y \in Zones
          BY <1>0, <2>1, <3>2 DEF IndInv, TypeOK, Passes
        <4>2. Left(y, h, {})
          BY <4>1 DEF OutcomeInv, ZonesDoneRight
        <4> QED BY <1>0, <2>1, <2>3, <2>4, <4>1, <4>2, LeftKept
      <3> QED BY <3>1, <3>2
    <2>9. ZonesDoneRight'
      BY <2>8 DEF ZonesDoneRight
    <2> QED BY <2>2, <2>7, <2>9 DEF OutcomeInv
  <1> QED BY <1>1, <1>2

\* A batch takes from what is left what it does.
LEMMA ApplyBatchOutcome ==
    ASSUME IndInv, OutcomeInv, NEW z \in Zones, ApplyBatch(z)
    PROVE  OutcomeInv'
  <1>0. pass.pc = "apply" /\ pass.zone = {z}
    BY DEF ApplyBatch
  <1>1. PICK chunk \in Chunks(pass.pending) :
          \/ /\ Acceptable(z, chunk)
             /\ rec' = Batched(z, chunk)
             /\ \/ pass' = [pass EXCEPT !.pending = @ \ chunk,
                                        !.pc = IF pass.pending = chunk THEN "zones" ELSE "apply",
                                        !.zone = IF pass.pending = chunk THEN {} ELSE @]
                \/ pass' = ZoneFailed(z)
          \/ pass' = ZoneFailed(z) /\ UNCHANGED rec
    BY DEF ApplyBatch
  <1>2. chunk \in SUBSET pass.pending
    BY DEF Chunks
  <1>3. \A y \in Zones \ {z}, h \in Hostnames : rec'[<<y, h>>] = rec[<<y, h>>]
    <2>1. \A y \in Zones \ {z}, h \in Hostnames : <<y, h>> \in Slots /\ <<y, h>>[1] # z
      BY DEF Slots
    <2> QED BY <1>1, <2>1 DEF Batched
  <1>4. CASE pass' = ZoneFailed(z)
    BY <1>0, <1>3, <1>4, ZoneFailedOutcome
  <1>5. CASE /\ Acceptable(z, chunk)
             /\ rec' = Batched(z, chunk)
             /\ pass' = [pass EXCEPT !.pending = @ \ chunk,
                                     !.pc = IF pass.pending = chunk THEN "zones" ELSE "apply",
                                     !.zone = IF pass.pending = chunk THEN {} ELSE @]
    <2>1. /\ pass'.pc = IF pass.pending = chunk THEN "zones" ELSE "apply"
          /\ pass'.zone = IF pass.pending = chunk THEN {} ELSE {z}
          /\ pass'.pending = pass.pending \ chunk
          /\ pass'.todo = pass.todo /\ pass'.err = pass.err
          /\ pass'.failed = pass.failed /\ pass'.zones = pass.zones
          /\ pass'.owner = pass.owner /\ pass'.target = pass.target /\ pass'.hosts = pass.hosts
      BY <1>0, <1>5 DEF IndInv, TypeOK, Passes
    <2>2. ZonesTaken'
      BY <1>0, <2>1 DEF OutcomeInv, ZonesTaken
    <2>3. \A y : Desired(pass, y)' = Desired(pass, y)
      BY <2>1, DesiredKept
    <2>4. Sound(z, pass.pending) /\ \A h \in Hostnames : Left(z, h, pass.pending)
      BY <1>0 DEF OutcomeInv, ZonePending
    <2>5. \A h \in Hostnames : Left(z, h, pass.pending)'
      BY <1>0, <1>2, <1>5, <2>1, <2>3, <2>4, BatchOutcome
    <2>6. Sound(z, pass.pending)'
      BY <2>1, <2>3, <2>4 DEF Sound
    <2>7. ZonePending'
      BY <2>1, <2>5, <2>6 DEF ZonePending
    <2>8. ASSUME NEW y \in pass'.zones \ (pass'.todo \cup pass'.zone \cup pass'.failed),
                 NEW h \in Hostnames
          PROVE  Left(y, h, {})'
      <3>1. CASE y = z
        <4>1. pass'.pending = {}
          BY <1>2, <2>1, <3>1
        <4> QED BY <2>5, <3>1, <4>1
      <3>2. CASE y # z
        <4>1. y \in pass.zones \ (pass.todo \cup pass.zone \cup pass.failed) /\ y \in Zones
          BY <1>0, <2>1, <3>2 DEF IndInv, TypeOK, Passes
        <4>2. Left(y, h, {}) /\ rec'[<<y, h>>] = rec[<<y, h>>]
          BY <1>3, <3>2, <4>1 DEF OutcomeInv, ZonesDoneRight
        <4>3. Owned(pass.owner, <<y, h>>)' <=> Owned(pass.owner, <<y, h>>)
          BY <2>1, <4>2 DEF Owned, IsCNAME
        <4> QED BY <2>1, <2>3, <4>1, <4>2, <4>3, LeftKept
      <3> QED BY <3>1, <3>2
    <2>9. ZonesDoneRight'
      BY <2>8 DEF ZonesDoneRight
    <2> QED BY <2>2, <2>7, <2>9 DEF OutcomeInv
  <1> QED BY <1>1, <1>4, <1>5

\* A step that touches neither the pass nor its Gateway's records keeps the outcome.
LEMMA OutcomeFrame ==
    ASSUME IndInv, OutcomeInv, UNCHANGED pass,
           pass.pc \notin {"idle", "listZones"} =>
              \A s \in Slots : /\ Owned(pass.owner, s)' <=> Owned(pass.owner, s)
                               /\ Owned(pass.owner, s) => rec'[s].target = rec[s].target
    PROVE  OutcomeInv'
  <1>0. \A y : Desired(pass, y)' = Desired(pass, y)
    BY DesiredKept
  <1>1. ZonesTaken'
    BY DEF OutcomeInv, ZonesTaken
  <1>2. CASE pass.pc \in {"idle", "listZones"}
    <2>1. pass.zones = {} /\ pass.zone = {}
      BY <1>2 DEF OutcomeInv, ZonesTaken
    <2> QED BY <1>1, <2>1 DEF OutcomeInv, ZonesDoneRight, ZonePending
  <1>3. CASE pass.pc \notin {"idle", "listZones"}
    <2>1. ASSUME NEW z \in Zones, NEW h \in Hostnames, NEW planned, Left(z, h, planned)
          PROVE  Left(z, h, planned)'
      <3>1. <<z, h>> \in Slots
        BY DEF Slots
      <3>2. /\ Owned(pass.owner, <<z, h>>)' <=> Owned(pass.owner, <<z, h>>)
            /\ Owned(pass.owner, <<z, h>>) => rec'[<<z, h>>].target = rec[<<z, h>>].target
        BY <1>3, <3>1
      <3> QED BY <1>0, <2>1, <3>2, LeftKept
    <2>2. pass.zones \subseteq Zones /\ pass.zone \subseteq Zones
      BY DEF IndInv, TypeOK, Passes
    <2>3. ZonesDoneRight'
      BY <2>1, <2>2 DEF OutcomeInv, ZonesDoneRight
    <2>4. ASSUME NEW z \in pass.zone, NEW h \in Hostnames PROVE Left(z, h, pass.pending)'
      <3> DEFINE planned == pass.pending
      <3>1. Left(z, h, pass.pending)
        BY <2>4 DEF OutcomeInv, ZonePending
      <3>2. \A p : Left(z, h, p) => Left(z, h, p)'
        BY <2>1, <2>2
      <3> QED BY <3>1, <3>2
    <2>5. ZonePending'
      BY <1>0, <2>4 DEF OutcomeInv, ZonePending, Sound
    <2> QED BY <1>1, <2>3, <2>5 DEF OutcomeInv
  <1> QED BY <1>2, <1>3

\* Every step keeps the outcome until others change records.
LEMMA OutcomeStep ==
    ASSUME IndInv, NoForeignEdits => OutcomeInv, [Next]_vars, NoForeignEdits'
    PROVE  OutcomeInv'
  <1>1. ASSUME NEW u \in Owners, Start(u) PROVE OutcomeInv'
    <2>1. /\ pass'.pc = "listZones" /\ pass'.zones = {} /\ pass'.zone = {} /\ pass'.todo = {}
          /\ pass'.failed = {}
      BY <1>1 DEF Start, Idle
    <2> QED BY <2>1 DEF OutcomeInv, ZonesTaken, ZonesDoneRight, ZonePending
  <1> SUFFICES ASSUME \A u \in Owners : ~Start(u)
               PROVE  OutcomeInv'
    BY <1>1
  <1>2. OutcomeInv
    <2>1. meddled \subseteq meddled'
      BY DEF Next, PassStep, vars, ListZones, ZonesDone, Return, ListRecords, ApplyBatch, Wish,
             ForeignCreate, ForeignEdit, AddZone, Meddles
    <2> QED BY <2>1 DEF NoForeignEdits
  <1>3. CASE ListZones
    <2>1. pass.pc = "listZones" /\ pass.zones = {} /\ pass.zone = {} /\ pass.todo = {}
      BY <1>2, <1>3 DEF ListZones, OutcomeInv, ZonesTaken
    <2>2. \/ pass' = [pass EXCEPT !.pc = "zones", !.zones = zones, !.todo = zones]
          \/ pass' = [pass EXCEPT !.pc = "done", !.err = TRUE]
      BY <1>3 DEF ListZones
    <2>3. /\ pass'.todo = pass'.zones /\ pass'.zone = {} /\ pass'.failed = pass.failed
          /\ pass'.err \/ pass'.err = pass.err
          /\ \/ pass'.pc = "zones"
             \/ pass'.pc = "done" /\ pass'.todo = {}
      BY <2>1, <2>2 DEF IndInv, TypeOK, Passes
    <2> QED BY <1>2, <2>3 DEF OutcomeInv, ZonesTaken, ZonesDoneRight, ZonePending
  <1>4. CASE ZonesDone
    <2>1. /\ pass'.pc = "done" /\ pass'.todo = {} /\ pass'.zone = {} /\ pass'.failed = pass.failed
          /\ pass'.zones = pass.zones /\ pass'.err = pass.err /\ pass'.owner = pass.owner
          /\ pass'.target = pass.target /\ pass'.hosts = pass.hosts
          /\ pass.todo = {} /\ pass.zone = {} /\ UNCHANGED rec
      BY <1>2, <1>4 DEF ZonesDone, OutcomeInv, ZonesTaken, IndInv, TypeOK, Passes
    <2>2. \A y : Desired(pass, y)' = Desired(pass, y)
      BY <2>1, DesiredKept
    <2>3. \A s : Owned(pass.owner, s)' <=> Owned(pass.owner, s)
      BY <2>1 DEF Owned, IsCNAME
    <2>4. ASSUME NEW y \in pass'.zones \ (pass'.todo \cup pass'.zone \cup pass'.failed),
                 NEW h \in Hostnames
          PROVE  Left(y, h, {})'
      <3>1. Left(y, h, {}) /\ y \in Zones
        BY <1>2, <2>1 DEF OutcomeInv, ZonesDoneRight, IndInv, TypeOK, Passes
      <3> QED BY <2>1, <2>2, <2>3, <3>1, LeftKept
    <2>5. ZonesDoneRight'
      BY <2>4 DEF ZonesDoneRight
    <2> QED BY <1>2, <2>1, <2>5 DEF OutcomeInv, ZonesTaken, ZonePending
  <1>5. CASE Return
    <2>1. /\ pass'.pc = "idle" /\ pass'.zones = {} /\ pass'.zone = {} /\ pass'.todo = {}
          /\ pass'.failed = {}
      BY <1>5 DEF Return, Idle
    <2> QED BY <2>1 DEF OutcomeInv, ZonesTaken, ZonesDoneRight, ZonePending
  <1>6. ASSUME NEW z \in Zones, ListRecords(z) PROVE OutcomeInv'
    BY <1>2, <1>6, ListRecordsOutcome
  <1>7. ASSUME NEW z \in Zones, ApplyBatch(z) PROVE OutcomeInv'
    BY <1>2, <1>7, ApplyBatchOutcome
  <1>8. ASSUME UNCHANGED <<pass, rec>> PROVE OutcomeInv'
    <2>1. \A s \in Slots : Owned(pass.owner, s)' <=> Owned(pass.owner, s)
      BY <1>8 DEF Owned, IsCNAME
    <2> QED BY <1>2, <1>8, <2>1, OutcomeFrame
  <1>9. ASSUME NEW s \in Slots, ForeignCreate(s) PROVE OutcomeInv'
    <2>1. /\ UNCHANGED pass /\ rec[s] = NoRecord
          /\ \E kind : rec' = [rec EXCEPT ![s] = [NoRecord EXCEPT !.id = nextId, !.kind = kind]]
      BY <1>9 DEF ForeignCreate, Meddles
    <2>2. rec'[s].owner = 0 /\ \A t \in Slots : t # s => rec'[t] = rec[t]
      BY <2>1 DEF IndInv, TypeOK, NoRecord
    <2>3. pass.pc # "idle" => \A t \in Slots :
             /\ Owned(pass.owner, t)' <=> Owned(pass.owner, t)
             /\ Owned(pass.owner, t) => rec'[t].target = rec[t].target
      <3> SUFFICES ASSUME pass.pc # "idle", NEW t \in Slots
                   PROVE  /\ Owned(pass.owner, t)' <=> Owned(pass.owner, t)
                          /\ Owned(pass.owner, t) => rec'[t].target = rec[t].target
        OBVIOUS
      <3>1. CASE t = s
        <4>1. ~Owned(pass.owner, s)
          BY <2>1 DEF Owned, IsCNAME, NoRecord
        <4>2. ~Owned(pass.owner, s)'
          BY <2>1, <2>2, BusyOwner DEF Owned
        <4> QED BY <3>1, <4>1, <4>2
      <3>2. CASE t # s
        BY <2>1, <2>2, <3>2 DEF Owned, IsCNAME
      <3> QED BY <3>1, <3>2
    <2> QED BY <1>2, <2>1, <2>3, OutcomeFrame
  <1>10. ASSUME NEW s \in Slots, ForeignEdit(s) PROVE OutcomeInv'
    <2>1. meddled' \cap {"delete", "drift", "takeover"} # {}
      BY <1>10 DEF ForeignEdit, Meddles
    <2> QED BY <2>1 DEF NoForeignEdits
  <1>11. ASSUME NEW u \in Owners, Wish(u) PROVE OutcomeInv'
    BY <1>8, <1>11 DEF Wish
  <1>12. ASSUME NEW z \in Zones, AddZone(z) PROVE OutcomeInv'
    BY <1>8, <1>12 DEF AddZone, Meddles
  <1>13. CASE UNCHANGED vars
    <2>1. UNCHANGED pass /\ UNCHANGED rec
      BY <1>13 DEF vars
    <2>2. \A s \in Slots : Owned(pass.owner, s)' <=> Owned(pass.owner, s)
      BY <2>1 DEF Owned, IsCNAME
    <2> QED BY <2>1, <1>2, <2>2, OutcomeFrame
  <1> QED BY <1>3, <1>4, <1>5, <1>6, <1>7, <1>9, <1>10, <1>11, <1>12, <1>13
          DEF Next, PassStep

\* PassOutcome: at the end of a pass every zone that did not fail holds, of this Gateway's
\* records, exactly the desired ones, whatever zones, records, wishes and failures come in
\* between, unless others change existing records while it runs.
THEOREM PassesPublish == Spec => []PassOutcome
  <1>1. Init => OutcomeInv
    BY DEF Init, Idle, OutcomeInv, ZonesTaken, ZonesDoneRight, ZonePending
  <1>2. IndInv /\ (NoForeignEdits => OutcomeInv) /\ [Next]_vars
            => (NoForeignEdits => OutcomeInv)'
    BY OutcomeStep
  <1>3. IndInv /\ (NoForeignEdits => OutcomeInv) => PassOutcome
    <2> SUFFICES ASSUME OutcomeInv, pass.pc = "done",
                        NEW z \in pass.zones \ pass.failed, NEW h \in Hostnames
                 PROVE  /\ Owned(pass.owner, <<z, h>>) =>
                              h \in Desired(pass, z) /\ rec[<<z, h>>].target = pass.target
                        /\ h \in Desired(pass, z) => Owned(pass.owner, <<z, h>>) \/ pass.err
      BY DEF PassOutcome
    <2>1. Left(z, h, {})
      BY DEF OutcomeInv, ZonesTaken, ZonesDoneRight
    <2> QED BY <2>1 DEF Left
  <1> QED BY <1>1, <1>2, <1>3, Invariance, PTL DEF Spec
-----------------------------------------------------------------------------
\* Two suffixes of the same length are the same name.
LEMMA SuffixOfLength ==
    ASSUME NEW s \in Seq(STRING), NEW t \in Seq(STRING), NEW n \in Seq(STRING),
           Len(s) = Len(t), IsSuffix(s, n), IsSuffix(t, n)
    PROVE  s = t
  <1>1. /\ Reverse(s) \in Seq(STRING) /\ Len(Reverse(s)) = Len(s)
        /\ \A i \in 1 .. Len(s) : Reverse(s)[i] = s[(Len(s) - i) + 1]
    BY DEF Reverse
  <1>2. /\ Reverse(t) \in Seq(STRING) /\ Len(Reverse(t)) = Len(t)
        /\ \A i \in 1 .. Len(t) : Reverse(t)[i] = t[(Len(t) - i) + 1]
    BY DEF Reverse
  <1>3. /\ SubSeq(Reverse(s), 1, Len(s)) = SubSeq(Reverse(n), 1, Len(s))
        /\ SubSeq(Reverse(t), 1, Len(s)) = SubSeq(Reverse(n), 1, Len(s))
    BY <1>1, <1>2 DEF IsSuffix, IsPrefix
  <1>4. \A i \in 1 .. Len(s) : Reverse(s)[i] = Reverse(t)[i]
    <2>1. \A i \in 1 .. Len(s) : /\ SubSeq(Reverse(s), 1, Len(s))[i] = Reverse(s)[i]
                                 /\ SubSeq(Reverse(t), 1, Len(s))[i] = Reverse(t)[i]
      BY <1>1, <1>2
    <2> QED BY <1>3, <2>1
  <1>5. \A i \in 1 .. Len(s) : s[i] = t[i]
    <2> SUFFICES ASSUME NEW i \in 1 .. Len(s) PROVE s[i] = t[i]
      OBVIOUS
    <2>1. (Len(s) - i) + 1 \in 1 .. Len(s) /\ (Len(s) - ((Len(s) - i) + 1)) + 1 = i
      OBVIOUS
    <2> QED BY <1>1, <1>2, <1>4, <2>1
  <1> QED BY <1>5

\* A hostname is desired in one zone.
LEMMA OneZone ==
    ASSUME NEW p, p.zones \subseteq Zones, NEW h \in Hostnames, NEW y \in p.zones,
           NEW z \in p.zones, h \in Desired(p, y), h \in Desired(p, z)
    PROVE  y = z
  <1>1. /\ y \in matchZone(h, p.zones) /\ z \in matchZone(h, p.zones)
    BY DEF Desired
  <1>2. /\ ZoneName[y] \in Seq(STRING) /\ ZoneName[z] \in Seq(STRING)
        /\ HostName[h] \in Seq(STRING)
    BY DNSAssumption
  <1>3. Len(ZoneName[y]) = Len(ZoneName[z])
    <2>1. Len(ZoneName[y]) <= Len(ZoneName[z]) /\ Len(ZoneName[z]) <= Len(ZoneName[y])
      BY <1>1 DEF matchZone
    <2> QED BY <1>2, <2>1
  <1>4. IsSuffix(ZoneName[y], HostName[h]) /\ IsSuffix(ZoneName[z], HostName[h])
    BY <1>1 DEF matchZone, InZone
  <1>5. ZoneName[y] = ZoneName[z]
    BY <1>2, <1>3, <1>4, SuffixOfLength
  <1> QED BY <1>5, DNSAssumption

\* In a zone that has been listed, what is left of a Gateway's records beyond the desired
\* ones is planned for deletion, whatever others do to the records.
NoSurplus ==
    \A z \in pass.zones \ (pass.todo \cup pass.failed), h \in Hostnames :
        Owned(pass.owner, <<z, h>>) =>
            \/ h \in Desired(pass, z)
            \/ z \in pass.zone /\ \E c \in pass.pending : c.host = h /\ c.op = "delete"
PendingSound == \A z \in pass.zone : Sound(z, pass.pending)
SurplusInv == ZonesTaken /\ PendingSound /\ NoSurplus

\* A step that leaves the pass alone and marks no record for it adds no surplus.
LEMMA SurplusFrame ==
    ASSUME IndInv, SurplusInv, UNCHANGED pass,
           pass.pc # "idle" => \A s \in Slots : Owned(pass.owner, s)' => Owned(pass.owner, s)
    PROVE  SurplusInv'
  <1>0. \A y : Desired(pass, y)' = Desired(pass, y)
    BY DesiredKept
  <1>1. ZonesTaken' /\ PendingSound'
    BY <1>0 DEF SurplusInv, ZonesTaken, PendingSound, Sound
  <1>2. CASE pass.pc = "idle"
    <2>1. pass'.zones = {}
      BY <1>2 DEF SurplusInv, ZonesTaken
    <2> QED BY <1>1, <2>1 DEF SurplusInv, NoSurplus
  <1>3. CASE pass.pc # "idle"
    <2>1. \A z \in pass.zones, h \in Hostnames :
             Owned(pass.owner, <<z, h>>)' => Owned(pass.owner, <<z, h>>)
      BY <1>3 DEF Slots, IndInv, TypeOK, Passes
    <2>2. NoSurplus'
      BY <1>0, <2>1 DEF SurplusInv, NoSurplus
    <2> QED BY <1>1, <2>2 DEF SurplusInv
  <1> QED BY <1>2, <1>3

\* Neither does a zone that fails.
LEMMA SurplusFailed ==
    ASSUME IndInv, SurplusInv, NEW z \in Zones, pass' = ZoneFailed(z), pass.zone \subseteq {z},
           pass.pc \in {"zones", "apply"},
           \A y \in Zones \ {z}, h \in Hostnames : rec'[<<y, h>>] = rec[<<y, h>>]
    PROVE  SurplusInv'
  <1>1. /\ pass'.pc = "zones" /\ pass'.todo = pass.todo \ {z} /\ pass'.zone = {}
        /\ pass'.err = TRUE /\ pass'.failed = pass.failed \cup {z} /\ pass'.zones = pass.zones
        /\ pass'.owner = pass.owner /\ pass'.hosts = pass.hosts
    BY DEF ZoneFailed, IndInv, TypeOK, Passes
  <1>2. ZonesTaken' /\ PendingSound'
    BY <1>1 DEF SurplusInv, ZonesTaken, PendingSound
  <1>3. ASSUME NEW y \in pass'.zones \ (pass'.todo \cup pass'.failed), NEW h \in Hostnames,
               Owned(pass.owner, <<y, h>>)'
        PROVE  h \in Desired(pass, y)'
    <2>1. y \in pass.zones \ (pass.todo \cup pass.failed) /\ y \notin pass.zone /\ y # z
          /\ y \in Zones
      BY <1>1 DEF IndInv, TypeOK, Passes
    <2>2. Owned(pass.owner, <<y, h>>)
      BY <1>1, <1>3, <2>1 DEF Owned, IsCNAME
    <2>3. h \in Desired(pass, y)
      BY <2>1, <2>2 DEF SurplusInv, NoSurplus
    <2> QED BY <1>1, <2>3, DesiredKept
  <1>4. NoSurplus'
    BY <1>3 DEF NoSurplus
  <1> QED BY <1>2, <1>4 DEF SurplusInv

\* A listing plans the deletion of all the surplus of its zone.
LEMMA SurplusListed ==
    ASSUME IndInv, SurplusInv, NEW z \in Zones, ListRecords(z)
    PROVE  SurplusInv'
  <1>0. pass.pc = "zones" /\ z \in pass.todo /\ UNCHANGED rec /\ pass.zone = {}
    BY DEF ListRecords, SurplusInv, ZonesTaken
  <1>1. CASE pass' = ZoneFailed(z)
    BY <1>0, <1>1, SurplusFailed
  <1>2. CASE pass' # ZoneFailed(z)
    <2>1. /\ pass'.pc = IF Plan(pass, z) = {} THEN "zones" ELSE "apply"
          /\ pass'.zone = IF Plan(pass, z) = {} THEN {} ELSE {z}
          /\ pass'.todo = pass.todo \ {z} /\ pass'.pending = Plan(pass, z)
          /\ pass'.err = (pass.err \/ Conflicts(pass, z) # {})
          /\ pass'.failed = pass.failed /\ pass'.zones = pass.zones
          /\ pass'.owner = pass.owner /\ pass'.hosts = pass.hosts
      BY <1>2 DEF ListRecords, IndInv, TypeOK, Passes
    <2>2. ZonesTaken'
      BY <1>0, <2>1 DEF SurplusInv, ZonesTaken
    <2>3. \A y : Desired(pass, y)' = Desired(pass, y)
      BY <2>1, DesiredKept
    <2>4. \A s : Owned(pass.owner, s)' <=> Owned(pass.owner, s)
      BY <1>0, <2>1 DEF Owned, IsCNAME
    <2>5. Sound(z, Plan(pass, z))
      BY <1>0, PlanOutcome
    <2>6. PendingSound'
      BY <2>1, <2>3, <2>5 DEF PendingSound, Sound
    <2>7. ASSUME NEW h \in Hostnames, Owned(pass.owner, <<z, h>>), h \notin Desired(pass, z)
          PROVE  \E c \in Plan(pass, z) : c.host = h /\ c.op = "delete"
      <3>1. PICK c \in Plan(pass, z) : c.host = h
        BY <1>0, <2>7, PlanOutcome
      <3> QED BY <2>5, <2>7, <3>1 DEF Sound
    <2>8. ASSUME NEW y \in pass'.zones \ (pass'.todo \cup pass'.failed), NEW h \in Hostnames,
                 Owned(pass.owner, <<y, h>>)', h \notin Desired(pass, y)'
          PROVE  y \in pass'.zone /\ \E c \in pass'.pending : c.host = h /\ c.op = "delete"
      <3>1. Owned(pass.owner, <<y, h>>) /\ h \notin Desired(pass, y)
        BY <2>3, <2>4, <2>8
      <3>2. CASE y = z
        BY <2>1, <2>7, <3>1, <3>2
      <3>3. CASE y # z
        <4>1. y \in pass.zones \ (pass.todo \cup pass.failed)
          BY <2>1, <3>3
        <4> QED BY <1>0, <3>1, <4>1 DEF SurplusInv, NoSurplus
      <3> QED BY <3>2, <3>3
    <2>9. NoSurplus'
      BY <2>8 DEF NoSurplus
    <2> QED BY <2>2, <2>6, <2>9 DEF SurplusInv
  <1> QED BY <1>1, <1>2

\* A batch deletes what it takes from the plan, and creates and updates what is desired.
LEMMA SurplusApplied ==
    ASSUME IndInv, SurplusInv, NEW z \in Zones, ApplyBatch(z)
    PROVE  SurplusInv'
  <1>0. pass.pc = "apply" /\ pass.zone = {z}
    BY DEF ApplyBatch
  <1>1. PICK chunk \in Chunks(pass.pending) :
          \/ /\ rec' = Batched(z, chunk)
             /\ \/ pass' = [pass EXCEPT !.pending = @ \ chunk,
                                        !.pc = IF pass.pending = chunk THEN "zones" ELSE "apply",
                                        !.zone = IF pass.pending = chunk THEN {} ELSE @]
                \/ pass' = ZoneFailed(z)
          \/ pass' = ZoneFailed(z) /\ UNCHANGED rec
    BY DEF ApplyBatch
  <1>2. chunk \in SUBSET pass.pending
    BY DEF Chunks
  <1>3. \A y \in Zones \ {z}, h \in Hostnames : rec'[<<y, h>>] = rec[<<y, h>>]
    <2>1. \A y \in Zones \ {z}, h \in Hostnames : <<y, h>> \in Slots /\ <<y, h>>[1] # z
      BY DEF Slots
    <2> QED BY <1>1, <2>1 DEF Batched
  <1>4. CASE pass' = ZoneFailed(z)
    BY <1>0, <1>3, <1>4, SurplusFailed
  <1>5. CASE /\ rec' = Batched(z, chunk)
             /\ pass' = [pass EXCEPT !.pending = @ \ chunk,
                                     !.pc = IF pass.pending = chunk THEN "zones" ELSE "apply",
                                     !.zone = IF pass.pending = chunk THEN {} ELSE @]
    <2>1. /\ pass'.pc = IF pass.pending = chunk THEN "zones" ELSE "apply"
          /\ pass'.zone = IF pass.pending = chunk THEN {} ELSE {z}
          /\ pass'.pending = pass.pending \ chunk
          /\ pass'.todo = pass.todo /\ pass'.err = pass.err
          /\ pass'.failed = pass.failed /\ pass'.zones = pass.zones
          /\ pass'.owner = pass.owner /\ pass'.hosts = pass.hosts
      BY <1>0, <1>5 DEF IndInv, TypeOK, Passes
    <2>2. ZonesTaken'
      BY <1>0, <2>1 DEF SurplusInv, ZonesTaken
    <2>3. \A y : Desired(pass, y)' = Desired(pass, y)
      BY <2>1, DesiredKept
    <2>4. Sound(z, pass.pending) /\ z \in pass.zone
      BY <1>0 DEF SurplusInv, PendingSound
    <2>5. PendingSound'
      BY <2>1, <2>3, <2>4 DEF PendingSound, Sound
    <2>6. ASSUME NEW h \in Hostnames, z \in pass'.zones \ (pass'.todo \cup pass'.failed),
                 Owned(pass.owner, <<z, h>>)', h \notin Desired(pass, z)
          PROVE  z \in pass'.zone /\ \E c \in pass'.pending : c.host = h /\ c.op = "delete"
      <3>1. <<z, h>> \in Slots /\ pass'.owner = pass.owner
        BY <2>1 DEF Slots
      <3>2. ~\E d \in chunk : d.host = h
        <4> SUFFICES ASSUME NEW d \in chunk, d.host = h
                     PROVE  FALSE
          OBVIOUS
        <4>1. (CHOOSE c \in chunk : c.host = h) = d
          BY <1>2, <2>4 DEF Sound
        <4>2. d.op = "delete"
          BY <1>2, <2>4, <2>6 DEF Sound
        <4>3. rec'[<<z, h>>] = NoRecord
          BY <1>5, <3>1, <4>1, <4>2 DEF Batched, Changed
        <4> QED BY <2>6, <4>3 DEF Owned, IsCNAME, NoRecord
      <3>3. rec'[<<z, h>>] = rec[<<z, h>>]
        BY <1>5, <3>1, <3>2 DEF Batched
      <3>4. Owned(pass.owner, <<z, h>>)
        BY <2>6, <3>1, <3>3 DEF Owned, IsCNAME
      <3>5. PICK c \in pass.pending : c.host = h /\ c.op = "delete"
        BY <2>1, <2>6, <3>4 DEF SurplusInv, NoSurplus
      <3>6. c \in pass'.pending
        BY <2>1, <3>2, <3>5
      <3>7. pass.pending # chunk
        BY <3>2, <3>5
      <3> QED BY <2>1, <3>5, <3>6, <3>7
    <2>7. ASSUME NEW y \in pass'.zones \ (pass'.todo \cup pass'.failed), NEW h \in Hostnames,
                 Owned(pass.owner, <<y, h>>)', h \notin Desired(pass, y)'
          PROVE  y \in pass'.zone /\ \E c \in pass'.pending : c.host = h /\ c.op = "delete"
      <3>1. h \notin Desired(pass, y)
        BY <2>3, <2>7
      <3>2. CASE y = z
        BY <2>6, <2>7, <3>1, <3>2
      <3>3. CASE y # z
        <4>1. y \in pass.zones \ (pass.todo \cup pass.failed) /\ y \notin pass.zone /\ y \in Zones
          BY <1>0, <2>1, <3>3 DEF IndInv, TypeOK, Passes
        <4>2. Owned(pass.owner, <<y, h>>)
          BY <1>3, <2>1, <2>7, <3>3, <4>1 DEF Owned, IsCNAME
        <4> QED BY <3>1, <4>1, <4>2 DEF SurplusInv, NoSurplus
      <3> QED BY <3>2, <3>3
    <2>8. NoSurplus'
      BY <2>7 DEF NoSurplus
    <2> QED BY <2>2, <2>5, <2>8 DEF SurplusInv
  <1> QED BY <1>1, <1>4, <1>5

\* Every step keeps the surplus in check, those of other users included.
LEMMA SurplusStep ==
    ASSUME IndInv, SurplusInv, [Next]_vars
    PROVE  SurplusInv'
  <1>1. ASSUME UNCHANGED <<pass, rec>> PROVE SurplusInv'
    <2>1. \A s \in Slots : Owned(pass.owner, s)' => Owned(pass.owner, s)
      BY <1>1 DEF Owned, IsCNAME
    <2> QED BY <1>1, <2>1, SurplusFrame
  <1>2. CASE UNCHANGED vars
    BY <1>1, <1>2 DEF vars
  <1>3. ASSUME NEW u \in Owners, Start(u) PROVE SurplusInv'
    <2>1. /\ pass'.pc = "listZones" /\ pass'.zones = {} /\ pass'.zone = {} /\ pass'.todo = {}
          /\ pass'.failed = {}
      BY <1>3 DEF Start, Idle
    <2> QED BY <2>1 DEF SurplusInv, ZonesTaken, PendingSound, NoSurplus
  <1>4. CASE ListZones
    <2>1. pass.pc = "listZones" /\ pass.zones = {} /\ pass.zone = {} /\ pass.todo = {}
      BY <1>4 DEF ListZones, SurplusInv, ZonesTaken
    <2>2. \/ pass' = [pass EXCEPT !.pc = "zones", !.zones = zones, !.todo = zones]
          \/ pass' = [pass EXCEPT !.pc = "done", !.err = TRUE]
      BY <1>4 DEF ListZones
    <2>3. /\ pass'.todo = pass'.zones /\ pass'.zone = {} /\ pass'.failed = pass.failed
          /\ pass'.err \/ pass'.err = pass.err
          /\ \/ pass'.pc = "zones"
             \/ pass'.pc = "done" /\ pass'.todo = {}
      BY <2>1, <2>2 DEF IndInv, TypeOK, Passes
    <2> QED BY <2>3 DEF SurplusInv, ZonesTaken, PendingSound, NoSurplus
  <1>5. CASE ZonesDone
    <2>1. /\ pass'.pc = "done" /\ pass'.todo = pass.todo /\ pass'.zone = pass.zone
          /\ pass'.failed = pass.failed /\ pass'.zones = pass.zones /\ pass'.err = pass.err
          /\ pass'.owner = pass.owner /\ pass'.hosts = pass.hosts
          /\ pass.todo = {} /\ pass.zone = {} /\ UNCHANGED rec
      BY <1>5 DEF ZonesDone, SurplusInv, ZonesTaken, IndInv, TypeOK, Passes
    <2>2. \A y : Desired(pass, y)' = Desired(pass, y)
      BY <2>1, DesiredKept
    <2>3. \A s : Owned(pass.owner, s)' <=> Owned(pass.owner, s)
      BY <2>1 DEF Owned, IsCNAME
    <2>4. ASSUME NEW y \in pass'.zones \ (pass'.todo \cup pass'.failed), NEW h \in Hostnames,
                 Owned(pass.owner, <<y, h>>)'
          PROVE  h \in Desired(pass, y)'
      <3>1. h \in Desired(pass, y)
        BY <2>1, <2>3, <2>4 DEF SurplusInv, NoSurplus
      <3> QED BY <2>2, <3>1
    <2>5. NoSurplus'
      BY <2>4 DEF NoSurplus
    <2> QED BY <2>1, <2>5 DEF SurplusInv, ZonesTaken, PendingSound
  <1>6. CASE Return
    <2>1. /\ pass'.pc = "idle" /\ pass'.zones = {} /\ pass'.zone = {} /\ pass'.todo = {}
          /\ pass'.failed = {}
      BY <1>6 DEF Return, Idle
    <2> QED BY <2>1 DEF SurplusInv, ZonesTaken, PendingSound, NoSurplus
  <1>7. ASSUME NEW s \in Slots, ForeignCreate(s) \/ ForeignEdit(s) PROVE SurplusInv'
    <2>1. /\ UNCHANGED pass /\ rec \in [Slots -> Records]
          /\ \A t \in Slots \ {s} : rec'[t] = rec[t]
      BY <1>7 DEF ForeignCreate, ForeignEdit, Meddles, IndInv, TypeOK
    <2>2. rec'[s].owner \in {0, rec[s].owner} /\ (rec'[s].owner # 0 => rec'[s].kind = rec[s].kind)
      <3>1. rec[s] \in Records
        BY <2>1
      <3>2. CASE ForeignCreate(s)
        <4>1. PICK kind \in {"CNAME", "other"} :
                 rec' = [rec EXCEPT ![s] = [NoRecord EXCEPT !.id = nextId, !.kind = kind]]
          BY <3>2 DEF ForeignCreate
        <4> QED BY <2>1, <4>1 DEF NoRecord
      <3>3. CASE ForeignEdit(s)
        <4>1. rec'[s] \in {NoRecord, [rec[s] EXCEPT !.target = 0], [rec[s] EXCEPT !.owner = 0]}
          BY <2>1, <3>3 DEF ForeignEdit
        <4>2. /\ [rec[s] EXCEPT !.target = 0].owner = rec[s].owner
              /\ [rec[s] EXCEPT !.target = 0].kind = rec[s].kind
              /\ [rec[s] EXCEPT !.owner = 0].owner = 0 /\ NoRecord.owner = 0
          BY <3>1 DEF Records, NoRecord
        <4> QED BY <4>1, <4>2
      <3> QED BY <1>7, <3>2, <3>3
    <2>3. pass.pc # "idle" => \A t \in Slots : Owned(pass.owner, t)' => Owned(pass.owner, t)
      BY <2>1, <2>2, BusyOwner DEF Owned, IsCNAME
    <2> QED BY <2>1, <2>3, SurplusFrame
  <1>8. ASSUME NEW u \in Owners, Wish(u) PROVE SurplusInv'
    BY <1>1, <1>8 DEF Wish
  <1>9. ASSUME NEW z \in Zones, AddZone(z) PROVE SurplusInv'
    BY <1>1, <1>9 DEF AddZone, Meddles
  <1> QED BY <1>2, <1>3, <1>4, <1>5, <1>6, <1>7, <1>8, <1>9, SurplusListed, SurplusApplied
          DEF Next, PassStep

\* PublishedOnce: a pass that reports success leaves a hostname published for its Gateway in
\* one zone at most, however the zones nest, whatever appeared between two passes and
\* whatever others do to the records meanwhile.
THEOREM HostnamesArePublishedOnce == Spec => []PublishedOnce
  <1>1. Init => SurplusInv
    BY DEF Init, Idle, SurplusInv, ZonesTaken, PendingSound, NoSurplus
  <1>2. IndInv /\ SurplusInv /\ [Next]_vars => SurplusInv'
    BY SurplusStep
  <1>3. IndInv /\ SurplusInv => PublishedOnce
    <2> SUFFICES ASSUME IndInv, SurplusInv, pass.pc = "done", ~pass.err, NEW h \in Hostnames
                 PROVE  Cardinality({z \in pass.zones : Owned(pass.owner, <<z, h>>)}) <= 1
      BY DEF PublishedOnce
    <2> DEFINE holders == {z \in pass.zones : Owned(pass.owner, <<z, h>>)}
    <2>1. pass.failed = {} /\ pass.todo = {} /\ pass.zone = {} /\ pass.zones \subseteq Zones
      BY DEF SurplusInv, ZonesTaken, IndInv, TypeOK, Passes
    <2>2. \A z \in holders : h \in Desired(pass, z)
      BY <2>1 DEF SurplusInv, NoSurplus
    <2>3. \A y, z \in holders : y = z
      BY <2>1, <2>2, OneZone
    <2> HIDE DEF holders
    <2>4. Cardinality(holders) <= 1
      <3>1. CASE holders = {}
        <4>1. Cardinality({}) = 0
          BY FS_EmptySet
        <4> QED BY <3>1, <4>1
      <3>2. CASE holders # {}
        <4>1. PICK z \in holders : TRUE
          BY <3>2
        <4>2. holders = {z}
          BY <2>3, <4>1
        <4>3. Cardinality({z}) = 1
          BY FS_Singleton
        <4> QED BY <4>2, <4>3
      <3> QED BY <3>1, <3>2
    <2> QED BY <2>4 DEF holders
  <1> QED BY <1>1, <1>2, <1>3, Invariance, PTL DEF Spec
-----------------------------------------------------------------------------
\* A record that still has the id of a planned update or delete carries the Gateway's mark,
\* unless somebody has replaced a comment since the pass began.
PendingMarked ==
    NoTakeover => \A z \in pass.zone, c \in pass.pending :
        c.op # "create" /\ rec[<<z, c.host>>].id = c.id => rec[<<z, c.host>>].owner = pass.owner

\* A batch then changes and removes only records with the mark, and leaves it on them.
LEMMA BatchedMarked ==
    ASSUME IndInv, PendingMarked, NoTakeover, NEW z \in Zones, ApplyBatch(z), NEW s \in Slots
    PROVE  /\ rec'[s] = rec[s] \/ rec[s] = NoRecord \/ rec[s].owner = pass.owner
           /\ rec'[s] = rec[s] \/ rec'[s] = NoRecord \/ rec'[s].owner = pass.owner
  <1>1. PICK chunk \in Chunks(pass.pending) :
           \/ Acceptable(z, chunk) /\ rec' = Batched(z, chunk)
           \/ UNCHANGED rec
    BY DEF ApplyBatch
  <1>2. chunk \in SUBSET pass.pending /\ pass.zone = {z} /\ pass.pc = "apply"
    BY DEF Chunks, ApplyBatch
  <1>3. CASE Acceptable(z, chunk) /\ rec' = Batched(z, chunk)
    <2>1. rec'[s] = rec[s] \/ rec'[s] = NoRecord \/ rec'[s].owner = pass.owner
      BY <1>2, <1>3, BatchedSlot
    <2>2. CASE s[1] = z /\ \E c \in chunk : c.host = s[2]
      <3>1. PICK c \in chunk : c.host = s[2]
        BY <2>2
      <3>2. s = <<z, c.host>> /\ c \in pass.pending
        BY <1>2, <2>2, <3>1 DEF Slots
      <3>3. CASE c.op = "create"
        BY <1>3, <2>1, <3>2, <3>3 DEF Acceptable
      <3>4. CASE c.op # "create"
        BY <1>2, <1>3, <2>1, <3>2, <3>4 DEF Acceptable, PendingMarked
      <3> QED BY <3>3, <3>4
    <2>3. CASE ~(s[1] = z /\ \E c \in chunk : c.host = s[2])
      BY <1>3, <2>3 DEF Batched
    <2> QED BY <2>1, <2>2, <2>3
  <1> QED BY <1>1, <1>3

\* A step of the pass, or of nobody, that leaves the records alone.
LEMMA MarkedKept ==
    ASSUME PendingMarked, UNCHANGED <<rec, meddled>>, pass'.owner = pass.owner,
           pass'.pending \subseteq pass.pending, pass'.zone \subseteq pass.zone
    PROVE  PendingMarked'
  BY DEF PendingMarked, NoTakeover

\* Every step keeps what is planned marked.
LEMMA MarkedStep ==
    ASSUME IndInv, PendingMarked, [Next]_vars
    PROVE  PendingMarked'
  <1>1. ASSUME UNCHANGED <<rec, pass, meddled>> PROVE PendingMarked'
    BY <1>1, MarkedKept
  <1>2. ASSUME pass'.pending = {} PROVE PendingMarked'
    BY <1>2 DEF PendingMarked
  <1>3. ASSUME NEW u \in Owners, Start(u) PROVE PendingMarked'
    BY <1>2, <1>3 DEF Start, Idle
  <1>4. CASE Return
    BY <1>2, <1>4 DEF Return, Idle
  <1>5. CASE ListZones \/ ZonesDone
    <2>1. /\ UNCHANGED <<rec, meddled>> /\ pass'.owner = pass.owner
          /\ pass'.pending = pass.pending /\ pass'.zone = pass.zone
      BY <1>5 DEF ListZones, ZonesDone, IndInv, TypeOK, Passes
    <2> QED BY <2>1, MarkedKept
  <1>6. ASSUME NEW z \in Zones, ListRecords(z) PROVE PendingMarked'
    <2>1. CASE pass' = ZoneFailed(z)
      BY <1>2, <2>1, ZoneFailedTypes DEF IndInv
    <2>2. CASE pass' # ZoneFailed(z)
      <3>1. /\ pass'.owner = pass.owner /\ pass'.zone \subseteq {z}
            /\ pass'.pending = Plan(pass, z) /\ UNCHANGED rec
        BY <1>6, <2>2 DEF ListRecords, IndInv, TypeOK, Passes
      <3>2. \A c \in Plan(pass, z) : c.op # "create" => Owned(pass.owner, <<z, c.host>>)
        BY PlanTypes DEF IndInv
      <3> QED BY <3>1, <3>2 DEF PendingMarked, Owned
    <2> QED BY <2>1, <2>2
  <1>7. ASSUME NEW z \in Zones, ApplyBatch(z) PROVE PendingMarked'
    <2> SUFFICES ASSUME NoTakeover', NEW y \in pass'.zone, NEW c \in pass'.pending,
                        c.op # "create", rec'[<<y, c.host>>].id = c.id
                 PROVE  rec'[<<y, c.host>>].owner = pass'.owner
      BY DEF PendingMarked
    <2>1. NoTakeover
      BY <1>7 DEF ApplyBatch, NoTakeover
    <2>2. /\ pass'.owner = pass.owner /\ y \in pass.zone /\ c \in pass.pending
      <3>1. CASE pass' = ZoneFailed(z)
        BY <3>1, ZoneFailedTypes DEF IndInv
      <3>2. ASSUME NEW ch \in SUBSET pass.pending,
                   pass' = [pass EXCEPT !.pending = @ \ ch,
                                        !.pc = IF pass.pending = ch THEN "zones" ELSE "apply",
                                        !.zone = IF pass.pending = ch THEN {} ELSE @]
            PROVE  pass'.owner = pass.owner /\ y \in pass.zone /\ c \in pass.pending
        BY <3>2 DEF IndInv, TypeOK, Passes
      <3> QED BY <1>7, <3>1, <3>2 DEF ApplyBatch, Chunks
    <2>3. <<y, c.host>> \in Slots /\ c.id # 0
      BY <2>2 DEF IndInv, TypeOK, Passes, Changes, Slots, PendingOwn
    <2>4. \/ rec'[<<y, c.host>>] = rec[<<y, c.host>>]
          \/ rec'[<<y, c.host>>] = NoRecord
          \/ rec'[<<y, c.host>>].owner = pass.owner
      BY <1>7, <2>1, <2>3, BatchedMarked
    <2> QED BY <2>1, <2>2, <2>3, <2>4 DEF PendingMarked, NoRecord
  <1>8. ASSUME NEW s \in Slots, ForeignCreate(s) \/ ForeignEdit(s) PROVE PendingMarked'
    <2> SUFFICES ASSUME NoTakeover', NEW y \in pass.zone, NEW c \in pass.pending,
                        c.op # "create", rec'[<<y, c.host>>].id = c.id
                 PROVE  rec'[<<y, c.host>>].owner = pass.owner
      BY <1>8 DEF PendingMarked, ForeignCreate, ForeignEdit, Meddles
    <2>1. NoTakeover
      BY <1>8 DEF ForeignCreate, ForeignEdit, Meddles, NoTakeover
    <2>2. /\ <<y, c.host>> \in Slots /\ c.id # 0 /\ c.id < nextId
          /\ c.id \in Nat /\ nextId \in Nat
      BY DEF IndInv, TypeOK, Passes, Changes, Slots, PendingOwn, FreshIds
    <2>3. /\ rec \in [Slots -> Records] /\ rec[s] \in Records
          /\ \A t \in Slots : t # s => rec'[t] = rec[t]
      BY <1>8 DEF IndInv, TypeOK, ForeignCreate, ForeignEdit
    <2>4. CASE <<y, c.host>> # s
      BY <2>1, <2>2, <2>3, <2>4 DEF PendingMarked
    <2>5. CASE <<y, c.host>> = s
      <3>1. CASE ForeignCreate(s)
        <4>1. rec'[s].id = nextId
          BY <2>3, <3>1 DEF ForeignCreate, NoRecord
        <4> QED BY <2>2, <2>5, <4>1
      <3>2. CASE ForeignEdit(s)
        <4>1. \/ rec' = [rec EXCEPT ![s] = NoRecord]
              \/ rec' = [rec EXCEPT ![s].target = 0]
          BY <3>2 DEF ForeignEdit, Meddles, NoTakeover
        <4>2. rec'[s] = NoRecord \/ (rec'[s].owner = rec[s].owner /\ rec'[s].id = rec[s].id)
          BY <2>3, <4>1 DEF Records
        <4> QED BY <2>1, <2>2, <2>5, <4>2 DEF PendingMarked, NoRecord
      <3> QED BY <1>8, <3>1, <3>2
    <2> QED BY <2>4, <2>5
  <1>9. ASSUME NEW z \in Zones, AddZone(z) PROVE PendingMarked'
    BY <1>9 DEF AddZone, Meddles, PendingMarked, NoTakeover
  <1>10. ASSUME NEW u \in Owners, Wish(u) PROVE PendingMarked'
    BY <1>1, <1>10 DEF Wish
  <1>11. CASE UNCHANGED vars
    BY <1>1, <1>11 DEF vars
  <1> QED BY <1>3, <1>4, <1>5, <1>6, <1>7, <1>8, <1>9, <1>10, <1>11 DEF Next, PassStep

\* MarkerRespected: a pass changes and removes only records that carry its Gateway's mark when
\* the batch is applied, although it looked at the marks earlier, unless someone replaces a
\* comment while it runs.
THEOREM MarkersAreRespected == Spec => MarkerRespected
  <1>1. Init => PendingMarked
    BY DEF Init, PendingMarked, Idle
  <1>2. IndInv /\ PendingMarked /\ [Next]_vars => PendingMarked'
    BY MarkedStep
  <1>3. IndInv /\ PendingMarked /\ [Next]_vars =>
           [pass' # pass /\ NoTakeover => \A s \in Slots :
              rec'[s] = rec[s] \/ rec[s] = NoRecord \/ rec[s].owner = pass.owner]_vars
    <2> SUFFICES ASSUME IndInv, PendingMarked, Next, pass' # pass, NoTakeover, NEW s \in Slots
                 PROVE  rec'[s] = rec[s] \/ rec[s] = NoRecord \/ rec[s].owner = pass.owner
      OBVIOUS
    <2>1. ASSUME NEW z \in Zones, ApplyBatch(z)
          PROVE  rec'[s] = rec[s] \/ rec[s] = NoRecord \/ rec[s].owner = pass.owner
      BY <2>1, BatchedMarked
    <2> QED BY <2>1 DEF Next, PassStep, ListZones, ZonesDone, Return, ListRecords, Start, Wish,
                         ForeignCreate, ForeignEdit, Meddles, AddZone
  <1> QED BY <1>1, <1>2, <1>3, Invariance, PTL DEF Spec, MarkerRespected
=============================================================================
