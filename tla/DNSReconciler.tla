--------------------------- MODULE DNSReconciler ---------------------------
(***************************************************************************)
(* reconcileDNS and teardownDNS of internal/controller/dns.go with         *)
(* ListZones, ListDNSRecords, ApplyDNSChanges and chunkDNSChanges of       *)
(* internal/cloudflare/client.go: one pass lists the zones, then for each  *)
(* zone lists its CNAME records, plans the changes and applies them in     *)
(* batches, while others edit the same zones and calls fail.               *)
(*                                                                         *)
(* GatewayReconciler takes a whole pass as one step; here it is taken      *)
(* apart.  A name is a sequence of labels.  A record is identified by its  *)
(* id (unique in its slot); owner is the uid in its comment, 0 for any     *)
(* other comment; content and the proxied flag are one value, target, 0    *)
(* for any value the controller did not write.  maker, which no code       *)
(* reads, remembers who created the record.                                *)
(***************************************************************************)
EXTENDS Naturals, Sequences, FiniteSets, SequencesExt

CONSTANTS
    Zones, ZoneName,          \* the account's zones and their labels
    Hostnames, HostName,      \* route hostnames and their labels
    Wildcards,                \* the hostnames that start with "*."
    Owners,                   \* uids of Gateways
    Targets,                  \* tunnels
    ChunkSize,                \* dnsBatchChunkSize
    ForeignKinds,             \* what others do to the zones
    MaxWishes, MaxForeign, MaxFailures

ASSUME DNSAssumption ==
    /\ ZoneName \in [Zones -> Seq(STRING) \ {<<>>}]
    /\ HostName \in [Hostnames -> Seq(STRING)]
    /\ \A y, z \in Zones : ZoneName[y] = ZoneName[z] => y = z
    /\ Wildcards \subseteq Hostnames
    /\ Owners \subseteq Nat \ {0}
    /\ Targets \subseteq Nat \ {0}
    /\ ChunkSize \in Nat \ {0}

VARIABLES
    zones,     \* zones the API token can see
    rec,       \* the record of each hostname in each zone
    nextId,    \* next record id
    wish,      \* per Gateway: is it live, its route hostnames, its tunnel
    dirty,     \* Gateways whose reconcile is queued
    pass,      \* the pass in progress
    meddled,   \* what others have done to the zones since the pass began, for the properties
    used       \* how much of each bound is used up

vars == <<zones, rec, nextId, wish, dirty, pass, meddled, used>>

Slots == Zones \X Hostnames
NoRecord == [id |-> 0, kind |-> "none", owner |-> 0, target |-> 0, maker |-> 0]
Idle == [pc |-> "idle", owner |-> 0, target |-> 0, hosts |-> {}, zones |-> {}, todo |-> {},
         zone |-> {}, pending |-> {}, err |-> FALSE, failed |-> {}]

Init ==
    /\ zones \in SUBSET Zones
    /\ rec = [s \in Slots |-> NoRecord]
    /\ nextId = 1
    /\ wish = [u \in Owners |-> [live |-> TRUE, hosts |-> {}, target |-> 0]]
    /\ dirty = {}
    /\ pass = Idle /\ meddled = {}
    /\ used = [wishes |-> 0, foreign |-> 0, failures |-> 0]
-----------------------------------------------------------------------------
(* Zones and plans. *)

InZone(h, z) == IsSuffix(ZoneName[z], HostName[h])

\* matchZone: the zone with the longest name that is a suffix of the hostname.
matchZone(h, zs) ==
    {z \in zs : /\ InZone(h, z)
                /\ \A y \in zs : InZone(h, y) => Len(ZoneName[y]) <= Len(ZoneName[z])}

\* desiredByZone: wildcards and hostnames in no zone are skipped.
Desired(p, z) == {h \in p.hosts \ Wildcards : z \in matchZone(h, p.zones)}

IsCNAME(s) == rec[s].kind = "CNAME"
Owned(u, s) == IsCNAME(s) /\ rec[s].owner = u

\* planDNSChanges over the CNAME records ListDNSRecords returns.
Change(op, z, h) == [op |-> op, host |-> h, id |-> rec[<<z, h>>].id]
Creates(p, z) == {Change("create", z, h) : h \in {x \in Desired(p, z) : ~IsCNAME(<<z, x>>)}}
Updates_mClobber(p, z) ==
    {Change("update", z, h) : h \in {x \in Desired(p, z) :
        IsCNAME(<<z, x>>) /\ rec[<<z, x>>].target # p.target}}
Updates(p, z) ==
    {Change("update", z, h) : h \in {x \in Desired(p, z) :
        Owned(p.owner, <<z, x>>) /\ rec[<<z, x>>].target # p.target}}
Deletes_mKeepForeignZones(p, z) ==
    IF Desired(p, z) = {} THEN {}
    ELSE {Change("delete", z, h) :
             h \in {x \in Hostnames \ Desired(p, z) : Owned(p.owner, <<z, x>>)}}
Deletes(p, z) ==
    {Change("delete", z, h) : h \in {x \in Hostnames \ Desired(p, z) : Owned(p.owner, <<z, x>>)}}
Plan(p, z) == Deletes(p, z) \cup Updates(p, z) \cup Creates(p, z)
Conflicts(p, z) == {h \in Desired(p, z) : IsCNAME(<<z, h>>) /\ ~Owned(p.owner, <<z, h>>)}

\* chunkDNSChanges: the next batch is full unless it is the last, and takes deletes
\* before updates before creates.
Rank(c) == CASE c.op = "delete" -> 1 [] c.op = "update" -> 2 [] c.op = "create" -> 3
Chunks(pending) ==
    {chunk \in SUBSET pending :
        /\ Cardinality(chunk) = (IF Cardinality(pending) < ChunkSize THEN Cardinality(pending)
                                                                     ELSE ChunkSize)
        /\ \A c \in chunk, d \in pending \ chunk : Rank(c) <= Rank(d)}
-----------------------------------------------------------------------------
(* A pass. *)

SpendsFailure ==
    /\ used.failures < MaxFailures
    /\ used' = [used EXCEPT !.failures = @ + 1]

\* reconcileDNS for a live Gateway, teardownDNS (nothing desired) for a deleted one.
Start(u) ==
    /\ pass.pc = "idle" /\ u \in dirty
    /\ wish[u].live => wish[u].target # 0
    /\ dirty' = dirty \ {u} /\ meddled' = {}
    /\ pass' = [Idle EXCEPT !.pc = "listZones", !.owner = u, !.target = wish[u].target,
                            !.hosts = IF wish[u].live THEN wish[u].hosts ELSE {}]
    /\ UNCHANGED <<zones, rec, nextId, wish, used>>

ListZones ==
    /\ pass.pc = "listZones"
    /\ \/ /\ pass' = [pass EXCEPT !.pc = "zones", !.zones = zones, !.todo = zones]
          /\ UNCHANGED used
       \/ /\ SpendsFailure
          /\ pass' = [pass EXCEPT !.pc = "done", !.err = TRUE]
    /\ UNCHANGED <<zones, rec, nextId, wish, dirty, meddled>>

\* What a failing zone leaves to do: the others are still tried.
ZoneFailed_mStops(z) ==
    [pass EXCEPT !.pc = "zones", !.todo = {}, !.zone = {}, !.pending = {},
                 !.err = TRUE, !.failed = @ \cup {z}]
ZoneFailed(z) ==
    [pass EXCEPT !.pc = "zones", !.todo = @ \ {z}, !.zone = {}, !.pending = {},
                 !.err = TRUE, !.failed = @ \cup {z}]

\* ListDNSRecords and planDNSChanges for the next zone.
ListRecords(z) ==
    /\ pass.pc = "zones" /\ z \in pass.todo
    /\ \/ /\ pass' = [pass EXCEPT !.pc = IF Plan(pass, z) = {} THEN "zones" ELSE "apply",
                                  !.todo = @ \ {z},
                                  !.zone = IF Plan(pass, z) = {} THEN {} ELSE {z},
                                  !.pending = Plan(pass, z),
                                  !.err = @ \/ Conflicts(pass, z) # {}]
          /\ UNCHANGED used
       \/ SpendsFailure /\ pass' = ZoneFailed(z)
    /\ UNCHANGED <<zones, rec, nextId, wish, dirty, meddled>>

\* The batch endpoint is a transaction (external): ids must exist, and a CNAME can only
\* be created where there is no record of any type.
Acceptable(z, chunk) ==
    \A c \in chunk : IF c.op = "create" THEN rec[<<z, c.host>>] = NoRecord
                                        ELSE rec[<<z, c.host>>].id = c.id

\* toV7BatchParams: what a change leaves in its slot.  A patch rewrites content and
\* comment of the record with the given id.
Changed(c, s) ==
    IF c.op = "delete" THEN NoRecord
    ELSE IF c.op = "update"
    THEN [rec[s] EXCEPT !.kind = "CNAME", !.owner = pass.owner, !.target = pass.target]
    ELSE [id |-> nextId, kind |-> "CNAME", owner |-> pass.owner, target |-> pass.target,
          maker |-> pass.owner]

Batched(z, chunk) ==
    [s \in Slots |->
        IF s[1] = z /\ \E c \in chunk : c.host = s[2]
        THEN Changed(CHOOSE c \in chunk : c.host = s[2], s) ELSE rec[s]]

\* One batch of ApplyDNSChanges; a rejected or failed one ends the zone.
ApplyBatch(z) ==
    /\ pass.pc = "apply" /\ pass.zone = {z}
    /\ \E chunk \in Chunks(pass.pending) :
          \/ /\ Acceptable(z, chunk)
             /\ rec' = Batched(z, chunk)
             /\ nextId' = nextId + 1
             /\ \/ /\ pass' = [pass EXCEPT !.pending = @ \ chunk,
                                           !.pc = IF pass.pending = chunk THEN "zones" ELSE "apply",
                                           !.zone = IF pass.pending = chunk THEN {} ELSE @]
                   /\ UNCHANGED used
                \/ SpendsFailure /\ pass' = ZoneFailed(z)
          \/ /\ ~Acceptable(z, chunk)
             /\ pass' = ZoneFailed(z)
             /\ UNCHANGED <<rec, nextId, used>>
          \/ SpendsFailure /\ pass' = ZoneFailed(z) /\ UNCHANGED <<rec, nextId>>
    /\ UNCHANGED <<zones, wish, dirty, meddled>>

ZonesDone ==
    /\ pass.pc = "zones" /\ pass.todo = {}
    /\ pass' = [pass EXCEPT !.pc = "done"]
    /\ UNCHANGED <<zones, rec, nextId, wish, dirty, meddled, used>>

\* The error makes the reconciler requeue the Gateway.
Requeued_mNever(p) == {}
Requeued_mAfterReset(p) == IF p.err THEN {Idle.owner} ELSE {}
Requeued(p) == IF p.err THEN {p.owner} ELSE {}
Return ==
    /\ pass.pc = "done"
    /\ pass' = Idle
    /\ dirty' = dirty \cup Requeued(pass)
    /\ UNCHANGED <<zones, rec, nextId, wish, meddled, used>>
-----------------------------------------------------------------------------
(* Everyone else. *)

\* Routes change, the tunnel is recreated, or the Gateway is deleted.
Wish(u) ==
    /\ wish[u].live /\ used.wishes < MaxWishes
    /\ used' = [used EXCEPT !.wishes = @ + 1]
    /\ \/ \E hosts \in SUBSET Hostnames, t \in Targets :
             wish' = [wish EXCEPT ![u].hosts = hosts, ![u].target = t]
       \/ wish' = [wish EXCEPT ![u].live = FALSE]
    /\ dirty' = dirty \cup {u}
    /\ UNCHANGED <<zones, rec, nextId, pass, meddled>>

Meddles(kind) ==
    /\ kind \in ForeignKinds /\ used.foreign < MaxForeign
    /\ used' = [used EXCEPT !.foreign = @ + 1]
    /\ meddled' = meddled \cup {kind}
    /\ UNCHANGED <<wish, dirty, pass>>

\* Someone creates a CNAME or a record of another type.
ForeignCreate(s) ==
    /\ rec[s] = NoRecord
    /\ \E kind \in {"CNAME", "other"} :
          /\ Meddles(kind)
          /\ rec' = [rec EXCEPT ![s] = [NoRecord EXCEPT !.id = nextId, !.kind = kind]]
    /\ nextId' = nextId + 1
    /\ UNCHANGED zones

\* Someone removes a record, points it elsewhere, or replaces its ownership comment.
ForeignEdit(s) ==
    /\ rec[s] # NoRecord
    /\ \/ Meddles("delete") /\ rec' = [rec EXCEPT ![s] = NoRecord]
       \/ Meddles("drift") /\ rec' = [rec EXCEPT ![s].target = 0]
       \/ Meddles("takeover") /\ rec' = [rec EXCEPT ![s].owner = 0]
    /\ UNCHANGED <<zones, nextId>>

\* A zone is added to the account, or to what the token can see.
AddZone(z) ==
    /\ z \notin zones
    /\ Meddles("zone")
    /\ zones' = zones \cup {z}
    /\ UNCHANGED <<rec, nextId>>
-----------------------------------------------------------------------------
PassStep ==
    \/ ListZones \/ ZonesDone \/ Return
    \/ \E z \in Zones : ListRecords(z) \/ ApplyBatch(z)
Next ==
    \/ PassStep
    \/ \E u \in Owners : Start(u) \/ Wish(u)
    \/ \E s \in Slots : ForeignCreate(s) \/ ForeignEdit(s)
    \/ \E z \in Zones : AddZone(z)

Spec == Init /\ [][Next]_vars

\* Passes run to their end and the queue is fair.
LiveSpec == Spec /\ WF_vars(PassStep) /\ \A u \in Owners : SF_vars(Start(u))
-----------------------------------------------------------------------------
(* Properties. *)

\* The types of records, planned changes, passes and wishes.
Uids == Owners \cup {0}
Records == [id : Nat, kind : {"none", "CNAME", "other"}, owner : Uids,
            target : Targets \cup {0}, maker : Uids]
Changes == [op : {"create", "update", "delete"}, host : Hostnames, id : Nat]
Passes == [pc : {"idle", "listZones", "zones", "apply", "done"}, owner : Uids,
           target : Targets \cup {0}, hosts : SUBSET Hostnames, zones : SUBSET Zones,
           todo : SUBSET Zones, zone : SUBSET Zones, pending : SUBSET Changes,
           err : BOOLEAN, failed : SUBSET Zones]
Wishes == [live : BOOLEAN, hosts : SUBSET Hostnames, target : Targets \cup {0}]

\* Every variable has its type.
TypeOK ==
    /\ zones \subseteq Zones /\ dirty \subseteq Owners /\ nextId \in Nat \ {0}
    /\ rec \in [Slots -> Records]
    /\ wish \in [Owners -> Wishes]
    /\ pass \in Passes /\ meddled \subseteq ForeignKinds
    /\ used \in [wishes : Nat, foreign : Nat, failures : Nat]

\* While the pass was running nobody replaced an ownership comment, or nobody changed or
\* removed a record at all.
NoTakeover == "takeover" \notin meddled
NoForeignEdits == meddled \cap {"delete", "drift", "takeover"} = {}

\* README: the controller "updates or deletes only records with that marker", even when a
\* record is removed, created or redirected between the listing and the batch (dns.go,
\* client.go).  A comment replaced while the pass is running goes unnoticed: a batch names
\* records by their ids alone.
MarkerRespected ==
    [][pass' # pass /\ NoTakeover => \A s \in Slots :
          rec'[s] = rec[s] \/ rec[s] = NoRecord \/ rec[s].owner = pass.owner]_vars

\* When a pass ends, every zone whose calls succeeded holds, of this Gateway's records,
\* exactly the desired ones, each in its longest matching zone and pointing at the
\* tunnel, whatever became of them before the pass; a desired hostname is missing there
\* only if the pass reports an error.  A zone that failed does not stop the others (dns.go:
\* "best-effort per zone").  What others do to existing records during the pass is left to
\* the next one.
PassOutcome ==
    pass.pc = "done" /\ NoForeignEdits => \A z \in pass.zones \ pass.failed, h \in Hostnames :
        /\ Owned(pass.owner, <<z, h>>) =>
              h \in Desired(pass, z) /\ rec[<<z, h>>].target = pass.target
        /\ h \in Desired(pass, z) => Owned(pass.owner, <<z, h>>) \/ pass.err

\* A hostname is never published twice for one Gateway by a pass that reports success:
\* moving it to a new, more specific zone removes it from the old one (dns.go prunes
\* "across every accessible zone").
PublishedOnce ==
    pass.pc = "done" /\ ~pass.err => \A h \in Hostnames :
        Cardinality({z \in pass.zones : Owned(pass.owner, <<z, h>>)}) <= 1

\* A hostname the Gateway should have in the zone, and nobody else's: at rest each record
\* is one its Gateway wishes, and each wish is served, by a Gateway that shares it if not by
\* its own.
Due(u, z, h) ==
    wish[u].live /\ h \in wish[u].hosts \ Wildcards /\ z \in matchZone(h, zones)
Settled(z, h) ==
    /\ \A u \in Owners : Owned(u, <<z, h>>) =>
          Due(u, z, h) /\ rec[<<z, h>>].target = wish[u].target
    /\ (\E u \in Owners : Due(u, z, h)) => \E u \in Owners : Owned(u, <<z, h>>)

\* If nobody else touches the zones and wishes settle, the records are what is wished: "Stale
\* owned records are removed when routes change" (README), and a hostname one Gateway gives
\* up goes to another one that was refused it.
EventuallySettled ==
    [](used.foreign = 0) => <>[](\A z \in zones, h \in Hostnames : Settled(z, h))

\* The records, and for whom the pass works, as DNSOwnership sees them.
Content(s) ==
    IF rec[s] = NoRecord THEN {}
    ELSE {[maker |-> rec[s].maker, target |-> rec[s].target]}
WorksFor == IF pass.pc = "idle" THEN {} ELSE {pass.owner}
Ownership == INSTANCE DNSOwnership WITH
    content <- [s \in Slots |-> Content(s)], worksFor <- WorksFor

\* The passes implement DNSOwnership: whatever others do between the listing and the
\* batch, replacing the comment included, "records are only ever updated or deleted by
\* the Gateway that created them" (dns.go).
ImplementsOwnership == Ownership!Spec
=============================================================================
