---------------------------- MODULE DNSOwnership ----------------------------
(***************************************************************************)
(* What the DNS half of the controller promises to everyone else who uses  *)
(* the account: "records are only ever updated or deleted by the Gateway   *)
(* that created them" (dns.go).  Working for one Gateway at a time, it     *)
(* creates records only where there is none, and changes and removes only  *)
(* records it created for that Gateway.  Others may create a record where  *)
(* there is none and change or remove any record.                          *)
(***************************************************************************)
EXTENDS Naturals

CONSTANTS Slots,     \* the places where a record can be
          Owners,    \* uids of Gateways
          Targets    \* tunnels a record can point at

VARIABLES content,   \* the record in each slot: {} if there is none
          worksFor   \* {u} while the controller works for Gateway u, else {}

vars == <<content, worksFor>>

\* maker is the Gateway a record was created for, 0 for anyone else's; target is the
\* tunnel it points at, 0 for anything the controller did not write.
Contents == {{}} \cup {{r} : r \in [maker : Owners \cup {0}, target : Targets \cup {0}]}
Employers == {{}} \cup {{u} : u \in Owners}

Init == content = [s \in Slots |-> {}] /\ worksFor = {}

\* The controller changes any number of slots, each free or its own before and after.
Mutate ==
    /\ worksFor' = worksFor
    /\ content' \in [Slots -> Contents]
    /\ \A s \in Slots : \/ content'[s] = content[s]
                        \/ \A r \in content[s] \cup content'[s] : r.maker \in worksFor

\* The controller turns to another Gateway, or to none.
Turn == worksFor' \in Employers /\ UNCHANGED content

\* Someone else creates a record, removes one or points it elsewhere.
Others ==
    /\ UNCHANGED worksFor
    /\ \E s \in Slots, new \in Contents :
          /\ content' = [content EXCEPT ![s] = new]
          /\ \A r \in new : /\ r.target = 0
                            /\ \/ content[s] = {} /\ r.maker = 0
                               \/ \E old \in content[s] : r.maker = old.maker

Next == Mutate \/ Turn \/ Others
Spec == Init /\ [][Next]_vars
=============================================================================
