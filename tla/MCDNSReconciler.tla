-------------------------- MODULE MCDNSReconciler --------------------------
(* An instance of DNSReconciler for TLC: example.com and b.example.com. *)
EXTENDS DNSReconciler

CONSTANTS z1, z2, h1, h2   \* model values

MCZoneName == [z \in Zones |-> IF z = z1 THEN <<"example", "com">> ELSE <<"b", "example", "com">>]
MCHostName == [h \in Hostnames |-> CASE h = h1 -> <<"a", "example", "com">>
                                     [] h = h2 -> <<"x", "b", "example", "com">>
                                     [] OTHER -> <<"*", "example", "com">>]
-----------------------------------------------------------------------------
(* A statement of the documentation that some instances refute. *)

\* dns.go: reconcileDNS "ensures a proxied CNAME ... exists for each attached route
\* hostname", whatever becomes of the other hostnames: no name without a record stays
\* unpublished.  A record of another type fails the batch its creation is in.
NothingFreeUnpublished ==
    \A u \in Owners, z \in Zones, h \in Hostnames :
        ~<>[](Due(u, z, h) /\ rec[<<z, h>>] = NoRecord)
=============================================================================
