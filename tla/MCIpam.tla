------------------------------- MODULE MCIpam -------------------------------
(* Instances of Ipam for TLC.                                              *)
EXTENDS Ipam, TLC

CONSTANTS c1, c2, a1, a2, r1, d1, vm1, vm2, lan, dmz

\* Two VMs are created, one of them gets a second NIC and loses one again,
\* while the pool is deleted.
AllKinds == [c \in Call |-> IF c \in {c1, c2} THEN "create"
                            ELSE IF c \in {a1, a2} THEN "addNic"
                            ELSE IF c = r1 THEN "removeNic"
                            ELSE "deletePool"]
AllVms == [c \in Call |-> IF c = c2 THEN vm2 ELSE vm1]
AllPools == [c \in Call |-> IF c = a2 THEN dmz ELSE lan]

\* Addresses 1 and 2 belong to lan, 3 to dmz.
Homes == (1 :> lan) @@ (2 :> lan) @@ (3 :> dmz)
=============================================================================
