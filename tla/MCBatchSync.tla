----------------------------- MODULE MCBatchSync -----------------------------
(* Instances of SequentialSync, and of BatchSync with it, for TLC. *)
EXTENDS SequentialSync, TLC

\* First positions.
Two == {0, 1}

\* What the interfaces of a VM may have: private addresses only, on any interface;
\* or anything on the first interface and nothing on the others.  A mapped address
\* alone is listed in test_batch.py:658.
PrivateNics == [addr : [Idx -> Private \cup {None}], nat : [Idx -> {None}]]
FirstNics ==
    {[addr |-> [k \in Idx |-> IF k = 0 THEN a ELSE None],
      nat  |-> [k \in Idx |-> IF k = 0 THEN n ELSE None]] :
        a \in Addrs \cup {None}, n \in Public \cup {None}}

\* The VMs in on exist, with these interfaces.
Cloud(on, nics) ==
    [vms  |-> on,
     addr |-> [i \in Ifaces |-> IF i[1] \in on THEN nics[i[1]].addr[i[2]] ELSE None],
     nat  |-> [i \in Ifaces |-> IF i[1] \in on THEN nics[i[1]].nat[i[2]] ELSE None]]

MixedClouds ==
    {c \in {Cloud(on, nics) : on \in SUBSET Vms,
                             nics \in [Vms -> PrivateNics] \cup [Vms -> FirstNics]} :
        Distinct(c)}

Symmetry == Permutations(Vms) \cup Permutations(Private)
=============================================================================
