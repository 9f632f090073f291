---------------------------- MODULE MCComparison ----------------------------
(* Instances of ComparisonPage for TLC. *)
EXTENDS ComparisonPage, TLC

CONSTANTS a, b   \* accounts

Three == 1..3

\* One address at most.
Few == {{}} \cup {{x} : x \in Addrs}

\* Functions to Few on at most k of the elements of S, and on none of the others of T.
Some(T, S, k) ==
    {c \in [T -> Few \cup {NoVm}] :
        /\ \A x \in T \ S : c[x] = NoVm
        /\ Cardinality({x \in S : c[x] # NoVm}) <= k}

Places == (Names \X {a}) \cup {<<2, b>>}

\* At most two VMs in the clouds, perhaps both of one name, and two in NetBox.
MCWorlds == [cloud : Some(Names \X Accounts, Places, 2), netbox : Some(Names, Names, 2)]

\* Two of each, or one in NetBox; the VM of account b is beside one of the same name.
Known(c) == {x \in DOMAIN c : c[x] # NoVm}
MCInitial ==
    {w \in MCWorlds :
        /\ Cardinality(Known(w.cloud)) = 2
        /\ w.cloud[2, b] # NoVm => w.cloud[2, a] # NoVm
        /\ \/ Cardinality(Known(w.netbox)) = 2
           \/ Cardinality(Known(w.netbox)) = 1 /\ \A n \in Names : w.netbox[n] \in {{}, NoVm}}

MCSettings == {[monitored |-> {1}, exempt |-> {2}, configured |-> TRUE]}

Symmetry == Permutations(Addrs)
=============================================================================
