---------------------------- MODULE MCMonitoring ----------------------------
(* Instances of Monitoring for TLC. *)
EXTENDS Monitoring, TLC

CONSTANTS a, b, c,  \* names
          p, q,     \* addresses
          A, B      \* accounts

\* VM 1 is called a, the VMs 2 and 3 of two accounts are both called b.
MCNameOf    == <<a, b, b>>
MCAccountOf == <<A, A, B>>

\* All VMs are checked, VM 1 with one or two addresses; VM 1 is exempt; or only
\* account B has a provider.
MCTables ==
    {[ips |-> <<t[1], {q}, {}>>, exempt |-> t[2], active |-> t[3]] :
        t \in {<<{p}, {}, {A, B}>>, <<{p, q}, {}, {A, B}>>, <<{p}, {1}, {A, B}>>,
               <<{p}, {}, {B}>>}}

HostOf(i, n, ips, s) == [id |-> i, name |-> n, ips |-> ips, status |-> s]

\* The first host has the name of VM 1 and the address of VM 2, or only an
\* address of VM 1 or 2.  The second is what VM 2 is, maybe disabled, or unknown
\* here, or not there.  The third, on a page of its own if there are two before
\* it, has the name of VMs 2 and 3.  Names are unique.  Or there is no host.
MCZabbixes ==
    {z \in {{x} \cup y \cup z :
              x \in {HostOf(1, a, {q}, "active"), HostOf(1, c, {p}, "active"),
                     HostOf(1, c, {q}, "active")},
              y \in {{}, {HostOf(2, b, {q}, "active")}, {HostOf(2, b, {q}, "offline")},
                     {HostOf(2, c, {}, "active")}},
              z \in {{}, {HostOf(3, b, {}, "active")}}} :
        \A g, h \in z : g.name = h.name => g = h}
    \cup {{}}
=============================================================================
