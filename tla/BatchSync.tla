------------------------------ MODULE BatchSync ------------------------------
(***************************************************************************)
(* sync_vms_optimized (sync/batch.py): one provider's VMs, their network   *)
(* interfaces, IP addresses and primary addresses, written to NetBox.      *)
(*                                                                         *)
(* A sync loads NetBox into a cache, deletes orphaned VMs, compares each   *)
(* VM of the listing with the cache, queueing changes, and then applies    *)
(* the queues in eight steps.  All decisions are taken on the cache, which *)
(* is not kept up to date, and every call to NetBox may fail alone.        *)
(*                                                                         *)
(* The queues are keyed by object, so a later VM may replace what an       *)
(* earlier one queued; VMs are compared in the order of the listing, which *)
(* is arbitrary.  Objects of one queue are written in any order.           *)
(*                                                                         *)
(* Disks, VM parameters and dry runs are not part of this module, and all  *)
(* VMs are of one account (what clean-up may delete is in SyncEngine).     *)
(*                                                                         *)
(* NetBox, the external part, refuses a primary address that is not on an  *)
(* interface of the VM, refuses to move an address away from the VM it is  *)
(* primary of, and deletes interfaces and addresses with their VM.         *)
(***************************************************************************)
EXTENDS Naturals, FiniteSets

CONSTANTS Vms,          \* names of VMs
          Idx,          \* positions of network interfaces: 0 .. n-1
          Private,      \* private addresses
          Public,       \* public addresses
          Clouds,       \* what the cloud may look like: see CloudsAssumption
          None, Pending, \* no address; one that is not created yet
          Keep,         \* no change is queued
          Absent,       \* the place of an address that NetBox does not know ...
          Unplaced,     \* ... and of one that is on no interface
          MaxFailures,  \* bound on the calls to NetBox that fail
          MaxChanges    \* bound on the changes of the cloud

Addrs  == Private \cup Public
Ifaces == Vms \X Idx

ASSUME VmsAssumption == IsFiniteSet(Vms)
ASSUME IdxAssumption == Idx \subseteq Nat /\ Idx # {} /\ IsFiniteSet(Idx)
ASSUME AddrsAssumption == Private \cap Public = {}
ASSUME MarkersAssumption ==
    /\ {None, Pending, Keep} \cap (Addrs \cup Ifaces) = {}
    /\ {Absent, Unplaced} \cap Ifaces = {}
    /\ None # Pending /\ None # Keep /\ Pending # Keep /\ Absent # Unplaced
ASSUME BoundsAssumption == MaxFailures \in Nat /\ MaxChanges \in Nat

\* A cloud: the VMs that exist and, per interface, the address it has
\* (primary_v4_address) and the public address mapped to it (one_to_one_nat).
ASSUME CloudsAssumption ==
    Clouds \subseteq [vms : SUBSET Vms, addr : [Ifaces -> Addrs \cup {None}],
                      nat : [Ifaces -> Public \cup {None}]]

\* The VMs of one account, in one address space: no two interfaces have one address.
Distinct(c) ==
    /\ \A i, j \in Ifaces : /\ c.addr[i] = c.addr[j] /\ c.addr[i] # None => i = j
                            /\ c.nat[i] = c.nat[j] /\ c.nat[i] # None => i = j
                            /\ c.addr[i] = c.nat[j] => c.addr[i] = None

ASSUME DistinctAssumption == \A c \in Clouds : Distinct(c)

VARIABLES
    cloud,     \* the cloud now; it changes between syncs only
    nb,        \* NetBox: VMs, interfaces, the place of each address, primary addresses
    cache,     \* the same, as loaded; ip also holds what this sync set on the objects
    step,      \* where the sync is
    left,      \* VMs or objects that the step has not reached yet
    change,    \* primary_ip_changes
    move,      \* ips_to_update: the interface an address goes to
    pendMove,  \* pending_ip_reassignments: the same, to an interface not created yet
    newIfs,    \* interfaces_to_create
    newIps,    \* ips_to_create: pairs of address and interface
    pendPrim,  \* pending_primary_ips
    madeIfs,   \* created_interfaces
    madeIps,   \* created_ips
    failures,  \* number of failed calls
    changes,   \* number of changes of the cloud
    whole,     \* history: no call of this sync failed
    clean      \* history: number of such syncs since the cloud changed

queues == <<change, move, pendMove, newIfs, newIps, pendPrim, madeIfs, madeIps>>
vars   == <<cloud, nb, cache, step, left, queues, failures, changes, whole, clean>>

Place == Ifaces \cup {Absent, Unplaced}
NetBox == [vms : SUBSET Vms, ifs : SUBSET Ifaces,
           ip : [Addrs -> Place], prim : [Vms -> Addrs \cup {None}]]

\* Bound on clean, and the number of syncs after which NetBox mirrors the cloud.  Three
\* are enough unless VMs wait for public addresses: one that another VM still has as
\* its primary address is free once that VM has the one it waits for itself, so that
\* each further VM may take one more sync.
MaxClean == IF Cardinality(Vms) < 3 THEN 3 ELSE Cardinality(Vms) + 1

Steps == {"idle", "delete", "process", "unset", "ifaces", "moves", "ips", "primaries"}

TypeOK ==
    /\ cloud \in [vms : SUBSET Vms, addr : [Ifaces -> Addrs \cup {None}],
                  nat : [Ifaces -> Public \cup {None}]]
    /\ nb \in NetBox /\ cache \in NetBox
    /\ step \in Steps
    /\ change \in [Vms -> Addrs \cup {None, Pending, Keep}]
    /\ move \in [Addrs -> Ifaces \cup {None}]
    /\ pendMove \in [Addrs -> Ifaces \cup {None}]
    /\ newIfs \subseteq Ifaces /\ madeIfs \subseteq newIfs
    /\ newIps \subseteq Addrs \X Ifaces
    /\ pendPrim \in [Vms -> Addrs \cup {None}]
    /\ madeIps \subseteq Addrs
    /\ left \subseteq Vms \cup Ifaces \cup Addrs \cup (Addrs \X Ifaces)
    /\ failures \in 0..MaxFailures /\ changes \in 0..MaxChanges
    /\ whole \in BOOLEAN /\ clean \in 0..MaxClean

NoQueues ==
    /\ change = [v \in Vms |-> Keep]
    /\ move = [a \in Addrs |-> None]
    /\ pendMove = [a \in Addrs |-> None]
    /\ newIfs = {} /\ madeIfs = {} /\ newIps = {} /\ madeIps = {}
    /\ pendPrim = [v \in Vms |-> None]

\* A NetBox without VMs, which may know some addresses.
FreshNetBox(known) ==
    [vms |-> {}, ifs |-> {},
     ip |-> [a \in Addrs |-> IF a \in known THEN Unplaced ELSE Absent],
     prim |-> [v \in Vms |-> None]]

Init ==
    /\ cloud \in Clouds
    /\ nb \in {FreshNetBox(known) : known \in SUBSET Addrs}
    /\ cache = FreshNetBox({})
    /\ step = "idle" /\ left = {}
    /\ NoQueues
    /\ failures = 0 /\ changes = 0 /\ whole = TRUE /\ clean = 0

-----------------------------------------------------------------------------
(* NetBox *)

IfacesOf(ifs, v) == {i \in ifs : i[1] = v}

\* NetBox lets address a be put on interface i.
MayPlace(a, i) ==
    /\ nb.ip[a] # Absent
    /\ i \in nb.ifs
    /\ \A v \in Vms : nb.prim[v] = a => i[1] = v

Placed(box, a, i) == [box EXCEPT !.ip[a] = i]

\* NetBox lets address a become the primary address of v.
MayBePrimary(box, v, a) == v \in box.vms /\ box.ip[a] \in IfacesOf(box.ifs, v)

Deleted(v) ==
    [nb EXCEPT !.vms = @ \ {v},
               !.ifs = @ \ IfacesOf(@, v),
               !.ip = [a \in Addrs |-> IF @[a] \in IfacesOf(nb.ifs, v)
                                       THEN Absent ELSE @[a]],
               !.prim[v] = None]

\* A call to NetBox fails.
CallFails ==
    /\ failures < MaxFailures
    /\ failures' = failures + 1
    /\ whole' = FALSE

Succeeds == UNCHANGED <<failures, whole>>

Done(x) == left' = left \ {x}

-----------------------------------------------------------------------------
(* The cloud *)

CloudChanges ==
    /\ step = "idle"
    /\ changes < MaxChanges
    /\ cloud' \in Clouds \ {cloud}
    /\ changes' = changes + 1
    /\ clean' = 0
    /\ UNCHANGED <<nb, cache, step, left, queues, failures, whole>>

-----------------------------------------------------------------------------
(* load_netbox_data and the orphaned VMs *)

\* With an empty listing the sync returns at once.
Load ==
    /\ step = "idle"
    /\ cloud.vms # {}
    /\ cache' = nb
    /\ step' = "delete"
    /\ \/ left' = nb.vms \ cloud.vms /\ whole' = TRUE /\ UNCHANGED failures
       \/ left' = {} /\ CallFails    \* the fetch had errors: no cleanup
    /\ UNCHANGED <<cloud, nb, queues, changes, clean>>

\* Only NetBox forgets the VM and what belonged to it, the cache does not.
DeleteOrphan(v) ==
    /\ step = "delete" /\ v \in left
    /\ Done(v)
    /\ \/ nb' = Deleted(v) /\ Succeeds
       \/ UNCHANGED nb /\ CallFails
    /\ UNCHANGED <<cloud, cache, step, queues, changes, clean>>

-----------------------------------------------------------------------------
(* process_vm_updates: _process_vm_ips and _select_primary_ip *)

First(S) == CHOOSE k \in S : \A j \in S : k <= j

Known(a) == cache.ip[a] # Absent

\* An address of the cloud as a candidate: itself if it is known, else pending.
Candidate(a) == IF Known(a) THEN a ELSE Pending

\* The first private address of the interfaces, or None.
PrivateOf(v) ==
    LET at == {k \in Idx : cloud.addr[<<v, k>>] \in Private}
    IN  IF at = {} THEN None ELSE cloud.addr[<<v, First(at)>>]

\* Where v has a public address that counts: a mapped one only if no private address
\* was found up to that interface; of one interface its own address comes first.
PublicOf(v) ==
    LET late(k) == \E j \in Idx : j <= k /\ cloud.addr[<<v, j>>] \in Private
        at == {k \in Idx : \/ cloud.addr[<<v, k>>] \in Public
                           \/ cloud.nat[<<v, k>>] # None /\ ~late(k)}
        k0 == First(at)
    IN  IF at = {} THEN None
        ELSE IF cloud.addr[<<v, k0>>] \in Public THEN cloud.addr[<<v, k0>>]
        ELSE cloud.nat[<<v, k0>>]

\* Mutant: pending_primary_ips remembers that an address is pending, not which.
PendingMarker(v) ==
    IF \E a \in {PrivateOf(v), PublicOf(v)} \ {None} : ~Known(a) THEN Pending ELSE None

\* The address that pending_primary_ips remembers.
PendingOf(v) ==
    IF PrivateOf(v) # None /\ ~Known(PrivateOf(v)) THEN PrivateOf(v)
    ELSE IF PublicOf(v) # None /\ ~Known(PublicOf(v)) THEN PublicOf(v)
    ELSE None

\* Mutant: an address that is on no interface is not placed.
MisplacedElsewhere(v) ==
    {a \in Addrs : \E k \in Idx : /\ cloud.addr[<<v, k>>] = a
                                  /\ Known(a) /\ cache.ip[a] \notin {<<v, k>>, Unplaced}}

\* Known addresses that the listing puts on another interface of v.
Misplaced(v) ==
    {a \in Addrs : \E k \in Idx : /\ cloud.addr[<<v, k>>] = a
                                  /\ Known(a) /\ cache.ip[a] # <<v, k>>}

\* The interface of the listing.  (Distinct interfaces have distinct addresses.)
Target(v, a) == <<v, CHOOSE k \in Idx : cloud.addr[<<v, k>>] = a>>

\* Addresses on v's interfaces in the cache.
OwnAddrs(v) == {a \in Addrs : cache.ip[a] \in IfacesOf(cache.ifs, v)}

\* Mutant: the fallback takes any address NetBox knows.
SelectPrimaryAnywhere(v) ==
    LET priv == IF PrivateOf(v) = None THEN None ELSE Candidate(PrivateOf(v))
        pub  == IF PublicOf(v) = None THEN None ELSE Candidate(PublicOf(v))
        set  == IF priv \in Addrs THEN priv ELSE IF pub \in Addrs THEN pub ELSE None
        cur  == cache.prim[v]
        own  == {a \in Addrs : Known(a)}
    IN  IF cur = None THEN
            IF set # None THEN {set}
            ELSE IF own # {} THEN own
            ELSE IF Pending \in {priv, pub} THEN {Pending} ELSE {Keep}
        ELSE IF set = None THEN {Keep}
        ELSE IF cur \in Private THEN {IF cur \in OwnAddrs(v) THEN Keep ELSE set}
        ELSE IF priv # None THEN {priv}
        ELSE {IF cur # pub THEN pub ELSE Keep}

\* What _select_primary_ip may queue for v; Keep when nothing.
SelectPrimary(v) ==
    LET priv == IF PrivateOf(v) = None THEN None ELSE Candidate(PrivateOf(v))
        pub  == IF PublicOf(v) = None THEN None ELSE Candidate(PublicOf(v))
        set  == IF priv \in Addrs THEN priv ELSE IF pub \in Addrs THEN pub ELSE None
        cur  == cache.prim[v]
        own  == IF OwnAddrs(v) \cap Private # {} THEN OwnAddrs(v) \cap Private
                                                 ELSE OwnAddrs(v)
    IN  IF cur = None THEN
            IF set # None THEN {set}
            ELSE IF own # {} THEN own
            ELSE IF Pending \in {priv, pub} THEN {Pending} ELSE {Keep}
        ELSE IF set = None THEN {Keep}
        ELSE IF cur \in Private THEN {IF cur \in OwnAddrs(v) THEN Keep ELSE set}
        ELSE IF priv # None THEN {priv}
        ELSE {IF cur # pub THEN pub ELSE Keep}

\* Addresses of v's interfaces that NetBox lacks, with their interface.
Unknown(v) ==
    {n \in Addrs \X {<<v, k>> : k \in Idx} :
        /\ n[1] \in {cloud.addr[n[2]], cloud.nat[n[2]]}
        /\ ~Known(n[1])}

\* Primary addresses of other VMs that v takes over are unset, then v's is chosen.
Queue(v) ==
    /\ \E new \in SelectPrimary(v) :
          change' = [w \in Vms |->
              IF w = v THEN (IF new = Keep THEN change[v] ELSE new)
              ELSE IF cache.prim[w] \in Misplaced(v) THEN None ELSE change[w]]
    /\ move' = [a \in Addrs |-> IF a \in Misplaced(v) /\ Target(v, a) \in cache.ifs
                                THEN Target(v, a) ELSE move[a]]
    /\ pendMove' = [a \in Addrs |-> IF a \in Misplaced(v) /\ Target(v, a) \notin cache.ifs
                                    THEN Target(v, a) ELSE pendMove[a]]
    /\ newIfs' = newIfs \cup ({<<v, k>> : k \in Idx} \ cache.ifs)
    /\ newIps' = newIps \cup Unknown(v)
    /\ pendPrim' = [pendPrim EXCEPT ![v] = PendingOf(v)]
    /\ UNCHANGED <<madeIfs, madeIps>>

\* A VM of the listing; one that NetBox lacks is created first.
Process(v) ==
    /\ step = "process" /\ v \in left
    /\ Done(v)
    /\ Queue(v)
    /\ nb' = [nb EXCEPT !.vms = @ \cup {v}]
    /\ cache' = [cache EXCEPT !.vms = @ \cup {v}]
    /\ Succeeds
    /\ UNCHANGED <<cloud, step, changes, clean>>

\* Creation fails, or a call that the comparison of parameters makes raises: nothing
\* is queued for v.
ProcessFails(v) ==
    /\ step = "process" /\ v \in left
    /\ Done(v)
    /\ CallFails
    /\ \/ UNCHANGED <<nb, cache>>
       \/ /\ v \notin nb.vms       \* created, then failed
          /\ nb' = [nb EXCEPT !.vms = @ \cup {v}]
          /\ cache' = [cache EXCEPT !.vms = @ \cup {v}]
    /\ UNCHANGED <<cloud, step, queues, changes, clean>>

-----------------------------------------------------------------------------
(* apply_batch_updates *)

\* _step_unset_primary_ips
UnsetPrimary(v) ==
    /\ step = "unset" /\ v \in left
    /\ Done(v)
    /\ IF v \in nb.vms
       THEN \/ nb' = [nb EXCEPT !.prim[v] = None] /\ Succeeds
            \/ UNCHANGED nb /\ CallFails
       ELSE UNCHANGED nb /\ Succeeds
    /\ UNCHANGED <<cloud, cache, step, queues, changes, clean>>

\* _step_create_interfaces
CreateInterface(i) ==
    /\ step = "ifaces" /\ i \in left
    /\ Done(i)
    /\ \/ /\ nb' = [nb EXCEPT !.ifs = @ \cup {i}]
          /\ madeIfs' = madeIfs \cup {i}
          /\ Succeeds
       \/ UNCHANGED <<nb, madeIfs>> /\ CallFails
    /\ UNCHANGED <<cloud, cache, step, change, move, pendMove, newIfs, newIps,
                   pendPrim, madeIps, changes, clean>>

\* _step_update_ips: the object in the cache keeps the new place even if NetBox
\* refuses it.
UpdateIp(a) ==
    /\ step = "moves" /\ a \in left
    /\ Done(a)
    /\ cache' = Placed(cache, a, move[a])
    /\ \/ /\ nb' = IF MayPlace(a, move[a]) THEN Placed(nb, a, move[a]) ELSE nb
          /\ Succeeds
       \/ UNCHANGED nb /\ CallFails
    /\ UNCHANGED <<cloud, step, queues, changes, clean>>

\* _step_create_ips: create_ip returns an address that appeared meanwhile, moved if
\* NetBox lets it.
CreateIp(n) ==
    LET a == n[1]
        i == n[2]
    IN  /\ step = "ips" /\ n \in left
        /\ Done(n)
        /\ IF i \notin cache.ifs \cup madeIfs
           THEN UNCHANGED <<nb, madeIps>> /\ Succeeds    \* no interface: skipped
           ELSE \/ /\ nb' = IF nb.ip[a] = Absent \/ MayPlace(a, i)
                            THEN Placed(nb, a, i) ELSE nb
                   /\ madeIps' = madeIps \cup {a}
                   /\ Succeeds
                \/ UNCHANGED <<nb, madeIps>> /\ CallFails
        /\ UNCHANGED <<cloud, cache, step, change, move, pendMove, newIfs, newIps,
                       pendPrim, madeIfs, changes, clean>>

\* _step_set_primary_ips.  An address that is not on one of the VM's interfaces as
\* the cache has them is put on the first of these, in NetBox and on the cached object;
\* interfaces are only read again if the cache has none.
SetPrimary(v) ==
    LET a     == change[v]
        at    == IF a \in madeIps THEN nb.ip[a] ELSE cache.ip[a]
        ifs   == IF IfacesOf(cache.ifs, v) # {} THEN IfacesOf(cache.ifs, v)
                                                ELSE IfacesOf(nb.ifs, v)
        i0    == <<v, First({i[2] : i \in ifs})>>
        moves == ifs # {} /\ at \notin ifs
        moved == IF moves /\ MayPlace(a, i0) THEN Placed(nb, a, i0) ELSE nb
    IN  /\ step = "primaries" /\ v \in left
        /\ Done(v)
        /\ cache' = IF moves /\ a \notin madeIps THEN Placed(cache, a, i0) ELSE cache
        /\ \/ /\ nb' = IF /\ ifs # {}
                          /\ moves => MayPlace(a, i0)
                          /\ MayBePrimary(moved, v, a)
                       THEN [moved EXCEPT !.prim[v] = a] ELSE moved
              /\ Succeeds
           \/ nb' \in {nb, moved} /\ CallFails
        /\ UNCHANGED <<cloud, step, queues, changes, clean>>

-----------------------------------------------------------------------------
(* From step to step *)

\* The next step, with the objects it has to reach.
Goes(from, to, objects) ==
    /\ step = from /\ left = {}
    /\ step' = to
    /\ left' = objects
    /\ UNCHANGED <<cloud, nb, cache, failures, changes, whole, clean>>

BeginProcess == Goes("delete", "process", cloud.vms) /\ UNCHANGED queues

BeginUnset == Goes("process", "unset", {v \in Vms : change[v] = None}) /\ UNCHANGED queues

BeginInterfaces == Goes("unset", "ifaces", newIfs) /\ UNCHANGED queues

\* Reassignments to an interface that now exists join the others.
BeginMoves ==
    /\ move' = [a \in Addrs |-> IF pendMove[a] \in madeIfs THEN pendMove[a] ELSE move[a]]
    /\ Goes("ifaces", "moves", {a \in Addrs : move'[a] # None})
    /\ UNCHANGED <<change, pendMove, newIfs, newIps, pendPrim, madeIfs, madeIps>>

BeginIps == Goes("moves", "ips", newIps) /\ UNCHANGED queues

\* Pending primary addresses that now exist are resolved, others given up.
BeginPrimaries ==
    /\ change' = [v \in Vms |-> IF change[v] = Pending /\ pendPrim[v] \in madeIps
                                THEN pendPrim[v] ELSE change[v]]
    /\ Goes("ips", "primaries", {v \in Vms : change'[v] \in Addrs})
    /\ UNCHANGED <<move, pendMove, newIfs, newIps, pendPrim, madeIfs, madeIps>>

\* The sync is over; cache and queues are dropped.
Forget ==
    /\ step' = "idle" /\ left' = {}
    /\ cache' = FreshNetBox({})
    /\ change' = [v \in Vms |-> Keep]
    /\ move' = [a \in Addrs |-> None]
    /\ pendMove' = [a \in Addrs |-> None]
    /\ newIfs' = {} /\ madeIfs' = {} /\ newIps' = {} /\ madeIps' = {}
    /\ pendPrim' = [v \in Vms |-> None]
    /\ UNCHANGED <<cloud, nb, changes>>

End ==
    /\ step = "primaries" /\ left = {}
    /\ Forget
    /\ clean' = IF whole THEN (IF clean < MaxClean THEN clean + 1 ELSE clean) ELSE 0
    /\ UNCHANGED <<failures, whole>>

\* The process dies; the next sync starts afresh.
Crash ==
    /\ step # "idle"
    /\ Forget
    /\ CallFails
    /\ clean' = 0

Begin == BeginProcess \/ BeginUnset \/ BeginInterfaces \/ BeginMoves \/ BeginIps
         \/ BeginPrimaries

Next ==
    \/ CloudChanges \/ Load \/ Begin \/ End \/ Crash
    \/ \E v \in Vms : DeleteOrphan(v) \/ Process(v) \/ ProcessFails(v)
                      \/ UnsetPrimary(v) \/ SetPrimary(v)
    \/ \E i \in Ifaces : CreateInterface(i)
    \/ \E a \in Addrs : UpdateIp(a)
    \/ \E n \in Addrs \X Ifaces : CreateIp(n)

Spec == Init /\ [][Next]_vars

-----------------------------------------------------------------------------
(* Properties *)

\* NetBox mirrors VM v: its interfaces exist, its own addresses are on them, the
\* mapped ones are known, and its primary address is private if it has a private one.
Mirrored(v) ==
    /\ v \in nb.vms
    /\ \A k \in Idx :
          /\ <<v, k>> \in nb.ifs
          /\ cloud.addr[<<v, k>>] # None => nb.ip[cloud.addr[<<v, k>>]] = <<v, k>>
          /\ cloud.nat[<<v, k>>] # None => nb.ip[cloud.nat[<<v, k>>]] # Absent
    /\ PrivateOf(v) # None => nb.prim[v] \in Private
    /\ (\E k \in Idx : cloud.addr[<<v, k>>] # None) => nb.prim[v] # None

\* After MaxClean syncs of an unchanged cloud in which no call failed NetBox mirrors
\* every VM, whatever failed before and wherever addresses have moved: a sync that
\* decides on a stale cache is repaired by the following ones.
Converges ==
    step = "idle" /\ clean = MaxClean => \A v \in cloud.vms : Mirrored(v)

\* v's primary address is private and where the cloud has it.
Settled(v) ==
    \E k \in Idx : /\ nb.prim[v] = cloud.addr[<<v, k>>]
                   /\ nb.prim[v] \in Private
                   /\ nb.ip[nb.prim[v]] = <<v, k>>

\* Addresses that the listing mentions.
Listed == {cloud.addr[i] : i \in Ifaces} \cup {cloud.nat[i] : i \in Ifaces}

UnlistedStay ==
    \A a \in Addrs \ Listed :
        nb'.ip[a] # nb.ip[a] => \E v \in nb.vms \ nb'.vms : nb.ip[a][1] = v

\* An address that the cloud does not have stays where it is in NetBox, unless the
\* VM it is on is deleted: no fallback takes it from another VM.
UnlistedAddressesStay == [][UnlistedStay]_vars
==============================================================================
