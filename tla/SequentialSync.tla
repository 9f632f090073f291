---------------------------- MODULE SequentialSync ----------------------------
(***************************************************************************)
(* sync_vms (sync/vms.py, vms_networking.py), which `sync --no-batch` runs *)
(* instead of sync_vms_optimized, beside it on one NetBox: a sync is of    *)
(* either kind.                                                            *)
(*                                                                         *)
(* VMs are taken one after the other, and each call reads NetBox as it is. *)
(* Only the VMs are read once, after the orphans are deleted: known and    *)
(* was.  A VM that is not among them is created and given its interfaces,  *)
(* addresses and primary address without looking at other VMs; for a known *)
(* VM an address is first unset as the primary one of whoever has it.      *)
(*                                                                         *)
(* VM parameters and disks are left out, as in BatchSync; an update of     *)
(* parameters that raises ends the VM.                                     *)
(***************************************************************************)
EXTENDS BatchSync

VARIABLES
    at,     \* where the sync is
    todo,   \* VMs it has not reached yet; at first: orphans to delete
    vm,     \* the VM it works on
    slots,  \* addresses of vm it has not reached yet: pairs of position and kind
    known,  \* existing_vm_names
    was,    \* primary_ip4 of these, as they were read
    got     \* addresses that create_ip returned for a VM just created

seq      == <<at, todo, vm, slots, known, was, got>>
batch    == <<cache, step, left, queues>>
syncVars == <<vars, seq>>

Kinds == {"addr", "nat"}
Slots == Idx \X Kinds

SeqTypeOK ==
    /\ TypeOK
    /\ at \in {"off", "orphans", "vms", "iface", "address", "primary"}
    /\ todo \subseteq Vms /\ vm \in Vms \cup {None}
    /\ slots \subseteq Slots
    /\ known \subseteq Vms /\ was \in [Vms -> Addrs \cup {None}]
    /\ got \subseteq Addrs

Fresh ==
    /\ todo = {} /\ vm = None /\ slots = {}
    /\ known = {} /\ was = [v \in Vms |-> None] /\ got = {}

InitSync == Init /\ at = "off" /\ Fresh

-----------------------------------------------------------------------------
(* sync_vms *)

\* With an empty listing the sync returns at once; after fetch errors, or if NetBox
\* cannot be asked for its VMs, no orphan is deleted.
SeqBegins ==
    /\ at = "off" /\ step = "idle" /\ cloud.vms # {}
    /\ at' = "orphans"
    /\ \/ todo' = nb.vms \ cloud.vms /\ whole' = TRUE /\ UNCHANGED failures
       \/ todo' = {} /\ CallFails
    /\ UNCHANGED <<cloud, nb, batch, changes, clean, vm, slots, known, was, got>>

SeqDeleteOrphan(v) ==
    /\ at = "orphans" /\ v \in todo
    /\ todo' = todo \ {v}
    /\ \/ nb' = Deleted(v) /\ Succeeds
       \/ UNCHANGED nb /\ CallFails
    /\ UNCHANGED <<cloud, batch, changes, clean, at, vm, slots, known, was, got>>

\* fetch_vms, which returns no VMs if NetBox does not answer: the sync goes on.
FetchVms ==
    /\ at = "orphans" /\ todo = {}
    /\ at' = "vms" /\ todo' = cloud.vms
    /\ \/ known' = nb.vms /\ was' = nb.prim /\ Succeeds
       \/ known' = {} /\ was' = [v \in Vms |-> None] /\ CallFails
    /\ UNCHANGED <<cloud, nb, batch, changes, clean, vm, slots, got>>

\* The next VM is updated, or created.
TakeVm(v) ==
    /\ at = "vms" /\ v \in todo
    /\ todo' = todo \ {v}
    /\ \/ /\ v \in known \/ v \notin nb.vms
          /\ at' = "iface" /\ vm' = v /\ slots' = Slots
          /\ nb' = [nb EXCEPT !.vms = @ \cup {v}]
          /\ Succeeds
       \/ \* update_vm_parameters raises, or create_vm returns None
          /\ UNCHANGED <<at, vm, slots, nb>>
          /\ CallFails
       \/ \* ... which it also does of a VM that NetBox has, if fetch_vms has not
          /\ v \notin known /\ v \in nb.vms
          /\ UNCHANGED <<at, vm, slots, nb>>
          /\ Succeeds
    /\ UNCHANGED <<cloud, batch, changes, clean, known, was, got>>

\* The interfaces of a known VM cannot be read: sync_vm_interfaces returns.
NoInterfaces ==
    /\ at = "iface" /\ vm \in known /\ slots = Slots
    /\ at' = "primary" /\ slots' = {}
    /\ CallFails
    /\ UNCHANGED <<cloud, nb, batch, changes, clean, todo, vm, known, was, got>>

-----------------------------------------------------------------------------
(* sync_vm_interfaces, and its counterpart for a VM just created *)

pos   == First({s[1] : s \in slots})
iface == <<vm, pos>>

\* eth<pos> exists or is created; if that fails, its addresses are passed over.
SyncInterface ==
    /\ at = "iface" /\ slots # {}
    /\ \/ /\ at' = "address"
          /\ nb' = [nb EXCEPT !.ifs = @ \cup {iface}]
          /\ Succeeds
          /\ UNCHANGED slots
       \/ /\ iface \notin nb.ifs
          /\ slots' = {s \in slots : s[1] # pos}
          /\ CallFails
          /\ UNCHANGED <<at, nb>>
    /\ UNCHANGED <<cloud, batch, changes, clean, todo, vm, known, was, got>>

\* The address of the next slot: the interface's own one comes first.
slot == <<pos, IF <<pos, "addr">> \in slots THEN "addr" ELSE "nat">>
ip   == IF slot[2] = "addr" THEN cloud.addr[iface] ELSE cloud.nat[iface]

\* On to the next address, and after the last of the interface to the next one.
Advance ==
    /\ slots' = slots \ {slot}
    /\ at' = IF slot[2] = "addr" THEN "address" ELSE "iface"

Holders(a) == {w \in Vms : nb.prim[w] = a}

Unset(a) == [nb EXCEPT !.prim = [w \in Vms |-> IF @[w] = a THEN None ELSE @[w]]]

\* An address of a known VM that is elsewhere is unset as a primary address, of vm itself
\* as well, before it is moved.
UnsetHolders ==
    /\ at = "address" /\ vm \in known
    /\ ip # None /\ nb.ip[ip] # iface /\ Holders(ip) # {}
    /\ \/ nb' = Unset(ip) /\ Succeeds /\ UNCHANGED <<at, slots>>
       \/ CallFails /\ Advance /\ UNCHANGED nb
    /\ UNCHANGED <<cloud, batch, changes, clean, todo, vm, known, was, got>>

\* The address is created on the interface or moved there.  For a VM just created it is
\* create_ip that moves it, which returns an address that NetBox has even if NetBox
\* refuses to move it, or does not answer.
SyncAddress ==
    /\ at = "address"
    /\ vm \in known /\ ip # None /\ nb.ip[ip] # iface => Holders(ip) = {}
    /\ \/ /\ nb' = IF ip # None /\ (nb.ip[ip] = Absent \/ MayPlace(ip, iface))
                   THEN Placed(nb, ip, iface) ELSE nb
          /\ got' = IF vm \notin known /\ ip # None THEN got \cup {ip} ELSE got
          /\ Succeeds
       \/ /\ ip # None /\ CallFails /\ UNCHANGED nb
          /\ got' = got \/ (vm \notin known /\ nb.ip[ip] # Absent /\ got' = got \cup {ip})
    /\ Advance
    /\ UNCHANGED <<cloud, batch, changes, clean, todo, vm, known, was>>

EndInterfaces ==
    /\ at = "iface" /\ slots = {}
    /\ at' = "primary"
    /\ UNCHANGED <<cloud, nb, batch, failures, changes, whole, clean,
                   todo, vm, slots, known, was, got>>

-----------------------------------------------------------------------------
(* update_vm_primary_ip, and set_vm_primary_ip *)

\* The first address of v's interfaces that is in S; a mapped one comes second.
FirstPublic(v, S) ==
    LET in == {k \in Idx : {cloud.addr[<<v, k>>], cloud.nat[<<v, k>>]} \cap S # {}}
        k0 == First(in)
    IN  IF in = {} THEN None
        ELSE IF cloud.addr[<<v, k0>>] \in S THEN cloud.addr[<<v, k0>>] ELSE cloud.nat[<<v, k0>>]

FirstPrivate(v, S) ==
    LET in == {k \in Idx : cloud.addr[<<v, k>>] \in S}
    IN  IF in = {} THEN None ELSE cloud.addr[<<v, First(in)>>]

\* Mutant: a public address comes first.
MutantWanted ==
    LET of == IF vm \in known THEN Addrs ELSE got
        public == FirstPublic(vm, of \cap Public)
    IN  IF public # None THEN public ELSE FirstPrivate(vm, of \cap Private)

\* What vm's primary address is to be: the first private address, else the first public
\* one - of its listing, or of those that create_ip returned.
Wanted ==
    LET of == IF vm \in known THEN Addrs ELSE got
        private == FirstPrivate(vm, of \cap Private)
    IN  IF private # None THEN private ELSE FirstPublic(vm, of \cap Public)

\* A known VM that had this primary address when it was read is left alone.
IsSet == vm \in known /\ was[vm] = Wanted

\* Nothing is to be set, or NetBox does not know the address.
SkipsPrimary == IsSet \/ Wanted \notin {a \in Addrs : nb.ip[a] # Absent}

NextVm == at' = "vms" /\ vm' = None /\ got' = {}

KeepPrimary ==
    /\ at = "primary" /\ SkipsPrimary
    /\ NextVm
    /\ UNCHANGED <<cloud, nb, batch, failures, changes, whole, clean,
                   todo, slots, known, was>>

\* Another VM has the address as its primary one.
TakePrimary ==
    /\ at = "primary" /\ ~SkipsPrimary
    /\ vm \in known /\ Holders(Wanted) \ {vm} # {}
    /\ \/ /\ nb' = [nb EXCEPT !.prim = [w \in Vms |-> IF w # vm /\ @[w] = Wanted
                                                      THEN None ELSE @[w]]]
          /\ Succeeds
          /\ UNCHANGED <<at, vm, got>>
       \/ CallFails /\ NextVm /\ UNCHANGED nb
    /\ UNCHANGED <<cloud, batch, changes, clean, todo, slots, known, was>>

\* An address on none of vm's interfaces is put on the first of them, if NetBox lets it.
SetPrimaryIp ==
    LET a     == Wanted
        own   == IfacesOf(nb.ifs, vm)
        i0    == <<vm, First({i[2] : i \in own})>>
        moves == own # {} /\ nb.ip[a] \notin own
        moved == IF moves /\ MayPlace(a, i0) THEN Placed(nb, a, i0) ELSE nb
    IN  /\ at = "primary" /\ ~SkipsPrimary
        /\ vm \in known => Holders(a) \subseteq {vm}
        /\ \/ /\ nb' = IF MayBePrimary(moved, vm, a)
                       THEN [moved EXCEPT !.prim[vm] = a] ELSE moved
              /\ Succeeds
           \/ nb' \in {nb, moved} /\ CallFails
        /\ NextVm
        /\ UNCHANGED <<cloud, batch, changes, clean, todo, slots, known, was>>

-----------------------------------------------------------------------------
(* Specification *)

SeqForgets ==
    /\ at' = "off" /\ todo' = {} /\ vm' = None /\ slots' = {}
    /\ known' = {} /\ was' = [v \in Vms |-> None] /\ got' = {}

SeqEnds ==
    /\ at = "vms" /\ todo = {}
    /\ SeqForgets
    /\ clean' = IF ~whole THEN 0 ELSE IF clean < MaxClean THEN clean + 1 ELSE clean
    /\ UNCHANGED <<cloud, nb, batch, failures, changes, whole>>

SeqDies ==
    /\ at # "off"
    /\ SeqForgets
    /\ CallFails
    /\ clean' = 0
    /\ UNCHANGED <<cloud, nb, batch, changes>>

SeqNext ==
    \/ SeqBegins \/ FetchVms \/ NoInterfaces \/ SyncInterface \/ UnsetHolders
    \/ SyncAddress \/ EndInterfaces \/ KeepPrimary \/ TakePrimary \/ SetPrimaryIp
    \/ SeqEnds \/ SeqDies
    \/ \E v \in Vms : SeqDeleteOrphan(v) \/ TakeVm(v)

\* A sync is of one kind from its beginning to its end.
NextSync == (at = "off" /\ Next /\ UNCHANGED seq) \/ SeqNext

SyncSpec == InitSync /\ [][NextSync]_syncVars

-----------------------------------------------------------------------------
(* Properties *)

SettledPrimariesStay ==
    \A v \in cloud.vms : Settled(v) =>
        \/ nb'.prim[v] = nb.prim[v]
        \/ vm = v /\ nb'.prim[v] = PrivateOf(v)

\* A valid private primary address is kept, also if calls fail or the sync dies
\* ("keep current primary if it's still valid", batch.py:395); a sequential sync changes
\* it at most for the VM's first private address, and in one step (vms_networking.py:54).
StablePrimary == [][SettledPrimariesStay]_syncVars
==============================================================================
