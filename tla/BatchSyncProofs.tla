--------------------------- MODULE BatchSyncProofs ---------------------------
(***************************************************************************)
(* Safety of SequentialSync, and of BatchSync with it, for any VMs,        *)
(* interfaces, addresses, clouds and bounds.                               *)
(*                                                                         *)
(* What a sync may do to an address or to a primary address was decided    *)
(* earlier, on a cache that may be stale.  QueueInv and PrimaryInv say     *)
(* what every entry of the queues still owes to the listing and to the     *)
(* cache, SeqInv what a sequential sync owes to the VMs it has read.       *)
(* Sound is what NetBox itself sees to.                                    *)
(*                                                                         *)
(* The second half proves that three syncs in which no call fails make     *)
(* NetBox mirror the cloud, if the addresses of interfaces are private.    *)
(***************************************************************************)
EXTENDS SequentialSync, FiniteSetTheorems, WellFoundedInduction, TLAPS

\* A VM's primary address is on one of its interfaces: NetBox sees to that.
Sound(box) ==
    \A v \in Vms : box.prim[v] # None =>
        v \in box.vms /\ box.ip[box.prim[v]] \in IfacesOf(box.ifs, v)

\* What a step of the batch still has to reach.
LeftInv ==
    /\ cloud \in Clouds
    /\ step = "idle" => NoQueues
    /\ step = "delete" => left \subseteq nb.vms \ cloud.vms
    /\ step = "unset" => \A v \in left : change[v] = None
    /\ step = "ifaces" => left \subseteq newIfs
    /\ step = "moves" => \A a \in left : move[a] # None
    /\ step = "ips" => left \subseteq newIps
    /\ step = "primaries" => \A v \in left : change[v] \in Addrs

\* Addresses in the queues are of the listing, or where the cache has them already.
QueueInv ==
    /\ \A a \in Addrs : move[a] # None \/ pendMove[a] # None => a \in Listed
    /\ \A n \in newIps : n[1] \in Listed
    /\ madeIps \subseteq Listed
    /\ \A v \in Vms : pendPrim[v] # None => pendPrim[v] \in Listed
    /\ \A v \in Vms : change[v] \in Addrs \ Listed => cache.ip[change[v]] \in IfacesOf(cache.ifs, v)

\* VMs whose primary address the batch has not written yet.
Unwritten(v) ==
    \/ step \in {"delete", "process", "unset", "ifaces", "moves", "ips"}
    \/ step = "primaries" /\ v \in left

\* Primary addresses change by the queue only, and it leaves a private one alone
\* unless the listing gives the address to another VM.
PrimaryInv ==
    /\ step \in {"delete", "process"} => Sound(cache)
    /\ \A v \in Vms :
          /\ Unwritten(v) => nb.prim[v] \in {None, cache.prim[v]}
          /\ change[v] = None =>
                /\ cache.prim[v] \in Addrs
                /\ \E w \in Vms \ {v}, k \in Idx : cloud.addr[<<w, k>>] = cache.prim[v]
          /\ change[v] \in Addrs \cup {Pending} => cache.prim[v] \notin Private

\* Where a sequential sync is.
SeqInv ==
    /\ at # "off" => step = "idle"
    /\ at = "orphans" => todo \subseteq nb.vms \ cloud.vms
    /\ at \in {"iface", "address", "primary"} => vm \in Vms /\ vm \notin todo
    /\ at = "address" => slots # {}
    /\ \A k \in Idx : <<k, "addr">> \in slots => <<k, "nat">> \in slots
    /\ at \in {"iface", "address", "primary"} /\ vm \notin known => nb.prim[vm] = None

BInv == LeftInv /\ QueueInv /\ PrimaryInv

IInv == SeqTypeOK /\ Sound(nb) /\ BInv /\ SeqInv

-----------------------------------------------------------------------------
(* Helpers                                                                 *)

\* A set of positions that is not empty has a first one.
LEMMA FirstOf ==
    ASSUME NEW S \in SUBSET Idx, S # {}
    PROVE  First(S) \in S /\ \A j \in S : First(S) <= j
<1> DEFINE R == OpToRel(<, Nat)
<1>1. IsWellFoundedOn(R, Nat)
  BY NatLessThanWellFounded
<1>2. S \subseteq Nat
  BY IdxAssumption
<1>3. PICK m \in S : \A k \in S : <<k, m>> \notin R
  BY <1>1, <1>2, WFMin
<1>4. \A k \in S : ~ (k < m)
  BY <1>2, <1>3 DEF OpToRel
<1>5. \A k \in S : m <= k
  BY <1>2, <1>4
<1> QED
  BY <1>5 DEF First

LEMMA MaxCleanIs == MaxClean \in Nat /\ MaxClean >= 3
<1>1. Cardinality(Vms) \in Nat
  BY VmsAssumption, FS_CardinalityType
<1> QED
  BY <1>1 DEF MaxClean

LEMMA Markers ==
    /\ \A a \in Addrs : a # None /\ a # Pending /\ a # Keep
    /\ \A i \in Ifaces : i # None /\ i # Absent /\ i # Unplaced
    /\ None # Pending /\ None # Keep /\ Pending # Keep /\ Absent # Unplaced
    /\ Private \subseteq Addrs /\ Public \subseteq Addrs
BY MarkersAssumption DEF Addrs

\* The addresses of an interface.
LEMMA CloudAddrs ==
    ASSUME TypeOK, NEW v \in Vms, NEW k \in Idx
    PROVE  /\ <<v, k>> \in Ifaces
           /\ cloud.addr[<<v, k>>] \in Addrs \cup {None}
           /\ cloud.nat[<<v, k>>] \in Public \cup {None}
           /\ cloud.addr[<<v, k>>] \in Listed /\ cloud.nat[<<v, k>>] \in Listed
BY DEF TypeOK, Ifaces, Listed

LEMMA FailuresTyped ==
    ASSUME TypeOK, CallFails \/ Succeeds
    PROVE  failures' \in 0..MaxFailures /\ whole' \in BOOLEAN
<1>1. failures \in Nat /\ failures <= MaxFailures /\ MaxFailures \in Nat
  BY BoundsAssumption DEF TypeOK
<1>2. CASE CallFails
  <2>1. failures' \in 0..MaxFailures
    BY <1>1, <1>2 DEF CallFails
  <2>2. whole' \in BOOLEAN
    BY <1>2 DEF CallFails
  <2> QED
    BY <2>1, <2>2
<1>3. CASE Succeeds
  <2>1. failures' \in 0..MaxFailures
    BY <1>3 DEF Succeeds, TypeOK
  <2>2. whole' = whole /\ whole \in BOOLEAN
    BY <1>3 DEF Succeeds, TypeOK
  <2>3. whole' \in BOOLEAN
    BY <2>2, Zenon
  <2> QED
    BY <2>1, <2>3
<1> QED
  BY <1>2, <1>3

-----------------------------------------------------------------------------
(* NetBox                                                                  *)

LEMMA PlacedIs ==
    ASSUME NEW box \in NetBox, NEW a \in Addrs, NEW i \in Ifaces,
           NEW new, new = Placed(box, a, i)
    PROVE  /\ new \in NetBox
           /\ new.vms = box.vms /\ new.ifs = box.ifs /\ new.prim = box.prim
           /\ new.ip[a] = i
           /\ \A b \in Addrs : b # a => new.ip[b] = box.ip[b]
BY DEF Placed, NetBox, Place

LEMMA WithPrim ==
    ASSUME NEW box \in NetBox, NEW v \in Vms, NEW a \in Addrs \cup {None},
           NEW new, new = [box EXCEPT !.prim[v] = a]
    PROVE  /\ new \in NetBox
           /\ new.vms = box.vms /\ new.ifs = box.ifs /\ new.ip = box.ip
           /\ new.prim[v] = a
           /\ \A w \in Vms : w # v => new.prim[w] = box.prim[w]
BY DEF NetBox

LEMMA WithoutPrims ==
    ASSUME NEW box \in NetBox, NEW S,
           NEW new, new = [box EXCEPT !.prim = [w \in Vms |-> IF w \in S THEN None ELSE @[w]]]
    PROVE  /\ new \in NetBox
           /\ new.vms = box.vms /\ new.ifs = box.ifs /\ new.ip = box.ip
           /\ \A w \in Vms : new.prim[w] = IF w \in S THEN None ELSE box.prim[w]
BY DEF NetBox

LEMMA DeletedIs ==
    ASSUME nb \in NetBox, NEW v \in Vms
    PROVE  /\ Deleted(v) \in NetBox
           /\ Deleted(v).vms = nb.vms \ {v} /\ Deleted(v).ifs = nb.ifs \ IfacesOf(nb.ifs, v)
           /\ \A a \in Addrs : Deleted(v).ip[a] =
                 IF nb.ip[a] \in IfacesOf(nb.ifs, v) THEN Absent ELSE nb.ip[a]
           /\ \A w \in Vms : Deleted(v).prim[w] = IF w = v THEN None ELSE nb.prim[w]
BY DEF Deleted, NetBox, IfacesOf, Place

LEMMA PlaceSound ==
    ASSUME nb \in NetBox, Sound(nb), NEW a \in Addrs, NEW i \in Ifaces,
           nb.ip[a] = Absent \/ MayPlace(a, i)
    PROVE  Sound(Placed(nb, a, i))
<1>0. PICK new : new = Placed(nb, a, i)
  OBVIOUS
<1> SUFFICES ASSUME NEW v \in Vms, new.prim[v] # None
             PROVE  v \in new.vms /\ new.ip[new.prim[v]] \in IfacesOf(new.ifs, v)
  BY <1>0 DEF Sound
<1>1. /\ new.vms = nb.vms /\ new.ifs = nb.ifs /\ new.prim = nb.prim
      /\ new.ip[a] = i /\ \A b \in Addrs : b # a => new.ip[b] = nb.ip[b]
  BY <1>0, PlacedIs
<1>2. v \in nb.vms /\ nb.ip[nb.prim[v]] \in IfacesOf(nb.ifs, v) /\ nb.prim[v] \in Addrs
  BY <1>1 DEF Sound, NetBox
<1>3. CASE nb.prim[v] = a
  <2>1. nb.ip[a] # Absent
    BY <1>2, <1>3, Markers DEF IfacesOf, NetBox
  <2>2. i \in nb.ifs /\ i[1] = v
    BY <1>3, <2>1 DEF MayPlace
  <2> QED
    BY <1>1, <1>2, <1>3, <2>2 DEF IfacesOf
<1>4. CASE nb.prim[v] # a
  BY <1>1, <1>2, <1>4
<1> QED
  BY <1>3, <1>4

LEMMA SetSound ==
    ASSUME NEW box \in NetBox, Sound(box), NEW v \in Vms, NEW a \in Addrs,
           MayBePrimary(box, v, a)
    PROVE  Sound([box EXCEPT !.prim[v] = a])
BY WithPrim DEF Sound, MayBePrimary

\* Primary addresses may go, VMs and interfaces may be added.
LEMMA GrowsSound ==
    ASSUME NEW box \in NetBox, Sound(box), NEW new \in NetBox,
           box.vms \subseteq new.vms, box.ifs \subseteq new.ifs, new.ip = box.ip,
           \A w \in Vms : new.prim[w] \in {None, box.prim[w]}
    PROVE  Sound(new)
BY DEF Sound, IfacesOf

LEMMA DeletedSound ==
    ASSUME nb \in NetBox, Sound(nb), NEW v \in Vms
    PROVE  Sound(Deleted(v))
<1> SUFFICES ASSUME NEW w \in Vms, Deleted(v).prim[w] # None
             PROVE  /\ w \in Deleted(v).vms
                    /\ Deleted(v).ip[Deleted(v).prim[w]] \in IfacesOf(Deleted(v).ifs, w)
  BY DEF Sound
<1>1. w # v /\ Deleted(v).prim[w] = nb.prim[w] /\ nb.prim[w] \in Addrs
  BY DeletedIs DEF NetBox
<1>2. w \in nb.vms /\ nb.ip[nb.prim[w]] \in IfacesOf(nb.ifs, w)
  BY <1>1 DEF Sound, NetBox
<1>3. nb.ip[nb.prim[w]] \notin IfacesOf(nb.ifs, v)
  BY <1>1, <1>2 DEF IfacesOf
<1> QED
  BY <1>1, <1>2, <1>3, DeletedIs DEF IfacesOf

-----------------------------------------------------------------------------
(* What process_vm_updates decides                                         *)

LEMMA PrivateOfIs ==
    ASSUME TypeOK, NEW v \in Vms
    PROVE  /\ PrivateOf(v) \in Private \cup {None}
           /\ PrivateOf(v) # None => PrivateOf(v) \in Listed
<1> DEFINE S == {k \in Idx : cloud.addr[<<v, k>>] \in Private}
<1>1. CASE S = {}
  BY <1>1 DEF PrivateOf
<1>2. CASE S # {}
  <2>1. First(S) \in S
    BY <1>2, FirstOf
  <2> QED
    BY <1>2, <2>1, CloudAddrs DEF PrivateOf
<1> QED
  BY <1>1, <1>2

LEMMA PublicOfIs ==
    ASSUME TypeOK, NEW v \in Vms
    PROVE  /\ PublicOf(v) \in Public \cup {None}
           /\ PublicOf(v) # None => PublicOf(v) \in Listed
<1> DEFINE late(k) == \E j \in Idx : j <= k /\ cloud.addr[<<v, j>>] \in Private
           S == {k \in Idx : \/ cloud.addr[<<v, k>>] \in Public
                             \/ cloud.nat[<<v, k>>] # None /\ ~late(k)}
<1>1. CASE S = {}
  BY <1>1 DEF PublicOf
<1>2. CASE S # {}
  <2>1. First(S) \in S
    BY <1>2, FirstOf
  <2> DEFINE k0 == First(S)
  <2>2. k0 \in Idx /\ (cloud.addr[<<v, k0>>] \in Public \/ cloud.nat[<<v, k0>>] # None)
    BY <2>1
  <2>3. PublicOf(v) = IF cloud.addr[<<v, k0>>] \in Public THEN cloud.addr[<<v, k0>>]
                                                     ELSE cloud.nat[<<v, k0>>]
    BY <1>2 DEF PublicOf
  <2> HIDE DEF k0
  <2> QED
    BY <2>2, <2>3, CloudAddrs
<1> QED
  BY <1>1, <1>2

LEMMA PendingOfIs ==
    ASSUME TypeOK, NEW v \in Vms
    PROVE  /\ PendingOf(v) \in Addrs \cup {None}
           /\ PendingOf(v) # None => PendingOf(v) \in Listed
BY PrivateOfIs, PublicOfIs, Markers DEF PendingOf

LEMMA SelectPrimaryIs ==
    ASSUME TypeOK, NEW v \in Vms, NEW new \in SelectPrimary(v)
    PROVE  /\ new \in Addrs \cup {Pending, Keep}
           /\ new \in Addrs => new \in Listed \/ new \in OwnAddrs(v)
           /\ cache.prim[v] \in Private /\ cache.prim[v] \in OwnAddrs(v) => new = Keep
<1> DEFINE priv == IF PrivateOf(v) = None THEN None ELSE Candidate(PrivateOf(v))
           pub  == IF PublicOf(v) = None THEN None ELSE Candidate(PublicOf(v))
           set  == IF priv \in Addrs THEN priv ELSE IF pub \in Addrs THEN pub ELSE None
           cur  == cache.prim[v]
           own  == IF OwnAddrs(v) \cap Private # {} THEN OwnAddrs(v) \cap Private
                                                    ELSE OwnAddrs(v)
<1>1. /\ priv \in Addrs \cup {None, Pending} /\ (priv \in Addrs => priv \in Listed)
      /\ pub \in Addrs \cup {None, Pending} /\ (pub \in Addrs => pub \in Listed)
  BY PrivateOfIs, PublicOfIs, Markers DEF Candidate
<1>2. own \subseteq OwnAddrs(v) /\ OwnAddrs(v) \subseteq Addrs
  BY DEF OwnAddrs
<1>3. new \in (IF cur = None THEN
                   IF set # None THEN {set}
                   ELSE IF own # {} THEN own
                   ELSE IF Pending \in {priv, pub} THEN {Pending} ELSE {Keep}
               ELSE IF set = None THEN {Keep}
               ELSE IF cur \in Private THEN {IF cur \in OwnAddrs(v) THEN Keep ELSE set}
               ELSE IF priv # None THEN {priv}
               ELSE {IF cur # pub THEN pub ELSE Keep})
  BY DEF SelectPrimary
<1> HIDE DEF priv, pub, own
<1> QED
  BY <1>1, <1>2, <1>3, Markers

LEMMA MisplacedIs ==
    ASSUME TypeOK, NEW v \in Vms, NEW a \in Misplaced(v)
    PROVE  /\ a \in Addrs /\ a \in Listed
           /\ Target(v, a) \in Ifaces
           /\ \E k \in Idx : cloud.addr[<<v, k>>] = a
<1>1. PICK k \in Idx : a \in Addrs /\ cloud.addr[<<v, k>>] = a
  BY DEF Misplaced
<1>2. (CHOOSE j \in Idx : cloud.addr[<<v, j>>] = a) \in Idx
  BY <1>1
<1> QED
  BY <1>1, <1>2, CloudAddrs DEF Target, Ifaces

-----------------------------------------------------------------------------
(* Steps of the batch                                                      *)

\* What every step keeps, and what it may do to addresses and primary addresses.
Kept == TypeOK' /\ Sound(nb') /\ BInv' /\ UnlistedStay /\ SettledPrimariesStay

LEMMA NetBoxStays ==
    ASSUME Sound(nb), UNCHANGED nb
    PROVE  Sound(nb') /\ UnlistedStay /\ SettledPrimariesStay
BY DEF UnlistedStay, SettledPrimariesStay

\* Without queues there is nothing to keep.
LEMMA NothingQueued ==
    ASSUME NoQueues
    PROVE  QueueInv /\ \A v \in Vms : change[v] = Keep
BY Markers DEF NoQueues, QueueInv

LEMMA IdleBInv ==
    ASSUME NoQueues', step' = "idle", cloud' \in Clouds
    PROVE  BInv'
<1>1. QueueInv' /\ \A v \in Vms : change'[v] = Keep
  BY Markers DEF NoQueues, QueueInv
<1>2. LeftInv'
  BY DEF LeftInv
<1>3. PrimaryInv'
  BY <1>1, Markers DEF PrimaryInv, Unwritten
<1> QED
  BY <1>1, <1>2, <1>3 DEF BInv

LEMMA QueuesStay ==
    ASSUME QueueInv, UNCHANGED <<cloud, queues>>, UNCHANGED cache.ip, UNCHANGED cache.ifs
    PROVE  QueueInv'
BY DEF QueueInv, queues, Listed

LEMMA PrimariesStay ==
    ASSUME PrimaryInv, UNCHANGED <<cloud, change>>, UNCHANGED cache.prim,
           \A v \in Vms : Unwritten(v)' => Unwritten(v) /\ nb'.prim[v] \in {None, nb.prim[v]},
           step' \in {"delete", "process"} => Sound(cache')
    PROVE  PrimaryInv'
BY DEF PrimaryInv, Sound

LEMMA CloudChangesKeeps == IInv /\ CloudChanges => Kept
<1> SUFFICES ASSUME IInv, CloudChanges PROVE Kept
  OBVIOUS
<1>1. TypeOK /\ NoQueues /\ step = "idle"
  BY DEF IInv, SeqTypeOK, BInv, LeftInv, CloudChanges
<1>2. changes' \in 0..MaxChanges /\ clean' \in 0..MaxClean
  BY <1>1, BoundsAssumption, MaxCleanIs DEF CloudChanges, TypeOK
<1>3. TypeOK'
  BY <1>1, <1>2, CloudsAssumption DEF CloudChanges, TypeOK, queues
<1>4. BInv'
  BY <1>1, IdleBInv DEF CloudChanges, queues, NoQueues
<1> QED
  BY <1>3, <1>4, NetBoxStays DEF CloudChanges, Kept, IInv

LEMMA LoadKeeps == IInv /\ Load => Kept
<1> SUFFICES ASSUME IInv, Load PROVE Kept
  OBVIOUS
<1>1. TypeOK /\ NoQueues /\ step = "idle" /\ cloud \in Clouds /\ Sound(nb)
  BY DEF IInv, SeqTypeOK, BInv, LeftInv, Load
<1>2. /\ cache' = nb /\ step' = "delete" /\ left' \subseteq nb.vms \ cloud.vms
      /\ UNCHANGED <<cloud, nb, queues, changes, clean>>
  BY DEF Load
<1>3. failures' \in 0..MaxFailures /\ whole' \in BOOLEAN
  <2>1. CASE whole' = TRUE /\ UNCHANGED failures
    BY <1>1, <2>1 DEF TypeOK
  <2>2. CASE CallFails
    BY <1>1, <2>2, FailuresTyped
  <2> QED
    BY <2>1, <2>2 DEF Load
<1>4. TypeOK'
  <2>1. left' \subseteq Vms
    BY <1>1, <1>2 DEF TypeOK, NetBox
  <2> QED
    BY <1>1, <1>2, <1>3, <2>1 DEF TypeOK, queues, Steps
<1>5. \A v \in Vms : change[v] = Keep
  BY <1>1, NothingQueued
<1>6. QueueInv'
  BY <1>1, <1>2, <1>5, NothingQueued, Markers DEF QueueInv, queues, Listed
<1>7. LeftInv'
  BY <1>1, <1>2 DEF LeftInv
<1>8. PrimaryInv'
  BY <1>1, <1>2, <1>5, Markers DEF PrimaryInv, queues
<1> QED
  BY <1>1, <1>2, <1>4, <1>6, <1>7, <1>8, NetBoxStays DEF Kept, BInv

LEMMA DeleteOrphanKeeps ==
    ASSUME IInv, NEW v \in Vms, DeleteOrphan(v)
    PROVE  Kept
<1>1. /\ TypeOK /\ Sound(nb) /\ LeftInv /\ QueueInv /\ PrimaryInv
      /\ nb \in NetBox /\ step = "delete" /\ v \in left /\ v \in nb.vms /\ v \notin cloud.vms
  BY DEF IInv, SeqTypeOK, BInv, LeftInv, DeleteOrphan, TypeOK
<1>2. left' = left \ {v} /\ UNCHANGED <<cloud, cache, step, queues, changes, clean>>
  BY DEF DeleteOrphan, Done
<1>3. failures' \in 0..MaxFailures /\ whole' \in BOOLEAN
  BY <1>1, FailuresTyped DEF DeleteOrphan
<1>4. /\ nb' \in NetBox /\ Sound(nb') /\ nb.vms \ {v} \subseteq nb'.vms
      /\ \A w \in Vms : /\ nb'.prim[w] \in {None, nb.prim[w]}
                        /\ w # v => nb'.prim[w] = nb.prim[w]
      /\ \A a \in Addrs : nb'.ip[a] # nb.ip[a] => nb.ip[a][1] = v /\ v \notin nb'.vms
  <2>1. CASE nb' = Deleted(v)
    BY <1>1, <2>1, DeletedIs, DeletedSound DEF IfacesOf
  <2>2. CASE UNCHANGED nb
    BY <1>1, <2>2
  <2> QED
    BY <2>1, <2>2 DEF DeleteOrphan
<1>5. TypeOK'
  BY <1>1, <1>2, <1>3, <1>4 DEF TypeOK, queues
<1>6. LeftInv'
  BY <1>1, <1>2, <1>4 DEF LeftInv
<1>7. QueueInv'
  BY <1>1, <1>2, QueuesStay
<1>8. PrimaryInv'
  <2>1. \A w \in Vms : Unwritten(w) /\ nb'.prim[w] \in {None, nb.prim[w]}
    BY <1>1, <1>4 DEF Unwritten
  <2>2. Sound(cache')
    BY <1>1, <1>2 DEF PrimaryInv
  <2> QED
    BY <1>1, <1>2, <2>1, <2>2, PrimariesStay DEF queues
<1>9. UnlistedStay
  BY <1>1, <1>4 DEF UnlistedStay
<1>10. SettledPrimariesStay
  BY <1>1, <1>4 DEF SettledPrimariesStay, TypeOK
<1> QED
  BY <1>4, <1>5, <1>6, <1>7, <1>8, <1>9, <1>10 DEF Kept, BInv

\* A VM that NetBox lacks is created.
LEMMA WithVm ==
    ASSUME NEW box \in NetBox, NEW v \in Vms, NEW new, new = [box EXCEPT !.vms = @ \cup {v}]
    PROVE  /\ new \in NetBox /\ new.vms = box.vms \cup {v}
           /\ new.ifs = box.ifs /\ new.ip = box.ip /\ new.prim = box.prim
BY DEF NetBox

\* Steps that leave addresses and primary addresses of NetBox alone.
LEMMA OnlyGrows ==
    ASSUME nb \in NetBox, Sound(nb), nb' \in NetBox, nb.vms \subseteq nb'.vms,
           nb.ifs \subseteq nb'.ifs, nb'.ip = nb.ip, nb'.prim = nb.prim
    PROVE  Sound(nb') /\ UnlistedStay /\ SettledPrimariesStay
<1>1. \A w \in Vms : nb'.prim[w] \in {None, nb.prim[w]}
  OBVIOUS
<1>2. Sound(nb')
  BY <1>1, GrowsSound
<1> QED
  BY <1>2 DEF UnlistedStay, SettledPrimariesStay

LEMMA ProcessKeeps ==
    ASSUME IInv, NEW v \in Vms, Process(v)
    PROVE  Kept
<1>1. /\ TypeOK /\ Sound(nb) /\ LeftInv /\ QueueInv /\ PrimaryInv
      /\ nb \in NetBox /\ cache \in NetBox /\ step = "process" /\ v \in left
  BY DEF IInv, SeqTypeOK, BInv, Process, TypeOK
<1>2. left' = left \ {v} /\ UNCHANGED <<cloud, step, changes, clean>>
  BY DEF Process, Done
<1>3. failures' \in 0..MaxFailures /\ whole' \in BOOLEAN
  BY <1>1, FailuresTyped DEF Process
<1>4. /\ nb' \in NetBox /\ nb'.vms = nb.vms \cup {v}
      /\ nb'.ifs = nb.ifs /\ nb'.ip = nb.ip /\ nb'.prim = nb.prim
  BY <1>1, WithVm DEF Process
<1>5. /\ cache' \in NetBox /\ cache'.vms = cache.vms \cup {v}
      /\ cache'.ifs = cache.ifs /\ cache'.ip = cache.ip /\ cache'.prim = cache.prim
  BY <1>1, WithVm DEF Process
<1>6. PICK new \in SelectPrimary(v) :
          change' = [w \in Vms |->
              IF w = v THEN (IF new = Keep THEN change[v] ELSE new)
              ELSE IF cache.prim[w] \in Misplaced(v) THEN None ELSE change[w]]
  BY DEF Process, Queue
<1>7. \A w \in Vms : change'[w] =
          IF w = v THEN (IF new = Keep THEN change[v] ELSE new)
          ELSE IF cache.prim[w] \in Misplaced(v) THEN None ELSE change[w]
  BY <1>6
<1>8. /\ move' = [a \in Addrs |-> IF a \in Misplaced(v) /\ Target(v, a) \in cache.ifs
                                  THEN Target(v, a) ELSE move[a]]
      /\ pendMove' = [a \in Addrs |-> IF a \in Misplaced(v) /\ Target(v, a) \notin cache.ifs
                                      THEN Target(v, a) ELSE pendMove[a]]
      /\ newIfs' = newIfs \cup ({<<v, k>> : k \in Idx} \ cache.ifs)
      /\ newIps' = newIps \cup Unknown(v)
      /\ pendPrim' = [pendPrim EXCEPT ![v] = PendingOf(v)]
      /\ UNCHANGED <<madeIfs, madeIps>>
  BY DEF Process, Queue
<1>9. /\ \A a \in Addrs : /\ move'[a] \in Ifaces \cup {None}
                          /\ pendMove'[a] \in Ifaces \cup {None}
                          /\ move'[a] # None \/ pendMove'[a] # None => a \in Listed
      /\ move' \in [Addrs -> Ifaces \cup {None}] /\ pendMove' \in [Addrs -> Ifaces \cup {None}]
  BY <1>1, <1>8, MisplacedIs DEF TypeOK, QueueInv
<1>10. /\ newIps' \subseteq Addrs \X Ifaces
       /\ \A n \in newIps' : n[1] \in Listed
  <2>1. \A n \in Unknown(v) : n \in Addrs \X Ifaces /\ n[1] \in Listed
    BY DEF Unknown, Listed, Ifaces
  <2> QED
    BY <1>1, <1>8, <2>1 DEF TypeOK, QueueInv
<1>11. /\ pendPrim' \in [Vms -> Addrs \cup {None}]
       /\ \A w \in Vms : pendPrim'[w] # None => pendPrim'[w] \in Listed
  BY <1>1, <1>8, PendingOfIs DEF TypeOK, QueueInv
<1>12. /\ new \in Addrs \cup {Pending, Keep}
       /\ new \in Addrs => new \in Listed \/ new \in OwnAddrs(v)
       /\ cache.prim[v] \in Private /\ cache.prim[v] \in OwnAddrs(v) => new = Keep
  BY <1>1, SelectPrimaryIs
<1>13. TypeOK'
  <2>1. change' \in [Vms -> Addrs \cup {None, Pending, Keep}]
    BY <1>1, <1>6, <1>12 DEF TypeOK
  <2>2. newIfs' \subseteq Ifaces /\ madeIfs' \subseteq newIfs' /\ madeIps' \subseteq Addrs
    BY <1>1, <1>8 DEF TypeOK, Ifaces
  <2> QED
    BY <1>1, <1>2, <1>3, <1>4, <1>5, <1>9, <1>10, <1>11, <2>1, <2>2 DEF TypeOK
<1>14. LeftInv'
  BY <1>1, <1>2 DEF LeftInv
<1>15. QueueInv'
  <2>1. Listed' = Listed
    BY <1>2 DEF Listed
  <2>2. ASSUME NEW w \in Vms, change'[w] \in Addrs \ Listed
        PROVE  cache.ip[change'[w]] \in IfacesOf(cache.ifs, w)
    <3>1. CASE change'[w] = change[w]
      BY <1>1, <2>2, <3>1 DEF QueueInv
    <3>2. CASE w = v /\ change'[w] = new
      BY <1>12, <2>2, <3>2 DEF OwnAddrs
    <3>3. CASE change'[w] = None
      BY <2>2, <3>3, Markers
    <3> QED
      BY <1>7, <3>1, <3>2, <3>3
  <2>3. madeIps' \subseteq Listed
    BY <1>1, <1>8 DEF QueueInv
  <2> QED
    BY <1>5, <1>9, <1>10, <1>11, <2>1, <2>2, <2>3 DEF QueueInv, IfacesOf
<1>16. PrimaryInv'
  <2>1. Sound(cache')
    BY <1>1, <1>5 DEF PrimaryInv, Sound
  <2>2. ASSUME NEW w \in Vms
        PROVE  nb'.prim[w] \in {None, cache'.prim[w]}
    BY <1>1, <1>4, <1>5 DEF PrimaryInv, Unwritten
  <2>3. ASSUME NEW w \in Vms, change'[w] = None
        PROVE  /\ cache'.prim[w] \in Addrs
               /\ \E x \in Vms \ {w}, k \in Idx : cloud'.addr[<<x, k>>] = cache'.prim[w]
    <3>1. CASE change'[w] = change[w]
      BY <1>1, <1>2, <1>5, <2>3, <3>1 DEF PrimaryInv
    <3>2. CASE w = v /\ change'[w] = new
      BY <1>12, <2>3, <3>2, Markers
    <3>3. CASE w # v /\ cache.prim[w] \in Misplaced(v)
      BY <1>1, <1>2, <1>5, <3>3, MisplacedIs
    <3> QED
      BY <1>7, <3>1, <3>2, <3>3
  <2>4. ASSUME NEW w \in Vms, change'[w] \in Addrs \cup {Pending}
        PROVE  cache'.prim[w] \notin Private
    <3>1. CASE change'[w] = change[w]
      BY <1>1, <1>5, <2>4, <3>1 DEF PrimaryInv
    <3>2. CASE w = v /\ change'[w] = new
      <4>1. cache.prim[v] \in Private => cache.prim[v] \in OwnAddrs(v)
        BY <1>1, Markers DEF PrimaryInv, Sound, OwnAddrs
      <4> QED
        BY <1>5, <1>12, <2>4, <3>2, <4>1, Markers
    <3>3. CASE change'[w] = None
      BY <2>4, <3>3, Markers
    <3> QED
      BY <1>7, <3>1, <3>2, <3>3
  <2> QED
    BY <2>1, <2>2, <2>3, <2>4 DEF PrimaryInv
<1> QED
  BY <1>1, <1>4, <1>13, <1>14, <1>15, <1>16, OnlyGrows DEF Kept, BInv

LEMMA ProcessFailsKeeps ==
    ASSUME IInv, NEW v \in Vms, ProcessFails(v)
    PROVE  Kept
<1>1. /\ TypeOK /\ Sound(nb) /\ LeftInv /\ QueueInv /\ PrimaryInv
      /\ nb \in NetBox /\ cache \in NetBox /\ step = "process" /\ v \in left
  BY DEF IInv, SeqTypeOK, BInv, ProcessFails, TypeOK
<1>2. left' = left \ {v} /\ UNCHANGED <<cloud, step, queues, changes, clean>>
  BY DEF ProcessFails, Done
<1>3. failures' \in 0..MaxFailures /\ whole' \in BOOLEAN
  BY <1>1, FailuresTyped DEF ProcessFails
<1>4. /\ nb' \in NetBox /\ nb.vms \subseteq nb'.vms
      /\ nb'.ifs = nb.ifs /\ nb'.ip = nb.ip /\ nb'.prim = nb.prim
  BY <1>1, WithVm DEF ProcessFails
<1>5. /\ cache' \in NetBox /\ cache.vms \subseteq cache'.vms
      /\ cache'.ifs = cache.ifs /\ cache'.ip = cache.ip /\ cache'.prim = cache.prim
  BY <1>1, WithVm DEF ProcessFails
<1>6. TypeOK'
  BY <1>1, <1>2, <1>3, <1>4, <1>5 DEF TypeOK, queues
<1>7. LeftInv'
  BY <1>1, <1>2 DEF LeftInv
<1>8. QueueInv'
  BY <1>1, <1>2, <1>5, QueuesStay
<1>9. PrimaryInv'
  BY <1>1, <1>2, <1>4, <1>5 DEF PrimaryInv, Unwritten, Sound, queues
<1> QED
  BY <1>1, <1>4, <1>6, <1>7, <1>8, <1>9, OnlyGrows DEF Kept, BInv

\* A primary address that the cloud has where NetBox has it is not unset: the listing
\* would have given it to another VM.
LEMMA UnsetPrimaryKeeps ==
    ASSUME IInv, NEW v \in Vms, UnsetPrimary(v)
    PROVE  Kept
<1>1. /\ TypeOK /\ Sound(nb) /\ LeftInv /\ QueueInv /\ PrimaryInv
      /\ nb \in NetBox /\ step = "unset" /\ v \in left /\ change[v] = None
  BY DEF IInv, SeqTypeOK, BInv, LeftInv, UnsetPrimary, TypeOK
<1>2. left' = left \ {v} /\ UNCHANGED <<cloud, cache, step, queues, changes, clean>>
  BY DEF UnsetPrimary, Done
<1>3. failures' \in 0..MaxFailures /\ whole' \in BOOLEAN
  BY <1>1, FailuresTyped DEF UnsetPrimary
<1>4. /\ nb' \in NetBox /\ nb'.vms = nb.vms /\ nb'.ifs = nb.ifs /\ nb'.ip = nb.ip
      /\ nb'.prim[v] \in {None, nb.prim[v]}
      /\ \A w \in Vms : w # v => nb'.prim[w] = nb.prim[w]
  <2>1. CASE nb' = [nb EXCEPT !.prim[v] = None]
    BY <1>1, <2>1, WithPrim
  <2>2. CASE UNCHANGED nb
    BY <1>1, <2>2
  <2> QED
    BY <2>1, <2>2 DEF UnsetPrimary
<1>5. Sound(nb')
  BY <1>1, <1>4, GrowsSound
<1>6. TypeOK'
  BY <1>1, <1>2, <1>3, <1>4 DEF TypeOK, queues
<1>7. LeftInv'
  BY <1>1, <1>2 DEF LeftInv, queues
<1>8. QueueInv'
  BY <1>1, <1>2, QueuesStay
<1>9. PrimaryInv'
  BY <1>1, <1>2, <1>4 DEF PrimaryInv, Unwritten, queues
<1>10. UnlistedStay
  BY <1>4 DEF UnlistedStay
<1>11. ~ Settled(v)
  <2>1. PICK w \in Vms \ {v}, k \in Idx : cloud.addr[<<w, k>>] = cache.prim[v]
    BY <1>1 DEF PrimaryInv
  <2>2. cache.prim[v] \in Addrs /\ nb.prim[v] \in {None, cache.prim[v]}
    BY <1>1 DEF PrimaryInv, Unwritten
  <2>3. Distinct(cloud)
    BY <1>1, DistinctAssumption DEF LeftInv
  <2>4. \A j \in Idx : cloud.addr[<<v, j>>] = cache.prim[v] => <<v, j>> = <<w, k>>
    BY <2>1, <2>2, <2>3, Markers DEF Distinct, Ifaces
  <2> QED
    BY <2>1, <2>2, <2>4, Markers DEF Settled
<1>12. SettledPrimariesStay
  BY <1>1, <1>4, <1>11 DEF SettledPrimariesStay, TypeOK
<1> QED
  BY <1>5, <1>6, <1>7, <1>8, <1>9, <1>10, <1>12 DEF Kept, BInv

LEMMA CreateInterfaceKeeps ==
    ASSUME IInv, NEW i \in Ifaces, CreateInterface(i)
    PROVE  Kept
<1>1. /\ TypeOK /\ Sound(nb) /\ LeftInv /\ QueueInv /\ PrimaryInv
      /\ nb \in NetBox /\ step = "ifaces" /\ i \in newIfs
  BY DEF IInv, SeqTypeOK, BInv, LeftInv, CreateInterface, TypeOK
<1>2. /\ left' = left \ {i}
      /\ UNCHANGED <<cloud, cache, step, change, move, pendMove, newIfs, newIps,
                     pendPrim, madeIps, changes, clean>>
  BY DEF CreateInterface, Done
<1>3. failures' \in 0..MaxFailures /\ whole' \in BOOLEAN
  BY <1>1, FailuresTyped DEF CreateInterface
<1>4. /\ nb' \in NetBox /\ nb'.vms = nb.vms /\ nb.ifs \subseteq nb'.ifs
      /\ nb'.ip = nb.ip /\ nb'.prim = nb.prim
  BY <1>1 DEF CreateInterface, NetBox
<1>5. madeIfs' \subseteq newIfs
  BY <1>1 DEF CreateInterface, TypeOK
<1>6. TypeOK'
  BY <1>1, <1>2, <1>3, <1>4, <1>5 DEF TypeOK
<1>7. LeftInv'
  BY <1>1, <1>2 DEF LeftInv
<1>8. QueueInv'
  BY <1>1, <1>2 DEF QueueInv, Listed
<1>9. PrimaryInv'
  BY <1>1, <1>2, <1>4 DEF PrimaryInv, Unwritten
<1> QED
  BY <1>1, <1>4, <1>6, <1>7, <1>8, <1>9, OnlyGrows DEF Kept, BInv

\* An address of the listing is placed, or nothing happens.
LEMMA ListedPlaced ==
    ASSUME nb \in NetBox, Sound(nb), NEW a \in Addrs, NEW i \in Ifaces, a \in Listed,
           \/ UNCHANGED nb
           \/ nb' = Placed(nb, a, i) /\ (nb.ip[a] = Absent \/ MayPlace(a, i))
    PROVE  /\ nb' \in NetBox /\ Sound(nb') /\ UnlistedStay /\ SettledPrimariesStay
           /\ nb'.vms = nb.vms /\ nb'.prim = nb.prim
<1>1. CASE UNCHANGED nb
  BY <1>1, NetBoxStays
<1>2. CASE nb' = Placed(nb, a, i) /\ (nb.ip[a] = Absent \/ MayPlace(a, i))
  <2>1. /\ nb' \in NetBox /\ nb'.vms = nb.vms /\ nb'.prim = nb.prim
        /\ \A b \in Addrs : b # a => nb'.ip[b] = nb.ip[b]
    BY <1>2, PlacedIs
  <2>2. Sound(nb')
    BY <1>2, PlaceSound
  <2> QED
    BY <2>1, <2>2 DEF UnlistedStay, SettledPrimariesStay
<1> QED
  BY <1>1, <1>2

LEMMA UpdateIpKeeps ==
    ASSUME IInv, NEW a \in Addrs, UpdateIp(a)
    PROVE  Kept
<1>1. /\ TypeOK /\ Sound(nb) /\ LeftInv /\ QueueInv /\ PrimaryInv
      /\ nb \in NetBox /\ cache \in NetBox /\ step = "moves"
      /\ move[a] \in Ifaces /\ a \in Listed
  BY DEF IInv, SeqTypeOK, BInv, LeftInv, QueueInv, UpdateIp, TypeOK
<1>2. left' = left \ {a} /\ UNCHANGED <<cloud, step, queues, changes, clean>>
  BY DEF UpdateIp, Done
<1>3. failures' \in 0..MaxFailures /\ whole' \in BOOLEAN
  BY <1>1, FailuresTyped DEF UpdateIp
<1>4. \/ UNCHANGED nb
      \/ nb' = Placed(nb, a, move[a]) /\ (nb.ip[a] = Absent \/ MayPlace(a, move[a]))
  BY DEF UpdateIp
<1>5. /\ nb' \in NetBox /\ Sound(nb') /\ UnlistedStay /\ SettledPrimariesStay
      /\ nb'.vms = nb.vms /\ nb'.prim = nb.prim
  BY <1>1, <1>4, ListedPlaced
<1>6. /\ cache' \in NetBox /\ cache'.ifs = cache.ifs /\ cache'.prim = cache.prim
      /\ \A b \in Addrs : b # a => cache'.ip[b] = cache.ip[b]
  BY <1>1, PlacedIs DEF UpdateIp
<1>7. TypeOK'
  BY <1>1, <1>2, <1>3, <1>5, <1>6 DEF TypeOK, queues
<1>8. LeftInv'
  BY <1>1, <1>2 DEF LeftInv, queues
<1>9. QueueInv'
  BY <1>1, <1>2, <1>6 DEF QueueInv, Listed, queues
<1>10. PrimaryInv'
  <2>1. \A v \in Vms : Unwritten(v)' => Unwritten(v) /\ nb'.prim[v] \in {None, nb.prim[v]}
    BY <1>1, <1>2, <1>5 DEF Unwritten
  <2>2. step' \notin {"delete", "process"}
    BY <1>1, <1>2
  <2> QED
    BY <1>1, <1>2, <1>6, <2>1, <2>2, PrimariesStay DEF queues
<1> QED
  BY <1>5, <1>7, <1>8, <1>9, <1>10 DEF Kept, BInv

LEMMA CreateIpKeeps ==
    ASSUME IInv, NEW n \in Addrs \X Ifaces, CreateIp(n)
    PROVE  Kept
<1> DEFINE a == n[1]
           i == n[2]
<1>1. /\ TypeOK /\ Sound(nb) /\ LeftInv /\ QueueInv /\ PrimaryInv
      /\ nb \in NetBox /\ cache \in NetBox /\ step = "ips"
      /\ a \in Addrs /\ i \in Ifaces /\ a \in Listed
  BY DEF IInv, SeqTypeOK, BInv, LeftInv, QueueInv, CreateIp, TypeOK
<1>2. /\ left' = left \ {n}
      /\ UNCHANGED <<cloud, cache, step, change, move, pendMove, newIfs, newIps,
                     pendPrim, madeIfs, changes, clean>>
  BY DEF CreateIp, Done
<1>3. failures' \in 0..MaxFailures /\ whole' \in BOOLEAN
  BY <1>1, FailuresTyped DEF CreateIp
<1>4. \/ UNCHANGED nb
      \/ nb' = Placed(nb, a, i) /\ (nb.ip[a] = Absent \/ MayPlace(a, i))
  BY DEF CreateIp
<1>5. /\ nb' \in NetBox /\ Sound(nb') /\ UnlistedStay /\ SettledPrimariesStay
      /\ nb'.vms = nb.vms /\ nb'.prim = nb.prim
  BY <1>1, <1>4, ListedPlaced
<1>6. madeIps' \subseteq madeIps \cup {a}
  BY DEF CreateIp
<1>7. TypeOK'
  BY <1>1, <1>2, <1>3, <1>5, <1>6 DEF TypeOK
<1>8. LeftInv'
  BY <1>1, <1>2 DEF LeftInv
<1>9. QueueInv'
  BY <1>1, <1>2, <1>6 DEF QueueInv, Listed
<1>10. PrimaryInv'
  BY <1>1, <1>2, <1>5 DEF PrimaryInv, Unwritten
<1> QED
  BY <1>5, <1>7, <1>8, <1>9, <1>10 DEF Kept, BInv

\* The primary address of a VM is set only if the one it had was not private, and an
\* address that the listing lacks is where the step wants it.
LEMMA SetPrimaryKeeps ==
    ASSUME IInv, NEW v \in Vms, SetPrimary(v)
    PROVE  Kept
<1> DEFINE a     == change[v]
           at0   == IF a \in madeIps THEN nb.ip[a] ELSE cache.ip[a]
           ifs   == IF IfacesOf(cache.ifs, v) # {} THEN IfacesOf(cache.ifs, v)
                                                   ELSE IfacesOf(nb.ifs, v)
           i0    == <<v, First({i[2] : i \in ifs})>>
           moves == ifs # {} /\ at0 \notin ifs
           moved == IF moves /\ MayPlace(a, i0) THEN Placed(nb, a, i0) ELSE nb
<1>1. /\ TypeOK /\ Sound(nb) /\ LeftInv /\ QueueInv /\ PrimaryInv
      /\ nb \in NetBox /\ cache \in NetBox /\ step = "primaries"
      /\ v \in left /\ change[v] \in Addrs
  BY DEF IInv, SeqTypeOK, BInv, LeftInv, SetPrimary, TypeOK
<1>2. left' = left \ {v} /\ UNCHANGED <<cloud, step, queues, changes, clean>>
  BY DEF SetPrimary, Done
<1>3. failures' \in 0..MaxFailures /\ whole' \in BOOLEAN
  BY <1>1, FailuresTyped DEF SetPrimary
<1>4. ifs # {} => i0 \in Ifaces
  <2>1. ifs \subseteq Ifaces /\ \A i \in ifs : i[1] = v /\ i[2] \in Idx
    BY <1>1 DEF IfacesOf, NetBox, Ifaces
  <2>2. ifs # {} => First({i[2] : i \in ifs}) \in Idx
    <3>1. {i[2] : i \in ifs} \in SUBSET Idx
      BY <2>1
    <3>2. ifs # {} => {i[2] : i \in ifs} # {}
      OBVIOUS
    <3> QED
      BY <3>1, <3>2, FirstOf
  <2> QED
    BY <2>2 DEF Ifaces
<1>5. moves => a \in Listed
  <2> SUFFICES ASSUME moves, a \notin Listed PROVE FALSE
    OBVIOUS
  <2>1. a \notin madeIps /\ cache.ip[a] \in IfacesOf(cache.ifs, v)
    BY <1>1 DEF QueueInv
  <2> QED
    BY <2>1
<1>6. /\ moved \in NetBox /\ Sound(moved)
      /\ moved.vms = nb.vms /\ moved.ifs = nb.ifs /\ moved.prim = nb.prim
      /\ \A b \in Addrs \ Listed : moved.ip[b] = nb.ip[b]
  <2>1. CASE moves /\ MayPlace(a, i0)
    <3>1. moved = Placed(nb, a, i0) /\ i0 \in Ifaces /\ a \in Listed
      BY <1>4, <1>5, <2>1
    <3>2. Sound(moved)
      BY <1>1, <2>1, <3>1, PlaceSound
    <3> HIDE DEF moved, i0
    <3> QED
      BY <1>1, <3>1, <3>2, PlacedIs
  <2>2. CASE ~ (moves /\ MayPlace(a, i0))
    <3>1. moved = nb
      BY <2>2
    <3> QED
      BY <1>1, <3>1
  <2> QED
    BY <2>1, <2>2
<1>7. \/ nb' = [moved EXCEPT !.prim[v] = a] /\ MayBePrimary(moved, v, a)
      \/ nb' = moved
      \/ nb' = nb
  BY DEF SetPrimary
<1>8. cache' = IF moves /\ a \notin madeIps THEN Placed(cache, a, i0) ELSE cache
  BY DEF SetPrimary
<1> HIDE DEF moved
<1>9. /\ nb' \in NetBox /\ Sound(nb') /\ nb'.vms = nb.vms
      /\ \A w \in Vms : w # v => nb'.prim[w] = nb.prim[w]
      /\ \A b \in Addrs \ Listed : nb'.ip[b] = nb.ip[b]
  <2>1. CASE nb' = [moved EXCEPT !.prim[v] = a] /\ MayBePrimary(moved, v, a)
    <3>1. Sound(nb')
      BY <1>1, <1>6, <2>1, SetSound
    <3> QED
      BY <1>1, <1>6, <2>1, <3>1, WithPrim
  <2>2. CASE nb' = moved
    BY <1>6, <2>2
  <2>3. CASE nb' = nb
    BY <1>1, <2>3
  <2> QED
    BY <1>7, <2>1, <2>2, <2>3
<1>10. /\ cache' \in NetBox /\ cache'.ifs = cache.ifs /\ cache'.prim = cache.prim
       /\ \A b \in Addrs \ Listed : cache'.ip[b] = cache.ip[b]
  <2>1. CASE moves /\ a \notin madeIps
    <3>1. cache' = Placed(cache, a, i0) /\ i0 \in Ifaces /\ a \in Listed
      BY <1>4, <1>5, <1>8, <2>1
    <3> HIDE DEF i0
    <3> QED
      BY <1>1, <3>1, PlacedIs
  <2>2. CASE ~ (moves /\ a \notin madeIps)
    <3>1. cache' = cache
      BY <1>8, <2>2
    <3> QED
      BY <1>1, <3>1
  <2> QED
    BY <2>1, <2>2
<1> HIDE DEF at0, ifs, i0, moves
<1>11. TypeOK'
  BY <1>1, <1>2, <1>3, <1>9, <1>10 DEF TypeOK, queues
<1>12. LeftInv'
  BY <1>1, <1>2 DEF LeftInv, queues
<1>13. QueueInv'
  BY <1>1, <1>2, <1>10 DEF QueueInv, Listed, queues
<1>14. PrimaryInv'
  <2>1. \A w \in Vms : Unwritten(w)' => w # v /\ Unwritten(w)
    BY <1>1, <1>2 DEF Unwritten
  <2> QED
    BY <1>1, <1>2, <1>9, <1>10, <2>1 DEF PrimaryInv, queues
<1>15. UnlistedStay
  BY <1>9 DEF UnlistedStay
<1>16. ~ Settled(v)
  <2>1. nb.prim[v] \in {None, cache.prim[v]} /\ cache.prim[v] \notin Private
    BY <1>1 DEF PrimaryInv, Unwritten
  <2> QED
    BY <2>1, Markers DEF Settled
<1>17. SettledPrimariesStay
  BY <1>1, <1>9, <1>16 DEF SettledPrimariesStay, TypeOK
<1> QED
  BY <1>9, <1>11, <1>12, <1>13, <1>14, <1>15, <1>17 DEF Kept, BInv

-----------------------------------------------------------------------------
(* From step to step                                                       *)

\* The queues stay as they are.
LEMMA GoesKeeps ==
    ASSUME IInv, NEW from, NEW to, NEW objects, Goes(from, to, objects), UNCHANGED queues,
           <<from, to, objects>> \in
               {<<"delete", "process", cloud.vms>>,
                <<"process", "unset", {v \in Vms : change[v] = None}>>,
                <<"unset", "ifaces", newIfs>>, <<"moves", "ips", newIps>>}
    PROVE  Kept
<1>1. /\ TypeOK /\ Sound(nb) /\ LeftInv /\ QueueInv /\ PrimaryInv
  BY DEF IInv, SeqTypeOK, BInv
<1>2. /\ step = from /\ step' = to /\ left' = objects
      /\ UNCHANGED <<cloud, nb, cache, failures, changes, whole, clean>>
  BY DEF Goes
<1>3. TypeOK'
  <2>1. objects \subseteq Vms \cup Ifaces \cup Addrs \cup (Addrs \X Ifaces)
    BY <1>1 DEF TypeOK
  <2>2. to \in Steps
    BY DEF Steps
  <2> QED
    BY <1>1, <1>2, <2>1, <2>2 DEF TypeOK, queues
<1>4. LeftInv'
  BY <1>1, <1>2 DEF LeftInv, queues
<1>5. QueueInv'
  BY <1>1, <1>2, QueuesStay
<1>6. PrimaryInv'
  <2>1. step' \in {"delete", "process"} => step \in {"delete", "process"}
    BY <1>2
  <2>2. step \in {"delete", "process", "unset", "moves"}
    BY <1>2
  <2>3. \A v \in Vms : Unwritten(v)' => Unwritten(v) /\ nb'.prim[v] \in {None, nb.prim[v]}
    BY <1>2, <2>2 DEF Unwritten
  <2>4. step' \in {"delete", "process"} => Sound(cache')
    BY <1>1, <1>2, <2>1 DEF PrimaryInv
  <2> QED
    BY <1>1, <1>2, <2>3, <2>4, PrimariesStay DEF queues
<1> QED
  BY <1>1, <1>2, <1>3, <1>4, <1>5, <1>6, NetBoxStays DEF Kept, BInv

LEMMA BeginMovesKeeps == IInv /\ BeginMoves => Kept
<1> SUFFICES ASSUME IInv, BeginMoves PROVE Kept
  OBVIOUS
<1>1. /\ TypeOK /\ Sound(nb) /\ LeftInv /\ QueueInv /\ PrimaryInv
  BY DEF IInv, SeqTypeOK, BInv
<1>2. /\ step = "ifaces" /\ step' = "moves" /\ left' = {a \in Addrs : move'[a] # None}
      /\ UNCHANGED <<cloud, nb, cache, failures, changes, whole, clean>>
      /\ UNCHANGED <<change, pendMove, newIfs, newIps, pendPrim, madeIfs, madeIps>>
  BY DEF BeginMoves, Goes
<1>3. /\ move' = [a \in Addrs |-> IF pendMove[a] \in madeIfs THEN pendMove[a] ELSE move[a]]
      /\ \A a \in Addrs : move'[a] = IF pendMove[a] \in madeIfs THEN pendMove[a] ELSE move[a]
  BY DEF BeginMoves
<1>4. move' \in [Addrs -> Ifaces \cup {None}]
  BY <1>1, <1>3 DEF TypeOK
<1>5. TypeOK'
  BY <1>1, <1>2, <1>4 DEF TypeOK, Steps
<1>6. LeftInv'
  BY <1>1, <1>2 DEF LeftInv
<1>7. QueueInv'
  <2>1. madeIfs \subseteq Ifaces
    BY <1>1 DEF TypeOK
  <2>2. \A a \in Addrs : move'[a] # None => move[a] # None \/ pendMove[a] # None
    BY <1>3, <2>1, Markers
  <2> QED
    BY <1>1, <1>2, <2>2 DEF QueueInv, Listed
<1>8. PrimaryInv'
  BY <1>1, <1>2 DEF PrimaryInv, Unwritten
<1> QED
  BY <1>1, <1>2, <1>5, <1>6, <1>7, <1>8, NetBoxStays DEF Kept, BInv

LEMMA BeginPrimariesKeeps == IInv /\ BeginPrimaries => Kept
<1> SUFFICES ASSUME IInv, BeginPrimaries PROVE Kept
  OBVIOUS
<1>1. /\ TypeOK /\ Sound(nb) /\ LeftInv /\ QueueInv /\ PrimaryInv
  BY DEF IInv, SeqTypeOK, BInv
<1>2. /\ step = "ips" /\ step' = "primaries" /\ left' = {v \in Vms : change'[v] \in Addrs}
      /\ UNCHANGED <<cloud, nb, cache, failures, changes, whole, clean>>
      /\ UNCHANGED <<move, pendMove, newIfs, newIps, pendPrim, madeIfs, madeIps>>
  BY DEF BeginPrimaries, Goes
<1>3. /\ change' = [v \in Vms |-> IF change[v] = Pending /\ pendPrim[v] \in madeIps
                                  THEN pendPrim[v] ELSE change[v]]
      /\ \A v \in Vms : change'[v] = IF change[v] = Pending /\ pendPrim[v] \in madeIps
                                     THEN pendPrim[v] ELSE change[v]
  BY DEF BeginPrimaries
<1>4. change' \in [Vms -> Addrs \cup {None, Pending, Keep}]
  BY <1>1, <1>3 DEF TypeOK
<1>5. TypeOK'
  BY <1>1, <1>2, <1>4 DEF TypeOK, Steps
<1>6. LeftInv'
  BY <1>1, <1>2 DEF LeftInv
<1>7. QueueInv'
  <2>1. \A v \in Vms : change'[v] \in Addrs \ Listed => change'[v] = change[v]
    BY <1>1, <1>3 DEF QueueInv
  <2> QED
    BY <1>1, <1>2, <2>1 DEF QueueInv, Listed
<1>8. PrimaryInv'
  <2>1. madeIps \subseteq Addrs
    BY <1>1 DEF TypeOK
  <2>2. \A v \in Vms : /\ change'[v] = None => change[v] = None
                       /\ change'[v] \in Addrs \cup {Pending} => change[v] \in Addrs \cup {Pending}
    BY <1>3, <2>1, Markers
  <2> QED
    BY <1>1, <1>2, <2>2 DEF PrimaryInv, Unwritten
<1> QED
  BY <1>1, <1>2, <1>5, <1>6, <1>7, <1>8, NetBoxStays DEF Kept, BInv

LEMMA BeginKeeps == IInv /\ Begin => Kept
BY GoesKeeps, BeginMovesKeeps, BeginPrimariesKeeps
   DEF Begin, BeginProcess, BeginUnset, BeginInterfaces, BeginIps

\* The sync ends, or the process dies.
LEMMA ForgetKeeps ==
    ASSUME IInv, Forget, failures' \in 0..MaxFailures, whole' \in BOOLEAN,
           clean' \in 0..MaxClean
    PROVE  Kept
<1>1. TypeOK /\ Sound(nb) /\ cloud \in Clouds
  BY DEF IInv, SeqTypeOK, BInv, LeftInv
<1>2. /\ step' = "idle" /\ left' = {} /\ cache' = FreshNetBox({}) /\ NoQueues'
      /\ UNCHANGED <<cloud, nb, changes>>
  BY DEF Forget, NoQueues
<1>3. cache' \in NetBox
  BY <1>2 DEF FreshNetBox, NetBox, Place
<1>4. TypeOK'
  BY <1>1, <1>2, <1>3 DEF TypeOK, NoQueues, Steps
<1>5. BInv'
  BY <1>1, <1>2, IdleBInv
<1> QED
  BY <1>1, <1>2, <1>4, <1>5, NetBoxStays DEF Kept

LEMMA EndKeeps == IInv /\ (End \/ Crash) => Kept
<1> SUFFICES ASSUME IInv, End \/ Crash PROVE Kept
  OBVIOUS
<1>1. TypeOK
  BY DEF IInv, SeqTypeOK
<1>2. Forget /\ clean' \in 0..MaxClean
  BY <1>1, MaxCleanIs DEF End, Crash, TypeOK
<1>3. failures' \in 0..MaxFailures /\ whole' \in BOOLEAN
  BY <1>1, FailuresTyped DEF End, Crash, Succeeds
<1> QED
  BY <1>2, <1>3, ForgetKeeps

LEMMA BatchKeeps == IInv /\ Next => Kept
BY CloudChangesKeeps, LoadKeeps, DeleteOrphanKeeps, ProcessKeeps, ProcessFailsKeeps,
   UnsetPrimaryKeeps, CreateInterfaceKeeps, UpdateIpKeeps, CreateIpKeeps, SetPrimaryKeeps,
   BeginKeeps, EndKeeps DEF Next

-----------------------------------------------------------------------------
(* Steps of the sequential sync                                            *)

SeqKept == SeqTypeOK' /\ Sound(nb') /\ BInv' /\ SeqInv' /\ UnlistedStay /\ SettledPrimariesStay

SeqOnly == /\ step = "idle"
           /\ UNCHANGED <<cloud, batch, changes>>
           /\ clean' \in 0..MaxClean
           /\ failures' \in 0..MaxFailures /\ whole' \in BOOLEAN

\* The batch is idle, and stays so.
LEMMA BatchIsIdle ==
    ASSUME IInv, SeqOnly, nb' \in NetBox
    PROVE  TypeOK' /\ BInv'
<1>1. TypeOK /\ NoQueues /\ cloud \in Clouds
  BY DEF IInv, SeqTypeOK, BInv, LeftInv, SeqOnly
<1>2. TypeOK'
  BY <1>1 DEF SeqOnly, TypeOK, batch, queues
<1>3. NoQueues' /\ step' = "idle" /\ cloud' \in Clouds
  BY <1>1 DEF SeqOnly, NoQueues, batch, queues
<1> QED
  BY <1>2, <1>3, IdleBInv

\* What the invariant says of a sequential sync under way.
LEMMA SeqFacts ==
    ASSUME IInv
    PROVE  /\ TypeOK /\ Sound(nb) /\ nb \in NetBox /\ cloud \in Clouds /\ Distinct(cloud)
           /\ at # "off" => step = "idle"
           /\ at \in {"iface", "address", "primary"} => vm \in Vms
           /\ todo \subseteq Vms /\ slots \subseteq Slots
           /\ known \subseteq Vms /\ was \in [Vms -> Addrs \cup {None}] /\ got \subseteq Addrs
           /\ vm \in Vms \cup {None} /\ clean \in 0..MaxClean
BY DistinctAssumption DEF IInv, SeqTypeOK, TypeOK, BInv, LeftInv, SeqInv

LEMMA SeqBeginsKeeps == IInv /\ SeqBegins => SeqKept
<1> SUFFICES ASSUME IInv, SeqBegins PROVE SeqKept
  OBVIOUS
<1>1. /\ at' = "orphans" /\ todo' \subseteq nb.vms \ cloud.vms /\ step = "idle"
      /\ UNCHANGED <<cloud, nb, batch, changes, clean, vm, slots, known, was, got>>
  BY DEF SeqBegins
<1>2. failures' \in 0..MaxFailures /\ whole' \in BOOLEAN
  <2>1. CASE CallFails
    BY <2>1, FailuresTyped, SeqFacts
  <2>2. CASE whole' = TRUE /\ UNCHANGED failures
    BY <2>2, SeqFacts DEF TypeOK
  <2> QED
    BY <2>1, <2>2 DEF SeqBegins
<1>3. TypeOK' /\ BInv'
  BY <1>1, <1>2, SeqFacts, BatchIsIdle DEF SeqOnly
<1>4. SeqTypeOK'
  BY <1>1, <1>3, SeqFacts DEF SeqTypeOK, NetBox
<1>5. SeqInv'
  BY <1>1 DEF IInv, SeqInv, batch
<1> QED
  BY <1>1, <1>3, <1>4, <1>5, NetBoxStays, SeqFacts DEF SeqKept

LEMMA SeqDeleteOrphanKeeps ==
    ASSUME IInv, NEW v \in Vms, SeqDeleteOrphan(v)
    PROVE  SeqKept
<1>1. /\ at = "orphans" /\ v \in todo /\ todo' = todo \ {v} /\ step = "idle"
      /\ v \in nb.vms /\ v \notin cloud.vms
      /\ UNCHANGED <<cloud, batch, changes, clean, at, vm, slots, known, was, got>>
  BY DEF SeqDeleteOrphan, IInv, SeqInv
<1>2. failures' \in 0..MaxFailures /\ whole' \in BOOLEAN
  BY FailuresTyped, SeqFacts DEF SeqDeleteOrphan
<1>3. /\ nb' \in NetBox /\ Sound(nb') /\ nb.vms \ {v} \subseteq nb'.vms
      /\ \A w \in Vms : w # v => nb'.prim[w] = nb.prim[w]
      /\ \A a \in Addrs : nb'.ip[a] # nb.ip[a] => nb.ip[a][1] = v /\ v \notin nb'.vms
  <2>1. CASE nb' = Deleted(v)
    BY <2>1, SeqFacts, DeletedIs, DeletedSound DEF IfacesOf
  <2>2. CASE UNCHANGED nb
    BY <2>2, SeqFacts
  <2> QED
    BY <2>1, <2>2 DEF SeqDeleteOrphan
<1>4. TypeOK' /\ BInv'
  BY <1>1, <1>2, <1>3, SeqFacts, BatchIsIdle DEF SeqOnly
<1>5. SeqTypeOK'
  BY <1>1, <1>4, SeqFacts DEF SeqTypeOK
<1>6. SeqInv'
  BY <1>1, <1>3 DEF IInv, SeqInv, batch
<1>7. UnlistedStay
  BY <1>1, <1>3 DEF UnlistedStay
<1>8. SettledPrimariesStay
  BY <1>1, <1>3, SeqFacts DEF SettledPrimariesStay, TypeOK
<1> QED
  BY <1>3, <1>4, <1>5, <1>6, <1>7, <1>8 DEF SeqKept

LEMMA FetchVmsKeeps == IInv /\ FetchVms => SeqKept
<1> SUFFICES ASSUME IInv, FetchVms PROVE SeqKept
  OBVIOUS
<1>1. /\ at = "orphans" /\ at' = "vms" /\ todo' = cloud.vms
      /\ step = "idle"
      /\ UNCHANGED <<cloud, nb, batch, changes, clean, vm, slots, got>>
  BY SeqFacts DEF FetchVms
<1>2. failures' \in 0..MaxFailures /\ whole' \in BOOLEAN
  BY FailuresTyped, SeqFacts DEF FetchVms
<1>3. TypeOK' /\ BInv'
  BY <1>1, <1>2, SeqFacts, BatchIsIdle DEF SeqOnly
<1>4. known' \subseteq Vms /\ was' \in [Vms -> Addrs \cup {None}]
  BY SeqFacts DEF FetchVms, TypeOK, NetBox
<1>5. SeqTypeOK'
  BY <1>1, <1>3, <1>4, SeqFacts DEF SeqTypeOK, TypeOK
<1>6. SeqInv'
  BY <1>1, SeqFacts DEF IInv, SeqInv, batch, TypeOK
<1> QED
  BY <1>1, <1>3, <1>5, <1>6, NetBoxStays, SeqFacts DEF SeqKept

LEMMA TakeVmKeeps ==
    ASSUME IInv, NEW v \in Vms, TakeVm(v)
    PROVE  SeqKept
<1>1. /\ at = "vms" /\ v \in todo /\ todo' = todo \ {v} /\ step = "idle"
      /\ UNCHANGED <<cloud, batch, changes, clean, known, was, got>>
      /\ \/ at' = "iface" /\ vm' = v /\ slots' = Slots
         \/ UNCHANGED <<at, vm, slots>>
  BY SeqFacts DEF TakeVm
<1>2. failures' \in 0..MaxFailures /\ whole' \in BOOLEAN
  BY FailuresTyped, SeqFacts DEF TakeVm
<1>3. /\ nb' \in NetBox /\ nb.vms \subseteq nb'.vms
      /\ nb'.ifs = nb.ifs /\ nb'.ip = nb.ip /\ nb'.prim = nb.prim
  BY SeqFacts, WithVm DEF TakeVm
<1>4. TypeOK' /\ BInv'
  BY <1>1, <1>2, <1>3, SeqFacts, BatchIsIdle DEF SeqOnly
<1>5. SeqTypeOK'
  BY <1>1, <1>4, SeqFacts DEF SeqTypeOK
<1>6. SeqInv'
  <2>1. \A k \in Idx : <<k, "addr">> \in slots' => <<k, "nat">> \in slots'
    BY <1>1 DEF IInv, SeqInv, Slots, Kinds
  <2>2. at' = "iface" => vm' = v /\ (v \notin known => nb.prim[v] = None)
    <3>1. \A w \in Vms : w \notin nb.vms => nb.prim[w] = None
      BY SeqFacts DEF Sound
    <3> QED
      BY <1>1, <3>1 DEF TakeVm
  <2> QED
    BY <1>1, <1>3, <2>1, <2>2, SeqFacts DEF IInv, SeqInv, batch
<1> QED
  BY <1>3, <1>4, <1>5, <1>6, OnlyGrows, SeqFacts DEF SeqKept

\* The interfaces cannot be read, or have been seen to.
LEMMA LeaveInterfacesKeeps == IInv /\ (NoInterfaces \/ EndInterfaces) => SeqKept
<1> SUFFICES ASSUME IInv, NoInterfaces \/ EndInterfaces PROVE SeqKept
  OBVIOUS
<1>1. /\ at = "iface" /\ at' = "primary" /\ slots' = {} /\ step = "idle"
      /\ UNCHANGED <<cloud, nb, batch, changes, clean, todo, vm, known, was, got>>
  BY SeqFacts DEF NoInterfaces, EndInterfaces
<1>2. failures' \in 0..MaxFailures /\ whole' \in BOOLEAN
  BY FailuresTyped, SeqFacts DEF NoInterfaces, EndInterfaces, Succeeds
<1>3. TypeOK' /\ BInv'
  BY <1>1, <1>2, SeqFacts, BatchIsIdle DEF SeqOnly
<1>4. SeqTypeOK'
  BY <1>1, <1>3, SeqFacts DEF SeqTypeOK
<1>5. SeqInv'
  BY <1>1 DEF IInv, SeqInv, batch
<1> QED
  BY <1>1, <1>3, <1>4, <1>5, NetBoxStays, SeqFacts DEF SeqKept

\* The next address of the VM at hand.
LEMMA SlotIs ==
    ASSUME IInv, vm \in Vms, slots # {}
    PROVE  /\ pos \in Idx /\ iface \in Ifaces /\ slot \in slots /\ slot[1] = pos
           /\ slot[2] = IF <<pos, "addr">> \in slots THEN "addr" ELSE "nat"
           /\ ip \in Addrs \cup {None} /\ ip \in Listed
           /\ ip \in {cloud.addr[iface], cloud.nat[iface]}
<1>1. \A s \in slots : s[1] \in Idx /\ s[2] \in Kinds /\ s = <<s[1], s[2]>>
  BY SeqFacts DEF Slots
<1>2. pos \in {s[1] : s \in slots}
  <2>1. {s[1] : s \in slots} \in SUBSET Idx /\ {s[1] : s \in slots} # {}
    BY <1>1
  <2> QED
    BY <2>1, FirstOf DEF pos
<1>3. slot \in slots
  <2>1. PICK s \in slots : s[1] = pos
    BY <1>2
  <2>2. <<pos, "addr">> \in slots \/ <<pos, "nat">> \in slots
    BY <1>1, <2>1 DEF Kinds
  <2> QED
    BY <2>2 DEF slot
<1>4. pos \in Idx /\ iface \in Ifaces
  BY <1>1, <1>2 DEF iface, Ifaces
<1>5. ip \in {cloud.addr[iface], cloud.nat[iface]}
  BY DEF ip
<1>6. /\ cloud.addr[iface] \in Addrs \cup {None} /\ cloud.nat[iface] \in Addrs \cup {None}
      /\ cloud.addr[iface] \in Listed /\ cloud.nat[iface] \in Listed
  BY <1>4, SeqFacts, Markers DEF TypeOK, Listed
<1> QED
  BY <1>3, <1>4, <1>5, <1>6 DEF slot

\* On to the next address.
LEMMA AdvanceKeeps ==
    ASSUME IInv, vm \in Vms, slots # {}, Advance
    PROVE  /\ at' \in {"iface", "address"} /\ slots' \subseteq slots
           /\ at' = "address" => slots' # {}
           /\ \A k \in Idx : <<k, "addr">> \in slots' => <<k, "nat">> \in slots'
<1>1. /\ slots' = slots \ {slot}
      /\ at' = IF slot[2] = "addr" THEN "address" ELSE "iface"
  BY DEF Advance
<1>2. slot = <<pos, IF <<pos, "addr">> \in slots THEN "addr" ELSE "nat">>
  BY DEF slot
<1>3. \A k \in Idx : <<k, "addr">> \in slots => <<k, "nat">> \in slots
  BY DEF IInv, SeqInv
<1>4. pos \in Idx
  BY SlotIs
<1>5. CASE <<pos, "addr">> \in slots
  <2>1. slot = <<pos, "addr">> /\ <<pos, "nat">> \in slots'
    BY <1>1, <1>2, <1>3, <1>4, <1>5
  <2> QED
    BY <1>1, <1>3, <2>1
<1>6. CASE <<pos, "addr">> \notin slots
  <2>1. slot = <<pos, "nat">> /\ <<pos, "addr">> \notin slots
    BY <1>2, <1>6
  <2> QED
    BY <1>1, <1>3, <2>1
<1> QED
  BY <1>5, <1>6

LEMMA SyncInterfaceKeeps == IInv /\ SyncInterface => SeqKept
<1> SUFFICES ASSUME IInv, SyncInterface PROVE SeqKept
  OBVIOUS
<1>1. /\ at = "iface" /\ vm \in Vms /\ slots # {} /\ step = "idle" /\ iface \in Ifaces
      /\ UNCHANGED <<cloud, batch, changes, clean, todo, vm, known, was, got>>
      /\ \/ at' = "address" /\ UNCHANGED slots
         \/ UNCHANGED at /\ slots' = {s \in slots : s[1] # pos}
  BY SeqFacts, SlotIs DEF SyncInterface
<1>2. failures' \in 0..MaxFailures /\ whole' \in BOOLEAN
  BY FailuresTyped, SeqFacts DEF SyncInterface
<1>3. /\ nb' \in NetBox /\ nb'.vms = nb.vms /\ nb.ifs \subseteq nb'.ifs
      /\ nb'.ip = nb.ip /\ nb'.prim = nb.prim
  <2>1. CASE nb' = [nb EXCEPT !.ifs = @ \cup {iface}]
    BY <1>1, <2>1, SeqFacts DEF NetBox
  <2>2. CASE UNCHANGED nb
    BY <2>2, SeqFacts
  <2> QED
    BY <2>1, <2>2 DEF SyncInterface
<1>4. TypeOK' /\ BInv'
  BY <1>1, <1>2, <1>3, SeqFacts, BatchIsIdle DEF SeqOnly
<1>5. SeqTypeOK'
  BY <1>1, <1>4, SeqFacts DEF SeqTypeOK
<1>6. SeqInv'
  <2>1. \A k \in Idx : <<k, "addr">> \in slots' => <<k, "nat">> \in slots'
    BY <1>1 DEF IInv, SeqInv
  <2> QED
    BY <1>1, <1>3, <2>1 DEF IInv, SeqInv, batch
<1> QED
  BY <1>3, <1>4, <1>5, <1>6, OnlyGrows, SeqFacts DEF SeqKept

\* Where the cloud has an address, and NetBox too, no other interface has it.
LEMMA SettledIsOnly ==
    ASSUME IInv, NEW v \in Vms, Settled(v), NEW i \in Ifaces,
           nb.prim[v] \in {cloud.addr[i], cloud.nat[i]}
    PROVE  nb.ip[nb.prim[v]] = i /\ i[1] = v
<1>1. PICK k \in Idx : /\ nb.prim[v] = cloud.addr[<<v, k>>]
                       /\ nb.prim[v] \in Private
                       /\ nb.ip[nb.prim[v]] = <<v, k>>
  BY DEF Settled
<1>2. <<v, k>> \in Ifaces /\ nb.prim[v] # None
  BY <1>1, Markers DEF Ifaces
<1>3. i = <<v, k>>
  BY <1>1, <1>2, SeqFacts DEF Distinct
<1> QED
  BY <1>1, <1>3

\* Primary addresses are unset, but not settled ones.
LEMMA SomeUnset ==
    ASSUME IInv, NEW S, nb' = [nb EXCEPT !.prim = [w \in Vms |-> IF w \in S THEN None ELSE @[w]]],
           \A v \in Vms \cap S : ~ Settled(v)
    PROVE  /\ nb' \in NetBox /\ Sound(nb') /\ UnlistedStay /\ SettledPrimariesStay
           /\ \A w \in Vms : nb'.prim[w] \in {None, nb.prim[w]}
<1>1. /\ nb' \in NetBox /\ nb'.vms = nb.vms /\ nb'.ifs = nb.ifs /\ nb'.ip = nb.ip
      /\ \A w \in Vms : nb'.prim[w] = IF w \in S THEN None ELSE nb.prim[w]
  BY SeqFacts, WithoutPrims
<1>2. Sound(nb')
  BY <1>1, SeqFacts, GrowsSound
<1>3. SettledPrimariesStay
  BY <1>1, SeqFacts DEF SettledPrimariesStay, TypeOK
<1> QED
  BY <1>1, <1>2, <1>3 DEF UnlistedStay

LEMMA UnsetHoldersKeeps == IInv /\ UnsetHolders => SeqKept
<1> SUFFICES ASSUME IInv, UnsetHolders PROVE SeqKept
  OBVIOUS
<1>1. /\ at = "address" /\ vm \in Vms /\ slots # {} /\ step = "idle"
      /\ ip # None /\ nb.ip[ip] # iface
      /\ UNCHANGED <<cloud, batch, changes, clean, todo, vm, known, was, got>>
      /\ UNCHANGED <<at, slots>> \/ Advance
  BY SeqFacts DEF UnsetHolders, IInv, SeqInv
<1>2. failures' \in 0..MaxFailures /\ whole' \in BOOLEAN
  BY FailuresTyped, SeqFacts DEF UnsetHolders
<1>3. \A v \in Vms : v \in Holders(ip) => ~ Settled(v)
  BY <1>1, SlotIs, SettledIsOnly DEF Holders
<1>4. /\ nb' \in NetBox /\ Sound(nb') /\ UnlistedStay /\ SettledPrimariesStay
      /\ \A w \in Vms : nb'.prim[w] \in {None, nb.prim[w]}
  <2>1. CASE nb' = Unset(ip)
    <3>1. nb' = [nb EXCEPT !.prim = [w \in Vms |-> IF w \in Holders(ip) THEN None ELSE @[w]]]
      BY <2>1 DEF Unset, Holders
    <3> QED
      BY <1>3, <3>1, SomeUnset
  <2>2. CASE UNCHANGED nb
    BY <2>2, SeqFacts, NetBoxStays
  <2> QED
    BY <2>1, <2>2 DEF UnsetHolders
<1>5. TypeOK' /\ BInv'
  BY <1>1, <1>2, <1>4, SeqFacts, BatchIsIdle DEF SeqOnly
<1>6. /\ at' \in {"iface", "address"} /\ slots' \subseteq slots
      /\ at' = "address" => slots' # {}
      /\ \A k \in Idx : <<k, "addr">> \in slots' => <<k, "nat">> \in slots'
  <2>1. CASE UNCHANGED <<at, slots>>
    BY <1>1, <2>1 DEF IInv, SeqInv
  <2>2. CASE Advance
    BY <1>1, <2>2, AdvanceKeeps
  <2> QED
    BY <1>1, <2>1, <2>2
<1>7. SeqTypeOK'
  BY <1>1, <1>5, <1>6, SeqFacts DEF SeqTypeOK
<1>8. SeqInv'
  BY <1>1, <1>4, <1>6, SeqFacts DEF IInv, SeqInv, batch
<1> QED
  BY <1>4, <1>5, <1>7, <1>8 DEF SeqKept

LEMMA SyncAddressKeeps == IInv /\ SyncAddress => SeqKept
<1> SUFFICES ASSUME IInv, SyncAddress PROVE SeqKept
  OBVIOUS
<1>1. /\ at = "address" /\ vm \in Vms /\ slots # {} /\ step = "idle" /\ Advance
      /\ UNCHANGED <<cloud, batch, changes, clean, todo, vm, known, was>>
      /\ got' = got \/ (got' = got \cup {ip} /\ ip # None)
  BY SeqFacts DEF SyncAddress, IInv, SeqInv
<1>2. failures' \in 0..MaxFailures /\ whole' \in BOOLEAN
  BY FailuresTyped, SeqFacts DEF SyncAddress
<1>3. iface \in Ifaces /\ ip \in Addrs \cup {None} /\ ip \in Listed
  BY <1>1, SlotIs
<1>4. /\ nb' \in NetBox /\ Sound(nb') /\ UnlistedStay /\ SettledPrimariesStay
      /\ nb'.prim = nb.prim
  <2>1. CASE ip # None
    BY <1>3, <2>1, SeqFacts, ListedPlaced DEF SyncAddress
  <2>2. CASE ip = None
    BY <2>2, SeqFacts, NetBoxStays DEF SyncAddress
  <2> QED
    BY <2>1, <2>2
<1>5. TypeOK' /\ BInv'
  BY <1>1, <1>2, <1>4, SeqFacts, BatchIsIdle DEF SeqOnly
<1>6. /\ at' \in {"iface", "address"} /\ slots' \subseteq slots
      /\ at' = "address" => slots' # {}
      /\ \A k \in Idx : <<k, "addr">> \in slots' => <<k, "nat">> \in slots'
  BY <1>1, AdvanceKeeps
<1>7. SeqTypeOK'
  <2>1. got' \subseteq Addrs
    BY <1>1, <1>3, SeqFacts
  <2> QED
    BY <1>1, <1>5, <1>6, <2>1, SeqFacts DEF SeqTypeOK
<1>8. SeqInv'
  BY <1>1, <1>4, <1>6, SeqFacts DEF IInv, SeqInv, batch
<1> QED
  BY <1>4, <1>5, <1>7, <1>8 DEF SeqKept

\* The first address of a VM that is in S.
LEMMA FirstPrivateIs ==
    ASSUME IInv, NEW v \in Vms, NEW S \in SUBSET Addrs, FirstPrivate(v, S) # None
    PROVE  /\ FirstPrivate(v, S) \in S
           /\ \E k \in Idx : FirstPrivate(v, S) \in {cloud.addr[<<v, k>>], cloud.nat[<<v, k>>]}
<1> DEFINE in == {k \in Idx : cloud.addr[<<v, k>>] \in S}
<1>1. in # {} /\ FirstPrivate(v, S) = cloud.addr[<<v, First(in)>>]
  BY DEF FirstPrivate
<1>2. First(in) \in in
  BY <1>1, FirstOf
<1> QED
  BY <1>1, <1>2

LEMMA FirstPublicIs ==
    ASSUME IInv, NEW v \in Vms, NEW S \in SUBSET Addrs, FirstPublic(v, S) # None
    PROVE  /\ FirstPublic(v, S) \in S
           /\ \E k \in Idx : FirstPublic(v, S) \in {cloud.addr[<<v, k>>], cloud.nat[<<v, k>>]}
<1> DEFINE in == {k \in Idx : {cloud.addr[<<v, k>>], cloud.nat[<<v, k>>]} \cap S # {}}
           k0 == First(in)
<1>1. /\ in # {}
      /\ FirstPublic(v, S) = IF cloud.addr[<<v, k0>>] \in S THEN cloud.addr[<<v, k0>>]
                                                          ELSE cloud.nat[<<v, k0>>]
  BY DEF FirstPublic
<1>2. k0 \in in
  BY <1>1, FirstOf
<1>3. k0 \in Idx /\ {cloud.addr[<<v, k0>>], cloud.nat[<<v, k0>>]} \cap S # {}
  BY <1>2
<1> HIDE DEF k0
<1> QED
  BY <1>1, <1>3

\* A known VM is to have its first private address, if it has one.
LEMMA WantedIs ==
    ASSUME IInv, vm \in Vms
    PROVE  /\ Wanted # None =>
                 /\ Wanted \in Addrs /\ Wanted \in Listed
                 /\ \E k \in Idx : Wanted \in {cloud.addr[<<vm, k>>], cloud.nat[<<vm, k>>]}
           /\ vm \in known /\ PrivateOf(vm) # None => Wanted = PrivateOf(vm)
<1> DEFINE of == IF vm \in known THEN Addrs ELSE got
           private == FirstPrivate(vm, of \cap Private)
           public == FirstPublic(vm, of \cap Public)
<1>1. Wanted = IF private # None THEN private ELSE public
  BY DEF Wanted
<1>2. of \cap Private \in SUBSET Addrs /\ of \cap Public \in SUBSET Addrs
  BY SeqFacts
<1>3. ASSUME Wanted # None
      PROVE  /\ Wanted \in Addrs
             /\ \E k \in Idx : Wanted \in {cloud.addr[<<vm, k>>], cloud.nat[<<vm, k>>]}
  <2>1. CASE private # None
    BY <1>1, <1>2, <2>1, FirstPrivateIs
  <2>2. CASE private = None
    BY <1>1, <1>2, <1>3, <2>2, FirstPublicIs
  <2> QED
    BY <2>1, <2>2
<1>4. Wanted # None => Wanted \in Listed
  BY <1>3, SeqFacts, CloudAddrs
<1>5. vm \in known => private = PrivateOf(vm)
  <2>1. Addrs \cap Private = Private
    BY Markers
  <2> QED
    BY <2>1 DEF FirstPrivate, PrivateOf
<1> QED
  BY <1>1, <1>3, <1>4, <1>5

LEMMA KeepPrimaryKeeps == IInv /\ KeepPrimary => SeqKept
<1> SUFFICES ASSUME IInv, KeepPrimary PROVE SeqKept
  OBVIOUS
<1>1. /\ at = "primary" /\ at' = "vms" /\ vm' = None /\ got' = {} /\ step = "idle"
      /\ UNCHANGED <<cloud, nb, batch, failures, changes, whole, clean,
                     todo, slots, known, was>>
  BY SeqFacts DEF KeepPrimary, NextVm
<1>2. TypeOK' /\ BInv'
  BY <1>1, SeqFacts, BatchIsIdle DEF SeqOnly, TypeOK
<1>3. SeqTypeOK'
  BY <1>1, <1>2, SeqFacts DEF SeqTypeOK
<1>4. SeqInv'
  BY <1>1 DEF IInv, SeqInv, batch
<1> QED
  BY <1>1, <1>2, <1>3, <1>4, NetBoxStays, SeqFacts DEF SeqKept

LEMMA TakePrimaryKeeps == IInv /\ TakePrimary => SeqKept
<1> SUFFICES ASSUME IInv, TakePrimary PROVE SeqKept
  OBVIOUS
<1>1. /\ at = "primary" /\ vm \in Vms /\ step = "idle" /\ Wanted \in Addrs
      /\ UNCHANGED <<cloud, batch, changes, clean, todo, slots, known, was>>
      /\ UNCHANGED <<at, vm, got>> \/ NextVm
  BY SeqFacts DEF TakePrimary, SkipsPrimary
<1>2. failures' \in 0..MaxFailures /\ whole' \in BOOLEAN
  BY FailuresTyped, SeqFacts DEF TakePrimary
<1> DEFINE others == Holders(Wanted) \ {vm}
<1>3. \A v \in Vms : v \in others => ~ Settled(v)
  <2> SUFFICES ASSUME NEW v \in Vms, v # vm, nb.prim[v] = Wanted, Settled(v) PROVE FALSE
    BY DEF Holders
  <2>1. PICK k \in Idx : Wanted \in {cloud.addr[<<vm, k>>], cloud.nat[<<vm, k>>]}
    BY <1>1, WantedIs, Markers
  <2> QED
    BY <1>1, <2>1, SettledIsOnly DEF Ifaces
<1>4. /\ nb' \in NetBox /\ Sound(nb') /\ UnlistedStay /\ SettledPrimariesStay
      /\ \A w \in Vms : nb'.prim[w] \in {None, nb.prim[w]}
  <2>1. CASE nb' = [nb EXCEPT !.prim = [w \in Vms |-> IF w # vm /\ @[w] = Wanted
                                                      THEN None ELSE @[w]]]
    <3>1. nb' = [nb EXCEPT !.prim = [w \in Vms |-> IF w \in others THEN None ELSE @[w]]]
      BY <2>1 DEF Holders
    <3> HIDE DEF others
    <3> QED
      BY <1>3, <3>1, SomeUnset
  <2>2. CASE UNCHANGED nb
    BY <2>2, SeqFacts, NetBoxStays
  <2> QED
    BY <2>1, <2>2 DEF TakePrimary
<1>5. TypeOK' /\ BInv'
  BY <1>1, <1>2, <1>4, SeqFacts, BatchIsIdle DEF SeqOnly
<1>6. SeqTypeOK'
  BY <1>1, <1>5, SeqFacts DEF SeqTypeOK, NextVm
<1>7. SeqInv'
  BY <1>1, <1>4, SeqFacts DEF IInv, SeqInv, batch, NextVm
<1> QED
  BY <1>4, <1>5, <1>6, <1>7 DEF SeqKept

LEMMA SetPrimaryIpKeeps == IInv /\ SetPrimaryIp => SeqKept
<1> SUFFICES ASSUME IInv, SetPrimaryIp PROVE SeqKept
  OBVIOUS
<1> DEFINE own   == IfacesOf(nb.ifs, vm)
           i0    == <<vm, First({i[2] : i \in own})>>
           moves == own # {} /\ nb.ip[Wanted] \notin own
           moved == IF moves /\ MayPlace(Wanted, i0) THEN Placed(nb, Wanted, i0) ELSE nb
<1>1. /\ at = "primary" /\ vm \in Vms /\ vm \notin todo /\ step = "idle" /\ Wanted \in Addrs
      /\ at' = "vms" /\ vm' = None /\ got' = {}
      /\ UNCHANGED <<cloud, batch, changes, clean, todo, slots, known, was>>
  BY SeqFacts DEF SetPrimaryIp, SkipsPrimary, NextVm, IInv, SeqInv
<1>2. failures' \in 0..MaxFailures /\ whole' \in BOOLEAN
  BY FailuresTyped, SeqFacts DEF SetPrimaryIp
<1>3. own # {} => i0 \in Ifaces
  <2>1. \A i \in own : i[1] = vm /\ i[2] \in Idx
    BY SeqFacts DEF IfacesOf, NetBox, Ifaces
  <2>2. own # {} => First({i[2] : i \in own}) \in Idx
    <3>1. {i[2] : i \in own} \in SUBSET Idx
      BY <2>1
    <3>2. own # {} => {i[2] : i \in own} # {}
      OBVIOUS
    <3> QED
      BY <3>1, <3>2, FirstOf
  <2> QED
    BY <1>1, <2>2 DEF Ifaces
<1>4. Wanted \in Listed
  BY <1>1, WantedIs, Markers
<1>5. /\ moved \in NetBox /\ Sound(moved)
      /\ moved.vms = nb.vms /\ moved.ifs = nb.ifs /\ moved.prim = nb.prim
      /\ \A b \in Addrs \ Listed : moved.ip[b] = nb.ip[b]
  <2>1. CASE moves /\ MayPlace(Wanted, i0)
    <3>1. moved = Placed(nb, Wanted, i0) /\ i0 \in Ifaces
      BY <1>3, <2>1
    <3>2. Sound(moved)
      BY <1>1, <2>1, <3>1, SeqFacts, PlaceSound
    <3> HIDE DEF moved, i0
    <3> QED
      BY <1>1, <1>4, <3>1, <3>2, SeqFacts, PlacedIs
  <2>2. CASE ~ (moves /\ MayPlace(Wanted, i0))
    <3>1. moved = nb
      BY <2>2
    <3> QED
      BY <3>1, SeqFacts
  <2> QED
    BY <2>1, <2>2
<1>6. \/ nb' = [moved EXCEPT !.prim[vm] = Wanted] /\ MayBePrimary(moved, vm, Wanted)
      \/ nb' = moved
      \/ nb' = nb
  BY DEF SetPrimaryIp
<1> HIDE DEF moved
<1>7. /\ nb' \in NetBox /\ Sound(nb') /\ nb'.vms = nb.vms
      /\ nb'.prim[vm] \in {nb.prim[vm], Wanted}
      /\ \A w \in Vms : w # vm => nb'.prim[w] = nb.prim[w]
      /\ \A b \in Addrs \ Listed : nb'.ip[b] = nb.ip[b]
  <2>1. CASE nb' = [moved EXCEPT !.prim[vm] = Wanted] /\ MayBePrimary(moved, vm, Wanted)
    <3>1. Sound(nb')
      BY <1>1, <1>5, <2>1, SetSound
    <3> QED
      BY <1>1, <1>5, <2>1, <3>1, WithPrim
  <2>2. CASE nb' = moved
    BY <1>5, <2>2
  <2>3. CASE nb' = nb
    BY <2>3, SeqFacts
  <2> QED
    BY <1>6, <2>1, <2>2, <2>3
<1> HIDE DEF own, i0, moves
<1>8. TypeOK' /\ BInv'
  BY <1>1, <1>2, <1>7, SeqFacts, BatchIsIdle DEF SeqOnly
<1>9. SeqTypeOK'
  BY <1>1, <1>8, SeqFacts DEF SeqTypeOK
<1>10. SeqInv'
  BY <1>1, <1>7, SeqFacts DEF IInv, SeqInv, batch
<1>11. UnlistedStay
  BY <1>7 DEF UnlistedStay
<1>12. Settled(vm) => nb'.prim[vm] \in {nb.prim[vm], PrivateOf(vm)}
  <2> SUFFICES ASSUME Settled(vm) PROVE nb'.prim[vm] \in {nb.prim[vm], PrivateOf(vm)}
    OBVIOUS
  <2>1. vm \in known
    BY <1>1, Markers DEF IInv, SeqInv, Settled
  <2>2. PrivateOf(vm) # None
    <3>1. {k \in Idx : cloud.addr[<<vm, k>>] \in Private} # {}
      BY DEF Settled
    <3>2. First({k \in Idx : cloud.addr[<<vm, k>>] \in Private})
             \in {k \in Idx : cloud.addr[<<vm, k>>] \in Private}
      BY <3>1, FirstOf
    <3> QED
      BY <3>1, <3>2, Markers DEF PrivateOf
  <2> QED
    BY <1>1, <1>7, <2>1, <2>2, WantedIs
<1>13. SettledPrimariesStay
  BY <1>1, <1>7, <1>12, SeqFacts DEF SettledPrimariesStay, TypeOK
<1> QED
  BY <1>7, <1>8, <1>9, <1>10, <1>11, <1>13 DEF SeqKept

LEMMA SeqForgetsKeeps == IInv /\ (SeqEnds \/ SeqDies) => SeqKept
<1> SUFFICES ASSUME IInv, SeqEnds \/ SeqDies PROVE SeqKept
  OBVIOUS
<1>1. at # "off" /\ step = "idle" /\ SeqForgets /\ UNCHANGED <<cloud, nb, batch, changes>>
  BY SeqFacts DEF SeqEnds, SeqDies
<1>2. failures' \in 0..MaxFailures /\ whole' \in BOOLEAN
  BY FailuresTyped, SeqFacts DEF SeqEnds, SeqDies, Succeeds
<1>3. clean' \in 0..MaxClean
  BY SeqFacts, MaxCleanIs DEF SeqEnds, SeqDies
<1>4. TypeOK' /\ BInv'
  BY <1>1, <1>2, <1>3, SeqFacts, BatchIsIdle DEF SeqOnly
<1>5. SeqTypeOK'
  BY <1>1, <1>4, SeqFacts DEF SeqTypeOK, SeqForgets
<1>6. SeqInv'
  BY <1>1 DEF SeqInv, SeqForgets
<1> QED
  BY <1>1, <1>4, <1>5, <1>6, NetBoxStays, SeqFacts DEF SeqKept

LEMMA SequentialKeeps == IInv /\ SeqNext => SeqKept
BY SeqBeginsKeeps, SeqDeleteOrphanKeeps, FetchVmsKeeps, TakeVmKeeps, LeaveInterfacesKeeps,
   SyncInterfaceKeeps, UnsetHoldersKeeps, SyncAddressKeeps, KeepPrimaryKeeps,
   TakePrimaryKeeps, SetPrimaryIpKeeps, SeqForgetsKeeps DEF SeqNext

-----------------------------------------------------------------------------
(* The specification                                                       *)

LEMMA InitIInv == InitSync => IInv
<1> SUFFICES ASSUME InitSync PROVE IInv
  OBVIOUS
<1>1. Init /\ at = "off" /\ Fresh /\ NoQueues
  BY DEF InitSync, Init
<1>2. \A S \in SUBSET Addrs : FreshNetBox(S) \in NetBox /\ Sound(FreshNetBox(S))
  BY DEF FreshNetBox, NetBox, Place, Sound
<1>3. nb \in NetBox /\ Sound(nb) /\ cache \in NetBox
  BY <1>1, <1>2 DEF Init
<1>4. TypeOK
  <2>1. failures \in 0..MaxFailures /\ changes \in 0..MaxChanges /\ clean \in 0..MaxClean
    <3>1. failures = 0 /\ changes = 0 /\ clean = 0
      BY <1>1 DEF Init
    <3> QED
      BY <3>1, BoundsAssumption, MaxCleanIs
  <2>2. whole \in BOOLEAN
    BY <1>1, Zenon DEF Init
  <2>3. /\ change \in [Vms -> Addrs \cup {None, Pending, Keep}]
        /\ move \in [Addrs -> Ifaces \cup {None}] /\ pendMove \in [Addrs -> Ifaces \cup {None}]
        /\ newIfs = {} /\ madeIfs = {} /\ newIps = {} /\ madeIps = {}
        /\ pendPrim \in [Vms -> Addrs \cup {None}]
    BY <1>1 DEF NoQueues
  <2>4. cloud \in Clouds /\ step = "idle" /\ left = {}
    BY <1>1 DEF Init
  <2> QED
    BY <1>3, <2>1, <2>2, <2>3, <2>4, CloudsAssumption DEF TypeOK, Steps
<1>5. SeqTypeOK
  BY <1>1, <1>4 DEF SeqTypeOK, Fresh
<1>6. QueueInv /\ \A v \in Vms : change[v] = Keep
  BY <1>1, NothingQueued
<1>7. BInv
  BY <1>1, <1>6, Markers DEF Init, BInv, LeftInv, PrimaryInv, Unwritten
<1>8. SeqInv
  BY <1>1 DEF SeqInv, Fresh
<1> QED
  BY <1>3, <1>5, <1>7, <1>8 DEF IInv

LEMMA StepKeeps ==
    ASSUME IInv, [NextSync]_syncVars
    PROVE  IInv' /\ UnlistedStay /\ SettledPrimariesStay
<1>1. CASE at = "off" /\ Next /\ UNCHANGED seq
  <2>1. Kept
    BY <1>1, BatchKeeps
  <2>2. SeqTypeOK'
    BY <1>1, <2>1 DEF Kept, IInv, SeqTypeOK, seq
  <2>3. SeqInv'
    BY <1>1 DEF IInv, SeqInv, seq
  <2> QED
    BY <2>1, <2>2, <2>3 DEF Kept, IInv, Sound
<1>2. CASE SeqNext
  <2>1. SeqKept
    BY <1>2, SequentialKeeps
  <2> QED
    BY <2>1 DEF SeqKept, IInv, Sound
<1>3. CASE UNCHANGED syncVars
  <2>1. SeqTypeOK'
    BY <1>3 DEF IInv, SeqTypeOK, TypeOK, syncVars, vars, seq, queues
  <2>2. BInv'
    <3>1. UNCHANGED <<cloud, nb, cache, step, left, queues>>
      BY <1>3 DEF syncVars, vars
    <3>2. LeftInv'
      BY <3>1 DEF IInv, BInv, LeftInv, NoQueues, queues
    <3>3. QueueInv'
      BY <3>1, QueuesStay DEF IInv, BInv
    <3>4. PrimaryInv'
      <4>1. \A v \in Vms : Unwritten(v)' => Unwritten(v) /\ nb'.prim[v] \in {None, nb.prim[v]}
        BY <3>1 DEF Unwritten
      <4>2. step' \in {"delete", "process"} => Sound(cache')
        BY <3>1 DEF IInv, BInv, PrimaryInv
      <4> QED
        BY <3>1, <4>1, <4>2, PrimariesStay DEF IInv, BInv, queues
    <3> QED
      BY <3>2, <3>3, <3>4 DEF BInv
  <2>3. SeqInv'
    BY <1>3 DEF IInv, SeqInv, syncVars, vars, seq
  <2>4. UNCHANGED nb
    BY <1>3 DEF syncVars, vars
  <2>5. Sound(nb') /\ UnlistedStay /\ SettledPrimariesStay
    BY <2>4, NetBoxStays DEF IInv
  <2> QED
    BY <2>1, <2>2, <2>3, <2>5 DEF IInv, Sound
<1> QED
  BY <1>1, <1>2, <1>3 DEF NextSync

THEOREM Invariance == SyncSpec => []IInv
<1>1. IInv /\ [NextSync]_syncVars => IInv'
  BY StepKeeps
<1>2. QED
  BY <1>1, InitIInv, PTL DEF SyncSpec

-----------------------------------------------------------------------------
(* Theorems: types, addresses and primary addresses                        *)

\* All variables keep their types: an address is pending as itself, not as a marker.
THEOREM TypeCorrect == SyncSpec => []SeqTypeOK
<1>1. IInv => SeqTypeOK
  BY DEF IInv
<1>2. QED
  BY <1>1, Invariance, PTL

\* An address that the cloud does not have stays where it is in NetBox, unless the VM it
\* is on is deleted: neither kind of sync takes it from another VM (_select_primary_ip
\* and _step_set_primary_ips, batch.py).
THEOREM UnlistedUntouched == SyncSpec => UnlistedAddressesStay
<1>1. IInv /\ [NextSync]_syncVars => [UnlistedStay]_vars
  BY StepKeeps
<1>2. QED
  BY <1>1, Invariance, PTL DEF SyncSpec, UnlistedAddressesStay

\* A private primary address that is where the cloud has it is kept, whatever fails and
\* wherever the process dies; a sequential sync may change it for the first private one
\* ("keep current primary if it's still valid", batch.py:395; vms_networking.py:54).
THEOREM PrimariesAreStable == SyncSpec => StablePrimary
<1>1. IInv /\ [NextSync]_syncVars => [SettledPrimariesStay]_syncVars
  BY StepKeeps
<1>2. QED
  BY <1>1, Invariance, PTL DEF SyncSpec, StablePrimary

-----------------------------------------------------------------------------
(* Convergence                                                             *)

\* The addresses of interfaces are private; public ones are mapped to them.
OwnAddressesArePrivate ==
    \A c \in Clouds : \A i \in Ifaces : c.addr[i] \in Private \cup {None}

\* The interfaces of the listing, and those that have an address.
Nics == cloud.vms \X Idx
Used == {i \in Nics : cloud.addr[i] # None}

\* The addresses of v's interfaces.
ListedBy(v) == {a \in Addrs : \E k \in Idx : a \in {cloud.addr[<<v, k>>], cloud.nat[<<v, k>>]}}

\* A sync in which no call fails brings NetBox one stage further.  First VMs and
\* interfaces exist, and an address that is not in place can be moved: the fallback of
\* _select_primary_ip does not take it from its VM.
Built == nb.vms = cloud.vms /\ Nics \subseteq nb.ifs

Free(box, i) ==
    LET p == box.ip[cloud.addr[i]]
    IN  \/ p \in {i, Absent}
        \/ p \in Ifaces /\ (p[1] = i[1] \/ box.prim[p[1]] # None)

\* Then the addresses are in place ...
InPlace == \A i \in Used : nb.ip[cloud.addr[i]] = i
MappedKnown == \A i \in Nics : cloud.nat[i] # None => nb.ip[cloud.nat[i]] # Absent

\* ... and last the primary addresses are private.
PrivateFirst == \A v \in cloud.vms : PrivateOf(v) # None => nb.prim[v] \in Private

Stages == step = "idle" =>
    /\ clean >= 1 => Built /\ (at = "off" => \A i \in Used : Free(nb, i))
    /\ clean >= 2 => InPlace /\ MappedKnown
    /\ clean >= 3 => PrivateFirst

\* Inside of a batch sync in which no call has failed.
Seen(v)  == step # "delete" /\ (step = "process" => v \notin left)
Deciding == step \in {"delete", "process", "unset", "ifaces"}

\* VMs are created and orphans deleted.
VmsPart ==
    /\ step = "delete" => nb.vms \ cloud.vms \subseteq left
    /\ step # "delete" => nb.vms \subseteq cloud.vms
    /\ step = "process" => left \subseteq cloud.vms
    /\ \A v \in cloud.vms : Seen(v) => v \in nb.vms
    /\ \A v \in Vms : change[v] \notin {Keep, None} => v \in cloud.vms

\* Interfaces are in the cache, queued or created.
IfsPart ==
    /\ cache.ifs \cap Nics \subseteq nb.ifs
    /\ madeIfs \subseteq nb.ifs /\ (step = "delete" => madeIfs = {})
    /\ \A i \in Nics : Seen(i[1]) => i \in cache.ifs \cup newIfs
    /\ step = "ifaces" => newIfs \ left \subseteq madeIfs
    /\ step \in {"moves", "ips", "primaries"} => newIfs \subseteq madeIfs

\* The cache has i's address elsewhere.
Wrong(i) == cache.ip[cloud.addr[i]] \notin {Absent, i}

\* An address that the cache has elsewhere is queued to be moved, nothing else is, and
\* who has it as a primary address loses it.
MovesPart ==
    /\ \A i \in Used : Seen(i[1]) /\ Wrong(i) =>
          LET a == cloud.addr[i] IN
          /\ step \in {"process", "unset", "ifaces"} =>
                IF i \in cache.ifs THEN move[a] = i ELSE pendMove[a] = i
          /\ step \in {"process", "unset"} =>
                \A w \in Vms \ {i[1]} : cache.prim[w] = a => change[w] = None
          /\ step = "ifaces" => \A w \in Vms \ {i[1]} : nb.prim[w] # a
    /\ \A a \in Addrs : move[a] # None \/ pendMove[a] # None =>
          /\ Known(a)
          /\ \E j \in Used : /\ a = cloud.addr[j]
                             /\ move[a] \in {None, j} /\ pendMove[a] \in {None, j}
    /\ step = "unset" => \A v \in Vms : change[v] = None /\ v \notin left => nb.prim[v] = None

\* An address that the cache lacks is queued to be created, and nothing else is.
IpsPart ==
    /\ step # "primaries" =>
          \A i \in Nics : \A a \in {cloud.addr[i], cloud.nat[i]} \ {None} :
              Seen(i[1]) /\ ~Known(a) => <<a, i>> \in newIps
    /\ \A n \in newIps : /\ n[2] \in Nics /\ n[1] \in {cloud.addr[n[2]], cloud.nat[n[2]]}
                         /\ step # "primaries" => ~Known(n[1])

\* Where the addresses are, step by step.
PlacePart ==
    /\ Deciding => \A a \in Addrs : nb.ip[a] \in {cache.ip[a], Absent}
    /\ step = "moves" => \A i \in Used :
          LET a == cloud.addr[i] IN
          \/ cache.ip[a] = Absent /\ nb.ip[a] = Absent
          \/ a \in left /\ move[a] = i /\ \A w \in Vms \ {i[1]} : nb.prim[w] # a
          \/ cache.ip[a] = i /\ nb.ip[a] \in {i, Absent}
    /\ step = "ips" => \A i \in Used :
          LET a == cloud.addr[i] IN
          \/ cache.ip[a] = Absent /\ nb.ip[a] = Absent /\ <<a, i>> \in left
          \/ nb.ip[a] = i
          \/ cache.ip[a] = i /\ nb.ip[a] = Absent
    /\ step = "primaries" => \A i \in Used : Free(nb, i)

\* After one such sync of this cloud ...
Again ==
    /\ Nics \subseteq cache.ifs
    /\ step = "delete" => left = {}
    /\ Deciding => nb.ip = cache.ip
    /\ step \in {"delete", "process"} => \A i \in Used : Free(cache, i)
    /\ \A v \in Vms : \A i \in Used : cloud.addr[i] \in {change[v], pendPrim[v]} => v = i[1]
    /\ step = "moves" => \A i \in Used :
          LET a == cloud.addr[i] IN
          \/ cache.ip[a] = Absent
          \/ a \in left /\ nb.ip[a] # Absent
          \/ nb.ip[a] = i
    /\ step \in {"ips", "primaries"} => \A i \in Used :
          LET a == cloud.addr[i] IN
          \/ step = "ips" /\ <<a, i>> \in left
          \/ nb.ip[a] = i /\ (cache.ip[a] = i \/ a \in madeIps)
    /\ ~Deciding => \A i \in Nics : cloud.nat[i] # None =>
          LET a == cloud.nat[i] IN
          \/ nb.ip[a] # Absent
          \/ step = "moves" /\ <<a, i>> \in newIps
          \/ step = "ips" /\ <<a, i>> \in left

\* ... and after two.
Third ==
    /\ step \in {"delete", "process"} => \A i \in Used : cache.ip[cloud.addr[i]] = i
    /\ \A v \in Vms : change[v] # None
    /\ step # "primaries" => nb.prim = cache.prim
    /\ \A v \in cloud.vms : PrivateOf(v) # None =>
          /\ change[v] \in {Keep, PrivateOf(v)}
          /\ Seen(v) => \/ nb.prim[v] \in Private
                        \/ change[v] = PrivateOf(v) /\ (step = "primaries" => v \in left)

Course ==
    /\ VmsPart /\ IfsPart /\ MovesPart /\ IpsPart /\ PlacePart
    /\ clean >= 1 => Again
    /\ clean >= 2 => Third

\* Inside of a sequential sync.
Reading == at \in {"vms", "iface", "address", "primary"}
Past(v) == v \notin todo /\ (at # "vms" => v # vm)
DoneSlot(i, kind) == i[1] \notin todo /\ (at # "vms" /\ i[1] = vm => <<i[2], kind>> \notin slots)

\* Why the address of a VM that was just created may not be in place.
Blocked(i) ==
    LET a == cloud.addr[i]
        p == nb.ip[a]
    IN  /\ i[1] \notin known
        /\ p \in Ifaces
        /\ \/ p[1] = i[1] \/ nb.prim[p[1]] = a
           \/ Past(p[1]) /\ nb.prim[p[1]] \in ListedBy(p[1])

\* What holds even if calls fail ...
SeqPart ==
    /\ Reading => todo \subseteq cloud.vms /\ (at # "vms" => vm \in cloud.vms)
    /\ at = "primary" => slots = {}
    /\ clean >= 1 /\ Reading =>
          known = cloud.vms \/ (at = "vms" /\ known = {} /\ ~whole)
    /\ clean >= 2 /\ Reading => \A v \in cloud.vms : PrivateOf(v) # None =>
          /\ ~Past(v) => nb.prim[v] = was[v] \/ was[v] \notin Private
          /\ whole /\ Past(v) => nb.prim[v] \in Private

\* ... and what if none does: what is done of the VMs and their interfaces.
SeqWhole ==
    /\ at = "orphans" => nb.vms \ cloud.vms \subseteq todo
    /\ Reading => /\ nb.vms \subseteq cloud.vms /\ cloud.vms \ todo \subseteq nb.vms
                  /\ known \subseteq cloud.vms /\ todo \cap nb.vms \subseteq known
    /\ at = "address" => iface \in nb.ifs
    /\ Reading => \A i \in Nics :
          /\ DoneSlot(i, "nat") => i \in nb.ifs /\ (cloud.nat[i] # None => nb.ip[cloud.nat[i]] # Absent)
          /\ DoneSlot(i, "addr") /\ cloud.addr[i] # None => nb.ip[cloud.addr[i]] = i \/ Blocked(i)

\* Between two syncs NetBox is at the stage that clean says; within one that is whole, it
\* and the queues are on the way to the next.
CInv ==
    /\ Stages
    /\ whole /\ step # "idle" => Course
    /\ at # "off" => SeqPart /\ (whole => SeqWhole)

\* What the proofs use of the cloud.
LEMMA Ours ==
    ASSUME OwnAddressesArePrivate, IInv
    PROVE  /\ TypeOK /\ Sound(nb) /\ nb \in NetBox /\ cache \in NetBox /\ Distinct(cloud)
           /\ LeftInv /\ QueueInv /\ PrimaryInv
           /\ cloud.vms \subseteq Vms /\ Nics \subseteq Ifaces
           /\ \A i \in Nics : /\ i[1] \in cloud.vms /\ i[2] \in Idx /\ i = <<i[1], i[2]>>
                              /\ cloud.nat[i] \in Public \cup {None}
           /\ \A i \in Used : /\ i \in Nics /\ cloud.addr[i] # None
                              /\ cloud.addr[i] \in Private /\ cloud.addr[i] \in Addrs
<1>1. /\ TypeOK /\ Sound(nb) /\ nb \in NetBox /\ cache \in NetBox /\ cloud \in Clouds
      /\ LeftInv /\ QueueInv /\ PrimaryInv
  BY DEF IInv, SeqTypeOK, TypeOK, BInv, LeftInv
<1>2. Distinct(cloud)
  BY <1>1, DistinctAssumption
<1>3. cloud.vms \subseteq Vms /\ Nics \subseteq Ifaces
  BY <1>1 DEF TypeOK, Nics, Ifaces
<1>4. \A i \in Nics : i[1] \in cloud.vms /\ i[2] \in Idx /\ i = <<i[1], i[2]>>
  BY DEF Nics
<1>5. \A i \in Nics : cloud.nat[i] \in Public \cup {None}
  BY <1>1, <1>3 DEF TypeOK
<1>6. \A i \in Used : /\ i \in Nics /\ cloud.addr[i] # None
                      /\ cloud.addr[i] \in Private /\ cloud.addr[i] \in Addrs
  BY <1>1, <1>3, Markers DEF OwnAddressesArePrivate, Used
<1> QED
  BY <1>1, <1>2, <1>3, <1>4, <1>5, <1>6

\* An address of the listing has one interface.
LEMMA OneNic ==
    ASSUME OwnAddressesArePrivate, IInv
    PROVE  /\ \A i \in Used, j \in Ifaces : /\ cloud.addr[j] = cloud.addr[i] => j = i
                                            /\ cloud.nat[j] # cloud.addr[i]
           /\ \A i, j \in Ifaces :
                 cloud.nat[i] # None /\ cloud.nat[j] = cloud.nat[i] => j = i
<1>1. Distinct(cloud) /\ \A i \in Used : i \in Ifaces /\ cloud.addr[i] # None
  BY Ours
<1> QED
  BY <1>1 DEF Distinct

\* The first private address of a VM is of one of its interfaces.
LEMMA PrivateIs ==
    ASSUME OwnAddressesArePrivate, IInv, NEW v \in cloud.vms
    PROVE  /\ PrivateOf(v) # None =>
                 \E i \in Used : i[1] = v /\ PrivateOf(v) = cloud.addr[i]
           /\ \A i \in Used : i[1] = v => PrivateOf(v) # None
<1> DEFINE S == {k \in Idx : cloud.addr[<<v, k>>] \in Private}
<1>1. \A k \in Idx : <<v, k>> \in Nics
  BY DEF Nics
<1>2. CASE S = {}
  <2>1. PrivateOf(v) = None
    BY <1>2 DEF PrivateOf
  <2>2. \A i \in Used : i[1] # v
    <3> SUFFICES ASSUME NEW i \in Used, i[1] = v PROVE FALSE
      OBVIOUS
    <3>1. i = <<v, i[2]>> /\ i[2] \in Idx /\ cloud.addr[i] \in Private
      BY Ours
    <3>2. i[2] \in S
      BY <3>1
    <3> QED
      BY <1>2, <3>2
  <2> QED
    BY <2>1, <2>2
<1>3. CASE S # {}
  <2>1. First(S) \in S
    BY <1>3, FirstOf
  <2>2. PrivateOf(v) = cloud.addr[<<v, First(S)>>]
    BY <1>3 DEF PrivateOf
  <2>3. <<v, First(S)>> \in Used /\ PrivateOf(v) # None
    BY <1>1, <2>1, <2>2, Markers DEF Used
  <2> QED
    BY <2>2, <2>3
<1> QED
  BY <1>2, <1>3

\* What _select_primary_ip may choose.
LEMMA Selected ==
    ASSUME TypeOK, NEW v \in Vms, NEW new \in SelectPrimary(v)
    PROVE  /\ new \in Addrs => \/ new \in {PrivateOf(v), PublicOf(v)}
                               \/ cache.prim[v] = None /\ new \in OwnAddrs(v)
           /\ PrivateOf(v) # None /\ Known(PrivateOf(v)) =>
                 new = PrivateOf(v) \/ (new = Keep /\ cache.prim[v] \in Private)
<1> DEFINE priv == IF PrivateOf(v) = None THEN None ELSE Candidate(PrivateOf(v))
           pub  == IF PublicOf(v) = None THEN None ELSE Candidate(PublicOf(v))
           set  == IF priv \in Addrs THEN priv ELSE IF pub \in Addrs THEN pub ELSE None
           cur  == cache.prim[v]
           own  == IF OwnAddrs(v) \cap Private # {} THEN OwnAddrs(v) \cap Private
                                                    ELSE OwnAddrs(v)
<1>1. /\ priv \in {None, Pending, PrivateOf(v)} /\ pub \in {None, Pending, PublicOf(v)}
      /\ PrivateOf(v) \in Addrs \cup {None} /\ PublicOf(v) \in Addrs \cup {None}
      /\ PrivateOf(v) # None /\ Known(PrivateOf(v)) => priv = PrivateOf(v)
  BY PrivateOfIs, PublicOfIs, Markers DEF Candidate
<1>2. own \subseteq OwnAddrs(v) /\ OwnAddrs(v) \subseteq Addrs
  BY DEF OwnAddrs
<1>3. new \in (IF cur = None THEN
                   IF set # None THEN {set}
                   ELSE IF own # {} THEN own
                   ELSE IF Pending \in {priv, pub} THEN {Pending} ELSE {Keep}
               ELSE IF set = None THEN {Keep}
               ELSE IF cur \in Private THEN {IF cur \in OwnAddrs(v) THEN Keep ELSE set}
               ELSE IF priv # None THEN {priv}
               ELSE {IF cur # pub THEN pub ELSE Keep})
  BY DEF SelectPrimary
<1> HIDE DEF priv, pub, own
<1> QED
  BY <1>1, <1>2, <1>3, Markers

-----------------------------------------------------------------------------
(* The course of a batch sync in which no call fails                       *)

LEMMA LoadCourse ==
    ASSUME OwnAddressesArePrivate, IInv, Stages, at = "off", Load, ~CallFails
    PROVE  Course'
<1>1. /\ step = "idle" /\ NoQueues /\ cache' = nb /\ step' = "delete"
      /\ left' = nb.vms \ cloud.vms
      /\ UNCHANGED <<cloud, nb, queues, changes, clean>>
  BY Ours DEF Load, LeftInv
<1>2. /\ UNCHANGED <<change, move, pendMove, newIfs, newIps, pendPrim, madeIfs, madeIps>>
      /\ \A v \in Vms : change[v] = Keep /\ pendPrim[v] = None
      /\ \A a \in Addrs : move[a] = None /\ pendMove[a] = None
      /\ newIfs = {} /\ newIps = {} /\ madeIfs = {}
  BY <1>1 DEF NoQueues, queues
<1>3. VmsPart' /\ IfsPart' /\ IpsPart'
  BY <1>1, <1>2 DEF VmsPart, IfsPart, IpsPart, Seen
<1>4. MovesPart' /\ PlacePart'
  BY <1>1, <1>2 DEF MovesPart, PlacePart, Seen, Deciding
<1>5. ASSUME clean >= 1 PROVE Again'
  <2>1. Built /\ \A i \in Used : Free(nb, i)
    BY <1>1, <1>5 DEF Stages
  <2>2. \A v \in Vms, i \in Used : cloud.addr[i] \notin {change[v], pendPrim[v]}
    BY <1>2, Ours, Markers
  <2> QED
    BY <1>1, <1>2, <2>1, <2>2 DEF Again, Built, Nics, Used, Free, Deciding
<1>6. ASSUME clean >= 2 PROVE Third'
  <2>1. InPlace
    BY <1>1, <1>6 DEF Stages
  <2>2. \A v \in cloud.vms : v \in Vms
    BY Ours
  <2> QED
    BY <1>1, <1>2, <2>1, <2>2, Markers DEF Third, InPlace, Used, Nics, Seen
<1> QED
  BY <1>1, <1>3, <1>4, <1>5, <1>6 DEF Course

LEMMA DeleteOrphanCourse ==
    ASSUME OwnAddressesArePrivate, IInv, Course, NEW v \in Vms, DeleteOrphan(v), ~CallFails
    PROVE  Course'
<1>1. /\ step = "delete" /\ v \in left /\ v \notin cloud.vms /\ left' = left \ {v}
      /\ nb' = Deleted(v) /\ UNCHANGED <<cloud, cache, step, queues, changes, clean>>
  BY Ours DEF DeleteOrphan, Done, LeftInv
<1>2. UNCHANGED <<change, move, pendMove, newIfs, newIps, pendPrim, madeIfs, madeIps>>
  BY <1>1 DEF queues
<1>3. /\ nb'.vms = nb.vms \ {v} /\ nb'.ifs = nb.ifs \ IfacesOf(nb.ifs, v)
      /\ \A a \in Addrs : nb'.ip[a] \in {nb.ip[a], Absent}
  BY <1>1, Ours, DeletedIs
<1>4. \A i \in Nics : i \notin IfacesOf(nb.ifs, v)
  BY <1>1, Ours DEF IfacesOf
<1>5. VmsPart' /\ IpsPart'
  BY <1>1, <1>2, <1>3 DEF Course, VmsPart, IpsPart, Seen, Known, Nics
<1>6. IfsPart'
  BY <1>1, <1>2, <1>3, <1>4 DEF Course, IfsPart, Seen, Nics
<1>7. MovesPart' /\ PlacePart'
  <2>1. MovesPart'
    BY <1>1, <1>2 DEF Course, MovesPart, Seen, Known, Used, Nics
  <2>2. \A a \in Addrs : nb'.ip[a] \in {cache.ip[a], Absent}
    BY <1>1, <1>3 DEF Course, PlacePart, Deciding
  <2> QED
    BY <1>1, <2>1, <2>2 DEF PlacePart, Deciding
<1>8. ~ (clean >= 1)
  BY <1>1 DEF Course, Again
<1>9. clean \in Nat
  BY MaxCleanIs, Ours DEF TypeOK
<1> QED
  BY <1>1, <1>5, <1>6, <1>7, <1>8, <1>9 DEF Course

\* The cloud and the cache stay, so that interfaces and addresses are what they were.
LEMMA SameCloud ==
    ASSUME UNCHANGED cloud
    PROVE  /\ Nics' = Nics /\ Used' = Used
           /\ \A v : PrivateOf(v)' = PrivateOf(v)
BY DEF Nics, Used, PrivateOf

LEMMA BeginProcessCourse ==
    ASSUME OwnAddressesArePrivate, IInv, Course, BeginProcess
    PROVE  Course'
<1>1. /\ step = "delete" /\ left = {} /\ step' = "process" /\ left' = cloud.vms
      /\ UNCHANGED <<cloud, nb, cache, clean>>
      /\ UNCHANGED <<change, move, pendMove, newIfs, newIps, pendPrim, madeIfs, madeIps>>
  BY DEF BeginProcess, Goes, queues
<1>2. VmsPart' /\ IfsPart' /\ IpsPart'
  BY <1>1, Ours DEF Course, VmsPart, IfsPart, IpsPart, Seen, Known, Nics
<1>3. MovesPart' /\ PlacePart'
  <2>1. \A i \in Used : i[1] \in cloud.vms
    BY Ours
  <2> QED
    BY <1>1, <2>1 DEF Course, MovesPart, PlacePart, Seen, Known, Used, Nics, Deciding
<1>4. ASSUME clean >= 1 PROVE Again'
  BY <1>1, <1>4 DEF Course, Again, Free, Used, Nics, Deciding
<1>5. ASSUME clean >= 2 PROVE Third'
  <2>1. \A v \in cloud.vms : PrivateOf(v)' = PrivateOf(v)
    BY <1>1, SameCloud
  <2> QED
    BY <1>1, <1>5, <2>1 DEF Course, Third, Used, Nics, Seen
<1> QED
  BY <1>1, <1>2, <1>3, <1>4, <1>5 DEF Course

\* What process_vm_updates takes to be misplaced, and to what interface it moves it.
LEMMA MisplacedUsed ==
    ASSUME OwnAddressesArePrivate, IInv, NEW v \in cloud.vms
    PROVE  /\ \A a \in Misplaced(v) : /\ Target(v, a) \in Used /\ Target(v, a)[1] = v
                                      /\ cloud.addr[Target(v, a)] = a
                                      /\ Known(a) /\ Wrong(Target(v, a))
           /\ \A i \in Used : i[1] = v /\ Wrong(i) =>
                 cloud.addr[i] \in Misplaced(v) /\ Target(v, cloud.addr[i]) = i
<1>1. ASSUME NEW a \in Misplaced(v)
      PROVE  /\ Target(v, a) \in Used /\ Target(v, a)[1] = v
             /\ cloud.addr[Target(v, a)] = a /\ Known(a) /\ Wrong(Target(v, a))
  <2>1. PICK k \in Idx : cloud.addr[<<v, k>>] = a /\ Known(a) /\ cache.ip[a] # <<v, k>> /\ a \in Addrs
    BY DEF Misplaced
  <2> DEFINE j == CHOOSE k1 \in Idx : cloud.addr[<<v, k1>>] = a
  <2>2. j \in Idx /\ cloud.addr[<<v, j>>] = a
    BY <2>1
  <2>3. Target(v, a) = <<v, j>>
    BY DEF Target
  <2> HIDE DEF j
  <2>4. <<v, j>> \in Used /\ <<v, k>> \in Ifaces
    BY <2>1, <2>2, Ours, Markers DEF Used, Nics, Ifaces
  <2>5. <<v, k>> = <<v, j>>
    BY <2>1, <2>2, <2>4, OneNic
  <2> QED
    BY <2>1, <2>2, <2>3, <2>4, <2>5 DEF Wrong, Known
<1>2. ASSUME NEW i \in Used, i[1] = v, Wrong(i)
      PROVE  cloud.addr[i] \in Misplaced(v) /\ Target(v, cloud.addr[i]) = i
  <2>1. i = <<v, i[2]>> /\ i[2] \in Idx /\ cloud.addr[i] \in Addrs
    BY <1>2, Ours
  <2>2. cloud.addr[i] \in Misplaced(v)
    BY <1>2, <2>1 DEF Misplaced, Wrong, Known
  <2>3. Target(v, cloud.addr[i]) \in Ifaces
    BY <1>1, <2>2, Ours
  <2> QED
    BY <1>1, <2>2, <2>3, OneNic
<1> QED
  BY <1>1, <1>2

LEMMA ProcessCourse ==
    ASSUME OwnAddressesArePrivate, IInv, Course, NEW v \in Vms, Process(v), ~CallFails
    PROVE  Course'
<1>1. /\ step = "process" /\ v \in left /\ left' = left \ {v} /\ v \in cloud.vms
      /\ UNCHANGED <<cloud, step, changes, clean>>
  BY DEF Process, Done, Course, VmsPart
<1>2. /\ nb'.vms = nb.vms \cup {v} /\ nb'.ifs = nb.ifs /\ nb'.ip = nb.ip /\ nb'.prim = nb.prim
      /\ cache'.ifs = cache.ifs /\ cache'.ip = cache.ip /\ cache'.prim = cache.prim
  BY Ours, WithVm DEF Process
<1>3. PICK new \in SelectPrimary(v) :
          change' = [w \in Vms |->
              IF w = v THEN (IF new = Keep THEN change[v] ELSE new)
              ELSE IF cache.prim[w] \in Misplaced(v) THEN None ELSE change[w]]
  BY DEF Process, Queue
<1>4. /\ \A w \in Vms : change'[w] =
            IF w = v THEN (IF new = Keep THEN change[v] ELSE new)
            ELSE IF cache.prim[w] \in Misplaced(v) THEN None ELSE change[w]
      /\ new \in Addrs \cup {Pending, Keep}
      /\ cache.prim[v] \in Private /\ cache.prim[v] \in OwnAddrs(v) => new = Keep
  BY <1>3, Ours, SelectPrimaryIs
<1>5. /\ \A a \in Addrs :
            /\ move'[a] = IF a \in Misplaced(v) /\ Target(v, a) \in cache.ifs
                          THEN Target(v, a) ELSE move[a]
            /\ pendMove'[a] = IF a \in Misplaced(v) /\ Target(v, a) \notin cache.ifs
                              THEN Target(v, a) ELSE pendMove[a]
      /\ newIfs' = newIfs \cup ({<<v, k>> : k \in Idx} \ cache.ifs)
      /\ newIps' = newIps \cup Unknown(v)
      /\ \A w \in Vms : pendPrim'[w] = IF w = v THEN PendingOf(v) ELSE pendPrim[w]
      /\ UNCHANGED <<madeIfs, madeIps>>
  BY Ours DEF Process, Queue, TypeOK
<1>6. /\ Nics' = Nics /\ Used' = Used /\ \A a : Known(a)' = Known(a)
      /\ \A w : Seen(w)' = (Seen(w) \/ w = v)
      /\ \A i : Wrong(i)' = Wrong(i)
  BY <1>1, <1>2, SameCloud DEF Known, Seen, Wrong
<1>7. \A i \in Nics : i[1] = v => i \in {<<v, k>> : k \in Idx}
  BY Ours
<1>8. VmsPart'
  <2>1. \A w \in Vms : change'[w] \notin {Keep, None} => w = v \/ change[w] \notin {Keep, None}
    BY <1>4
  <2> QED
    BY <1>1, <1>2, <1>6, <2>1 DEF Course, VmsPart
<1>9. IfsPart'
  BY <1>1, <1>2, <1>5, <1>6, <1>7 DEF Course, IfsPart
<1>10. MovesPart'
  <2>1. ASSUME NEW i \in Used, Seen(i[1])', Wrong(i)
        PROVE  LET a == cloud.addr[i] IN
               /\ IF i \in cache.ifs THEN move'[a] = i ELSE pendMove'[a] = i
               /\ \A w \in Vms \ {i[1]} : cache.prim[w] = a => change'[w] = None
    <3> DEFINE a == cloud.addr[i]
    <3>0. a \in Addrs /\ a \in Private
      BY Ours
    <3>1. CASE i[1] = v
      <4>1. a \in Misplaced(v) /\ Target(v, a) = i
        BY <1>1, <2>1, <3>1, MisplacedUsed
      <4> QED
        BY <1>4, <1>5, <3>0, <3>1, <4>1
    <3>2. CASE i[1] # v
      <4>1. /\ IF i \in cache.ifs THEN move[a] = i ELSE pendMove[a] = i
            /\ \A w \in Vms \ {i[1]} : cache.prim[w] = a => change[w] = None
        BY <1>1, <1>6, <2>1, <3>2 DEF Course, MovesPart
      <4>2. a \notin Misplaced(v)
        BY <1>1, <3>2, OneNic, MisplacedUsed, Ours
      <4>3. ASSUME cache.prim[v] = a PROVE new = Keep
        <5>1. Sound(cache)
          BY <1>1, Ours DEF PrimaryInv
        <5>2. cache.prim[v] \in OwnAddrs(v)
          BY <3>0, <4>3, <5>1, Markers DEF Sound, OwnAddrs
        <5> QED
          BY <1>4, <3>0, <4>3, <5>2
      <4> QED
        BY <1>4, <1>5, <3>0, <4>1, <4>2, <4>3
    <3> QED
      BY <3>1, <3>2
  <2>2. ASSUME NEW a \in Addrs, move'[a] # None \/ pendMove'[a] # None
        PROVE  /\ Known(a)
               /\ \E j \in Used : /\ a = cloud.addr[j]
                                  /\ move'[a] \in {None, j} /\ pendMove'[a] \in {None, j}
    <3>1. CASE a \in Misplaced(v)
      <4> DEFINE j == Target(v, a)
      <4>1. j \in Used /\ cloud.addr[j] = a /\ Known(a)
        BY <1>1, <3>1, MisplacedUsed
      <4>2. move[a] \in {None, j} /\ pendMove[a] \in {None, j}
        <5>1. CASE move[a] = None /\ pendMove[a] = None
          BY <5>1
        <5>2. CASE move[a] # None \/ pendMove[a] # None
          <6>1. PICK j2 \in Used : /\ a = cloud.addr[j2]
                                   /\ move[a] \in {None, j2} /\ pendMove[a] \in {None, j2}
            BY <5>2 DEF Course, MovesPart
          <6>2. j2 = j
            BY <4>1, <6>1, OneNic, Ours
          <6> QED
            BY <6>1, <6>2
        <5> QED
          BY <5>1, <5>2
      <4> HIDE DEF j
      <4>3. move'[a] \in {move[a], j} /\ pendMove'[a] \in {pendMove[a], j}
        BY <1>5 DEF j
      <4> QED
        BY <4>1, <4>2, <4>3
    <3>2. CASE a \notin Misplaced(v)
      <4>1. move'[a] = move[a] /\ pendMove'[a] = pendMove[a]
        BY <1>5, <3>2
      <4> QED
        BY <2>2, <4>1 DEF Course, MovesPart
    <3> QED
      BY <3>1, <3>2
  <2> QED
    BY <1>1, <1>2, <1>6, <2>1, <2>2 DEF MovesPart
<1>11. IpsPart'
  <2>1. ASSUME NEW i \in Nics, NEW a \in {cloud.addr[i], cloud.nat[i]} \ {None}, Seen(i[1])', ~Known(a)
        PROVE  <<a, i>> \in newIps'
    <3>1. CASE i[1] = v
      <4>1. i \in {<<v, k>> : k \in Idx} /\ i[2] \in Idx /\ i = <<v, i[2]>>
        BY <3>1, <1>7, Ours
      <4>2. a \in Addrs
        BY <4>1, Ours, CloudAddrs, Markers
      <4>3. <<a, i>> \in Unknown(v)
        BY <2>1, <4>1, <4>2 DEF Unknown
      <4> QED
        BY <1>5, <4>3
    <3>2. CASE i[1] # v
      BY <1>1, <1>5, <1>6, <2>1, <3>2 DEF Course, IpsPart
    <3> QED
      BY <3>1, <3>2
  <2>2. ASSUME NEW n \in newIps'
        PROVE  n[2] \in Nics /\ n[1] \in {cloud.addr[n[2]], cloud.nat[n[2]]} /\ ~Known(n[1])
    <3>1. CASE n \in newIps
      BY <1>1, <3>1 DEF Course, IpsPart
    <3>2. CASE n \in Unknown(v)
      BY <1>1, <3>2 DEF Unknown, Nics
    <3> QED
      BY <1>5, <3>1, <3>2
  <2> QED
    BY <1>1, <1>6, <2>1, <2>2 DEF IpsPart
<1>12. PlacePart'
  BY <1>1, <1>2 DEF Course, PlacePart, Deciding
<1>13. ASSUME clean >= 1 PROVE Again'
  <2>1. Again
    BY <1>13 DEF Course
  <2>2. ASSUME NEW w \in Vms, NEW i \in Used, cloud.addr[i] \in {change'[w], pendPrim'[w]}
        PROVE  w = i[1]
    <3> DEFINE a == cloud.addr[i]
    <3>0. a \in Addrs /\ a \in Private /\ a # None /\ a # Keep
      BY Ours, Markers
    <3>1. CASE a \in {change[w], pendPrim[w]}
      BY <2>1, <3>1 DEF Again
    <3>2. CASE w = v /\ a \in {PrivateOf(v), PublicOf(v)}
      <4>1. a # PublicOf(v)
        BY <3>0, Ours, PublicOfIs, AddrsAssumption
      <4>2. PICK j \in Used : j[1] = v /\ PrivateOf(v) = cloud.addr[j]
        BY <1>1, <3>0, <3>2, <4>1, PrivateIs
      <4> QED
        BY <3>2, <4>1, <4>2, OneNic, Ours
    <3>3. CASE w = v /\ cache.prim[v] = None /\ a \in OwnAddrs(v)
      <4>1. Free(cache, i)
        BY <1>1, <2>1 DEF Again
      <4>2. cache.ip[a] \in Ifaces /\ cache.ip[a][1] = v
        BY <3>3, Ours DEF OwnAddrs, IfacesOf, NetBox
      <4> QED
        BY <3>3, <4>1, <4>2, Markers DEF Free
    <3>4. \/ a \in {change[w], pendPrim[w]}
          \/ w = v /\ a \in {new, PendingOf(v)}
      BY <1>4, <1>5, <2>2, <3>0
    <3>5. PendingOf(v) \in {None, PrivateOf(v), PublicOf(v)}
      BY DEF PendingOf
    <3>6. new = a => \/ a \in {PrivateOf(v), PublicOf(v)}
                     \/ cache.prim[v] = None /\ a \in OwnAddrs(v)
      BY <1>3, <3>0, Ours, Selected
    <3> QED
      BY <3>0, <3>1, <3>2, <3>3, <3>4, <3>5, <3>6
  <2>3. \A i \in Used : Free(cache', i)
    BY <1>1, <1>2, <2>1 DEF Again, Free
  <2> QED
    BY <1>1, <1>2, <1>6, <2>1, <2>2, <2>3 DEF Again, Deciding, Free
<1>14. ASSUME clean >= 2 PROVE Third'
  <2>1. Third
    BY <1>14 DEF Course
  <2>2. Misplaced(v) = {}
    BY <1>1, <2>1, MisplacedUsed DEF Third, Wrong
  <2>3. nb.prim = cache.prim
    BY <1>1, <2>1 DEF Third
  <2>4. \A w \in Vms : change'[w] = IF w = v /\ new # Keep THEN new ELSE change[w]
    BY <1>4, <2>2
  <2>5. PrivateOf(v) # None => new = PrivateOf(v) \/ (new = Keep /\ cache.prim[v] \in Private)
    <3>1. ASSUME PrivateOf(v) # None PROVE Known(PrivateOf(v))
      <4>1. PICK i \in Used : PrivateOf(v) = cloud.addr[i]
        BY <1>1, <3>1, PrivateIs
      <4> QED
        BY <1>1, <2>1, <4>1, Ours, Markers DEF Third, Known
    <3> QED
      BY <1>3, <3>1, Ours, Selected
  <2>6. \A w \in cloud.vms : PrivateOf(w)' = PrivateOf(w) /\ w \in Vms
    BY <1>1, Ours, SameCloud
  <2>7. ASSUME NEW w \in cloud.vms, PrivateOf(w) # None
        PROVE  /\ change'[w] \in {Keep, PrivateOf(w)}
               /\ Seen(w)' => nb.prim[w] \in Private \/ change'[w] = PrivateOf(w)
    <3>1. w \in Vms
      BY Ours
    <3>2. /\ change[w] \in {Keep, PrivateOf(w)}
          /\ Seen(w) => nb.prim[w] \in Private \/ change[w] = PrivateOf(w)
      BY <2>1, <2>7 DEF Third
    <3>3. CASE w = v
      BY <1>1, <2>3, <2>4, <2>5, <2>7, <3>1, <3>2, <3>3
    <3>4. CASE w # v
      BY <1>6, <2>4, <3>1, <3>2, <3>4
    <3> QED
      BY <3>3, <3>4
  <2>8. \A w \in Vms : change'[w] # None
    BY <1>4, <2>1, <2>4, Markers DEF Third
  <2>9. \A i \in Used : cache'.ip[cloud.addr[i]] = i
    BY <1>1, <1>2, <2>1 DEF Third
  <2> QED
    BY <1>1, <1>2, <1>6, <2>3, <2>6, <2>7, <2>8, <2>9 DEF Third
<1> QED
  BY <1>1, <1>8, <1>9, <1>10, <1>11, <1>12, <1>13, <1>14 DEF Course

LEMMA BeginUnsetCourse ==
    ASSUME OwnAddressesArePrivate, IInv, Course, BeginUnset
    PROVE  Course'
<1>1. /\ step = "process" /\ left = {} /\ step' = "unset"
      /\ left' = {v \in Vms : change[v] = None}
      /\ UNCHANGED <<cloud, nb, cache, clean>>
      /\ UNCHANGED <<change, move, pendMove, newIfs, newIps, pendPrim, madeIfs, madeIps>>
  BY DEF BeginUnset, Goes, queues
<1>2. /\ Nics' = Nics /\ Used' = Used /\ \A v : PrivateOf(v)' = PrivateOf(v)
      /\ \A v : Seen(v) /\ Seen(v)'
      /\ \A a : Known(a)' = Known(a)
      /\ \A i : Wrong(i)' = Wrong(i)
  BY <1>1, SameCloud DEF Seen, Known, Wrong
<1>3. VmsPart' /\ IfsPart' /\ IpsPart'
  BY <1>1, <1>2 DEF Course, VmsPart, IfsPart, IpsPart
<1>4. MovesPart' /\ PlacePart'
  BY <1>1, <1>2 DEF Course, MovesPart, PlacePart, Deciding
<1>5. ASSUME clean >= 1 PROVE Again'
  BY <1>1, <1>2, <1>5 DEF Course, Again, Deciding
<1>6. ASSUME clean >= 2 PROVE Third'
  BY <1>1, <1>2, <1>6 DEF Course, Third
<1> QED
  BY <1>1, <1>3, <1>4, <1>5, <1>6 DEF Course

LEMMA UnsetPrimaryCourse ==
    ASSUME OwnAddressesArePrivate, IInv, Course, NEW v \in Vms, UnsetPrimary(v), ~CallFails
    PROVE  Course'
<1>1. /\ step = "unset" /\ v \in left /\ change[v] = None /\ left' = left \ {v}
      /\ UNCHANGED <<cloud, cache, step, clean>>
      /\ UNCHANGED <<change, move, pendMove, newIfs, newIps, pendPrim, madeIfs, madeIps>>
  BY Ours DEF UnsetPrimary, Done, queues, LeftInv
<1>2. /\ nb'.vms = nb.vms /\ nb'.ifs = nb.ifs /\ nb'.ip = nb.ip
      /\ nb'.prim[v] = None
      /\ \A w \in Vms : w # v => nb'.prim[w] = nb.prim[w]
  <2>1. CASE v \in nb.vms
    <3>1. nb' = [nb EXCEPT !.prim[v] = None]
      BY <2>1 DEF UnsetPrimary
    <3>2. nb \in NetBox
      BY Ours
    <3> QED
      BY <3>1, <3>2 DEF NetBox
  <2>2. CASE v \notin nb.vms
    BY <2>2, Ours DEF UnsetPrimary, Sound
  <2> QED
    BY <2>1, <2>2
<1>3. /\ Nics' = Nics /\ Used' = Used
      /\ \A w : Seen(w)' = Seen(w)
      /\ \A a : Known(a)' = Known(a)
      /\ \A i : Wrong(i)' = Wrong(i)
  BY <1>1, SameCloud DEF Seen, Known, Wrong
<1>4. VmsPart' /\ IfsPart' /\ IpsPart'
  BY <1>1, <1>2, <1>3 DEF Course, VmsPart, IfsPart, IpsPart
<1>5. MovesPart' /\ PlacePart'
  BY <1>1, <1>2, <1>3 DEF Course, MovesPart, PlacePart, Deciding
<1>6. ASSUME clean >= 1 PROVE Again'
  BY <1>1, <1>2, <1>3, <1>6 DEF Course, Again, Deciding
<1>7. ~ (clean >= 2)
  BY <1>1 DEF Course, Third
<1> QED
  BY <1>1, <1>4, <1>5, <1>6, <1>7 DEF Course

LEMMA BeginInterfacesCourse ==
    ASSUME OwnAddressesArePrivate, IInv, Course, BeginInterfaces
    PROVE  Course'
<1>1. /\ step = "unset" /\ left = {} /\ step' = "ifaces" /\ left' = newIfs
      /\ UNCHANGED <<cloud, nb, cache, clean>>
      /\ UNCHANGED <<change, move, pendMove, newIfs, newIps, pendPrim, madeIfs, madeIps>>
  BY DEF BeginInterfaces, Goes, queues
<1>2. /\ Nics' = Nics /\ Used' = Used /\ \A v : PrivateOf(v)' = PrivateOf(v)
      /\ \A v : Seen(v) /\ Seen(v)'
      /\ \A a : Known(a)' = Known(a)
      /\ \A i : Wrong(i)' = Wrong(i)
  BY <1>1, SameCloud DEF Seen, Known, Wrong
<1>3. VmsPart' /\ IfsPart' /\ IpsPart'
  BY <1>1, <1>2 DEF Course, VmsPart, IfsPart, IpsPart
<1>4. MovesPart'
  <2>1. ASSUME NEW i \in Used, Wrong(i), NEW w \in Vms \ {i[1]} PROVE nb.prim[w] # cloud.addr[i]
    <3>1. cache.prim[w] = cloud.addr[i] => nb.prim[w] = None
      BY <1>1, <1>2, <2>1 DEF Course, MovesPart
    <3>2. nb.prim[w] \in {None, cache.prim[w]}
      BY <1>1, Ours DEF PrimaryInv, Unwritten
    <3> QED
      BY <3>1, <3>2, Ours
  <2> QED
    BY <1>1, <1>2, <2>1 DEF Course, MovesPart
<1>5. PlacePart'
  BY <1>1, <1>2 DEF Course, PlacePart, Deciding
<1>6. ASSUME clean >= 1 PROVE Again'
  BY <1>1, <1>2, <1>6 DEF Course, Again, Deciding
<1>7. ASSUME clean >= 2 PROVE Third'
  BY <1>1, <1>2, <1>7 DEF Course, Third
<1> QED
  BY <1>1, <1>3, <1>4, <1>5, <1>6, <1>7 DEF Course

LEMMA CreateInterfaceCourse ==
    ASSUME OwnAddressesArePrivate, IInv, Course, NEW i \in Ifaces, CreateInterface(i), ~CallFails
    PROVE  Course'
<1>1. /\ step = "ifaces" /\ i \in left /\ left' = left \ {i} /\ madeIfs' = madeIfs \cup {i}
      /\ UNCHANGED <<cloud, cache, step, clean>>
      /\ UNCHANGED <<change, move, pendMove, newIfs, newIps, pendPrim, madeIps>>
  BY DEF CreateInterface, Done
<1>2. /\ nb'.vms = nb.vms /\ nb'.ifs = nb.ifs \cup {i} /\ nb'.ip = nb.ip /\ nb'.prim = nb.prim
  BY Ours DEF CreateInterface, NetBox
<1>3. /\ Nics' = Nics /\ Used' = Used /\ \A v : PrivateOf(v)' = PrivateOf(v)
      /\ \A w : Seen(w)' = Seen(w)
      /\ \A a : Known(a)' = Known(a)
      /\ \A j : Wrong(j)' = Wrong(j)
  BY <1>1, SameCloud DEF Seen, Known, Wrong
<1>4. VmsPart' /\ IfsPart' /\ IpsPart'
  BY <1>1, <1>2, <1>3 DEF Course, VmsPart, IfsPart, IpsPart
<1>5. MovesPart' /\ PlacePart'
  BY <1>1, <1>2, <1>3 DEF Course, MovesPart, PlacePart, Deciding
<1>6. ASSUME clean >= 1 PROVE Again'
  BY <1>1, <1>2, <1>3, <1>6 DEF Course, Again, Deciding
<1>7. ASSUME clean >= 2 PROVE Third'
  BY <1>1, <1>2, <1>3, <1>7 DEF Course, Third
<1> QED
  BY <1>1, <1>4, <1>5, <1>6, <1>7 DEF Course

LEMMA BeginMovesCourse ==
    ASSUME OwnAddressesArePrivate, IInv, Course, BeginMoves
    PROVE  Course'
<1>1. /\ step = "ifaces" /\ left = {} /\ step' = "moves"
      /\ left' = {a \in Addrs : move'[a] # None}
      /\ \A a \in Addrs : move'[a] = IF pendMove[a] \in madeIfs THEN pendMove[a] ELSE move[a]
      /\ UNCHANGED <<cloud, nb, cache, clean>>
      /\ UNCHANGED <<change, pendMove, newIfs, newIps, pendPrim, madeIfs, madeIps>>
  BY DEF BeginMoves, Goes
<1>2. /\ Nics' = Nics /\ Used' = Used /\ \A v : PrivateOf(v)' = PrivateOf(v)
      /\ \A v : Seen(v) /\ Seen(v)'
      /\ \A a : Known(a)' = Known(a)
      /\ \A i : Wrong(i)' = Wrong(i)
  BY <1>1, SameCloud DEF Seen, Known, Wrong
<1>3. VmsPart' /\ IfsPart' /\ IpsPart'
  BY <1>1, <1>2 DEF Course, VmsPart, IfsPart, IpsPart
<1>4. \A a \in Addrs : move'[a] \in {move[a], pendMove[a]}
  BY <1>1
<1>5. MovesPart'
  <2>1. ASSUME NEW a \in Addrs, move'[a] # None \/ pendMove[a] # None
        PROVE  /\ Known(a)
               /\ \E j \in Used : /\ a = cloud.addr[j]
                                  /\ move'[a] \in {None, j} /\ pendMove[a] \in {None, j}
    BY <1>4, <2>1 DEF Course, MovesPart
  <2> QED
    BY <1>1, <1>2, <2>1 DEF MovesPart
<1>6. PlacePart'
  <2>1. ASSUME NEW i \in Used
        PROVE  LET a == cloud.addr[i] IN
               \/ cache.ip[a] = Absent /\ nb.ip[a] = Absent
               \/ a \in left' /\ move'[a] = i /\ \A w \in Vms \ {i[1]} : nb.prim[w] # a
               \/ cache.ip[a] = i /\ nb.ip[a] \in {i, Absent}
    <3> DEFINE a == cloud.addr[i]
    <3>1. a \in Addrs /\ nb.ip[a] \in {cache.ip[a], Absent} /\ i \in Ifaces /\ i \in Nics
      BY <1>1, Ours DEF Course, PlacePart, Deciding
    <3>2. CASE Wrong(i)
      <4>1. /\ IF i \in cache.ifs THEN move[a] = i ELSE pendMove[a] = i
            /\ \A w \in Vms \ {i[1]} : nb.prim[w] # a
        BY <1>1, <1>2, <3>2 DEF Course, MovesPart
      <4>2. i \in cache.ifs \cup madeIfs
        BY <1>1, <1>2, <3>1 DEF Course, IfsPart
      <4>3. move[a] \in {None, i} /\ pendMove[a] \in {None, i}
        <5>1. i # None
          BY <3>1, Markers
        <5>2. PICK j \in Used : /\ a = cloud.addr[j]
                                /\ move[a] \in {None, j} /\ pendMove[a] \in {None, j}
          BY <3>1, <4>1, <5>1 DEF Course, MovesPart
        <5> QED
          BY <5>2, OneNic, Ours
      <4>4. move'[a] = i
        <5>1. CASE pendMove[a] \in madeIfs
          <6>1. None \notin madeIfs
            BY Ours, Markers DEF TypeOK
          <6> QED
            BY <1>1, <3>1, <4>3, <5>1, <6>1
        <5>2. CASE pendMove[a] \notin madeIfs
          BY <1>1, <3>1, <4>1, <4>2, <5>2
        <5> QED
          BY <5>1, <5>2
      <4>5. a \in left'
        BY <1>1, <3>1, <4>4, Markers
      <4> QED
        BY <4>1, <4>4, <4>5
    <3>3. CASE ~ Wrong(i)
      BY <3>1, <3>3 DEF Wrong
    <3> QED
      BY <3>2, <3>3
  <2> QED
    BY <1>1, <1>2, <2>1 DEF PlacePart, Deciding
<1>7. ASSUME clean >= 1 PROVE Again'
  <2>1. Again /\ nb.ip = cache.ip
    BY <1>1, <1>7 DEF Course, Again, Deciding
  <2>2. ASSUME NEW i \in Used
        PROVE  LET a == cloud.addr[i] IN
               \/ cache.ip[a] = Absent
               \/ a \in left' /\ nb.ip[a] # Absent
               \/ nb.ip[a] = i
    BY <1>1, <1>2, <1>6, <2>1, <2>2 DEF PlacePart
  <2>3. ASSUME NEW i \in Nics, cloud.nat[i] # None
        PROVE  nb.ip[cloud.nat[i]] # Absent \/ <<cloud.nat[i], i>> \in newIps
    BY <1>1, <1>2, <2>1, <2>3 DEF Course, IpsPart, Known
  <2> QED
    BY <1>1, <1>2, <2>1, <2>2, <2>3 DEF Again, Deciding
<1>8. ASSUME clean >= 2 PROVE Third'
  BY <1>1, <1>2, <1>8 DEF Course, Third
<1> QED
  BY <1>1, <1>3, <1>5, <1>6, <1>7, <1>8 DEF Course

\* An address that is to be moved can be, unless NetBox has lost it.
LEMMA UpdateIpCourse ==
    ASSUME OwnAddressesArePrivate, IInv, Course, NEW a \in Addrs, UpdateIp(a), ~CallFails
    PROVE  Course'
<1>1. /\ step = "moves" /\ a \in left /\ left' = left \ {a} /\ move[a] # None
      /\ cache' = Placed(cache, a, move[a])
      /\ nb' = IF MayPlace(a, move[a]) THEN Placed(nb, a, move[a]) ELSE nb
      /\ UNCHANGED <<cloud, step, clean>>
      /\ UNCHANGED <<change, move, pendMove, newIfs, newIps, pendPrim, madeIfs, madeIps>>
  BY Ours DEF UpdateIp, Done, queues, LeftInv
<1>2. PICK i \in Used : a = cloud.addr[i] /\ move[a] = i /\ Known(a)
  <2>1. PICK j \in Used : a = cloud.addr[j] /\ move[a] \in {None, j} /\ Known(a)
    BY <1>1 DEF Course, MovesPart
  <2> QED
    BY <1>1, <2>1
<1>3. i \in Ifaces /\ i \in Nics /\ i # Absent
  BY Ours, Markers
<1>4. /\ cache'.vms = cache.vms /\ cache'.ifs = cache.ifs /\ cache'.prim = cache.prim
      /\ cache'.ip[a] = i /\ \A b \in Addrs : b # a => cache'.ip[b] = cache.ip[b]
  BY <1>1, <1>2, <1>3, Ours, PlacedIs
<1>5. /\ nb'.vms = nb.vms /\ nb'.ifs = nb.ifs /\ nb'.prim = nb.prim
      /\ nb'.ip[a] = IF MayPlace(a, i) THEN i ELSE nb.ip[a]
      /\ \A b \in Addrs : b # a => nb'.ip[b] = nb.ip[b]
  BY <1>1, <1>2, <1>3, Ours, PlacedIs
<1>6. /\ Nics' = Nics /\ Used' = Used /\ \A v : PrivateOf(v)' = PrivateOf(v)
      /\ \A w : Seen(w) /\ Seen(w)'
      /\ \A b \in Addrs : Known(b)' = Known(b)
  BY <1>1, <1>2, <1>3, <1>4, SameCloud DEF Seen, Known
<1>7. VmsPart' /\ IfsPart'
  BY <1>1, <1>4, <1>5, <1>6 DEF Course, VmsPart, IfsPart
<1>8. IpsPart'
  <2>1. \A n \in newIps : n[1] \in Addrs
    BY Ours DEF TypeOK
  <2>2. \A j \in Nics : \A b \in {cloud.addr[j], cloud.nat[j]} \ {None} : b \in Addrs
    <3>1. \A j \in Nics : cloud.addr[j] # None => cloud.addr[j] \in Addrs
      BY Ours DEF Used
    <3> QED
      BY <3>1, Ours, Markers
  <2> QED
    BY <1>1, <1>6, <2>1, <2>2 DEF Course, IpsPart
<1>9. MovesPart'
  BY <1>1, <1>6 DEF Course, MovesPart
<1>10. \A j \in Used : /\ cloud.addr[j] \in Addrs
                       /\ j # i => cloud.addr[j] # a
  BY <1>2, <1>3, OneNic, Ours
<1>11. \/ \A w \in Vms \ {i[1]} : nb.prim[w] # a
       \/ cache.ip[a] = i /\ nb.ip[a] \in {i, Absent}
  BY <1>1, <1>2 DEF Course, PlacePart, Known
<1>12. nb.ip[a] # Absent => nb'.ip[a] = i
  <2> SUFFICES ASSUME nb.ip[a] # Absent PROVE nb'.ip[a] = i
    OBVIOUS
  <2>1. i \in nb.ifs
    BY <1>1, <1>3, <1>6, Ours DEF Course, IfsPart
  <2>2. CASE \A w \in Vms \ {i[1]} : nb.prim[w] # a
    <3>1. MayPlace(a, i)
      BY <2>1, <2>2 DEF MayPlace
    <3> QED
      BY <1>5, <3>1
  <2>3. CASE nb.ip[a] = i
    BY <1>5, <2>3
  <2> QED
    BY <1>11, <2>2, <2>3
<1>13. PlacePart'
  <2>1. ASSUME NEW j \in Used
        PROVE  LET b == cloud.addr[j] IN
               \/ cache'.ip[b] = Absent /\ nb'.ip[b] = Absent
               \/ b \in left' /\ move[b] = j /\ \A w \in Vms \ {j[1]} : nb'.prim[w] # b
               \/ cache'.ip[b] = j /\ nb'.ip[b] \in {j, Absent}
    <3>1. CASE j = i
      <4>1. nb'.ip[a] \in {i, Absent}
        BY <1>5, <1>12
      <4> QED
        BY <1>2, <1>4, <3>1, <4>1
    <3>2. CASE j # i
      <4> DEFINE b == cloud.addr[j]
      <4>1. /\ b # a /\ b \in Addrs
            /\ \/ cache.ip[b] = Absent /\ nb.ip[b] = Absent
               \/ b \in left /\ move[b] = j /\ \A w \in Vms \ {j[1]} : nb.prim[w] # b
               \/ cache.ip[b] = j /\ nb.ip[b] \in {j, Absent}
        BY <1>1, <1>10, <3>2 DEF Course, PlacePart
      <4>2. cache'.ip[b] = cache.ip[b] /\ nb'.ip[b] = nb.ip[b] /\ (b \in left => b \in left')
        BY <1>1, <1>4, <1>5, <4>1
      <4> QED
        BY <1>5, <4>1, <4>2
    <3> QED
      BY <3>1, <3>2
  <2> QED
    BY <1>1, <1>6, <2>1 DEF PlacePart, Deciding
<1>14. ASSUME clean >= 1 PROVE Again'
  <2>1. Again
    BY <1>14 DEF Course
  <2>2. ASSUME NEW j \in Used
        PROVE  LET b == cloud.addr[j] IN
               \/ cache'.ip[b] = Absent
               \/ b \in left' /\ nb'.ip[b] # Absent
               \/ nb'.ip[b] = j
    <3>1. CASE j = i
      <4>1. nb.ip[a] # Absent
        BY <1>1, <1>2, <1>3, <2>1 DEF Again, Known
      <4> QED
        BY <1>2, <1>12, <3>1, <4>1
    <3>2. CASE j # i
      <4> DEFINE b == cloud.addr[j]
      <4>1. /\ b # a /\ b \in Addrs
            /\ \/ cache.ip[b] = Absent
               \/ b \in left /\ nb.ip[b] # Absent
               \/ nb.ip[b] = j
        BY <1>1, <1>10, <2>1, <3>2 DEF Again
      <4> QED
        BY <1>1, <1>4, <1>5, <4>1
    <3> QED
      BY <3>1, <3>2
  <2>3. ASSUME NEW j \in Nics, cloud.nat[j] # None
        PROVE  nb'.ip[cloud.nat[j]] # Absent \/ <<cloud.nat[j], j>> \in newIps
    <3>1. cloud.nat[j] \in Addrs /\ cloud.nat[j] # a
      BY <1>2, <2>3, OneNic, Ours, Markers
    <3>2. nb.ip[cloud.nat[j]] # Absent \/ <<cloud.nat[j], j>> \in newIps
      BY <1>1, <2>1, <2>3 DEF Again, Deciding
    <3> QED
      BY <1>5, <3>1, <3>2
  <2> QED
    BY <1>1, <1>4, <1>6, <2>1, <2>2, <2>3 DEF Again, Deciding
<1>15. ASSUME clean >= 2 PROVE Third'
  BY <1>1, <1>4, <1>5, <1>6, <1>15 DEF Course, Third
<1> QED
  BY <1>1, <1>7, <1>8, <1>9, <1>13, <1>14, <1>15 DEF Course

LEMMA BeginIpsCourse ==
    ASSUME OwnAddressesArePrivate, IInv, Course, BeginIps
    PROVE  Course'
<1>1. /\ step = "moves" /\ left = {} /\ step' = "ips" /\ left' = newIps
      /\ UNCHANGED <<cloud, nb, cache, clean>>
      /\ UNCHANGED <<change, move, pendMove, newIfs, newIps, pendPrim, madeIfs, madeIps>>
  BY DEF BeginIps, Goes, queues
<1>2. /\ Nics' = Nics /\ Used' = Used /\ \A v : PrivateOf(v)' = PrivateOf(v)
      /\ \A v : Seen(v) /\ Seen(v)'
      /\ \A a : Known(a)' = Known(a)
  BY <1>1, SameCloud DEF Seen, Known
<1>3. VmsPart' /\ IfsPart' /\ IpsPart' /\ MovesPart'
  BY <1>1, <1>2 DEF Course, VmsPart, IfsPart, IpsPart, MovesPart
<1>4. \A i \in Used : ~Known(cloud.addr[i]) => <<cloud.addr[i], i>> \in newIps
  BY <1>1, <1>2, Ours DEF Course, IpsPart
<1>5. \A i \in Used :
          LET a == cloud.addr[i] IN
          \/ cache.ip[a] = Absent /\ nb.ip[a] = Absent
          \/ cache.ip[a] = i /\ nb.ip[a] \in {i, Absent}
  BY <1>1 DEF Course, PlacePart
<1>6. PlacePart'
  <2>1. \A i \in Used :
          LET a == cloud.addr[i] IN
          \/ cache.ip[a] = Absent /\ nb.ip[a] = Absent /\ <<a, i>> \in newIps
          \/ nb.ip[a] = i
          \/ cache.ip[a] = i /\ nb.ip[a] = Absent
    BY <1>4, <1>5 DEF Known
  <2> QED
    BY <1>1, <1>2, <2>1 DEF PlacePart, Deciding
<1>7. ASSUME clean >= 1 PROVE Again'
  <2>1. Again
    BY <1>7 DEF Course
  <2>2. \A i \in Used :
          LET a == cloud.addr[i] IN
          <<a, i>> \in newIps \/ (nb.ip[a] = i /\ cache.ip[a] = i)
    <3>1. \A i \in Used : i # Absent
      BY Ours, Markers
    <3> QED
      BY <1>1, <1>4, <1>5, <2>1, <3>1 DEF Again, Known
  <2> QED
    BY <1>1, <1>2, <2>1, <2>2 DEF Again, Deciding
<1>8. ASSUME clean >= 2 PROVE Third'
  BY <1>1, <1>2, <1>8 DEF Course, Third
<1> QED
  BY <1>1, <1>3, <1>6, <1>7, <1>8 DEF Course

LEMMA CreateIpCourse ==
    ASSUME OwnAddressesArePrivate, IInv, Course, NEW n \in Addrs \X Ifaces, CreateIp(n), ~CallFails
    PROVE  Course'
<1> DEFINE a == n[1]
           i == n[2]
<1>1. /\ step = "ips" /\ n \in left /\ left' = left \ {n} /\ n \in newIps
      /\ n = <<a, i>> /\ a \in Addrs /\ i \in Ifaces
      /\ UNCHANGED <<cloud, cache, step, clean>>
      /\ UNCHANGED <<change, move, pendMove, newIfs, newIps, pendPrim, madeIfs>>
  BY Ours DEF CreateIp, Done, LeftInv
<1>2. /\ Nics' = Nics /\ Used' = Used /\ \A v : PrivateOf(v)' = PrivateOf(v)
      /\ \A w : Seen(w) /\ Seen(w)'
      /\ \A b : Known(b)' = Known(b)
  BY <1>1, SameCloud DEF Seen, Known
<1>3. i \in Nics /\ a \in {cloud.addr[i], cloud.nat[i]} /\ ~Known(a) /\ i # Absent
  BY <1>1, Markers DEF Course, IpsPart
<1>4. i \in cache.ifs \cup madeIfs
  BY <1>1, <1>2, <1>3 DEF Course, IfsPart
<1>5. /\ nb' = IF nb.ip[a] = Absent \/ MayPlace(a, i) THEN Placed(nb, a, i) ELSE nb
      /\ madeIps' = madeIps \cup {a}
  BY <1>4 DEF CreateIp
<1>6. /\ nb'.vms = nb.vms /\ nb'.ifs = nb.ifs /\ nb'.prim = nb.prim
      /\ nb'.ip[a] = IF nb.ip[a] = Absent \/ MayPlace(a, i) THEN i ELSE nb.ip[a]
      /\ \A b \in Addrs : b # a => nb'.ip[b] = nb.ip[b]
  BY <1>1, <1>5, Ours, PlacedIs
<1> HIDE DEF a, i
<1>7. VmsPart' /\ IfsPart' /\ IpsPart' /\ MovesPart'
  BY <1>1, <1>2, <1>6 DEF Course, VmsPart, IfsPart, IpsPart, MovesPart
<1>8. ASSUME NEW j \in Used
      PROVE  /\ cloud.addr[j] \in Addrs
             /\ cloud.addr[j] = a => j = i
             /\ cloud.addr[j] # a => <<cloud.addr[j], j>> # n
  BY <1>1, <1>3, OneNic, Ours
<1>9. PlacePart'
  <2>1. ASSUME NEW j \in Used
        PROVE  LET b == cloud.addr[j] IN
               \/ cache.ip[b] = Absent /\ nb'.ip[b] = Absent /\ <<b, j>> \in left'
               \/ nb'.ip[b] = j
               \/ cache.ip[b] = j /\ nb'.ip[b] = Absent
    <3> DEFINE b == cloud.addr[j]
    <3>1. \/ cache.ip[b] = Absent /\ nb.ip[b] = Absent /\ <<b, j>> \in left
          \/ nb.ip[b] = j
          \/ cache.ip[b] = j /\ nb.ip[b] = Absent
      BY <1>1 DEF Course, PlacePart
    <3>2. CASE b = a
      <4>1. j = i /\ cache.ip[b] # j
        BY <1>3, <1>8, <3>2 DEF Known
      <4> QED
        BY <1>6, <3>1, <3>2, <4>1
    <3>3. CASE b # a
      BY <1>1, <1>6, <1>8, <3>1, <3>3
    <3> QED
      BY <3>2, <3>3
  <2> QED
    BY <1>1, <1>2, <2>1 DEF PlacePart, Deciding
<1>10. ASSUME clean >= 1 PROVE Again'
  <2>1. Again
    BY <1>10 DEF Course
  <2>2. ASSUME NEW j \in Used
        PROVE  LET b == cloud.addr[j] IN
               \/ <<b, j>> \in left'
               \/ nb'.ip[b] = j /\ (cache.ip[b] = j \/ b \in madeIps')
    <3> DEFINE b == cloud.addr[j]
    <3>1. \/ <<b, j>> \in left
          \/ nb.ip[b] = j /\ (cache.ip[b] = j \/ b \in madeIps)
      BY <1>1, <2>1 DEF Again
    <3>2. CASE b = a
      <4>1. j = i /\ cache.ip[b] # j
        BY <1>3, <1>8, <3>2 DEF Known
      <4>2. nb.ip[b] \in {Absent, j}
        BY <1>1, <4>1 DEF Course, PlacePart
      <4> QED
        BY <1>5, <1>6, <3>2, <4>1, <4>2
    <3>3. CASE b # a
      BY <1>1, <1>5, <1>6, <1>8, <3>1, <3>3
    <3> QED
      BY <3>2, <3>3
  <2>3. ASSUME NEW j \in Nics, cloud.nat[j] # None
        PROVE  nb'.ip[cloud.nat[j]] # Absent \/ <<cloud.nat[j], j>> \in left'
    <3> DEFINE b == cloud.nat[j]
    <3>1. b \in Addrs /\ j \in Ifaces
      BY <2>3, Ours, Markers
    <3>2. nb.ip[b] # Absent \/ <<b, j>> \in left
      BY <1>1, <2>1, <2>3 DEF Again, Deciding
    <3>3. CASE b = a
      BY <1>3, <1>6, <3>3
    <3>4. CASE b # a
      BY <1>1, <1>6, <3>1, <3>2, <3>4
    <3> QED
      BY <3>3, <3>4
  <2> QED
    BY <1>1, <1>2, <2>1, <2>2, <2>3 DEF Again, Deciding
<1>11. ASSUME clean >= 2 PROVE Third'
  BY <1>1, <1>2, <1>6, <1>11 DEF Course, Third
<1> QED
  BY <1>1, <1>7, <1>9, <1>10, <1>11 DEF Course

LEMMA BeginPrimariesCourse ==
    ASSUME OwnAddressesArePrivate, IInv, Course, BeginPrimaries
    PROVE  Course'
<1>1. /\ step = "ips" /\ left = {} /\ step' = "primaries"
      /\ left' = {v \in Vms : change'[v] \in Addrs}
      /\ \A v \in Vms : change'[v] = IF change[v] = Pending /\ pendPrim[v] \in madeIps
                                     THEN pendPrim[v] ELSE change[v]
      /\ UNCHANGED <<cloud, nb, cache, clean>>
      /\ UNCHANGED <<move, pendMove, newIfs, newIps, pendPrim, madeIfs, madeIps>>
  BY DEF BeginPrimaries, Goes
<1>2. /\ Nics' = Nics /\ Used' = Used /\ \A v : PrivateOf(v)' = PrivateOf(v)
      /\ \A v : Seen(v) /\ Seen(v)'
      /\ \A a : Known(a)' = Known(a)
  BY <1>1, SameCloud DEF Seen, Known
<1>3. VmsPart'
  <2>1. \A v \in Vms : change'[v] \notin {Keep, None} => change[v] \notin {Keep, None}
    BY <1>1, Markers
  <2> QED
    BY <1>1, <1>2, <2>1 DEF Course, VmsPart
<1>4. IfsPart' /\ IpsPart' /\ MovesPart'
  BY <1>1, <1>2 DEF Course, IfsPart, IpsPart, MovesPart
<1>5. PlacePart'
  BY <1>1, <1>2 DEF Course, PlacePart, Deciding, Free
<1>6. ASSUME clean >= 1 PROVE Again'
  <2>1. Again
    BY <1>6 DEF Course
  <2>2. \A v \in Vms : change'[v] \in {change[v], pendPrim[v]}
    BY <1>1
  <2>3. \A v \in Vms : \A i \in Used : cloud.addr[i] \in {change'[v], pendPrim[v]} => v = i[1]
    BY <2>1, <2>2 DEF Again
  <2> QED
    BY <1>1, <1>2, <2>1, <2>3 DEF Again, Deciding
<1>7. ASSUME clean >= 2 PROVE Third'
  <2>1. Third
    BY <1>7 DEF Course
  <2>2. \A v \in Vms : change'[v] # None
    <3>1. None \notin madeIps
      BY Ours, Markers DEF TypeOK
    <3> QED
      BY <1>1, <2>1, <3>1 DEF Third
  <2>3. ASSUME NEW v \in cloud.vms, PrivateOf(v) # None
        PROVE  /\ change'[v] \in {Keep, PrivateOf(v)}
               /\ nb.prim[v] \in Private \/ (change'[v] = PrivateOf(v) /\ v \in left')
    <3>1. PrivateOf(v) \in Addrs /\ v \in Vms
      BY <2>3, Ours, PrivateOfIs, Markers
    <3>2. change'[v] = change[v]
      BY <1>1, <2>1, <2>3, <3>1, Markers DEF Third
    <3> QED
      BY <1>1, <1>2, <2>1, <2>3, <3>1, <3>2 DEF Third
  <2> QED
    BY <1>1, <1>2, <2>2, <2>3 DEF Third
<1> QED
  BY <1>1, <1>3, <1>4, <1>5, <1>6, <1>7 DEF Course

LEMMA SetPrimaryCourse ==
    ASSUME OwnAddressesArePrivate, IInv, Course, NEW v \in Vms, SetPrimary(v), ~CallFails
    PROVE  Course'
<1> DEFINE a     == change[v]
           at0   == IF a \in madeIps THEN nb.ip[a] ELSE cache.ip[a]
           ifs   == IF IfacesOf(cache.ifs, v) # {} THEN IfacesOf(cache.ifs, v)
                                                   ELSE IfacesOf(nb.ifs, v)
           i0    == <<v, First({i[2] : i \in ifs})>>
           moves == ifs # {} /\ at0 \notin ifs
           moved == IF moves /\ MayPlace(a, i0) THEN Placed(nb, a, i0) ELSE nb
<1>1. /\ step = "primaries" /\ v \in left /\ left' = left \ {v} /\ a \in Addrs
      /\ UNCHANGED <<cloud, step, clean>>
      /\ UNCHANGED <<change, move, pendMove, newIfs, newIps, pendPrim, madeIfs, madeIps>>
  BY Ours DEF SetPrimary, Done, queues, LeftInv
<1>2. v \in cloud.vms /\ v \in nb.vms
  BY <1>1, Markers DEF Course, VmsPart, Seen
<1>3. /\ cache' = IF moves /\ a \notin madeIps THEN Placed(cache, a, i0) ELSE cache
      /\ nb' = IF /\ ifs # {}
                  /\ moves => MayPlace(a, i0)
                  /\ MayBePrimary(moved, v, a)
               THEN [moved EXCEPT !.prim[v] = a] ELSE moved
  BY DEF SetPrimary
<1>4. i0[1] = v /\ (MayPlace(a, i0) => i0 \in nb.ifs /\ i0 \in Ifaces)
  BY Ours DEF MayPlace, NetBox
<1>5. ifs # {} => i0 \in Ifaces
  <2>1. \A i \in ifs : i[1] = v /\ i[2] \in Idx
    BY Ours DEF IfacesOf, NetBox, Ifaces
  <2>2. ifs # {} => First({i[2] : i \in ifs}) \in Idx
    <3>1. {i[2] : i \in ifs} \in SUBSET Idx
      BY <2>1
    <3>2. ifs # {} => {i[2] : i \in ifs} # {}
      OBVIOUS
    <3> QED
      BY <3>1, <3>2, FirstOf
  <2> QED
    BY <2>2 DEF Ifaces
<1>6. /\ cache'.vms = cache.vms /\ cache'.ifs = cache.ifs /\ cache'.prim = cache.prim
      /\ \A b \in Addrs : b # a => cache'.ip[b] = cache.ip[b]
      /\ ~moves => cache'.ip = cache.ip
  <2>1. CASE moves /\ a \notin madeIps
    <3>1. cache' = Placed(cache, a, i0) /\ i0 \in Ifaces
      BY <1>3, <1>5, <2>1
    <3> HIDE DEF i0, at0, ifs
    <3> QED
      BY <1>1, <2>1, <3>1, Ours, PlacedIs
  <2>2. CASE ~ (moves /\ a \notin madeIps)
    <3>1. cache' = cache
      BY <1>3, <2>2
    <3> QED
      BY <3>1
  <2> QED
    BY <2>1, <2>2
<1>7. /\ moved \in NetBox /\ moved.vms = nb.vms /\ moved.ifs = nb.ifs /\ moved.prim = nb.prim
      /\ \A b \in Addrs : b # a => moved.ip[b] = nb.ip[b]
      /\ moved.ip[a] = IF moves /\ MayPlace(a, i0) THEN i0 ELSE nb.ip[a]
  <2>1. CASE moves /\ MayPlace(a, i0)
    <3>1. moved = Placed(nb, a, i0) /\ i0 \in Ifaces
      BY <1>4, <2>1
    <3> HIDE DEF moved, i0, at0, ifs
    <3> QED
      BY <1>1, <2>1, <3>1, Ours, PlacedIs
  <2>2. CASE ~ (moves /\ MayPlace(a, i0))
    <3>1. moved = nb
      BY <2>2
    <3> HIDE DEF moved
    <3> QED
      BY <2>2, <3>1, Ours
  <2> QED
    BY <2>1, <2>2
<1> HIDE DEF moved
<1>8. MayBePrimary(moved, v, a) <=> moved.ip[a] \in IfacesOf(nb.ifs, v)
  BY <1>2, <1>7 DEF MayBePrimary
<1>9. /\ nb'.vms = nb.vms /\ nb'.ifs = nb.ifs /\ nb'.ip = moved.ip
      /\ \A w \in Vms : w # v => nb'.prim[w] = nb.prim[w]
      /\ nb'.prim[v] \in {nb.prim[v], a}
      /\ moves /\ MayPlace(a, i0) => nb'.prim[v] = a
      /\ ifs # {} /\ ~moves /\ nb.ip[a] \in IfacesOf(nb.ifs, v) => nb'.prim[v] = a
  <2>1. CASE nb' = [moved EXCEPT !.prim[v] = a]
    BY <1>1, <1>7, <2>1 DEF NetBox
  <2>2. CASE /\ nb' = moved
             /\ ~ (/\ ifs # {}
                   /\ moves => MayPlace(a, i0)
                   /\ MayBePrimary(moved, v, a))
    <3>1. moves /\ MayPlace(a, i0) => moved.ip[a] \in IfacesOf(nb.ifs, v)
      BY <1>4, <1>7 DEF IfacesOf
    <3>2. ~ (moves /\ MayPlace(a, i0))
      BY <1>8, <2>2, <3>1
    <3>3. ~ (ifs # {} /\ ~moves /\ nb.ip[a] \in IfacesOf(nb.ifs, v))
      <4> SUFFICES ASSUME ifs # {}, ~moves, nb.ip[a] \in IfacesOf(nb.ifs, v) PROVE FALSE
        OBVIOUS
      <4>1. moved.ip[a] \in IfacesOf(nb.ifs, v)
        BY <1>7
      <4> QED
        BY <1>8, <2>2, <4>1
    <3> QED
      BY <1>7, <2>2, <3>2, <3>3
  <2> HIDE DEF ifs, i0, moves
  <2> QED
    BY <1>3, <2>1, <2>2
<1>10. /\ Nics' = Nics /\ Used' = Used /\ \A w : PrivateOf(w)' = PrivateOf(w)
       /\ \A w : Seen(w) /\ Seen(w)'
  BY <1>1, SameCloud DEF Seen
<1>11. \A b \in Addrs : Known(b) => Known(b)'
  <2>1. cache'.ip[a] \in {cache.ip[a], i0}
    <3>1. CASE moves /\ a \notin madeIps
      <4>1. cache' = Placed(cache, a, i0) /\ i0 \in Ifaces
        BY <1>3, <1>5, <3>1
      <4> HIDE DEF i0
      <4> QED
        BY <1>1, <4>1, Ours, PlacedIs
    <3>2. CASE ~ (moves /\ a \notin madeIps)
      BY <1>3, <3>2
    <3> QED
      BY <3>1, <3>2
  <2>2. cache'.ip[a] # cache.ip[a] => i0 \in Ifaces
    BY <1>3, <1>5
  <2> HIDE DEF ifs, i0, moves
  <2> QED
    BY <1>6, <2>1, <2>2, Markers DEF Known
<1> HIDE DEF at0, ifs, i0, moves
<1>12. VmsPart' /\ IfsPart' /\ IpsPart'
  BY <1>1, <1>6, <1>9, <1>10 DEF Course, VmsPart, IfsPart, IpsPart
<1>13. MovesPart'
  BY <1>1, <1>10, <1>11 DEF Course, MovesPart
<1>14. ASSUME NEW i \in Used PROVE Free(nb', i)
  <2> DEFINE b == cloud.addr[i]
  <2>1. Free(nb, i) /\ b \in Addrs
    BY <1>1, Ours DEF Course, PlacePart
  <2>2. CASE nb'.ip[b] = nb.ip[b]
    <3>1. \A w \in Vms : nb.prim[w] # None => nb'.prim[w] # None
      BY <1>1, <1>9, Markers
    <3>2. \A j \in Ifaces : j[1] \in Vms
      BY DEF Ifaces
    <3> QED
      BY <2>1, <2>2, <3>1, <3>2 DEF Free
  <2>3. CASE b = a /\ moves /\ MayPlace(a, i0)
    <3>1. nb'.ip[b] = i0 /\ nb'.prim[v] # None
      BY <1>1, <1>7, <1>9, <2>3, Markers
    <3> QED
      BY <1>4, <2>3, <3>1 DEF Free
  <2> QED
    BY <1>7, <1>9, <2>1, <2>2, <2>3
<1>15. PlacePart'
  BY <1>1, <1>10, <1>14 DEF PlacePart, Deciding, Free
\* The address of a VM of the listing is in place, and the step finds it there.
<1>16. ASSUME clean >= 1, NEW i \in Used, cloud.addr[i] = a
       PROVE  i[1] = v /\ nb.ip[a] \in IfacesOf(nb.ifs, v) /\ ifs # {} /\ ~moves
  <2>1. /\ i[1] = v /\ i \in cache.ifs /\ i \in Nics
        /\ nb.ip[a] = i /\ (cache.ip[a] = i \/ a \in madeIps)
    BY <1>1, <1>16, Ours DEF Course, Again
  <2>2. i \in IfacesOf(cache.ifs, v) /\ i \in IfacesOf(nb.ifs, v)
    BY <2>1 DEF IfacesOf, Course, IfsPart
  <2>3. at0 = i /\ i \in ifs
    BY <2>1, <2>2 DEF at0, ifs
  <2> QED
    BY <2>1, <2>2, <2>3 DEF moves
<1>17. ASSUME clean >= 1 PROVE Again'
  <2>1. Again
    BY <1>17 DEF Course
  <2>2. ASSUME NEW i \in Used
        PROVE  LET b == cloud.addr[i] IN
               nb'.ip[b] = i /\ (cache'.ip[b] = i \/ b \in madeIps)
    <3> DEFINE b == cloud.addr[i]
    <3>1. b \in Addrs /\ nb.ip[b] = i /\ (cache.ip[b] = i \/ b \in madeIps)
      BY <1>1, <2>1, Ours DEF Again
    <3>2. CASE b = a
      <4>1. ~moves
        BY <1>16, <1>17, <3>2
      <4> QED
        BY <1>6, <1>7, <1>9, <3>1, <3>2, <4>1
    <3>3. CASE b # a
      BY <1>6, <1>7, <1>9, <3>1, <3>3
    <3> QED
      BY <3>2, <3>3
  <2>3. ASSUME NEW i \in Nics, cloud.nat[i] # None PROVE nb'.ip[cloud.nat[i]] # Absent
    <3>1. cloud.nat[i] \in Addrs /\ nb.ip[cloud.nat[i]] # Absent
      BY <1>1, <2>1, <2>3, Ours, Markers DEF Again, Deciding
    <3> QED
      BY <1>4, <1>7, <1>9, <3>1, Markers
  <2> QED
    BY <1>1, <1>6, <1>10, <2>1, <2>2, <2>3 DEF Again, Deciding
<1>18. ASSUME clean >= 2 PROVE Third'
  <2>1. Third
    BY <1>18 DEF Course
  <2>2. clean >= 1
    <3>1. clean \in Nat
      BY Ours, MaxCleanIs DEF TypeOK
    <3> QED
      BY <1>18, <3>1
  <2>3. ASSUME NEW w \in cloud.vms, PrivateOf(w) # None
        PROVE  nb'.prim[w] \in Private \/ (change[w] = PrivateOf(w) /\ w \in left')
    <3>1. w \in Vms
      BY Ours
    <3>2. CASE w = v
      <4>1. PICK i \in Used : PrivateOf(v) = cloud.addr[i]
        BY <2>3, <3>2, PrivateIs
      <4>2. a = cloud.addr[i]
        BY <1>1, <2>1, <2>3, <3>2, <4>1, Markers DEF Third
      <4>3. nb'.prim[v] = a
        BY <1>9, <1>16, <2>2, <4>2
      <4> QED
        BY <3>2, <4>2, <4>3, Ours
    <3>3. CASE w # v
      BY <1>1, <1>9, <1>10, <2>1, <2>3, <3>1, <3>3 DEF Third
    <3> QED
      BY <3>2, <3>3
  <2> QED
    BY <1>1, <1>10, <2>1, <2>3 DEF Third
<1> QED
  BY <1>1, <1>12, <1>13, <1>15, <1>17, <1>18 DEF Course

\* The sync ends, and NetBox has come one stage further.
LEMMA EndStages ==
    ASSUME OwnAddressesArePrivate, IInv, whole => Course, End
    PROVE  Stages'
<1>1. /\ step = "primaries" /\ left = {} /\ UNCHANGED <<cloud, nb>>
      /\ clean' = IF whole THEN (IF clean < MaxClean THEN clean + 1 ELSE clean) ELSE 0
  BY DEF End, Forget
<1>2. clean \in Nat /\ MaxClean \in Nat /\ MaxClean >= 3
  BY Ours, MaxCleanIs DEF TypeOK
<1>3. CASE ~whole
  <2>1. clean' = 0
    BY <1>1, <1>3, Zenon
  <2> QED
    BY <2>1 DEF Stages
<1>4. CASE whole
  <2>1. Course
    BY <1>4
  <2>2. clean' = IF clean < MaxClean THEN clean + 1 ELSE clean
    BY <1>1, <1>4, Zenon
  <2>3. /\ Nics' = Nics /\ Used' = Used /\ \A v : PrivateOf(v)' = PrivateOf(v)
        /\ \A v : Seen(v)
    BY <1>1, SameCloud DEF Seen
  <2>4. Built'
    <3>1. nb.vms = cloud.vms
      BY <1>1, <2>1, <2>3 DEF Course, VmsPart
    <3>2. Nics \subseteq nb.ifs
      BY <1>1, <2>1, <2>3 DEF Course, IfsPart
    <3> QED
      BY <1>1, <2>3, <3>1, <3>2 DEF Built
  <2>5. \A i \in Used : Free(nb, i)'
    BY <1>1, <2>1 DEF Course, PlacePart, Free
  <2>6. clean' >= 2 => InPlace' /\ MappedKnown'
    <3> SUFFICES ASSUME clean' >= 2 PROVE InPlace' /\ MappedKnown'
      OBVIOUS
    <3>1. Again
      BY <1>2, <2>1, <2>2 DEF Course
    <3> QED
      BY <1>1, <2>3, <3>1 DEF Again, InPlace, MappedKnown, Deciding
  <2>7. clean' >= 3 => PrivateFirst'
    <3> SUFFICES ASSUME clean' >= 3 PROVE PrivateFirst'
      OBVIOUS
    <3>1. Third
      BY <1>2, <2>1, <2>2 DEF Course
    <3> QED
      BY <1>1, <2>3, <3>1 DEF Third, PrivateFirst
  <2> QED
    BY <2>3, <2>4, <2>5, <2>6, <2>7 DEF Stages
<1> QED
  BY <1>3, <1>4

\* A step in the middle of a sync.
LEMMA StepCourse ==
    ASSUME OwnAddressesArePrivate, IInv, CInv, at = "off", Next, step' # "idle", whole'
    PROVE  Course'
<1>1. ~CallFails
  <2>1. CallFails => ~whole'
    BY Zenon DEF CallFails
  <2> QED
    BY <2>1
<1>2. CASE Load
  BY <1>1, <1>2, LoadCourse DEF CInv
<1>3. CASE ~Load
  <2>1. step # "idle"
    BY <1>3 DEF Next, CloudChanges, Begin, End, Crash, Forget, BeginProcess, BeginUnset,
           BeginInterfaces, BeginMoves, BeginIps, BeginPrimaries, Goes, DeleteOrphan, Process,
           ProcessFails, UnsetPrimary, SetPrimary, CreateInterface, UpdateIp, CreateIp
  <2>2. whole' = whole
    BY <1>1, <1>3 DEF Next, CloudChanges, Begin, End, Crash, BeginProcess, BeginUnset,
           BeginInterfaces, BeginMoves, BeginIps, BeginPrimaries, Goes, DeleteOrphan, Process,
           ProcessFails, UnsetPrimary, SetPrimary, CreateInterface, UpdateIp, CreateIp, Succeeds
  <2>3. Course
    <3>1. whole
      BY <2>2, Zenon
    <3> QED
      BY <2>1, <3>1 DEF CInv
  <2>4. ~CloudChanges /\ ~End /\ ~Crash
    BY <2>1 DEF CloudChanges, End, Crash, Forget
  <2>5. CASE Begin
    BY <2>3, <2>5, BeginProcessCourse, BeginUnsetCourse, BeginInterfacesCourse, BeginMovesCourse,
       BeginIpsCourse, BeginPrimariesCourse DEF Begin
  <2>6. CASE \E v \in Vms : DeleteOrphan(v) \/ Process(v) \/ ProcessFails(v)
                            \/ UnsetPrimary(v) \/ SetPrimary(v)
    <3>1. \A v \in Vms : ~ProcessFails(v)
      BY <1>1 DEF ProcessFails
    <3> QED
      BY <1>1, <2>3, <2>6, <3>1, DeleteOrphanCourse, ProcessCourse, UnsetPrimaryCourse,
         SetPrimaryCourse
  <2>7. CASE \E i \in Ifaces : CreateInterface(i)
    BY <1>1, <2>3, <2>7, CreateInterfaceCourse
  <2>8. CASE \E a \in Addrs : UpdateIp(a)
    BY <1>1, <2>3, <2>8, UpdateIpCourse
  <2>9. CASE \E n \in Addrs \X Ifaces : CreateIp(n)
    BY <1>1, <2>3, <2>9, CreateIpCourse
  <2> QED
    BY <1>3, <2>4, <2>5, <2>6, <2>7, <2>8, <2>9 DEF Next
<1> QED
  BY <1>2, <1>3

LEMMA BatchConverges ==
    ASSUME OwnAddressesArePrivate, IInv, CInv, at = "off", Next, UNCHANGED seq
    PROVE  CInv'
<1>1. at' = "off"
  BY DEF seq
<1>2. whole' /\ step' # "idle" => Course'
  BY StepCourse
<1>3. Stages'
  <2>1. CASE step' # "idle"
    BY <2>1 DEF Stages
  <2>2. CASE End
    <3>1. whole => Course
      BY <2>2 DEF CInv, End
    <3> QED
      BY <2>2, <3>1, EndStages
  <2>3. CASE CloudChanges \/ Crash
    <3>1. clean' = 0
      BY <2>3 DEF CloudChanges, Crash
    <3> QED
      BY <3>1 DEF Stages
  <2>4. step' # "idle" \/ End \/ CloudChanges \/ Crash
    BY DEF Next, Load, Begin, BeginProcess, BeginUnset,
           BeginInterfaces, BeginMoves, BeginIps, BeginPrimaries, Goes, DeleteOrphan, Process,
           ProcessFails, UnsetPrimary, SetPrimary, CreateInterface, UpdateIp, CreateIp
  <2> QED
    BY <2>1, <2>2, <2>3, <2>4
<1> QED
  BY <1>1, <1>2, <1>3 DEF CInv

-----------------------------------------------------------------------------
(* The course of a sequential sync                                         *)

LEMMA SeqOn ==
    ASSUME OwnAddressesArePrivate, IInv, CInv, at # "off"
    PROVE  /\ step = "idle" /\ SeqPart /\ (whole => SeqWhole) /\ SeqInv
           /\ clean \in Nat
           /\ clean >= 1 => Built
           /\ clean >= 2 => Built /\ InPlace /\ MappedKnown
           /\ clean >= 3 => PrivateFirst
<1>1. step = "idle" /\ SeqInv
  BY DEF IInv, SeqInv
<1>2. clean \in Nat
  BY Ours, MaxCleanIs DEF TypeOK
<1>3. clean >= 2 => clean >= 1
  BY <1>2
<1> QED
  BY <1>1, <1>2, <1>3 DEF CInv, Stages

\* What a step of a sequential sync has to keep.
SeqCourse == Stages' /\ SeqPart' /\ (whole' => SeqWhole')

LEMMA WholeIs ==
    /\ CallFails => ~whole'
    /\ Succeeds \/ UNCHANGED whole => (whole' => whole)
<1>1. CallFails => ~whole'
  BY Zenon DEF CallFails
<1>2. Succeeds \/ UNCHANGED whole => whole' = whole
  BY DEF Succeeds
<1>3. whole' = whole => (whole' => whole)
  <2> SUFFICES ASSUME whole' = whole, whole' PROVE whole
    OBVIOUS
  <2> QED
    BY Zenon
<1> QED
  BY <1>1, <1>2, <1>3

LEMMA SeqBeginsCourse ==
    ASSUME OwnAddressesArePrivate, IInv, CInv, SeqBegins
    PROVE  SeqCourse
<1>1. /\ step = "idle" /\ at' = "orphans"
      /\ UNCHANGED <<cloud, nb, batch, changes, clean, vm, slots, known, was, got>>
  BY DEF SeqBegins
<1>2. Stages'
  BY <1>1, SameCloud DEF CInv, Stages, Built, InPlace, MappedKnown, PrivateFirst, batch
<1>3. SeqPart'
  BY <1>1 DEF SeqPart, Reading
<1>4. ASSUME whole' PROVE SeqWhole'
  <2>1. ~CallFails
    BY <1>4, WholeIs
  <2>2. todo' = nb.vms \ cloud.vms
    BY <2>1 DEF SeqBegins
  <2> QED
    BY <1>1, <2>2 DEF SeqWhole, Reading
<1> QED
  BY <1>2, <1>3, <1>4 DEF SeqCourse

LEMMA SeqDeleteOrphanCourse ==
    ASSUME OwnAddressesArePrivate, IInv, CInv, NEW v \in Vms, SeqDeleteOrphan(v)
    PROVE  SeqCourse
<1>1. /\ at = "orphans" /\ v \in todo /\ todo' = todo \ {v}
      /\ UNCHANGED <<cloud, batch, changes, clean, at, vm, slots, known, was, got>>
  BY DEF SeqDeleteOrphan
<1>2. ~ (clean >= 1) /\ clean \in Nat
  BY <1>1, SeqOn DEF Built, SeqInv
<1>3. Stages'
  BY <1>1, <1>2 DEF Stages
<1>4. SeqPart'
  BY <1>1 DEF SeqPart, Reading
<1>5. ASSUME whole' PROVE SeqWhole'
  <2>1. ~CallFails
    BY <1>5, WholeIs
  <2>2. nb' = Deleted(v) /\ Succeeds
    BY <2>1 DEF SeqDeleteOrphan
  <2>3. SeqWhole
    BY <1>1, <1>5, <2>2, WholeIs, SeqOn
  <2>4. nb'.vms = nb.vms \ {v}
    BY <2>2, Ours, DeletedIs
  <2> QED
    BY <1>1, <2>3, <2>4 DEF SeqWhole, Reading
<1> QED
  BY <1>3, <1>4, <1>5 DEF SeqCourse

\* Addresses in place and primary addresses stay if NetBox does.
LEMMA StagesStay ==
    ASSUME OwnAddressesArePrivate, IInv, CInv, at # "off", at' # "off", UNCHANGED <<cloud, clean>>,
           nb'.vms = nb.vms, nb.ifs \subseteq nb'.ifs, nb'.ip = nb.ip, nb'.prim = nb.prim
    PROVE  Stages'
<1>1. /\ Nics' = Nics /\ Used' = Used /\ \A v : PrivateOf(v)' = PrivateOf(v)
  BY SameCloud
<1> QED
  BY <1>1, SeqOn DEF Stages, Built, InPlace, MappedKnown, PrivateFirst

LEMMA FetchVmsCourse ==
    ASSUME OwnAddressesArePrivate, IInv, CInv, FetchVms
    PROVE  SeqCourse
<1>1. /\ at = "orphans" /\ todo = {} /\ at' = "vms" /\ todo' = cloud.vms
      /\ \/ known' = nb.vms /\ was' = nb.prim /\ whole' = whole
         \/ known' = {} /\ was' = [v \in Vms |-> None] /\ ~whole'
      /\ UNCHANGED <<cloud, nb, batch, changes, clean, vm, slots, got>>
  BY WholeIs DEF FetchVms, Succeeds
<1>2. /\ Nics' = Nics /\ Used' = Used /\ \A v : PrivateOf(v)' = PrivateOf(v)
      /\ \A v : Past(v)' <=> v \notin cloud.vms
  BY <1>1, SameCloud DEF Past
<1>3. Stages'
  BY <1>1, StagesStay
<1>4. SeqPart'
  <2>1. clean >= 1 => nb.vms = cloud.vms
    BY <1>1, SeqOn DEF Built
  <2>2. None \notin Private /\ \A v \in cloud.vms : v \in Vms
    BY Markers, Ours
  <2> QED
    BY <1>1, <1>2, <2>1, <2>2 DEF SeqPart
<1>5. ASSUME whole' PROVE SeqWhole'
  <2>1. SeqWhole
    BY <1>1, <1>5, WholeIs, SeqOn
  <2>2. \A i \in Nics : i[1] \in cloud.vms
    BY Ours
  <2>3. \A i \in Nics : ~DoneSlot(i, "nat")' /\ ~DoneSlot(i, "addr")'
    BY <1>1, <2>2 DEF DoneSlot
  <2>4. nb.vms \subseteq cloud.vms
    BY <1>1, <2>1 DEF SeqWhole
  <2>5. known' = nb.vms /\ nb' = nb
    BY <1>1, <1>5
  <2> QED
    BY <1>1, <1>2, <2>3, <2>4, <2>5 DEF SeqWhole
<1> QED
  BY <1>3, <1>4, <1>5 DEF SeqCourse

LEMMA TakeVmCourse ==
    ASSUME OwnAddressesArePrivate, IInv, CInv, NEW v \in Vms, TakeVm(v)
    PROVE  SeqCourse
<1>1. /\ at = "vms" /\ v \in todo /\ todo' = todo \ {v} /\ v \in cloud.vms
      /\ UNCHANGED <<cloud, batch, changes, clean, known, was, got>>
  BY SeqOn DEF TakeVm, SeqPart, Reading
<1>2. /\ at' \in {"iface", "vms"}
      /\ nb.vms \subseteq nb'.vms /\ nb'.vms \subseteq nb.vms \cup {v}
      /\ nb'.ifs = nb.ifs /\ nb'.ip = nb.ip /\ nb'.prim = nb.prim
  BY <1>1, Ours, WithVm DEF TakeVm
<1>3. /\ Nics' = Nics /\ Used' = Used /\ \A w : PrivateOf(w)' = PrivateOf(w)
  BY <1>1, SameCloud
<1>4. Stages'
  <2>1. clean >= 1 => nb'.vms = nb.vms
    BY <1>1, <1>2, SeqOn DEF Built
  <2> QED
    BY <1>1, <1>2, <1>3, <2>1, SeqOn DEF Stages, Built, InPlace, MappedKnown, PrivateFirst
<1>5. CASE /\ v \in known \/ v \notin nb.vms
           /\ at' = "iface" /\ vm' = v /\ slots' = Slots
           /\ nb' = [nb EXCEPT !.vms = @ \cup {v}] /\ Succeeds
  <2>1. \A w : Past(w)' <=> Past(w)
    BY <1>1, <1>5 DEF Past
  <2>2. SeqPart'
    <3>1. SeqPart /\ (whole' => whole)
      BY <1>1, <1>5, SeqOn, WholeIs
    <3>2. clean >= 1 => known = cloud.vms
      <4>1. clean >= 1 => v \in nb.vms
        BY <1>1, SeqOn DEF Built
      <4> QED
        BY <1>1, <1>5, <3>1, <4>1 DEF SeqPart, Reading
    <3> QED
      BY <1>1, <1>2, <1>3, <1>5, <2>1, <3>1, <3>2 DEF SeqPart, Reading
  <2>3. ASSUME whole' PROVE SeqWhole'
    <3>1. SeqWhole
      BY <1>1, <1>5, <2>3, WholeIs, SeqOn
    <3>2. ASSUME NEW i \in Nics, NEW kind \in Kinds, DoneSlot(i, kind)' PROVE DoneSlot(i, kind)
      <4>1. i[2] \in Idx
        BY Ours
      <4> QED
        BY <1>1, <1>5, <3>2, <4>1 DEF DoneSlot, Slots
    <3>3. \A i \in Nics : Blocked(i) => Blocked(i)'
      BY <1>1, <1>2, <2>1 DEF Blocked, ListedBy
    <3>4. nb'.vms = nb.vms \cup {v}
      BY <1>5, Ours, WithVm
    <3> QED
      BY <1>1, <1>2, <1>3, <1>5, <3>1, <3>2, <3>3, <3>4 DEF SeqWhole, Reading, Kinds
  <2> QED
    BY <1>4, <2>2, <2>3 DEF SeqCourse
<1>6. CASE /\ UNCHANGED <<at, vm, slots, nb>>
           /\ CallFails \/ (v \notin known /\ v \in nb.vms /\ Succeeds)
  <2>1. ~whole'
    <3>1. CASE CallFails
      BY <3>1, WholeIs
    <3>2. CASE v \notin known /\ v \in nb.vms /\ Succeeds
      <4>1. whole => v \in known
        BY <1>1, <3>2, SeqOn DEF SeqWhole, Reading
      <4> QED
        BY <3>2, <4>1, WholeIs
    <3> QED
      BY <1>6, <3>1, <3>2
  <2>2. \A w : ~Past(w)' => ~Past(w)
    BY <1>1, <1>6 DEF Past
  <2>3. SeqPart'
    <3>1. SeqPart
      BY <1>1, SeqOn
    <3> QED
      BY <1>1, <1>3, <1>6, <2>1, <2>2, <3>1 DEF SeqPart, Reading
  <2> QED
    BY <1>4, <2>1, <2>3 DEF SeqCourse
<1> QED
  BY <1>5, <1>6 DEF TakeVm

LEMMA LeaveInterfacesCourse ==
    ASSUME OwnAddressesArePrivate, IInv, CInv, NoInterfaces \/ EndInterfaces
    PROVE  SeqCourse
<1>1. /\ at = "iface" /\ at' = "primary" /\ slots' = {}
      /\ UNCHANGED <<cloud, nb, batch, changes, clean, todo, vm, known, was, got>>
  BY DEF NoInterfaces, EndInterfaces
<1>2. /\ Nics' = Nics /\ Used' = Used /\ \A w : PrivateOf(w)' = PrivateOf(w)
      /\ \A w : Past(w)' <=> Past(w)
  BY <1>1, SameCloud DEF Past
<1>3. Stages'
  BY <1>1, StagesStay
<1>4. whole' => whole /\ slots = {}
  BY WholeIs DEF NoInterfaces, EndInterfaces
<1>5. SeqPart'
  <2>1. SeqPart
    BY <1>1, SeqOn
  <2> QED
    BY <1>1, <1>2, <1>4, <2>1 DEF SeqPart, Reading
<1>6. ASSUME whole' PROVE SeqWhole'
  <2>1. SeqWhole /\ slots = {}
    BY <1>1, <1>4, <1>6, SeqOn
  <2>2. \A i \in Nics, kind \in Kinds : DoneSlot(i, kind)' => DoneSlot(i, kind)
    BY <1>1, <2>1 DEF DoneSlot
  <2>3. \A i \in Nics : Blocked(i) => Blocked(i)'
    BY <1>1, <1>2 DEF Blocked, ListedBy
  <2> QED
    BY <1>1, <1>2, <2>1, <2>2, <2>3 DEF SeqWhole, Reading, Kinds
<1> QED
  BY <1>3, <1>5, <1>6 DEF SeqCourse

LEMMA SyncInterfaceCourse ==
    ASSUME OwnAddressesArePrivate, IInv, CInv, SyncInterface
    PROVE  SeqCourse
<1>1. /\ at = "iface" /\ at' \in {"iface", "address"} /\ vm \in cloud.vms
      /\ UNCHANGED <<cloud, batch, changes, clean, todo, vm, known, was, got>>
  BY SeqOn DEF SyncInterface, SeqPart, Reading
<1>2. /\ nb'.vms = nb.vms /\ nb'.ip = nb.ip /\ nb'.prim = nb.prim /\ nb.ifs \subseteq nb'.ifs
  BY Ours DEF SyncInterface, NetBox
<1>3. /\ Nics' = Nics /\ Used' = Used /\ \A w : PrivateOf(w)' = PrivateOf(w)
      /\ \A w : Past(w)' <=> Past(w)
  BY <1>1, SameCloud DEF Past
<1>4. Stages'
  BY <1>1, <1>2, StagesStay
<1>5. whole' => whole /\ at' = "address" /\ slots' = slots /\ nb' = [nb EXCEPT !.ifs = @ \cup {iface}]
  BY WholeIs DEF SyncInterface
<1>6. SeqPart'
  <2>1. SeqPart
    BY <1>1, SeqOn
  <2> QED
    BY <1>1, <1>2, <1>3, <1>5, <2>1 DEF SeqPart, Reading
<1>7. ASSUME whole' PROVE SeqWhole'
  <2>1. /\ SeqWhole /\ slots' = slots /\ at' = "address"
        /\ nb'.ifs = nb.ifs \cup {iface}
    BY <1>1, <1>5, <1>7, SeqOn, Ours DEF NetBox
  <2>2. \A i \in Nics, kind \in Kinds : DoneSlot(i, kind)' => DoneSlot(i, kind)
    BY <1>1, <2>1 DEF DoneSlot
  <2>3. \A i \in Nics : Blocked(i) => Blocked(i)'
    BY <1>1, <1>2, <1>3 DEF Blocked, ListedBy
  <2>4. iface' = iface
    BY <1>1, <2>1 DEF iface, pos
  <2> QED
    BY <1>1, <1>2, <1>3, <2>1, <2>2, <2>3, <2>4 DEF SeqWhole, Reading, Kinds
<1> QED
  BY <1>4, <1>6, <1>7 DEF SeqCourse

\* No address is listed by two VMs.
LEMMA ListedOnce ==
    ASSUME OwnAddressesArePrivate, IInv, NEW v \in Vms, NEW w \in Vms,
           NEW a \in ListedBy(v), a \in ListedBy(w)
    PROVE  v = w
<1>1. PICK k \in Idx : a \in {cloud.addr[<<v, k>>], cloud.nat[<<v, k>>]} /\ a # None
  BY Markers DEF ListedBy
<1>2. PICK j \in Idx : a \in {cloud.addr[<<w, j>>], cloud.nat[<<w, j>>]}
  BY DEF ListedBy
<1>3. <<v, k>> \in Ifaces /\ <<w, j>> \in Ifaces
  BY DEF Ifaces
<1>4. <<v, k>> = <<w, j>>
  BY <1>1, <1>2, <1>3, Ours DEF Distinct
<1> QED
  BY <1>4

\* The address at hand.
LEMMA HandIs ==
    ASSUME OwnAddressesArePrivate, IInv, CInv, at = "address"
    PROVE  /\ vm \in cloud.vms /\ vm \in Vms /\ slots # {} /\ iface \in Nics /\ iface \in Ifaces
           /\ iface[1] = vm /\ iface[2] = pos
           /\ slot = <<pos, slot[2]>> /\ slot[2] \in Kinds
           /\ slot[2] = "addr" => ip = cloud.addr[iface]
           /\ slot[2] = "nat" => ip = cloud.nat[iface] /\ <<pos, "addr">> \notin slots
           /\ ip \in Addrs \cup {None}
           /\ ip # None => ip \in ListedBy(vm)
<1>1. vm \in cloud.vms /\ vm \in Vms /\ slots # {}
  BY SeqOn, Ours DEF SeqPart, SeqInv, Reading
<1>2. pos \in Idx /\ iface \in Ifaces /\ ip \in Addrs \cup {None}
      /\ slot[2] = (IF <<pos, "addr">> \in slots THEN "addr" ELSE "nat")
  BY <1>1, SlotIs
<1>3. iface = <<vm, pos>> /\ slot = <<pos, slot[2]>>
  BY DEF iface, slot
<1>4. iface \in Nics /\ iface[1] = vm /\ iface[2] = pos
  BY <1>1, <1>2, <1>3 DEF Nics
<1>5. /\ slot[2] = "addr" => ip = cloud.addr[iface]
      /\ slot[2] = "nat" => ip = cloud.nat[iface]
  BY DEF ip
<1>6. ip # None => ip \in ListedBy(vm)
  BY <1>2, <1>3, <1>5, Markers DEF ListedBy, Kinds
<1> QED
  BY <1>1, <1>2, <1>3, <1>4, <1>5, <1>6 DEF Kinds

LEMMA UnsetHoldersCourse ==
    ASSUME OwnAddressesArePrivate, IInv, CInv, UnsetHolders
    PROVE  SeqCourse
<1>1. /\ at = "address" /\ vm \in known /\ ip # None /\ nb.ip[ip] # iface
      /\ UNCHANGED <<cloud, batch, changes, clean, todo, vm, known, was, got>>
  BY DEF UnsetHolders
<1>2. \/ nb' = Unset(ip) /\ Succeeds /\ UNCHANGED <<at, slots>>
      \/ CallFails /\ Advance /\ UNCHANGED nb
  BY DEF UnsetHolders
<1>3. at' \in {"address", "iface"}
  BY <1>1, <1>2 DEF Advance
<1>4. /\ nb'.vms = nb.vms /\ nb'.ifs = nb.ifs /\ nb'.ip = nb.ip
      /\ \A w \in Vms : nb'.prim[w] = nb.prim[w] \/ nb.prim[w] = ip
  <2>1. CASE nb' = Unset(ip)
    BY <2>1, Ours DEF Unset, NetBox
  <2>2. CASE UNCHANGED nb
    BY <2>2
  <2> QED
    BY <1>2, <2>1, <2>2
<1>5. /\ Nics' = Nics /\ Used' = Used /\ \A w : PrivateOf(w)' = PrivateOf(w)
      /\ \A w : Past(w)' <=> Past(w)
  BY <1>1, <1>3, SameCloud DEF Past
<1>6. clean >= 2 => ip \notin Private
  <2> SUFFICES ASSUME clean >= 2 PROVE ip \notin Private
    OBVIOUS
  <2>1. iface \in Nics /\ InPlace
    BY <1>1, SeqOn, HandIs
  <2>2. slot[2] # "addr"
    BY <1>1, <2>1, HandIs DEF InPlace, Used
  <2>3. ip = cloud.nat[iface]
    BY <1>1, <2>2, HandIs DEF Kinds
  <2>4. ip \in Public
    BY <1>1, <2>1, <2>3, Ours
  <2> QED
    BY <2>4, AddrsAssumption
<1>7. \A v \in cloud.vms : v \in Vms
  BY Ours
<1>8. Stages'
  <2>1. clean >= 3 => PrivateFirst'
    <3>1. clean >= 3 => PrivateFirst /\ ip \notin Private
      BY <1>1, <1>6, SeqOn
    <3> QED
      BY <1>1, <1>4, <1>5, <1>7, <3>1 DEF PrivateFirst
  <2>2. clean >= 1 => Built'
    BY <1>1, <1>4, <1>5, SeqOn DEF Built
  <2>3. clean >= 2 => InPlace' /\ MappedKnown'
    BY <1>1, <1>4, <1>5, SeqOn DEF InPlace, MappedKnown
  <2> QED
    BY <1>1, <1>3, <2>1, <2>2, <2>3 DEF Stages
<1>9. SeqPart'
  <2>1. SeqPart /\ (whole' => whole)
    BY <1>1, <1>2, SeqOn, WholeIs
  <2>2. ASSUME clean >= 2, NEW v \in cloud.vms, PrivateOf(v) # None
        PROVE  /\ ~Past(v) => nb'.prim[v] = was[v] \/ was[v] \notin Private
               /\ whole' /\ Past(v) => nb'.prim[v] \in Private
    <3>1. /\ ~Past(v) => nb.prim[v] = was[v] \/ was[v] \notin Private
          /\ whole' /\ Past(v) => nb.prim[v] \in Private
      BY <1>1, <2>1, <2>2 DEF SeqPart, Reading
    <3>2. nb'.prim[v] = nb.prim[v] \/ nb.prim[v] \notin Private
      BY <1>4, <1>6, <1>7, <2>2
    <3> QED
      BY <3>1, <3>2
  <2> QED
    BY <1>1, <1>3, <1>5, <2>1, <2>2 DEF SeqPart, Reading
<1>10. ASSUME whole' PROVE SeqWhole'
  <2>1. UNCHANGED <<at, slots>> /\ SeqWhole
    BY <1>1, <1>2, <1>10, WholeIs, SeqOn
  <2>2. \A i \in Nics, kind \in Kinds : DoneSlot(i, kind)' => DoneSlot(i, kind)
    BY <1>1, <2>1 DEF DoneSlot
  <2>3. ASSUME NEW i \in Used, Blocked(i) PROVE Blocked(i)'
    <3>0. PICK p \in Ifaces : p = nb.ip[cloud.addr[i]]
      BY <2>3 DEF Blocked
    <3>1. p[1] \in Vms
      BY DEF Ifaces
    <3>2. ip # cloud.addr[i]
      <4>1. cloud.addr[i] \in ListedBy(i[1]) /\ i[1] \in Vms
        <5>1. /\ i = <<i[1], i[2]>> /\ i[2] \in Idx /\ i[1] \in Vms
              /\ cloud.addr[i] \in Addrs
          BY Ours
        <5>2. cloud.addr[<<i[1], i[2]>>] \in ListedBy(i[1])
          BY <5>1 DEF ListedBy
        <5> QED
          BY <5>1, <5>2
      <4>2. i[1] # vm
        BY <1>1, <2>3 DEF Blocked
      <4> QED
        BY <1>1, <4>1, <4>2, HandIs, ListedOnce
    <3>3. Past(p[1]) => ip \notin ListedBy(p[1])
      <4>1. Past(p[1]) => p[1] # vm
        BY <1>1 DEF Past
      <4> QED
        BY <1>1, <3>1, <4>1, HandIs, ListedOnce
    <3>4. nb'.prim[p[1]] = nb.prim[p[1]] \/ nb.prim[p[1]] = ip
      BY <1>4, <3>1
    <3>5. Past(p[1])' <=> Past(p[1])
      BY <1>5
    <3>6. ListedBy(p[1])' = ListedBy(p[1]) /\ nb'.ip[cloud.addr[i]] = p /\ cloud' = cloud
      BY <1>1, <1>4, <3>0 DEF ListedBy
    <3>7. ListedBy(i[1])' = ListedBy(i[1])
      BY <1>1 DEF ListedBy
    <3> QED
      BY <1>1, <2>3, <3>0, <3>2, <3>3, <3>4, <3>5, <3>6 DEF Blocked
  <2>4. iface' = iface
    BY <1>1, <2>1 DEF iface, pos
  <2> QED
    BY <1>1, <1>4, <1>5, <2>1, <2>2, <2>3, <2>4 DEF SeqWhole, Reading, Kinds, Used
<1> QED
  BY <1>8, <1>9, <1>10 DEF SeqCourse

LEMMA SyncAddressCourse ==
    ASSUME OwnAddressesArePrivate, IInv, CInv, SyncAddress
    PROVE  SeqCourse
<1>1. /\ at = "address" /\ Advance
      /\ vm \in known /\ ip # None /\ nb.ip[ip] # iface => Holders(ip) = {}
      /\ UNCHANGED <<cloud, batch, changes, clean, todo, vm, known, was>>
  BY DEF SyncAddress
<1>2. \/ /\ nb' = IF ip # None /\ (nb.ip[ip] = Absent \/ MayPlace(ip, iface))
                  THEN Placed(nb, ip, iface) ELSE nb
         /\ Succeeds
      \/ UNCHANGED nb /\ CallFails
  BY DEF SyncAddress
<1>3. at' \in {"address", "iface"} /\ slots' = slots \ {slot}
  BY <1>1 DEF Advance
<1>4. /\ nb'.vms = nb.vms /\ nb'.ifs = nb.ifs /\ nb'.prim = nb.prim
      /\ \A b \in Addrs : b # ip => nb'.ip[b] = nb.ip[b]
      /\ ip # None => nb'.ip[ip] \in {nb.ip[ip], iface}
      /\ ~CallFails /\ ip # None /\ (nb.ip[ip] = Absent \/ MayPlace(ip, iface)) => nb'.ip[ip] = iface
  <2>1. CASE nb' = Placed(nb, ip, iface) /\ ip # None
    <3>1. ip \in Addrs /\ iface \in Ifaces
      BY <1>1, <2>1, HandIs
    <3> QED
      BY <2>1, <3>1, Ours, PlacedIs
  <2>2. CASE nb' = nb /\ ~(~CallFails /\ ip # None /\ (nb.ip[ip] = Absent \/ MayPlace(ip, iface)))
    BY <2>2
  <2> QED
    BY <1>2, <2>1, <2>2
<1>5. /\ Nics' = Nics /\ Used' = Used /\ \A w : PrivateOf(w)' = PrivateOf(w)
      /\ \A w : Past(w)' <=> Past(w)
  BY <1>1, <1>3, SameCloud DEF Past
\* The address of an interface is put there, or stays where it is.
<1>6. ASSUME NEW i \in Used
      PROVE  /\ cloud.addr[i] \in Addrs
             /\ cloud.addr[i] = ip => i = iface /\ slot[2] = "addr"
  <2>1. cloud.addr[i] \in Addrs
    BY Ours
  <2>2. cloud.addr[i] = ip => i = iface /\ slot[2] = "addr"
    BY <1>1, HandIs, OneNic DEF Kinds
  <2> QED
    BY <2>1, <2>2
<1>7. \A i \in Nics : cloud.nat[i] # None => cloud.nat[i] \in Addrs
  BY Ours, Markers
<1>8. iface # Absent /\ iface \in Ifaces
  BY <1>1, HandIs, Markers
<1>9. \A a \in Addrs : nb.ip[a] # Absent => nb'.ip[a] # Absent
  BY <1>4, <1>8, Markers
<1>10. Stages'
  <2>1. clean >= 3 => PrivateFirst'
    BY <1>1, <1>4, <1>5, SeqOn DEF PrivateFirst
  <2>2. clean >= 1 => Built'
    BY <1>1, <1>4, <1>5, SeqOn DEF Built
  <2>3. clean >= 2 => InPlace'
    <3>1. clean >= 2 => InPlace
      BY <1>1, SeqOn
    <3>2. ASSUME InPlace PROVE InPlace'
      <4>1. ASSUME NEW i \in Used PROVE nb'.ip[cloud.addr[i]] = i
        <5>1. nb.ip[cloud.addr[i]] = i
          BY <3>2 DEF InPlace
        <5>2. cloud.addr[i] # None
          BY Ours
        <5> QED
          BY <1>4, <1>6, <5>1, <5>2
      <4> QED
        BY <1>1, <1>5, <4>1 DEF InPlace
    <3> QED
      BY <3>1, <3>2
  <2>4. clean >= 2 => MappedKnown'
    BY <1>1, <1>5, <1>7, <1>9, SeqOn DEF MappedKnown
  <2> QED
    BY <1>1, <1>3, <2>1, <2>2, <2>3, <2>4 DEF Stages
<1>11. whole' => ~CallFails /\ whole
  BY <1>2, WholeIs
<1>12. SeqPart'
  <2>1. SeqPart
    BY <1>1, SeqOn
  <2> QED
    BY <1>1, <1>3, <1>4, <1>5, <1>11, <2>1 DEF SeqPart, Reading
<1>13. ASSUME whole' PROVE SeqWhole'
  <2>1. SeqWhole /\ ~CallFails
    BY <1>1, <1>11, <1>13, SeqOn
  <2>2. iface \in nb.ifs
    BY <1>1, <2>1 DEF SeqWhole
  <2>3. at' = "address" => iface' \in nb'.ifs
    <3> SUFFICES ASSUME at' = "address" PROVE iface' = iface
      BY <1>4, <2>2
    <3>1. slot = <<pos, "addr">>
      BY <1>1, HandIs DEF Advance
    <3>2. <<pos, "nat">> \in slots' /\ pos \in Idx
      <4>1. pos \in Idx /\ slot \in slots
        BY <1>1, HandIs, SlotIs
      <4> QED
        BY <1>3, <3>1, <4>1 DEF IInv, SeqInv
    <3>3. {s[1] : s \in slots'} = {s[1] : s \in slots}
      BY <1>3, <3>1, <3>2
    <3> QED
      BY <1>1, <3>3 DEF iface, pos
  <2>4. ASSUME NEW i \in Nics, NEW kind \in Kinds, DoneSlot(i, kind)'
        PROVE  DoneSlot(i, kind) \/ (i = iface /\ kind = slot[2])
    <3>1. /\ i = <<i[1], i[2]>> /\ i[1] \notin todo
          /\ i[1] = vm => <<i[2], kind>> \notin slots'
      BY <1>1, <1>3, <2>4, Ours DEF DoneSlot
    <3>2. CASE i[1] = vm /\ <<i[2], kind>> = slot
      <4>1. i[2] = pos /\ kind = slot[2]
        BY <1>1, <3>2, HandIs
      <4> QED
        BY <3>1, <3>2, <4>1 DEF iface
    <3>3. CASE ~ (i[1] = vm /\ <<i[2], kind>> = slot)
      BY <1>1, <1>3, <3>1, <3>3 DEF DoneSlot
    <3> QED
      BY <3>2, <3>3
  <2>5. ASSUME NEW i \in Used, nb'.ip[cloud.addr[i]] = nb.ip[cloud.addr[i]], Blocked(i)
        PROVE  Blocked(i)'
    <3>1. PICK p \in Ifaces : p = nb.ip[cloud.addr[i]]
      BY <2>5 DEF Blocked
    <3>2. /\ ListedBy(p[1])' = ListedBy(p[1]) /\ (Past(p[1])' <=> Past(p[1]))
          /\ nb'.ip[cloud.addr[i]] = p
      BY <1>1, <1>5, <2>5, <3>1 DEF ListedBy
    <3> QED
      BY <1>1, <1>4, <2>5, <3>1, <3>2 DEF Blocked
  <2>6. ASSUME NEW i \in Nics, DoneSlot(i, "nat")'
        PROVE  i \in nb'.ifs /\ (cloud.nat[i] # None => nb'.ip[cloud.nat[i]] # Absent)
    <3>1. CASE DoneSlot(i, "nat")
      BY <1>1, <1>4, <1>7, <1>9, <2>1, <3>1 DEF SeqWhole, Reading
    <3>2. CASE i = iface /\ slot[2] = "nat"
      <4>1. cloud.nat[i] = ip
        BY <1>1, <3>2, HandIs
      <4> QED
        BY <1>4, <1>7, <1>8, <1>9, <2>1, <2>2, <3>2, <4>1
    <3> QED
      BY <2>4, <2>6, <3>1, <3>2 DEF Kinds
  <2>7. ASSUME NEW i \in Used, DoneSlot(i, "addr")'
        PROVE  nb'.ip[cloud.addr[i]] = i \/ Blocked(i)'
    <3> DEFINE a == cloud.addr[i]
    <3>0. i \in Nics /\ a # None /\ a \in Addrs /\ i = <<i[1], i[2]>>
      BY Ours
    <3>1. CASE a # ip
      <4>1. DoneSlot(i, "addr")
        <5>1. ~ (i = iface /\ slot[2] = "addr")
          BY <1>1, <3>1, HandIs
        <5> QED
          BY <2>4, <2>7, <3>0, <5>1 DEF Kinds
      <4>2. nb'.ip[a] = nb.ip[a]
        BY <1>4, <3>0, <3>1
      <4> QED
        BY <1>1, <2>1, <2>5, <3>0, <4>1, <4>2 DEF SeqWhole, Reading
    <3>2. CASE a = ip
      <4>1. i = iface
        BY <1>6, <3>2
      <4>2. CASE nb.ip[a] = Absent \/ MayPlace(a, iface)
        BY <1>4, <2>1, <3>0, <3>2, <4>1, <4>2
      <4>3. CASE nb.ip[a] # Absent /\ ~MayPlace(a, iface) /\ nb.ip[a] # iface
        <5>1. PICK w \in Vms : nb.prim[w] = a /\ iface[1] # w
          BY <2>2, <4>3 DEF MayPlace
        <5>2. vm \notin known
          BY <1>1, <3>0, <3>2, <4>3, <5>1 DEF Holders
        <5>3. nb.ip[a] \in Ifaces /\ nb.ip[a][1] = w
          BY <3>0, <5>1, Ours DEF Sound, IfacesOf, NetBox
        <5>4. nb'.ip[a] = nb.ip[a]
          <6>1. nb' = nb
            BY <1>2, <2>1, <3>2, <4>3
          <6> QED
            BY <6>1
        <5>5. Blocked(i)
          <6>1. i[1] = vm
            BY <1>1, <4>1, HandIs
          <6> QED
            BY <5>1, <5>2, <5>3, <6>1 DEF Blocked
        <5> QED
          BY <2>5, <5>4, <5>5
      <4>4. CASE nb.ip[a] = iface
        BY <1>4, <3>0, <3>2, <4>1, <4>4
      <4> QED
        BY <4>2, <4>3, <4>4
    <3> QED
      BY <3>1, <3>2
  <2> QED
    BY <1>1, <1>3, <1>4, <1>5, <2>1, <2>3, <2>6, <2>7 DEF SeqWhole, Reading, Used
<1> QED
  BY <1>10, <1>12, <1>13 DEF SeqCourse

\* The VM whose primary address is due.
LEMMA DueIs ==
    ASSUME OwnAddressesArePrivate, IInv, CInv, at = "primary"
    PROVE  /\ vm \in cloud.vms /\ vm \in Vms /\ vm \notin todo /\ slots = {}
           /\ Wanted # None => Wanted \in Addrs /\ Wanted \in ListedBy(vm)
           /\ \A i \in Used : cloud.addr[i] = Wanted => i[1] = vm
           /\ clean >= 2 /\ Wanted \in Private =>
                 \E i \in Used : i[1] = vm /\ cloud.addr[i] = Wanted /\ nb.ip[Wanted] = i
           /\ clean >= 2 /\ PrivateOf(vm) # None =>
                 vm \in known /\ Wanted = PrivateOf(vm) /\ Wanted \in Private
<1>1. vm \in cloud.vms /\ vm \in Vms /\ vm \notin todo /\ slots = {}
  BY SeqOn, Ours DEF SeqPart, SeqInv, Reading
<1>2. Wanted # None => Wanted \in Addrs /\ Wanted \in ListedBy(vm)
  BY <1>1, WantedIs DEF ListedBy
<1>3. \A i \in Used : cloud.addr[i] = Wanted => i[1] = vm
  <2> SUFFICES ASSUME NEW i \in Used, cloud.addr[i] = Wanted PROVE i[1] = vm
    OBVIOUS
  <2>1. i \in Ifaces /\ Wanted # None
    BY Ours
  <2>2. PICK k \in Idx : Wanted \in {cloud.addr[<<vm, k>>], cloud.nat[<<vm, k>>]}
    BY <1>1, <2>1, WantedIs
  <2>3. <<vm, k>> = i
    BY <1>1, <2>2, OneNic DEF Ifaces
  <2> QED
    BY <2>3
<1>4. ASSUME clean >= 2, Wanted \in Private
      PROVE  \E i \in Used : i[1] = vm /\ cloud.addr[i] = Wanted /\ nb.ip[Wanted] = i
  <2>1. Wanted # None /\ InPlace
    BY <1>4, SeqOn, Markers
  <2>2. PICK k \in Idx : Wanted \in {cloud.addr[<<vm, k>>], cloud.nat[<<vm, k>>]}
    BY <1>1, <2>1, WantedIs
  <2>3. <<vm, k>> \in Nics
    BY <1>1 DEF Nics
  <2>4. cloud.addr[<<vm, k>>] = Wanted
    BY <1>4, <2>2, <2>3, Ours, AddrsAssumption, Markers
  <2>5. <<vm, k>> \in Used
    BY <2>1, <2>3, <2>4 DEF Used
  <2>6. nb.ip[Wanted] = <<vm, k>>
    BY <2>1, <2>4, <2>5 DEF InPlace
  <2> QED
    BY <2>4, <2>5, <2>6
<1>5. ASSUME clean >= 2, PrivateOf(vm) # None
      PROVE  vm \in known /\ Wanted = PrivateOf(vm) /\ Wanted \in Private
  <2>1. clean >= 1
    BY <1>5, SeqOn
  <2>2. vm \in known
    BY <1>1, <2>1, SeqOn DEF SeqPart, Reading
  <2>3. Wanted = PrivateOf(vm)
    BY <1>1, <1>5, <2>2, WantedIs
  <2>4. PICK i \in Used : PrivateOf(vm) = cloud.addr[i]
    BY <1>1, <1>5, PrivateIs
  <2> QED
    BY <2>2, <2>3, <2>4, Ours
<1> QED
  BY <1>1, <1>2, <1>3, <1>4, <1>5

\* A VM is done.
LEMMA NextVmPast ==
    ASSUME at = "primary", slots = {}, NextVm, todo' = todo, slots' = slots, vm \notin todo
    PROVE  /\ at' = "vms"
           /\ \A v : /\ Past(v) => Past(v)'
                     /\ v # vm => (Past(v)' => Past(v))
                     /\ ~Past(v)' => ~Past(v) /\ v # vm
           /\ \A v : v = vm => Past(v)' /\ ~Past(v)
           /\ \A i, kind : DoneSlot(i, kind)' => DoneSlot(i, "addr") /\ DoneSlot(i, "nat")
<1>1. at' = "vms"
  BY DEF NextVm
<1>3. ASSUME NEW i, NEW kind, DoneSlot(i, kind)'
      PROVE  DoneSlot(i, "addr") /\ DoneSlot(i, "nat")
  BY <1>1, <1>3 DEF DoneSlot
<1>4. \A v : /\ Past(v) => Past(v)'
             /\ v # vm => (Past(v)' => Past(v))
             /\ ~Past(v)' => ~Past(v) /\ v # vm
  BY <1>1 DEF Past
<1>5. \A v : v = vm => Past(v)' /\ ~Past(v)
  BY <1>1 DEF Past
<1> QED
  BY <1>1, <1>3, <1>4, <1>5

LEMMA KeepPrimaryCourse ==
    ASSUME OwnAddressesArePrivate, IInv, CInv, KeepPrimary
    PROVE  SeqCourse
<1>1. /\ at = "primary" /\ SkipsPrimary /\ NextVm /\ vm \notin todo /\ slots = {}
      /\ UNCHANGED <<cloud, nb, batch, failures, changes, whole, clean,
                     todo, slots, known, was>>
  BY DueIs DEF KeepPrimary
<1>2. /\ at' = "vms"
      /\ \A v : /\ Past(v) => Past(v)'
                /\ v # vm => (Past(v)' => Past(v))
                /\ ~Past(v)' => ~Past(v) /\ v # vm
      /\ ~Past(vm)
      /\ \A i, kind : DoneSlot(i, kind)' => DoneSlot(i, "addr") /\ DoneSlot(i, "nat")
  BY <1>1, NextVmPast
<1>3. /\ Nics' = Nics /\ Used' = Used /\ \A w : PrivateOf(w)' = PrivateOf(w)
  BY <1>1, SameCloud
<1>4. Stages'
  BY <1>1, <1>2, StagesStay
<1>5. SeqPart'
  <2>1. SeqPart
    BY <1>1, SeqOn
  <2>2. ASSUME clean >= 2, PrivateOf(vm) # None PROVE nb.prim[vm] \in Private
    <3>1. /\ vm \in cloud.vms /\ Wanted \in Private /\ Wanted \in Addrs
          /\ nb.ip[Wanted] \in Used
      BY <1>1, <2>2, DueIs, Markers
    <3>2. nb.ip[Wanted] # Absent
      BY <3>1, Ours, Markers
    <3>3. was[vm] = Wanted
      BY <1>1, <3>1, <3>2 DEF SkipsPrimary, IsSet
    <3>4. nb.prim[vm] = was[vm]
      BY <1>1, <1>2, <2>1, <2>2, <3>1, <3>3 DEF SeqPart, Reading
    <3> QED
      BY <3>1, <3>3, <3>4
  <2>3. whole' = whole
    BY <1>1
  <2>4. ASSUME clean >= 2, NEW v \in cloud.vms, PrivateOf(v) # None
        PROVE  /\ ~Past(v)' => nb.prim[v] = was[v] \/ was[v] \notin Private
               /\ whole' /\ Past(v)' => nb.prim[v] \in Private
    <3>1. whole' => whole
      BY <1>1, WholeIs
    <3>2. CASE v = vm
      BY <1>2, <2>2, <2>4, <3>2
    <3>3. CASE v # vm
      BY <1>1, <1>2, <2>1, <2>4, <3>1, <3>3 DEF SeqPart, Reading
    <3> QED
      BY <3>2, <3>3
  <2> QED
    BY <1>1, <1>2, <1>3, <2>1, <2>4 DEF SeqPart, Reading
<1>6. ASSUME whole' PROVE SeqWhole'
  <2>1. SeqWhole
    BY <1>1, <1>6, WholeIs, SeqOn
  <2>2. ASSUME NEW i \in Nics, Blocked(i) PROVE Blocked(i)'
    <3>1. PICK p \in Ifaces : p = nb.ip[cloud.addr[i]]
      BY <2>2 DEF Blocked
    <3>2. ListedBy(p[1])' = ListedBy(p[1]) /\ (Past(p[1]) => Past(p[1])')
      BY <1>1, <1>2 DEF ListedBy
    <3> QED
      BY <1>1, <2>2, <3>1, <3>2 DEF Blocked
  <2> QED
    BY <1>1, <1>2, <1>3, <2>1, <2>2 DEF SeqWhole, Reading
<1> QED
  BY <1>4, <1>5, <1>6 DEF SeqCourse

LEMMA TakePrimaryCourse ==
    ASSUME OwnAddressesArePrivate, IInv, CInv, TakePrimary
    PROVE  SeqCourse
<1>1. /\ at = "primary" /\ vm \in known /\ vm \notin todo /\ slots = {} /\ vm \in Vms
      /\ Wanted \in Addrs /\ Wanted \in ListedBy(vm)
      /\ UNCHANGED <<cloud, batch, changes, clean, todo, slots, known, was>>
  BY DueIs, Markers DEF TakePrimary, SkipsPrimary
<1>2. \/ /\ nb' = [nb EXCEPT !.prim = [w \in Vms |-> IF w # vm /\ @[w] = Wanted
                                                   THEN None ELSE @[w]]]
         /\ Succeeds /\ UNCHANGED <<at, vm, got>>
      \/ CallFails /\ NextVm /\ UNCHANGED nb
  BY DEF TakePrimary
<1>3. /\ nb'.vms = nb.vms /\ nb'.ifs = nb.ifs /\ nb'.ip = nb.ip
      /\ \A w \in Vms : nb'.prim[w] = nb.prim[w] \/ (w # vm /\ nb.prim[w] = Wanted)
  <2>1. CASE nb' = [nb EXCEPT !.prim = [w \in Vms |-> IF w # vm /\ @[w] = Wanted
                                                      THEN None ELSE @[w]]]
    BY <2>1, Ours DEF NetBox
  <2>2. CASE UNCHANGED nb
    BY <2>2
  <2> QED
    BY <1>2, <2>1, <2>2
<1>4. /\ Nics' = Nics /\ Used' = Used /\ \A w : PrivateOf(w)' = PrivateOf(w)
      /\ at' \in {"primary", "vms"}
  BY <1>1, <1>2, SameCloud DEF NextVm
<1>5. \A v \in cloud.vms : v \in Vms
  BY Ours
<1>6. ASSUME clean >= 2, NEW w \in Vms
      PROVE  nb'.prim[w] = nb.prim[w] \/ nb.prim[w] \notin Private
  <2> SUFFICES ASSUME w # vm, nb.prim[w] = Wanted, Wanted \in Private PROVE FALSE
    BY <1>3
  <2>1. PICK i \in Used : i[1] = vm /\ nb.ip[Wanted] = i
    BY <1>1, <1>6, DueIs
  <2>2. nb.ip[Wanted] \in IfacesOf(nb.ifs, w)
    BY <1>1, Ours, Markers DEF Sound
  <2> QED
    BY <2>1, <2>2 DEF IfacesOf
<1>7. Stages'
  <2>1. clean >= 3 => PrivateFirst'
    <3>1. clean >= 3 => PrivateFirst /\ clean >= 2
      BY <1>1, SeqOn
    <3> QED
      BY <1>1, <1>4, <1>5, <1>6, <3>1 DEF PrivateFirst
  <2>2. clean >= 1 => Built'
    BY <1>1, <1>3, <1>4, SeqOn DEF Built
  <2>3. clean >= 2 => InPlace' /\ MappedKnown'
    BY <1>1, <1>3, <1>4, SeqOn DEF InPlace, MappedKnown
  <2> QED
    BY <1>1, <1>4, <2>1, <2>2, <2>3 DEF Stages
<1>8. whole' => whole /\ UNCHANGED <<at, vm>>
  BY <1>2, WholeIs
<1>9. \A v : ~Past(v)' => ~Past(v)
  BY <1>1, <1>2 DEF Past, NextVm
<1>10. whole' => \A v : Past(v)' <=> Past(v)
  BY <1>1, <1>8 DEF Past
<1>11. SeqPart'
  <2>1. SeqPart
    BY <1>1, SeqOn
  <2>2. ASSUME clean >= 2, NEW v \in cloud.vms, PrivateOf(v) # None
        PROVE  /\ ~Past(v)' => nb'.prim[v] = was[v] \/ was[v] \notin Private
               /\ whole' /\ Past(v)' => nb'.prim[v] \in Private
    <3>1. /\ ~Past(v)' => nb.prim[v] = was[v] \/ was[v] \notin Private
          /\ whole' /\ Past(v)' => nb.prim[v] \in Private
      BY <1>1, <1>8, <1>9, <1>10, <2>1, <2>2 DEF SeqPart, Reading
    <3>2. nb'.prim[v] = nb.prim[v] \/ nb.prim[v] \notin Private
      BY <1>5, <1>6, <2>2
    <3> QED
      BY <3>1, <3>2
  <2>3. at' = "primary" => UNCHANGED vm
    BY <1>2 DEF NextVm
  <2> QED
    BY <1>1, <1>4, <2>1, <2>2, <2>3 DEF SeqPart, Reading
<1>12. ASSUME whole' PROVE SeqWhole'
  <2>1. UNCHANGED <<at, vm>> /\ SeqWhole
    BY <1>1, <1>8, <1>12, SeqOn
  <2>2. \A i \in Nics, kind \in Kinds : DoneSlot(i, kind)' => DoneSlot(i, kind)
    BY <1>1, <2>1 DEF DoneSlot
  <2>3. ASSUME NEW i \in Used, Blocked(i) PROVE Blocked(i)'
    <3>1. PICK p \in Ifaces : p = nb.ip[cloud.addr[i]]
      BY <2>3 DEF Blocked
    <3>2. p[1] \in Vms /\ i[1] # vm
      BY <1>1, <2>3 DEF Blocked, Ifaces
    <3>3. cloud.addr[i] # Wanted
      BY <1>1, <3>2, DueIs
    <3>4. Past(p[1]) => Wanted \notin ListedBy(p[1])
      <4>1. Past(p[1]) => p[1] # vm
        BY <1>1 DEF Past
      <4> QED
        BY <1>1, <3>2, <4>1, ListedOnce
    <3>5. nb'.prim[p[1]] = nb.prim[p[1]] \/ nb.prim[p[1]] = Wanted
      BY <1>3, <3>2
    <3>6. ListedBy(p[1])' = ListedBy(p[1]) /\ (Past(p[1]) => Past(p[1])')
      BY <1>1, <1>10, <1>12 DEF ListedBy
    <3> QED
      BY <1>1, <1>3, <2>3, <3>1, <3>3, <3>4, <3>5, <3>6 DEF Blocked
  <2> QED
    BY <1>1, <1>3, <1>4, <2>1, <2>2, <2>3 DEF SeqWhole, Reading, Kinds, Used
<1> QED
  BY <1>7, <1>11, <1>12 DEF SeqCourse

LEMMA SetPrimaryIpCourse ==
    ASSUME OwnAddressesArePrivate, IInv, CInv, SetPrimaryIp
    PROVE  SeqCourse
<1> DEFINE own   == IfacesOf(nb.ifs, vm)
           i0    == <<vm, First({i[2] : i \in own})>>
           moves == own # {} /\ nb.ip[Wanted] \notin own
           moved == IF moves /\ MayPlace(Wanted, i0) THEN Placed(nb, Wanted, i0) ELSE nb
<1>1. /\ at = "primary" /\ NextVm /\ vm \notin todo /\ slots = {} /\ vm \in Vms /\ vm \in cloud.vms
      /\ Wanted \in Addrs /\ Wanted \in ListedBy(vm) /\ Wanted # None
      /\ UNCHANGED <<cloud, batch, changes, clean, todo, slots, known, was>>
  BY DueIs, Markers DEF SetPrimaryIp, SkipsPrimary
<1>2. \/ /\ nb' = IF MayBePrimary(moved, vm, Wanted)
                  THEN [moved EXCEPT !.prim[vm] = Wanted] ELSE moved
         /\ Succeeds
      \/ nb' \in {nb, moved} /\ CallFails
  BY DEF SetPrimaryIp
<1>3. /\ at' = "vms"
      /\ \A v : /\ Past(v) => Past(v)'
                /\ v # vm => (Past(v)' => Past(v))
                /\ ~Past(v)' => ~Past(v) /\ v # vm
      /\ \A v : v = vm => Past(v)' /\ ~Past(v)
      /\ \A i, kind : DoneSlot(i, kind)' => DoneSlot(i, "addr") /\ DoneSlot(i, "nat")
  BY <1>1, NextVmPast
<1>4. /\ Nics' = Nics /\ Used' = Used /\ \A w : PrivateOf(w)' = PrivateOf(w)
  BY <1>1, SameCloud
\* What the call may do to NetBox.
<1>5. own # {} => i0 \in Ifaces
  <2>1. \A i \in own : i[1] = vm /\ i[2] \in Idx
    BY Ours DEF IfacesOf, NetBox, Ifaces
  <2>2. {i[2] : i \in own} \in SUBSET Idx /\ (own # {} => {i[2] : i \in own} # {})
    BY <2>1
  <2>3. own # {} => First({i[2] : i \in own}) \in Idx
    BY <2>2, FirstOf
  <2> QED
    BY <1>1, <2>3 DEF Ifaces
<1>6. i0[1] = vm
  OBVIOUS
<1>7. /\ moved.vms = nb.vms /\ moved.ifs = nb.ifs /\ moved.prim = nb.prim /\ moved \in NetBox
      /\ \A b \in Addrs : b # Wanted => moved.ip[b] = nb.ip[b]
      /\ \/ moved.ip[Wanted] = nb.ip[Wanted]
         \/ nb.ip[Wanted] \notin own /\ moved.ip[Wanted] = i0 /\ i0 \in Ifaces
      /\ nb.ip[Wanted] \in own => moved = nb
  <2>1. CASE moves /\ MayPlace(Wanted, i0)
    <3>1. moved = Placed(nb, Wanted, i0) /\ i0 \in Ifaces /\ nb.ip[Wanted] \notin own
      BY <1>5, <2>1
    <3> HIDE DEF moved, i0, own
    <3> QED
      BY <1>1, <3>1, Ours, PlacedIs
  <2>2. CASE ~ (moves /\ MayPlace(Wanted, i0))
    <3>1. moved = nb
      BY <2>2
    <3> QED
      BY <3>1, Ours
  <2>3. nb.ip[Wanted] \in own => moved = nb
    OBVIOUS
  <2> QED
    BY <2>1, <2>2, <2>3
<1> HIDE DEF moved, i0, moves
<1>8. /\ nb'.vms = nb.vms /\ nb'.ifs = nb.ifs
      /\ \A b \in Addrs : b # Wanted => nb'.ip[b] = nb.ip[b]
      /\ \/ nb'.ip[Wanted] = nb.ip[Wanted]
         \/ nb.ip[Wanted] \notin own /\ nb'.ip[Wanted] = i0 /\ i0 \in Ifaces
      /\ \A w \in Vms : w # vm => nb'.prim[w] = nb.prim[w]
      /\ nb'.prim[vm] \in {nb.prim[vm], Wanted}
  <2>1. CASE nb' = [moved EXCEPT !.prim[vm] = Wanted]
    BY <1>1, <1>7, <2>1 DEF NetBox
  <2>2. CASE nb' = moved
    BY <1>7, <2>2
  <2>3. CASE nb' = nb
    BY <2>3
  <2> QED
    BY <1>2, <2>1, <2>2, <2>3
<1>9. \A a \in Addrs : nb.ip[a] # Absent => nb'.ip[a] # Absent
  BY <1>8, Markers
<1>10. \A v \in cloud.vms : v \in Vms
  BY Ours
<1>11. ASSUME NEW i \in Used, i \in nb.ifs, nb.ip[cloud.addr[i]] = i
       PROVE  nb'.ip[cloud.addr[i]] = i
  <2>1. cloud.addr[i] \in Addrs
    BY Ours
  <2>2. cloud.addr[i] = Wanted => i \in own
    BY <1>1, <1>11, DueIs DEF IfacesOf
  <2> QED
    BY <1>8, <1>11, <2>1, <2>2
<1>12. \A i \in Nics : cloud.nat[i] # None => cloud.nat[i] \in Addrs
  BY Ours, Markers
<1>13. clean >= 2 /\ PrivateOf(vm) # None => Wanted \in Private
  BY <1>1, DueIs
<1>14. Stages'
  <2>1. clean >= 3 => PrivateFirst'
    <3>1. clean >= 3 => PrivateFirst /\ clean >= 2
      BY <1>1, SeqOn
    <3> QED
      BY <1>1, <1>4, <1>8, <1>10, <1>13, <3>1 DEF PrivateFirst
  <2>2. clean >= 1 => Built'
    BY <1>1, <1>4, <1>8, SeqOn DEF Built
  <2>3. clean >= 2 => InPlace'
    <3>1. clean >= 2 => InPlace /\ \A i \in Used : i \in nb.ifs
      BY <1>1, SeqOn DEF Built, Used
    <3> QED
      BY <1>1, <1>4, <1>11, <3>1 DEF InPlace
  <2>4. clean >= 2 => MappedKnown'
    BY <1>1, <1>4, <1>9, <1>12, SeqOn DEF MappedKnown
  <2> QED
    BY <1>1, <1>3, <2>1, <2>2, <2>3, <2>4 DEF Stages
<1>15. whole' => whole /\ ~CallFails
  BY <1>2, WholeIs
<1>16. SeqPart'
  <2>1. SeqPart
    BY <1>1, SeqOn
  <2>2. ASSUME clean >= 2, PrivateOf(vm) # None, whole' PROVE nb'.prim[vm] \in Private
    <3>1. PICK i \in Used : i[1] = vm /\ cloud.addr[i] = Wanted /\ nb.ip[Wanted] = i
      BY <1>1, <1>13, <2>2, DueIs
    <3>2. i \in nb.ifs /\ vm \in nb.vms
      BY <1>1, <2>2, SeqOn DEF Built, Used
    <3>3. moved = nb
      BY <1>7, <3>1, <3>2 DEF IfacesOf
    <3>4. MayBePrimary(moved, vm, Wanted)
      BY <3>1, <3>2, <3>3 DEF MayBePrimary, IfacesOf
    <3>5. nb' = [nb EXCEPT !.prim[vm] = Wanted]
      BY <1>2, <1>15, <2>2, <3>3, <3>4
    <3>6. nb'.prim[vm] = Wanted
      BY <1>1, <3>5, Ours DEF NetBox
    <3> QED
      BY <1>13, <2>2, <3>6
  <2>3. ASSUME clean >= 2, NEW v \in cloud.vms, PrivateOf(v) # None
        PROVE  /\ ~Past(v)' => nb'.prim[v] = was[v] \/ was[v] \notin Private
               /\ whole' /\ Past(v)' => nb'.prim[v] \in Private
    <3>1. CASE v = vm
      BY <1>3, <2>2, <2>3, <3>1
    <3>2. CASE v # vm
      <4>1. nb'.prim[v] = nb.prim[v]
        BY <1>8, <1>10, <3>2
      <4> QED
        BY <1>1, <1>3, <1>15, <2>1, <2>3, <3>2, <4>1 DEF SeqPart, Reading
    <3> QED
      BY <3>1, <3>2
  <2> QED
    BY <1>1, <1>3, <1>4, <2>1, <2>3 DEF SeqPart, Reading
<1>17. ASSUME whole' PROVE SeqWhole'
  <2>1. SeqWhole
    BY <1>1, <1>15, <1>17, SeqOn
  <2>2. ASSUME NEW i \in Used, Blocked(i) PROVE Blocked(i)'
    <3>1. PICK p \in Ifaces : p = nb.ip[cloud.addr[i]]
      BY <2>2 DEF Blocked
    <3>2. p[1] \in Vms /\ cloud.addr[i] \in Addrs /\ i[1] \notin known
      BY <2>2, Ours DEF Blocked, Ifaces
    <3>3. ListedBy(p[1])' = ListedBy(p[1]) /\ (Past(p[1]) => Past(p[1])')
      BY <1>1, <1>3 DEF ListedBy
    <3>4. \/ p[1] = i[1] \/ nb.prim[p[1]] = cloud.addr[i]
          \/ Past(p[1]) /\ nb.prim[p[1]] \in ListedBy(p[1])
      BY <2>2, <3>1 DEF Blocked
    <3>5. Past(p[1]) => p[1] # vm
      BY <1>3
    \* What holds the address stays so.
    <3>6. \/ p[1] = i[1] \/ nb'.prim[p[1]] = cloud.addr[i]
          \/ Past(p[1])' /\ nb'.prim[p[1]] \in ListedBy(p[1])
      <4>1. CASE p[1] # vm
        BY <1>8, <3>2, <3>3, <3>4, <4>1
      <4>2. CASE p[1] = vm
        BY <1>1, <1>3, <1>8, <3>4, <3>5, <4>2
      <4> QED
        BY <4>1, <4>2
    <3>7. CASE nb'.ip[cloud.addr[i]] = p
      BY <1>1, <3>1, <3>2, <3>3, <3>6, <3>7 DEF Blocked
    <3>8. CASE nb'.ip[cloud.addr[i]] # p
      <4>1. nb'.ip[cloud.addr[i]] = i0 /\ i0 \in Ifaces /\ cloud.addr[i] = Wanted
        BY <1>8, <3>1, <3>2, <3>8
      <4>2. i[1] = i0[1]
        BY <1>1, <1>6, <4>1, DueIs
      <4> QED
        BY <1>1, <3>2, <4>1, <4>2 DEF Blocked
    <3> QED
      BY <3>7, <3>8
  <2>3. ASSUME NEW i \in Nics, DoneSlot(i, "nat")'
        PROVE  i \in nb'.ifs /\ (cloud.nat[i] # None => nb'.ip[cloud.nat[i]] # Absent)
    BY <1>1, <1>3, <1>8, <1>9, <1>12, <2>1, <2>3 DEF SeqWhole, Reading
  <2>4. ASSUME NEW i \in Used, DoneSlot(i, "addr")'
        PROVE  nb'.ip[cloud.addr[i]] = i \/ Blocked(i)'
    <3>1. i \in nb.ifs /\ (nb.ip[cloud.addr[i]] = i \/ Blocked(i))
      BY <1>1, <1>3, <2>1, <2>4 DEF SeqWhole, Reading, Used
    <3> QED
      BY <1>11, <2>2, <3>1
  <2> QED
    BY <1>1, <1>3, <1>4, <1>8, <2>1, <2>3, <2>4 DEF SeqWhole, Reading, Used
<1> QED
  BY <1>14, <1>16, <1>17 DEF SeqCourse

\* What a sequential sync in which no call fails has done at its end.
LEMMA SeqForgetsCourse ==
    ASSUME OwnAddressesArePrivate, IInv, CInv, SeqEnds \/ SeqDies
    PROVE  Stages' /\ at' = "off"
<1>1. /\ at' = "off" /\ UNCHANGED <<cloud, nb>> /\ at # "off"
  BY DEF SeqEnds, SeqDies, SeqForgets
<1>2. /\ Nics' = Nics /\ Used' = Used /\ \A w : PrivateOf(w)' = PrivateOf(w)
  BY <1>1, SameCloud
<1>3. CASE ~(clean' >= 1) /\ clean' \in Nat
  BY <1>1, <1>3 DEF Stages
<1>4. CASE SeqDies
  BY <1>3, <1>4 DEF SeqDies
<1>5. CASE SeqEnds /\ clean' >= 1
  <2>1. at = "vms" /\ todo = {}
    BY <1>5 DEF SeqEnds
  <2>2. /\ whole /\ clean \in Nat /\ clean' \in Nat
        /\ clean' >= 2 => clean >= 1
        /\ clean' >= 3 => clean >= 2
    <3>1. clean \in Nat
      BY <1>1, SeqOn
    <3>2. clean' = IF ~whole THEN 0 ELSE IF clean < MaxClean THEN clean + 1 ELSE clean
      BY <1>5 DEF SeqEnds
    <3>3. whole
      BY <1>5, <3>2
    <3>4. clean' \in {clean, clean + 1}
      BY <3>2, <3>3
    <3> QED
      BY <3>1, <3>3, <3>4
  <2>3. SeqPart /\ SeqWhole
    BY <1>1, <2>2, SeqOn
  <2>4. \A i \in Nics : DoneSlot(i, "nat") /\ DoneSlot(i, "addr")
    BY <2>1 DEF DoneSlot
  <2>5. /\ Built /\ MappedKnown
    BY <2>1, <2>3, <2>4 DEF SeqWhole, Reading, Built, MappedKnown
  <2>6. \A i \in Used : nb.ip[cloud.addr[i]] = i \/ Blocked(i)
    BY <2>1, <2>3, <2>4 DEF SeqWhole, Reading, Used
  <2>7. ASSUME NEW i \in Used PROVE Free(nb, i)
    <3>1. CASE nb.ip[cloud.addr[i]] = i
      BY <3>1 DEF Free
    <3>2. CASE Blocked(i)
      <4>1. cloud.addr[i] # None /\ \A v : None \notin ListedBy(v)
        BY Ours, Markers DEF ListedBy
      <4> QED
        BY <3>2, <4>1 DEF Blocked, Free
    <3> QED
      BY <2>6, <3>1, <3>2
  <2>8. clean' >= 2 => InPlace
    <3>1. clean' >= 2 => known = cloud.vms
      BY <2>1, <2>2, <2>3 DEF SeqPart, Reading
    <3>2. \A i \in Used : i[1] \in cloud.vms
      BY Ours
    <3> QED
      BY <2>6, <3>1, <3>2 DEF InPlace, Blocked
  <2>9. clean' >= 3 => PrivateFirst
    <3>1. \A v : Past(v)
      BY <2>1 DEF Past
    <3> QED
      BY <2>1, <2>2, <2>3, <3>1 DEF SeqPart, Reading, PrivateFirst
  <2>10. \A i \in Used : Free(nb, i)'
    BY <1>1, <2>7 DEF Free
  <2>11. Built' /\ MappedKnown'
    BY <1>1, <1>2, <2>5 DEF Built, MappedKnown
  <2>12. clean' >= 2 => InPlace'
    BY <1>1, <1>2, <2>8 DEF InPlace
  <2>13. clean' >= 3 => PrivateFirst'
    BY <1>1, <1>2, <2>9 DEF PrivateFirst
  <2>14. \A i \in Used' : Free(nb, i)'
    BY <1>2, <2>10
  <2>15. Stages'
    BY <2>11, <2>12, <2>13, <2>14 DEF Stages
  <2> QED
    BY <1>1, <2>15
<1>6. clean' \in Nat
  <2>1. clean \in Nat
    BY <1>1, SeqOn
  <2>2. clean' \in {0, clean, clean + 1}
    BY DEF SeqEnds, SeqDies
  <2> QED
    BY <2>1, <2>2
<1>7. SeqEnds \/ SeqDies
  OBVIOUS
<1>8. Stages'
  BY <1>3, <1>4, <1>5, <1>6, <1>7
<1> QED
  BY <1>1, <1>8

LEMMA SeqConverges ==
    ASSUME OwnAddressesArePrivate, IInv, CInv, SeqNext
    PROVE  CInv'
<1>1. step = "idle" /\ UNCHANGED <<step, batch>>
  <2>1. step = "idle"
    BY DEF IInv, SeqInv, SeqNext, SeqBegins, FetchVms, NoInterfaces, SyncInterface, UnsetHolders,
           SyncAddress, EndInterfaces, KeepPrimary, TakePrimary, SetPrimaryIp, SeqEnds, SeqDies,
           SeqDeleteOrphan, TakeVm
  <2>2. UNCHANGED batch
    BY DEF SeqNext, SeqBegins, FetchVms, NoInterfaces, SyncInterface, UnsetHolders,
           SyncAddress, EndInterfaces, KeepPrimary, TakePrimary, SetPrimaryIp, SeqEnds, SeqDies,
           SeqDeleteOrphan, TakeVm
  <2> QED
    BY <2>1, <2>2 DEF batch
<1>2. CASE SeqEnds \/ SeqDies
  BY <1>1, <1>2, SeqForgetsCourse DEF CInv
<1>3. CASE ~(SeqEnds \/ SeqDies)
  <2>1. SeqCourse
    BY <1>3, SeqBeginsCourse, SeqDeleteOrphanCourse, FetchVmsCourse, TakeVmCourse,
       LeaveInterfacesCourse, SyncInterfaceCourse, UnsetHoldersCourse, SyncAddressCourse,
       KeepPrimaryCourse, TakePrimaryCourse, SetPrimaryIpCourse DEF SeqNext
  <2> QED
    BY <1>1, <2>1 DEF SeqCourse, CInv
<1> QED
  BY <1>2, <1>3

LEMMA StepConverges ==
    ASSUME OwnAddressesArePrivate, IInv, CInv, [NextSync]_syncVars
    PROVE  CInv'
<1>1. CASE at = "off" /\ Next /\ UNCHANGED seq
  BY <1>1, BatchConverges
<1>2. CASE SeqNext
  BY <1>2, SeqConverges
<1>3. CASE UNCHANGED syncVars
  <2>1. UNCHANGED <<cloud, nb, cache, step, left, change, move, pendMove, newIfs, newIps,
                    pendPrim, madeIfs, madeIps, failures, changes, whole, clean,
                    at, todo, vm, slots, known, was, got>>
    BY <1>3 DEF syncVars, vars, seq, queues
  <2>2. /\ Nics' = Nics /\ Used' = Used /\ \A v : PrivateOf(v)' = PrivateOf(v)
    BY <2>1, SameCloud
  <2>3. whole' <=> whole
    BY <2>1, Zenon
  <2>4. Stages'
    BY <2>1, <2>2 DEF CInv, Stages, Built, InPlace, MappedKnown, PrivateFirst, Free
  <2>5. ASSUME Course PROVE Course'
    <3>1. VmsPart'
      BY <2>1, <2>2, <2>5 DEF Course, VmsPart, Seen
    <3>2. IfsPart'
      BY <2>1, <2>2, <2>5 DEF Course, IfsPart, Seen
    <3>3. MovesPart'
      BY <2>1, <2>2, <2>5 DEF Course, MovesPart, Seen, Wrong, Known
    <3>4. IpsPart'
      BY <2>1, <2>2, <2>5 DEF Course, IpsPart, Seen, Known
    <3>5. PlacePart'
      BY <2>1, <2>2, <2>5 DEF Course, PlacePart, Deciding, Free
    <3>6. clean' >= 1 => Again'
      BY <2>1, <2>2, <2>5 DEF Course, Again, Deciding, Free
    <3>7. clean' >= 2 => Third'
      BY <2>1, <2>2, <2>5 DEF Course, Third, Seen
    <3> QED
      BY <3>1, <3>2, <3>3, <3>4, <3>5, <3>6, <3>7 DEF Course
  <2>6. ASSUME SeqPart PROVE SeqPart'
    BY <2>1, <2>2, <2>3, <2>6 DEF SeqPart, Reading, Past
  <2>7. ASSUME SeqWhole PROVE SeqWhole'
    <3>1. \A i, kind : DoneSlot(i, kind)' <=> DoneSlot(i, kind)
      BY <2>1 DEF DoneSlot
    <3>2. \A v : Past(v)' <=> Past(v)
      BY <2>1 DEF Past
    <3>3. \A i : Blocked(i)' <=> Blocked(i)
      BY <2>1 DEF Blocked, Past, ListedBy
    <3>4. iface' = iface
      BY <2>1 DEF iface, pos
    <3> QED
      BY <2>1, <2>2, <2>7, <3>1, <3>3, <3>4 DEF SeqWhole, Reading
  <2> QED
    BY <2>1, <2>3, <2>4, <2>5, <2>6, <2>7 DEF CInv
<1> QED
  BY <1>1, <1>2, <1>3 DEF NextSync

LEMMA InitCInv == InitSync => CInv
<1> SUFFICES ASSUME InitSync PROVE CInv
  OBVIOUS
<1>1. step = "idle" /\ clean = 0 /\ at = "off"
  BY DEF InitSync, Init
<1> QED
  BY <1>1 DEF CInv, Stages

\* What CInv says of a NetBox after three syncs.
LEMMA ThirdStage ==
    ASSUME OwnAddressesArePrivate, IInv, CInv, step = "idle", clean >= 3, NEW v \in cloud.vms
    PROVE  Mirrored(v)
<1>1. Built /\ InPlace /\ MappedKnown /\ PrivateFirst
  <2>1. clean >= 1 /\ clean >= 2
    <3>1. clean \in Nat
      BY Ours, MaxCleanIs DEF TypeOK
    <3> QED
      BY <3>1
  <2> QED
    BY <2>1 DEF CInv, Stages
<1>2. ASSUME NEW k \in Idx
      PROVE  /\ <<v, k>> \in nb.ifs
             /\ cloud.addr[<<v, k>>] # None => nb.ip[cloud.addr[<<v, k>>]] = <<v, k>>
             /\ cloud.nat[<<v, k>>] # None => nb.ip[cloud.nat[<<v, k>>]] # Absent
             /\ cloud.addr[<<v, k>>] # None => PrivateOf(v) # None
  <2>1. <<v, k>> \in Nics
    BY DEF Nics
  <2>2. <<v, k>>[1] = v
    OBVIOUS
  <2>3. cloud.addr[<<v, k>>] # None => <<v, k>> \in Used
    BY <2>1 DEF Used
  <2> QED
    BY <1>1, <2>1, <2>2, <2>3, PrivateIs DEF Built, InPlace, MappedKnown
<1>3. /\ v \in nb.vms
      /\ PrivateOf(v) # None => nb.prim[v] \in Private /\ nb.prim[v] # None
  BY <1>1, Markers DEF Built, PrivateFirst
<1> QED
  BY <1>2, <1>3 DEF Mirrored

-----------------------------------------------------------------------------
(* Convergence is reached                                                  *)

\* After three syncs in which no call failed NetBox mirrors every VM.
MirroredByThree ==
    step = "idle" /\ clean >= 3 => \A v \in cloud.vms : Mirrored(v)

\* If the addresses of interfaces are private, NetBox mirrors the cloud after three syncs
\* of either kind (sync_vms_optimized, batch.py; sync_vms, vms.py) in which no call fails,
\* however many VMs there are and whatever failed, moved or died before.
THEOREM ThreeSyncsConverge ==
    ASSUME OwnAddressesArePrivate
    PROVE  SyncSpec => [](MirroredByThree /\ Converges)
<1>1. InitSync => IInv /\ CInv
  BY InitIInv, InitCInv
<1>2. IInv /\ CInv /\ [NextSync]_syncVars => (IInv /\ CInv)'
  BY StepKeeps, StepConverges
<1>3. IInv /\ CInv => MirroredByThree /\ Converges
  <2>1. MaxClean >= 3
    BY MaxCleanIs
  <2>2. IInv /\ CInv => MirroredByThree
    BY ThirdStage DEF MirroredByThree
  <2> QED
    BY <2>1, <2>2 DEF MirroredByThree, Converges
<1>4. QED
  BY <1>1, <1>2, <1>3, PTL DEF SyncSpec
==============================================================================
