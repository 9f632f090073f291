--------------------------- MODULE CloudMirrorProofs ---------------------------
(***************************************************************************)
(* Safety of CloudMirror for any zones, clouds, folders, VMs and disks,    *)
(* and for any number of attempts, failures and changes.                   *)
(*                                                                         *)
(* What a fetch has not listed is still to come, or a failure explains it: *)
(* this is what the loops of fetch_all_data keep true from the first       *)
(* request to the last, page by page (PageInv, FoundInv, DiskInv).         *)
(***************************************************************************)
EXTENDS CloudMirror, WellFoundedInduction, TLAPS

-----------------------------------------------------------------------------
(* The inductive invariant *)

\* The requests of a folder, and of its VMs.
InFolder == {"vpcs", "subnets", "vms"}
InVms    == {"disks", "boot", "image", "disk"}

\* Where the loops are there is a cloud, a folder, a VM; what was received are
\* items of the list in turn.
LoopInv ==
    /\ at \in {"folders"} \cup InFolder \cup InVms => left.clouds # {}
    /\ at \in InFolder \cup InVms => left.folders # {}
    /\ at \in InVms => left.vms # {} /\ \A v \in left.vms : FolderOf[v] = folder
    /\ at = "clouds" => got \subseteq Clouds
    /\ at = "folders" => got \subseteq Folders
    /\ at = "vms" => got \subseteq {v \in Vms : FolderOf[v] = folder}
    /\ at = "disks" => got \subseteq Disks

\* The disks that VM v had during the whole fetch, if it existed.
OwnDisks(v) == {d \in Disks : OwnerOf[d] = v /\ (d = BootOf[v] \/ d \in always.disks)}

\* What existed all the time exists, and was received as far as the pages go.
PageInv ==
    /\ always.vms \subseteq world.vms /\ always.disks \subseteq world.disks
    /\ at = "clouds" => \A c \in Clouds : c <= mark => c \in got
    /\ at = "folders" => \A f \in Folders : CloudOf[f] = cloud /\ f <= mark => f \in got
    /\ at = "vms" => \A v \in always.vms : FolderOf[v] = folder /\ v <= mark => v \in got
    /\ at = "disks" => \A v \in always.vms : FolderOf[v] = folder =>
                          \A d \in OwnDisks(v) : d <= mark => d \in got

\* The disks of the VMs received were shown.
ShownInv ==
    /\ at = "vms" => \A v \in got : OwnDisks(v) \subseteq instances[v]
    /\ at \in InVms => \A v \in left.vms : OwnDisks(v) \subseteq instances[v]

\* VM v is still to come.
Ahead(v) ==
    LET c == CloudOf[FolderOf[v]] IN
    \/ at \in {"zones", "clouds"}
    \/ at = "folders" /\ c \in left.clouds
    \/ at \in InFolder \cup InVms /\ c \in left.clouds \ {cloud}
    \/ at \in InFolder /\ FolderOf[v] \in left.folders
    \/ at \in InVms /\ FolderOf[v] \in left.folders \ {folder}
    \/ at \in InVms /\ v \in left.vms

\* Without a flag no VM is missing.
FoundInv ==
    at # "idle" /\ ~listing.flag => \A v \in always.vms : v \in listing.vms \/ Ahead(v)

\* Disk d of VM v is missing because the list of disks and its own request failed.
Lost(v, d) == FolderOf[v] \in lost.lists /\ d \in lost.disks

\* The folder's disks are in the cache, unless their list failed; no disk is
\* missing of a VM that is complete, nor before those that remain of the one in turn.
DiskInv ==
    /\ at \in {"boot", "image", "disk"} =>
          /\ folder \in lost.lists \/ \A v \in always.vms :
                                         FolderOf[v] = folder => OwnDisks(v) \subseteq cache
          /\ \A d \in OwnDisks(vm) :
                vm \in always.vms => d \in left.disks \/ d \in listing.disks[vm] \/ Lost(vm, d)
    /\ \A v \in always.vms \cap listing.vms : \A d \in OwnDisks(v) :
          d \in listing.disks[v] \/ Lost(v, d)

\* The OS of a VM is known, or a request for it failed.
OsInv ==
    /\ at = "disk" => vm \in listing.os \cup lost.images
    /\ listing.vms \subseteq listing.os \cup lost.images

ZonesInv == at \notin {"idle", "zones"} => Zones \subseteq listing.zones \/ lost.zones

\* Disks in NetBox are on their VM, and deleted only if they are not listed.
QueueInv ==
    /\ \A v \in Vms : \A d \in nb[v].disks \cup known[v] : OwnerOf[d] = v
    /\ \A d \in queue.delete : /\ OwnerOf[d] \in listing.vms
                               /\ d \notin listing.disks[OwnerOf[d]]
    /\ queue.update \subseteq listing.vms
    /\ at \notin {"delete", "create", "update"} => queue = NoQueue

\* Between syncs nothing is known of the cloud.
IdleInv == at = "idle" => listing = NoListing /\ lost = NothingLost

IInv == /\ TypeOK /\ LoopInv /\ PageInv /\ ShownInv /\ FoundInv /\ DiskInv
        /\ OsInv /\ ZonesInv /\ QueueInv /\ IdleInv

-----------------------------------------------------------------------------
(* Helpers *)

\* A set of numbers has a first one.
LEMMA MinIsFirst ==
    ASSUME NEW S \in SUBSET Nat, S # {}
    PROVE  Min(S) \in S /\ \A y \in S : Min(S) <= y
<1> DEFINE R == OpToRel(<, Nat)
<1>1. IsWellFoundedOn(R, Nat)
  BY NatLessThanWellFounded
<1>2. PICK m \in S : \A k \in S : <<k, m>> \notin R
  <2> HIDE DEF R
  <2> QED
    BY <1>1, WFMin
<1>3. \A k \in S : ~ (k < m)
  BY <1>2 DEF OpToRel
<1>4. \A k \in S : m <= k
  BY <1>3
<1> QED
  BY <1>4 DEF Min

LeftType == [clouds : SUBSET Clouds, folders : SUBSET Folders,
             vms : SUBSET Vms, disks : SUBSET Disks]

ListingType == [zones : SUBSET AllZones, vms : SUBSET Vms,
                disks : [Vms -> SUBSET Disks], os : SUBSET Vms, flag : BOOLEAN]

LostType == [zones : BOOLEAN, lists : SUBSET Folders, disks : SUBSET Disks, images : SUBSET Vms]

\* The cloud, the folder and the VM in turn.
LEMMA InTurn ==
    ASSUME left \in LeftType
    PROVE  /\ left.clouds # {} => cloud \in left.clouds /\ cloud \in Clouds
           /\ left.folders # {} => folder \in left.folders /\ folder \in Folders
           /\ left.vms # {} => vm \in left.vms /\ vm \in Vms
           /\ left.disks # {} => disk \in left.disks /\ disk \in Disks
<1>1. Clouds \subseteq Nat /\ Folders \subseteq Nat /\ Vms \subseteq Nat /\ Disks \subseteq Nat
  BY ItemsAssumption DEF Listed
<1>2. /\ left.clouds \subseteq Clouds /\ left.folders \subseteq Folders
      /\ left.vms \subseteq Vms /\ left.disks \subseteq Disks
  BY DEF LeftType
<1> QED
  BY <1>1, <1>2, MinIsFirst DEF cloud, folder, vm, disk

\* The boot disk of a VM is its own.
LEMMA BootDisks ==
    /\ \A v \in Vms : BootOf[v] \in Disks /\ BootOf[v] \in Boots
    /\ \A d \in Disks : OwnerOf[d] \in Vms /\ (d \in Boots => d = BootOf[OwnerOf[d]])
    /\ \A v \in Vms : FolderOf[v] \in Folders /\ CloudOf[FolderOf[v]] \in Clouds
  BY OwnersAssumption DEF Boots

\* What the next request is.
Asked(request) == at' = request /\ tries' = 0 /\ mark' = 0 /\ got' = {}

ToCloud(clouds) ==
    /\ left' = [clouds |-> clouds, folders |-> {}, vms |-> {}, disks |-> {}]
    /\ Asked(IF clouds = {} THEN "fetched" ELSE "folders")

ToFolder(folders) ==
    \/ folders = {} /\ ToCloud(left.clouds \ {cloud})
    \/ /\ folders # {}
       /\ left' = [clouds |-> left.clouds, folders |-> folders, vms |-> {}, disks |-> {}]
       /\ Asked("vpcs")

ToVm(vms) ==
    \/ vms = {} /\ ToFolder(left.folders \ {folder})
    \/ /\ vms # {}
       /\ left' = [clouds |-> left.clouds, folders |-> left.folders, vms |-> vms,
                   disks |-> instances[Min(vms)]]
       /\ Asked("boot")

LEMMA NextLoops ==
    ASSUME left \in LeftType
    PROVE  /\ \A clouds : NextCloud(clouds) => ToCloud(clouds)
           /\ \A folders : NextFolder(folders) => ToFolder(folders)
           /\ \A vms : NextVm(vms) => ToVm(vms)
<1>1. ASSUME NEW clouds, NextCloud(clouds) PROVE ToCloud(clouds)
  BY <1>1 DEF NextCloud, NothingLeft, Ask, ToCloud, Asked
<1>2. ASSUME NEW folders, NextFolder(folders) PROVE ToFolder(folders)
  <2>1. CASE folders = {}
    BY <1>1, <1>2, <2>1 DEF NextFolder, ToFolder
  <2>2. CASE folders # {}
    BY <1>2, <2>2 DEF NextFolder, ToFolder, Ask, Asked, LeftType
  <2> QED
    BY <2>1, <2>2
<1>3. ASSUME NEW vms, NextVm(vms) PROVE ToVm(vms)
  <2>1. CASE vms = {}
    BY <1>2, <1>3, <2>1 DEF NextVm, ToVm
  <2>2. CASE vms # {}
    BY <1>3, <2>2 DEF NextVm, ToVm, Ask, Asked, LeftType
  <2> QED
    BY <2>1, <2>2
<1> QED
  BY <1>1, <1>2, <1>3

\* The same VM goes on.
SameVm ==
    /\ at \in InVms /\ at' \in {"image", "disk"}
    /\ left'.clouds = left.clouds /\ left'.folders = left.folders /\ left'.vms = left.vms
    /\ tries' = 0 /\ mark' = 0 /\ got' = {}

LEMMA VmGoesOn ==
    ASSUME left \in LeftType, TakeBoot \/ TakeImage \/ NoOs \/ TakeDisk \/ NoDisk
    PROVE  SameVm
<1>1. CASE TakeBoot \/ TakeImage \/ NoOs
  BY <1>1 DEF TakeBoot, TakeImage, NoOs, Ask, SameVm, InVms
<1>2. CASE TakeDisk \/ NoDisk
  BY <1>2 DEF TakeDisk, NoDisk, Ask, SameVm, InVms, LeftType
<1> QED
  BY <1>1, <1>2

\* How a request for a list ends: with its items, or with none if it failed.
Received(items, ok) ==
    \/ ok = TRUE /\ items = got \cup Rest /\ instances' = Shown(Rest)
    \/ ok = FALSE /\ items = {} /\ UNCHANGED instances

\* The steps of the fetch.
LEMMA FetchCases ==
    ASSUME FetchStep
    PROVE  /\ at \in Requests
           /\ UNCHANGED <<world, always, changes>>
           /\ \/ Retry
              \/ \E m \in Listed : NextPage(m)
              \/ \E items, ok : Received(items, ok) /\ Take(items, ok)
              \/ /\ UNCHANGED instances
                 /\ \/ TakeZones(Zones, TRUE) \/ TakeZones(DefaultZones, FALSE)
                    \/ TakeBoot \/ TakeImage \/ TakeDisk \/ AppendVm
                    \/ ~Cached /\ (NoOs \/ NoDisk)
<1>1. CASE Retry
  BY <1>1 DEF Retry
<1>2. ASSUME NEW m \in Listed, NextPage(m)
      PROVE at \in Requests /\ UNCHANGED <<world, always, changes>>
  BY <1>2 DEF NextPage, Requests
<1>3. CASE Answer
  <2>1. CASE Take(got \cup Rest, TRUE)
    <3>1. at \in Lists
      BY <2>1 DEF Take, TakeClouds, TakeFolders, TakeNetworks, TakeVms, TakeDisks, Lists
    <3>2. Received(got \cup Rest, TRUE)
      BY <1>3 DEF Answer, Received
    <3> QED
      BY <2>1, <3>1, <3>2, <1>3 DEF Answer, Requests
  <2>2. CASE TakeZones(Zones, TRUE) \/ TakeBoot \/ TakeImage \/ TakeDisk \/ AppendVm
    <3>1. at \in {"zones", "boot", "image", "disk"}
      BY <2>2 DEF TakeZones, TakeBoot, TakeImage, TakeDisk, AppendVm
    <3>2. UNCHANGED instances
      BY <1>3, <3>1 DEF Answer, Shown
    <3> QED
      BY <2>2, <3>1, <3>2, <1>3 DEF Answer, Requests
  <2> QED
    BY <1>3, <2>1, <2>2 DEF Answer
<1>4. CASE Fails
  <2>1. CASE Take({}, FALSE)
    <3>1. Received({}, FALSE)
      BY <1>4 DEF Fails, Received
    <3> QED
      BY <2>1, <3>1, <1>4 DEF Fails
  <2>2. CASE TakeZones(DefaultZones, FALSE) \/ NoOs \/ NoDisk
    BY <2>2, <1>4 DEF Fails
  <2> QED
    BY <1>4, <2>1, <2>2 DEF Fails
<1> QED
  BY <1>1, <1>2, <1>3, <1>4 DEF FetchStep

\* The items received are items of the list.
LEMMA ReceivedItems ==
    ASSUME world \in World, LoopInv, NEW items, NEW ok, Received(items, ok)
    PROVE  /\ at = "clouds" => items \subseteq Clouds
           /\ at = "folders" => items \subseteq Folders
           /\ at = "vms" => items \subseteq {v \in Vms : FolderOf[v] = folder}
           /\ at = "disks" => items \subseteq Disks
<1>1. Rest \subseteq Items
  BY DEF Rest
<1>2. at = "clouds" => items \subseteq Clouds
  BY <1>1 DEF LoopInv, Received, Items
<1>3. at = "folders" => items \subseteq Folders
  BY <1>1 DEF LoopInv, Received, Items
<1>4. at = "vms" => items \subseteq {v \in Vms : FolderOf[v] = folder}
  <2>1. at = "vms" => Items \subseteq {v \in Vms : FolderOf[v] = folder}
    BY DEF Items, World
  <2> QED
    BY <1>1, <2>1 DEF LoopInv, Received
<1>5. at = "disks" => items \subseteq Disks
  BY <1>1 DEF LoopInv, Received, Items
<1> QED
  BY <1>2, <1>3, <1>4, <1>5

-----------------------------------------------------------------------------
(* Types *)

Places == Requests \cup {"idle", "fetched", "ensure", "load", "orphans", "process",
                         "delete", "create", "update"}

\* TypeOK in parts: where the sync is, what it has fetched, NetBox, and the rest.
LoopTypes ==
    /\ at \in Places
    /\ tries \in 0..MaxRetries /\ mark \in Nat /\ got \subseteq Nat
    /\ left \in LeftType

FetchedTypes ==
    /\ cache \subseteq Disks
    /\ instances \in [Vms -> SUBSET Disks]
    /\ listing \in ListingType /\ lost \in LostType

CloudTypes ==
    /\ world \in World /\ always \in World
    /\ failures \in 0..MaxFailures /\ changes \in 0..MaxChanges

NetBoxTypes ==
    /\ sites \subseteq AllZones
    /\ nb \in [Vms -> {NoVm} \cup [site : AllZones \cup {NoSite},
                                   platform : {"own", "linux"}, disks : SUBSET Disks]]
    /\ mapped \subseteq AllZones
    /\ known \in [Vms -> SUBSET Disks]
    /\ queue \in [create : SUBSET Disks, delete : SUBSET Disks, update : SUBSET Vms]
    /\ steady \in BOOLEAN

LEMMA Parts == TypeOK <=> LoopTypes /\ FetchedTypes /\ CloudTypes /\ NetBoxTypes
  BY DEF TypeOK, FetchTypeOK, LoopTypes, FetchedTypes, CloudTypes, NetBoxTypes, LeftType,
         ListingType, LostType, Places

LEMMA PartsNext == LoopTypes' /\ FetchedTypes' /\ CloudTypes' /\ NetBoxTypes' => TypeOK'
  BY DEF TypeOK, FetchTypeOK, LoopTypes, FetchedTypes, CloudTypes, NetBoxTypes, LeftType,
         ListingType, LostType, Places

\* The loops go on with clouds, folders and VMs that there are.
LEMMA LoopsAreTyped ==
    ASSUME LoopTypes, FetchedTypes
    PROVE  /\ \A clouds \in SUBSET Clouds : ToCloud(clouds) => LoopTypes'
           /\ \A folders \in SUBSET Folders : ToFolder(folders) => LoopTypes'
           /\ \A vms \in SUBSET Vms : ToVm(vms) => LoopTypes'
           /\ \A request \in Places : Asked(request) /\ left' \in LeftType => LoopTypes'
<1>0. 0 \in 0..MaxRetries /\ 0 \in Nat
  BY NumbersAssumption
<1>1. ASSUME NEW request \in Places, Asked(request), left' \in LeftType PROVE LoopTypes'
  BY <1>0, <1>1 DEF Asked, LoopTypes
<1>2. ASSUME NEW clouds \in SUBSET Clouds, ToCloud(clouds) PROVE LoopTypes'
  <2>1. left' \in LeftType
    BY <1>2 DEF ToCloud, LeftType
  <2>2. Asked("fetched") \/ Asked("folders")
    BY <1>2 DEF ToCloud
  <2> QED
    BY <2>1, <2>2, <1>1 DEF Places, Requests, Lists
<1>3. ASSUME NEW folders \in SUBSET Folders, ToFolder(folders) PROVE LoopTypes'
  <2>0. left.clouds \in SUBSET Clouds /\ left.clouds \ {cloud} \in SUBSET Clouds
    BY DEF LoopTypes, LeftType
  <2>1. CASE ToCloud(left.clouds \ {cloud})
    BY <2>0, <2>1, <1>2
  <2>2. CASE /\ left' = [clouds |-> left.clouds, folders |-> folders, vms |-> {}, disks |-> {}]
             /\ Asked("vpcs")
    <3>1. left' \in LeftType
      BY <2>0, <2>2 DEF LeftType
    <3> QED
      BY <2>2, <3>1, <1>1 DEF Places, Requests, Lists
  <2> QED
    BY <1>3, <2>1, <2>2 DEF ToFolder
<1>4. ASSUME NEW vms \in SUBSET Vms, ToVm(vms) PROVE LoopTypes'
  <2>0. left.clouds \in SUBSET Clouds /\ left.folders \in SUBSET Folders
        /\ left.folders \ {folder} \in SUBSET Folders
    BY DEF LoopTypes, LeftType
  <2>1. CASE ToFolder(left.folders \ {folder})
    BY <2>0, <2>1, <1>3
  <2>2. CASE /\ vms # {}
             /\ left' = [clouds |-> left.clouds, folders |-> left.folders, vms |-> vms,
                         disks |-> instances[Min(vms)]]
             /\ Asked("boot")
    <3>1. Min(vms) \in Vms
      BY <2>2, ItemsAssumption, MinIsFirst DEF Listed
    <3>2. left' \in LeftType
      BY <2>0, <2>2, <3>1 DEF LeftType, FetchedTypes
    <3> QED
      BY <2>2, <3>2, <1>1 DEF Places, Requests
  <2> QED
    BY <1>4, <2>1, <2>2 DEF ToVm
<1> QED
  BY <1>1, <1>2, <1>3, <1>4

LEMMA LoopTypesStep ==
    ASSUME TypeOK, LoopInv, FetchStep
    PROVE  LoopTypes'
<1>t. LoopTypes /\ FetchedTypes /\ world \in World
  BY Parts DEF CloudTypes
<1>l. left \in LeftType
  BY <1>t DEF LoopTypes
<1>r. Requests \subseteq Places /\ "fetched" \in Places /\ Lists \subseteq Requests
  BY DEF Places, Requests
<1>1. CASE Retry
  <2>1. tries' \in 0..MaxRetries
    BY <1>1, <1>t, NumbersAssumption DEF Retry, LoopTypes
  <2> QED
    BY <1>1, <2>1, <1>t DEF Retry, LoopTypes
<1>2. ASSUME NEW m \in Listed, NextPage(m) PROVE LoopTypes'
  <2>1. 0 \in 0..MaxRetries /\ m \in Nat
    BY NumbersAssumption, ItemsAssumption
  <2>2. Rest \subseteq Nat
    <3>1. at \in Lists
      BY <1>2 DEF NextPage
    <3>2. Items \subseteq Listed
      <4>1. at = "clouds" => Items \subseteq Listed
        BY DEF Items, Listed
      <4>2. at = "folders" => Items \subseteq Listed
        BY DEF Items, Listed
      <4>3. at \in {"vpcs", "subnets"} => Items \subseteq Listed
        BY <1>l, InTurn DEF Items, Listed, LoopInv, InFolder
      <4>4. at = "vms" => Items \subseteq Listed
        BY <1>t DEF Items, Listed, World
      <4>5. at = "disks" => Items \subseteq Listed
        BY DEF Items, Listed
      <4> QED
        BY <3>1, <4>1, <4>2, <4>3, <4>4, <4>5 DEF Lists
    <3> QED
      BY <3>2, ItemsAssumption DEF Rest
  <2>3. got' \subseteq Nat
    BY <1>2, <2>2, <1>t DEF NextPage, LoopTypes
  <2> QED
    BY <1>2, <2>1, <2>3, <1>t DEF NextPage, LoopTypes
<1>3. ASSUME NEW items, NEW ok, Received(items, ok), Take(items, ok) PROVE LoopTypes'
  <2>1. CASE TakeClouds(items, ok)
    <3>1. items \in SUBSET Clouds
      BY <2>1, <1>3, <1>t, ReceivedItems DEF TakeClouds
    <3> QED
      BY <2>1, <3>1, <1>t, <1>l, NextLoops, LoopsAreTyped DEF TakeClouds
  <2>2. CASE TakeFolders(items, ok)
    <3>1. items \in SUBSET Folders
      BY <2>2, <1>3, <1>t, ReceivedItems DEF TakeFolders
    <3> QED
      BY <2>2, <3>1, <1>t, <1>l, NextLoops, LoopsAreTyped DEF TakeFolders
  <2>3. CASE TakeNetworks(ok)
    <3>1. Asked("subnets") \/ Asked("vms")
      BY <2>3 DEF TakeNetworks, Ask, Asked
    <3>2. left' = left
      BY <2>3 DEF TakeNetworks
    <3> QED
      BY <3>1, <3>2, <1>t, <1>l, <1>r, LoopsAreTyped DEF Lists
  <2>4. CASE TakeVms(items, ok)
    <3>1. items \in SUBSET Vms
      BY <2>4, <1>3, <1>t, ReceivedItems DEF TakeVms
    <3>2. CASE items = {}
      <4>1. ToFolder(left.folders \ {folder})
        BY <2>4, <3>2, <1>l, NextLoops DEF TakeVms
      <4>2. left.folders \ {folder} \in SUBSET Folders
        BY <1>l DEF LeftType
      <4> QED
        BY <4>1, <4>2, <1>t, LoopsAreTyped
    <3>3. CASE items # {}
      <4>1. Asked("disks") /\ left' = [left EXCEPT !.vms = items]
        BY <2>4, <3>3 DEF TakeVms, Ask, Asked
      <4>2. left' \in LeftType
        BY <4>1, <3>1, <1>l DEF LeftType
      <4> QED
        BY <4>1, <4>2, <1>t, <1>r, LoopsAreTyped DEF Lists
    <3> QED
      BY <3>2, <3>3
  <2>5. CASE TakeDisks(items, ok)
    <3>1. Asked("boot") /\ left' = [left EXCEPT !.disks = instances[vm]] /\ vm \in Vms
      BY <2>5, <1>l, InTurn DEF TakeDisks, Ask, Asked, LoopInv, InVms
    <3>2. left' \in LeftType
      BY <3>1, <1>l, <1>t DEF LeftType, FetchedTypes
    <3> QED
      BY <3>1, <3>2, <1>t, <1>r, LoopsAreTyped DEF Requests
  <2> QED
    BY <1>3, <2>1, <2>2, <2>3, <2>4, <2>5 DEF Take
<1>4. CASE TakeZones(Zones, TRUE) \/ TakeZones(DefaultZones, FALSE) \/ TakeBoot \/ TakeImage \/ NoOs
  <2>1. /\ Asked("clouds") \/ Asked("image") \/ Asked("disk")
        /\ left' = left
    BY <1>4 DEF TakeZones, TakeBoot, TakeImage, NoOs, Ask, Asked
  <2> QED
    BY <2>1, <1>t, <1>l, <1>r, LoopsAreTyped DEF Requests, Lists
<1>5. CASE TakeDisk \/ NoDisk
  <2>1. Asked("disk") /\ left' = [left EXCEPT !.disks = @ \ {disk}]
    BY <1>5 DEF TakeDisk, NoDisk, Ask, Asked
  <2>2. left' \in LeftType
    BY <2>1, <1>l DEF LeftType
  <2> QED
    BY <2>1, <2>2, <1>t, <1>r, LoopsAreTyped DEF Requests
<1>6. CASE AppendVm
  <2>1. ToVm(left.vms \ {vm})
    BY <1>6, <1>l, NextLoops DEF AppendVm
  <2>2. left.vms \ {vm} \in SUBSET Vms
    BY <1>l DEF LeftType
  <2> QED
    BY <2>1, <2>2, <1>t, LoopsAreTyped
<1> QED
  BY <1>1, <1>2, <1>3, <1>4, <1>5, <1>6, FetchCases

LEMMA FetchedTypesStep ==
    ASSUME TypeOK, LoopInv, FetchStep
    PROVE  FetchedTypes'
<1>t. LoopTypes /\ FetchedTypes /\ world \in World
  BY Parts DEF CloudTypes
<1>l. left \in LeftType
  BY <1>t DEF LoopTypes
<1>v. at \in InVms => vm \in Vms /\ folder \in Folders
  BY <1>l, InTurn DEF LoopInv, InVms
<1>s. \A page : Shown(page) \in [Vms -> SUBSET Disks]
  BY <1>t DEF Shown, Attached, FetchedTypes
<1>f. \A ok \in BOOLEAN : [listing EXCEPT !.flag = Flagged(ok)] \in ListingType
  BY <1>t DEF FetchedTypes, ListingType, Flagged
<1>1. CASE UNCHANGED <<cache, instances, listing, lost>>
  BY <1>1, <1>t DEF FetchedTypes
<1>2. ASSUME NEW m \in Listed, NextPage(m) PROVE FetchedTypes'
  <2>1. PICK page : instances' = Shown(page)
    BY <1>2 DEF NextPage
  <2> QED
    BY <1>2, <2>1, <1>s, <1>t DEF NextPage, FetchedTypes
<1>3. ASSUME NEW items, NEW ok, Received(items, ok), Take(items, ok) PROVE FetchedTypes'
  <2>0. instances' \in [Vms -> SUBSET Disks] /\ ok \in BOOLEAN
    BY <1>3, <1>s, <1>t DEF Received, FetchedTypes
  <2>1. CASE TakeClouds(items, ok) \/ TakeFolders(items, ok) \/ TakeNetworks(ok) \/ TakeVms(items, ok)
    <3>1. /\ listing' = [listing EXCEPT !.flag = Flagged(ok)] /\ lost' = lost
          /\ cache' = cache \/ cache' = {}
      BY <2>1 DEF TakeClouds, TakeFolders, TakeNetworks, TakeVms
    <3> QED
      BY <3>1, <2>0, <1>f, <1>t DEF FetchedTypes
  <2>2. CASE TakeDisks(items, ok)
    <3>1. items \subseteq Disks
      BY <2>2, <1>3, <1>t, ReceivedItems DEF TakeDisks
    <3>2. [lost EXCEPT !.lists = @ \cup {folder}] \in LostType
      BY <2>2, <1>v, <1>t DEF TakeDisks, InVms, FetchedTypes, LostType
    <3> QED
      BY <2>2, <3>1, <3>2, <2>0, <1>t DEF TakeDisks, FetchedTypes
  <2> QED
    BY <1>3, <2>1, <2>2 DEF Take
<1>4. ASSUME NEW zones \in SUBSET AllZones, NEW ok \in BOOLEAN, TakeZones(zones, ok), UNCHANGED instances
      PROVE  FetchedTypes'
  <2>1. [listing EXCEPT !.zones = zones] \in ListingType /\ [lost EXCEPT !.zones = ~ok] \in LostType
    BY <1>t DEF FetchedTypes, ListingType, LostType
  <2> QED
    BY <2>1, <1>4, <1>t DEF TakeZones, FetchedTypes
<1>5. CASE TakeBoot /\ UNCHANGED instances
  BY <1>5, <1>v, <1>t, BootDisks DEF TakeBoot, InVms, FetchedTypes
<1>6. CASE TakeImage /\ UNCHANGED instances
  <2>1. [listing EXCEPT !.os = @ \cup {vm}] \in ListingType
    BY <1>6, <1>v, <1>t DEF TakeImage, InVms, FetchedTypes, ListingType
  <2> QED
    BY <2>1, <1>6, <1>t DEF TakeImage, FetchedTypes
<1>7. CASE NoOs /\ UNCHANGED instances
  <2>1. vm \in Vms /\ BootOf[vm] \in Disks
    BY <1>7, <1>v, BootDisks DEF NoOs, InVms
  <2>2. lost' \in LostType
    BY <1>7, <2>1, <1>t DEF NoOs, FetchedTypes, LostType
  <2> QED
    BY <2>2, <1>7, <1>t DEF NoOs, FetchedTypes
<1>8. CASE TakeDisk /\ UNCHANGED instances
  <2>1. vm \in Vms /\ disk \in Disks
    BY <1>8, <1>v, <1>l, InTurn DEF TakeDisk, InVms
  <2>2. [listing EXCEPT !.disks[vm] = @ \cup {disk}] \in ListingType
    BY <2>1, <1>t DEF FetchedTypes, ListingType
  <2> QED
    BY <2>1, <2>2, <1>8, <1>t DEF TakeDisk, FetchedTypes
<1>9. CASE NoDisk /\ UNCHANGED instances
  <2>1. disk \in Disks
    BY <1>9, <1>l, InTurn DEF NoDisk
  <2>2. lost' \in LostType
    BY <1>9, <2>1, <1>t DEF NoDisk, FetchedTypes, LostType
  <2> QED
    BY <2>2, <1>9, <1>t DEF NoDisk, FetchedTypes
<1>10. CASE AppendVm /\ UNCHANGED instances
  <2>1. [listing EXCEPT !.vms = @ \cup {vm}] \in ListingType
    BY <1>10, <1>v, <1>t DEF AppendVm, InVms, FetchedTypes, ListingType
  <2> QED
    BY <2>1, <1>10, <1>t DEF AppendVm, FetchedTypes
<1>11. Zones \in SUBSET AllZones /\ DefaultZones \in SUBSET AllZones
  BY DEF AllZones
<1>12. CASE Retry
  BY <1>12, <1>1 DEF Retry
<1> QED
  BY <1>2, <1>3, <1>4, <1>5, <1>6, <1>7, <1>8, <1>9, <1>10, <1>11, <1>12, FetchCases

\* A VM in NetBox.
VmType == [site : AllZones \cup {NoSite}, platform : {"own", "linux"}, disks : SUBSET Disks]

\* Or not.
AnyVm == [site : AllZones \cup {NoSite}, platform : {"absent", "own", "linux"},
          disks : SUBSET Disks]

\* What becomes of VM v when it is written.
LEMMA VmForms ==
    ASSUME NetBoxTypes, NEW v \in Vms
    PROVE  /\ nb[v] \in VmType \/ nb[v] = NoVm
           /\ nb[v] \in AnyVm
           /\ nb[v] = NoVm <=> nb[v].platform = "absent"
           /\ Platform(v) \in {"own", "linux"}
           /\ Created(v) \in VmType
           /\ Created(v).disks = {} /\ Created(v).platform = Platform(v)
           /\ Created(v).site = Site(v, NoSite)
           /\ Updated(v) \in VmType
           /\ Updated(v).disks = nb[v].disks /\ Updated(v).platform = Platform(v)
           /\ Updated(v).site = Site(v, nb[v].site)
           /\ nb[v].disks \in SUBSET Disks
           /\ NoVm \notin VmType
           /\ NoVm.disks = {} /\ NoVm.platform = "absent" /\ NoVm.site = NoSite
<1>0. nb[v] \in VmType \/ nb[v] = NoVm
  BY DEF NetBoxTypes, VmType
<1>n. /\ NoVm \in AnyVm /\ NoVm \notin VmType
      /\ NoVm.disks = {} /\ NoVm.platform = "absent" /\ NoVm.site = NoSite
  BY DEF NoVm, VmType, AnyVm
<1>1. Platform(v) \in {"own", "linux"}
  BY DEF Platform
<1>2. \A site \in AllZones \cup {NoSite} : Site(v, site) \in AllZones \cup {NoSite}
  BY DEF NetBoxTypes, Site
<1>3. /\ Created(v) \in VmType /\ Created(v).disks = {} /\ Created(v).platform = Platform(v)
      /\ Created(v).site = Site(v, NoSite)
  BY <1>1, <1>2 DEF Created, VmType
<1>4. \A x \in VmType : x \in AnyVm /\ x.platform # "absent"
  BY DEF VmType, AnyVm
<1>5. nb[v] \in AnyVm /\ (nb[v] = NoVm <=> nb[v].platform = "absent")
  BY <1>0, <1>n, <1>4
<1>7. nb[v].site \in AllZones \cup {NoSite} /\ nb[v].disks \in SUBSET Disks
  BY <1>5 DEF AnyVm
<1>8. /\ Updated(v) \in VmType
      /\ Updated(v).disks = nb[v].disks /\ Updated(v).platform = Platform(v)
      /\ Updated(v).site = Site(v, nb[v].site)
  <2>1. PICK x, y, site, platform :
           x = nb[v] /\ y = Updated(v) /\ site = Site(v, x.site) /\ platform = Platform(v)
    OBVIOUS
  <2>2. y = [x EXCEPT !.site = site, !.platform = platform]
    BY <2>1 DEF Updated
  <2>3. site \in AllZones \cup {NoSite} /\ platform \in {"own", "linux"} /\ x \in AnyVm
    BY <2>1, <1>1, <1>2, <1>5, <1>7
  <2>4. y \in VmType /\ y.disks = x.disks /\ y.platform = platform /\ y.site = site
    BY <2>2, <2>3 DEF AnyVm, VmType
  <2> QED
    BY <2>1, <2>4
<1> QED
  BY <1>0, <1>n, <1>1, <1>3, <1>5, <1>7, <1>8

\* Changing the disks of a VM.
LEMMA DisksForm ==
    ASSUME NEW x \in AnyVm, NEW D \in SUBSET Disks
    PROVE  /\ [x EXCEPT !.disks = D] \in AnyVm
           /\ [x EXCEPT !.disks = D].disks = D
           /\ [x EXCEPT !.disks = D].platform = x.platform
           /\ [x EXCEPT !.disks = D].site = x.site
           /\ x \in VmType => [x EXCEPT !.disks = D] \in VmType
           /\ x = NoVm /\ D = {} => [x EXCEPT !.disks = D] = NoVm
<1>1. /\ [x EXCEPT !.disks = D] \in AnyVm
      /\ [x EXCEPT !.disks = D].disks = D
      /\ [x EXCEPT !.disks = D].platform = x.platform
      /\ [x EXCEPT !.disks = D].site = x.site
      /\ x \in VmType => [x EXCEPT !.disks = D] \in VmType
  BY DEF AnyVm, VmType
<1>2. x.disks = D => [x EXCEPT !.disks = D] = x
  BY DEF AnyVm
<1>3. NoVm.disks = {}
  BY DEF NoVm
<1> QED
  BY <1>1, <1>2, <1>3

\* What a step that calls NetBox for objects gets done.
LEMMA Counted ==
    ASSUME CloudTypes, NetBoxTypes,
           NEW objects, NEW done \in Outcomes(objects), Count(objects, done)
    PROVE  /\ done \subseteq objects
           /\ failures' \in 0..MaxFailures /\ steady' \in BOOLEAN
           /\ steady' => steady /\ done = objects
<1>1. done \subseteq objects /\ (done # objects => failures < MaxFailures)
  BY DEF Outcomes
<1>2. failures' \in 0..MaxFailures
  BY <1>1, NumbersAssumption DEF CloudTypes, Count
<1>3. steady' \in BOOLEAN /\ (steady' => steady /\ done = objects)
  BY Zenon DEF Count
<1> QED
  BY <1>1, <1>2, <1>3

\* The sync's data, forgotten.
LEMMA ForgetTypes ==
    ASSUME CloudTypes, Forget
    PROVE  /\ LoopTypes' /\ FetchedTypes' /\ always' \in World
           /\ mapped' \subseteq AllZones
           /\ known' \in [Vms -> SUBSET Disks]
           /\ queue' \in [create : SUBSET Disks, delete : SUBSET Disks, update : SUBSET Vms]
<1>1. 0 \in 0..MaxRetries /\ 0 \in Nat
  BY NumbersAssumption
<1>2. left' \in LeftType /\ at' \in Places /\ got' \subseteq Nat
  BY DEF Forget, NothingLeft, LeftType, Places
<1>3. NoDisks \in [Vms -> SUBSET Disks]
  BY DEF NoDisks
<1>4. listing' \in ListingType
  BY <1>3 DEF Forget, NoListing, ListingType
<1>5. lost' \in LostType
  BY DEF Forget, NothingLost, LostType
<1>6. queue' \in [create : SUBSET Disks, delete : SUBSET Disks, update : SUBSET Vms]
  BY DEF Forget, NoQueue
<1> QED
  BY <1>1, <1>2, <1>3, <1>4, <1>5, <1>6 DEF Forget, LoopTypes, FetchedTypes, CloudTypes

LEMMA FetchTypesStep ==
    ASSUME TypeOK, LoopInv, Fetch
    PROVE  TypeOK'
<1>t. LoopTypes /\ FetchedTypes /\ CloudTypes /\ NetBoxTypes
  BY Parts
<1>1. FetchStep
  BY DEF Fetch
<1>2. LoopTypes' /\ FetchedTypes'
  BY <1>1, LoopTypesStep, FetchedTypesStep
<1>3. failures' \in 0..MaxFailures
  <2>1. failures' = failures \/ (failures < MaxFailures /\ failures' = failures + 1)
    BY <1>1 DEF FetchStep, Retry, NextPage, Answer, Fails
  <2> QED
    BY <2>1, <1>t, NumbersAssumption DEF CloudTypes
<1>4. CloudTypes'
  BY <1>1, <1>3, <1>t, FetchCases DEF CloudTypes
<1>5. steady' \in BOOLEAN
  BY Zenon DEF Fetch
<1>6. NetBoxTypes'
  BY <1>5, <1>t DEF Fetch, netbox, NetBoxTypes
<1> QED
  BY <1>2, <1>4, <1>6, PartsNext

LEMMA SyncTypesStep ==
    ASSUME TypeOK, Sync
    PROVE  TypeOK'
<1>t. LoopTypes /\ FetchedTypes /\ CloudTypes /\ NetBoxTypes
  BY Parts
<1>g. ASSUME NEW step \in Places, Go(step), failures' \in 0..MaxFailures
      PROVE  LoopTypes' /\ FetchedTypes' /\ CloudTypes'
  BY <1>g, <1>t DEF Go, fetch, LoopTypes, FetchedTypes, CloudTypes
<1>p. {"ensure", "load", "orphans", "process", "delete", "create", "update"} \subseteq Places
  BY DEF Places
<1>z. listing.zones \subseteq AllZones /\ listing.vms \subseteq Vms /\ listing.disks \in [Vms -> SUBSET Disks]
  BY <1>t DEF FetchedTypes, ListingType
<1>1. CASE CleanSites
  <2>1. PICK done \in Outcomes(OrphanSites) : sites' = sites \ done /\ Count(OrphanSites, done)
    BY <1>1 DEF CleanSites
  <2> QED
    BY <1>1, <2>1, <1>t, <1>g, <1>p, Counted, PartsNext DEF CleanSites, NetBoxTypes
<1>2. CASE EnsureSites
  <2>1. PICK done \in Outcomes(OrDefault(listing.zones)) :
           sites' = sites \cup done /\ mapped' = done /\ Count(OrDefault(listing.zones), done)
    BY <1>2 DEF EnsureSites
  <2>2. done \subseteq AllZones
    BY <2>1, <1>t, <1>z, Counted DEF OrDefault, AllZones
  <2> QED
    BY <1>2, <2>1, <2>2, <1>t, <1>g, <1>p, Counted, PartsNext DEF EnsureSites, NetBoxTypes
<1>3. CASE Load
  <2>1. PICK done \in Outcomes({"disks"}) :
           /\ known' = IF done = {} THEN NoDisks ELSE [v \in Vms |-> nb[v].disks]
           /\ Count({"disks"}, done)
    BY <1>3 DEF Load
  <2>2. known' \in [Vms -> SUBSET Disks]
    BY <2>1, <1>t, VmForms DEF NoDisks
  <2> QED
    BY <1>3, <2>1, <2>2, <1>t, <1>g, <1>p, Counted, PartsNext DEF Load, NetBoxTypes
<1>4. CASE NoVmsListed \/ UpdateVms
  <2>1. Forget
    BY <1>4 DEF NoVmsListed, UpdateVms
  <2>2. CASE NoVmsListed
    BY <2>1, <2>2, <1>t, ForgetTypes, PartsNext DEF NoVmsListed, CloudTypes, NetBoxTypes
  <2>3. CASE UpdateVms
    <3>1. PICK done \in Outcomes(queue.update) :
             /\ nb' = [v \in Vms |-> IF v \in done THEN Updated(v) ELSE nb[v]]
             /\ Count(queue.update, done)
      BY <2>3 DEF UpdateVms
    <3>2. nb' \in [Vms -> {NoVm} \cup VmType]
      BY <3>1, <1>t, VmForms
    <3>3. NetBoxTypes'
      BY <2>1, <2>3, <3>1, <3>2, <1>t, Counted, ForgetTypes DEF UpdateVms, NetBoxTypes, VmType
    <3> QED
      BY <2>1, <2>3, <3>1, <3>3, <1>t, Counted, ForgetTypes, PartsNext DEF UpdateVms, CloudTypes
  <2> QED
    BY <1>4, <2>2, <2>3
<1>5. CASE DeleteOrphans
  <2>1. PICK done \in Outcomes(Orphans) :
           /\ nb' = [v \in Vms |-> IF v \in done THEN NoVm ELSE nb[v]]
           /\ Count(Orphans, done)
    BY <1>5 DEF DeleteOrphans
  <2> QED
    BY <1>5, <2>1, <1>t, <1>g, <1>p, Counted, PartsNext DEF DeleteOrphans, NetBoxTypes
<1>6. CASE Process
  <2>1. PICK done \in Outcomes(listing.vms) :
          /\ nb' = [v \in Vms |-> IF v \in done /\ nb[v] = NoVm THEN Created(v) ELSE nb[v]]
          /\ queue' = [create |-> UNION {listing.disks[v] \ Known(v) : v \in done},
                       delete |-> UNION {Known(v) \ listing.disks[v] : v \in done},
                       update |-> {v \in done \cap InNetBox : Updated(v) # nb[v]}]
          /\ Count(listing.vms, done)
    BY <1>6 DEF Process
  <2>2. done \subseteq Vms
    BY <2>1, <1>t, <1>z, Counted
  <2>3. \A v \in Vms : Known(v) \subseteq Disks
    BY <1>t DEF NetBoxTypes, Known
  <2>4. queue' \in [create : SUBSET Disks, delete : SUBSET Disks, update : SUBSET Vms]
    <3>1. UNION {listing.disks[v] \ Known(v) : v \in done} \subseteq Disks
      BY <2>2, <1>z
    <3>2. UNION {Known(v) \ listing.disks[v] : v \in done} \subseteq Disks
      BY <2>2, <2>3
    <3>3. {v \in done \cap InNetBox : Updated(v) # nb[v]} \subseteq Vms
      BY <2>2
    <3> QED
      BY <2>1, <3>1, <3>2, <3>3
  <2>5. nb' \in [Vms -> {NoVm} \cup VmType]
    BY <2>1, <1>t, VmForms
  <2> QED
    BY <1>6, <2>1, <2>4, <2>5, <1>t, <1>g, <1>p, Counted, PartsNext DEF Process, NetBoxTypes, VmType
<1>7. CASE DeleteDisks
  <2>1. PICK done \in Outcomes(queue.delete) :
           /\ nb' = [v \in Vms |-> [nb[v] EXCEPT !.disks = @ \ done]]
           /\ Count(queue.delete, done)
    BY <1>7 DEF DeleteDisks
  <2>2. ASSUME NEW v \in Vms PROVE [nb[v] EXCEPT !.disks = @ \ done] \in {NoVm} \cup VmType
    <3>1. nb[v].disks \ done \in SUBSET Disks /\ (nb[v] = NoVm => nb[v].disks \ done = {})
      BY <1>t, VmForms
    <3> QED
      BY <3>1, <1>t, VmForms, DisksForm
  <2>3. nb' \in [Vms -> {NoVm} \cup VmType]
    BY <2>1, <2>2
  <2> QED
    BY <1>7, <2>1, <2>3, <1>t, <1>g, <1>p, Counted, PartsNext DEF DeleteDisks, NetBoxTypes, VmType
<1>8. CASE CreateDisks
  <2>1. PICK done \in Outcomes(queue.create) :
           /\ nb' = [v \in Vms |-> IF v \in InNetBox
                                   THEN [nb[v] EXCEPT !.disks = @ \cup {d \in done : OwnerOf[d] = v}]
                                   ELSE NoVm]
           /\ Count(queue.create, done)
    BY <1>8 DEF CreateDisks
  <2>2. done \subseteq Disks
    BY <2>1, <1>t, Counted DEF NetBoxTypes
  <2>3. ASSUME NEW v \in InNetBox
        PROVE  [nb[v] EXCEPT !.disks = @ \cup {d \in done : OwnerOf[d] = v}] \in VmType
    <3>1. nb[v].disks \cup {d \in done : OwnerOf[d] = v} \in SUBSET Disks /\ v \in Vms /\ nb[v] # NoVm
      BY <2>2, <2>3, <1>t, VmForms DEF InNetBox
    <3> QED
      BY <3>1, <1>t, VmForms, DisksForm
  <2>4. nb' \in [Vms -> {NoVm} \cup VmType]
    BY <2>1, <2>3
  <2> QED
    BY <1>8, <2>1, <2>4, <1>t, <1>g, <1>p, Counted, PartsNext DEF CreateDisks, NetBoxTypes, VmType
<1> QED
  BY <1>1, <1>2, <1>3, <1>4, <1>5, <1>6, <1>7, <1>8 DEF Sync

LEMMA TypeStep ==
    ASSUME TypeOK, LoopInv, [Next]_vars
    PROVE  TypeOK'
<1>t. LoopTypes /\ FetchedTypes /\ CloudTypes /\ NetBoxTypes
  BY Parts
<1>1. CASE Begin
  <2>1. at' \in Places /\ tries' \in 0..MaxRetries /\ mark' \in Nat /\ got' \subseteq Nat
    BY <1>1, NumbersAssumption DEF Begin, Ask, Places, Requests
  <2> QED
    BY <1>1, <2>1, <1>t, PartsNext
    DEF Begin, netbox, LoopTypes, FetchedTypes, CloudTypes, NetBoxTypes
<1>2. CASE SyncDies
  <2>1. failures' \in 0..MaxFailures
    BY <1>2, <1>t, NumbersAssumption DEF SyncDies, CloudTypes
  <2> QED
    BY <1>2, <2>1, <1>t, ForgetTypes, PartsNext DEF SyncDies, CloudTypes, NetBoxTypes
<1>3. CASE Change
  <2>1. changes' \in 0..MaxChanges
    BY <1>3, <1>t, NumbersAssumption DEF Change, CloudChanges, CloudTypes
  <2>2. world' \in World
    BY <1>3, <1>t DEF Change, CloudChanges, CloudTypes, World, SymDiff
  <2>3. always' \in World
    BY <1>3, <1>t DEF Change, CloudChanges, CloudTypes, World
  <2> QED
    BY <1>3, <2>1, <2>2, <2>3, <1>t, PartsNext
    DEF Change, CloudChanges, netbox, LoopTypes, FetchedTypes, CloudTypes, NetBoxTypes
<1>4. CASE UNCHANGED vars
  BY <1>4, <1>t, PartsNext
  DEF vars, fetch, netbox, LoopTypes, FetchedTypes, CloudTypes, NetBoxTypes
<1> QED
  BY <1>1, <1>2, <1>3, <1>4, FetchTypesStep, SyncTypesStep DEF Next

-----------------------------------------------------------------------------
(* The loops *)

\* Where the loops go on, they have what they need.
LEMMA LoopsGoOn ==
    ASSUME LoopTypes, FetchedTypes
    PROVE  /\ \A clouds : ToCloud(clouds) => LoopInv'
           /\ \A folders : ToFolder(folders) /\ left.clouds # {} => LoopInv'
           /\ \A vms : /\ ToVm(vms) /\ left.clouds # {} /\ left.folders # {}
                       /\ \A v \in vms : FolderOf[v] = folder
                       => LoopInv'
<1>1. ASSUME NEW clouds, ToCloud(clouds) PROVE LoopInv'
  BY <1>1 DEF ToCloud, Asked, LoopInv, InFolder, InVms
<1>2. ASSUME NEW folders, ToFolder(folders), left.clouds # {} PROVE LoopInv'
  <2>1. CASE ToCloud(left.clouds \ {cloud})
    BY <2>1, <1>1
  <2>2. CASE /\ folders # {}
             /\ left' = [clouds |-> left.clouds, folders |-> folders, vms |-> {}, disks |-> {}]
             /\ Asked("vpcs")
    BY <1>2, <2>2 DEF Asked, LoopInv, InFolder, InVms
  <2> QED
    BY <1>2, <2>1, <2>2 DEF ToFolder
<1>3. ASSUME NEW vms, ToVm(vms), left.clouds # {}, left.folders # {},
             \A v \in vms : FolderOf[v] = folder
      PROVE  LoopInv'
  <2>1. CASE ToFolder(left.folders \ {folder})
    BY <1>2, <1>3, <2>1
  <2>2. CASE /\ vms # {}
             /\ left' = [clouds |-> left.clouds, folders |-> left.folders, vms |-> vms,
                         disks |-> instances[Min(vms)]]
             /\ Asked("boot")
    <3>1. folder' = folder
      BY <2>2 DEF folder
    <3> QED
      BY <1>3, <2>2, <3>1 DEF Asked, LoopInv, InFolder, InVms
  <2> QED
    BY <1>3, <2>1, <2>2 DEF ToVm
<1> QED
  BY <1>1, <1>2, <1>3

LEMMA LoopStep ==
    ASSUME TypeOK, LoopInv, FetchStep
    PROVE  LoopInv'
<1>t. LoopTypes /\ FetchedTypes /\ world \in World
  BY Parts DEF CloudTypes
<1>l. left \in LeftType
  BY <1>t DEF LoopTypes
<1>1. CASE Retry
  BY <1>1 DEF Retry, LoopInv, folder
<1>2. ASSUME NEW m \in Listed, NextPage(m) PROVE LoopInv'
  <2>1. got' \subseteq got \cup Items /\ at' = at /\ left' = left
    BY <1>2 DEF NextPage, Rest
  <2>2. folder' = folder
    BY <2>1 DEF folder
  <2>3. /\ at = "clouds" => Items \subseteq Clouds
        /\ at = "folders" => Items \subseteq Folders
        /\ at = "vms" => Items \subseteq {v \in Vms : FolderOf[v] = folder}
        /\ at = "disks" => Items \subseteq Disks
    <3>1. at = "clouds" => Items \subseteq Clouds
      BY DEF Items
    <3>2. at = "folders" => Items \subseteq Folders
      BY DEF Items
    <3>3. at = "vms" => Items \subseteq {v \in Vms : FolderOf[v] = folder}
      BY <1>t DEF Items, World
    <3>4. at = "disks" => Items \subseteq Disks
      BY DEF Items
    <3> QED
      BY <3>1, <3>2, <3>3, <3>4
  <2> QED
    BY <2>1, <2>2, <2>3 DEF LoopInv, InFolder, InVms
<1>3. ASSUME NEW items, NEW ok, Received(items, ok), Take(items, ok) PROVE LoopInv'
  <2>1. CASE TakeClouds(items, ok)
    BY <2>1, <1>t, <1>l, NextLoops, LoopsGoOn DEF TakeClouds
  <2>2. CASE TakeFolders(items, ok)
    BY <2>2, <1>t, <1>l, NextLoops, LoopsGoOn DEF TakeFolders, LoopInv
  <2>3. CASE TakeNetworks(ok)
    BY <2>3 DEF TakeNetworks, Ask, LoopInv, InFolder, InVms
  <2>4. CASE TakeVms(items, ok)
    <3>1. items \subseteq {v \in Vms : FolderOf[v] = folder}
      BY <2>4, <1>3, <1>t, ReceivedItems DEF TakeVms
    <3>2. left.clouds # {} /\ left.folders # {}
      BY <2>4 DEF TakeVms, LoopInv, InFolder
    <3>3. CASE items = {}
      BY <2>4, <3>2, <3>3, <1>t, <1>l, NextLoops, LoopsGoOn DEF TakeVms
    <3>4. CASE items # {}
      <4>1. at' = "disks" /\ left' = [left EXCEPT !.vms = items] /\ got' = {}
        BY <2>4, <3>4 DEF TakeVms, Ask
      <4>2. left'.clouds = left.clouds /\ left'.folders = left.folders /\ left'.vms = items
        BY <4>1, <1>l DEF LeftType
      <4>3. folder' = folder
        BY <4>2 DEF folder
      <4> QED
        BY <3>1, <3>2, <3>4, <4>1, <4>2, <4>3 DEF LoopInv, InFolder, InVms
    <3> QED
      BY <3>3, <3>4
  <2>5. CASE TakeDisks(items, ok)
    <3>1. at = "disks" /\ at' = "boot" /\ left' = [left EXCEPT !.disks = instances[vm]]
      BY <2>5 DEF TakeDisks, Ask
    <3>2. left'.clouds = left.clouds /\ left'.folders = left.folders /\ left'.vms = left.vms
      BY <3>1, <1>l DEF LeftType
    <3>3. folder' = folder
      BY <3>2 DEF folder
    <3> QED
      BY <3>1, <3>2, <3>3 DEF LoopInv, InFolder, InVms
  <2> QED
    BY <1>3, <2>1, <2>2, <2>3, <2>4, <2>5 DEF Take
<1>4. CASE TakeZones(Zones, TRUE) \/ TakeZones(DefaultZones, FALSE)
  BY <1>4 DEF TakeZones, Ask, LoopInv, InFolder, InVms
<1>5. CASE TakeBoot \/ TakeImage \/ NoOs \/ TakeDisk \/ NoDisk
  <2>1. SameVm
    BY <1>5, <1>l, VmGoesOn
  <2>2. folder' = folder
    BY <2>1 DEF folder, SameVm
  <2> QED
    BY <2>1, <2>2 DEF SameVm, LoopInv, InFolder, InVms
<1>6. CASE AppendVm
  <2>1. ToVm(left.vms \ {vm})
    BY <1>6, <1>l, NextLoops DEF AppendVm
  <2>2. left.clouds # {} /\ left.folders # {} /\ \A v \in left.vms : FolderOf[v] = folder
    BY <1>6 DEF AppendVm, LoopInv, InVms
  <2> QED
    BY <2>1, <2>2, <1>t, LoopsGoOn
<1> QED
  BY <1>1, <1>2, <1>3, <1>4, <1>5, <1>6, FetchCases

-----------------------------------------------------------------------------
(* The pages *)

\* What existed all the time is among the items of its list.
LEMMA ListedAll ==
    ASSUME CloudTypes, PageInv
    PROVE  /\ at = "clouds" => Clouds \subseteq Items
           /\ at = "folders" => \A f \in Folders : CloudOf[f] = cloud => f \in Items
           /\ at = "vms" => \A v \in always.vms : FolderOf[v] = folder => v \in Items
           /\ at = "disks" => \A v \in always.vms : FolderOf[v] = folder =>
                                 \A d \in OwnDisks(v) : d \in Items
<1>1. at = "clouds" => Clouds \subseteq Items
  BY DEF Items
<1>2. at = "folders" => \A f \in Folders : CloudOf[f] = cloud => f \in Items
  BY DEF Items
<1>3. at = "vms" => \A v \in always.vms : FolderOf[v] = folder => v \in Items
  BY DEF Items, PageInv
<1>4. at = "disks" => \A v \in always.vms : FolderOf[v] = folder =>
                          \A d \in OwnDisks(v) : d \in Items
  <2>1. \A v \in always.vms : \A d \in OwnDisks(v) : d \in Disks /\ OwnerOf[d] = v /\ Exists(d)
    BY DEF OwnDisks, PageInv, Exists
  <2> QED
    BY <2>1 DEF Items
<1> QED
  BY <1>1, <1>2, <1>3, <1>4

\* The cloud's, folder's and VM's numbers can be compared with the marks.
LEMMA Numbers ==
    ASSUME CloudTypes
    PROVE  /\ Clouds \subseteq Nat \ {0} /\ Folders \subseteq Nat \ {0}
           /\ Vms \subseteq Nat \ {0} /\ Disks \subseteq Nat \ {0}
           /\ always.vms \subseteq Vms /\ world.vms \subseteq Vms
           /\ \A v : OwnDisks(v) \subseteq Disks
  BY ItemsAssumption DEF Listed, CloudTypes, World, OwnDisks

\* A list that was received to its end has all that existed all the time.
LEMMA ReceivedAll ==
    ASSUME LoopTypes, CloudTypes, PageInv, NEW items, NEW ok, ok = TRUE, Received(items, ok)
    PROVE  /\ at = "clouds" => Clouds \subseteq items
           /\ at = "folders" => \A f \in Folders : CloudOf[f] = cloud => f \in items
           /\ at = "vms" => \A v \in always.vms : FolderOf[v] = folder => v \in items
           /\ at = "disks" => \A v \in always.vms : FolderOf[v] = folder =>
                                 \A d \in OwnDisks(v) : d \in items
<1>1. items = got \cup Rest
  BY DEF Received
<1>2. \A x \in Nat : x \in Items => x <= mark \/ x \in items
  BY <1>1 DEF Rest, LoopTypes
<1> QED
  BY <1>1, <1>2, ListedAll, Numbers DEF PageInv

LEMMA PageStep ==
    ASSUME TypeOK, PageInv, FetchStep
    PROVE  PageInv'
<1>t. LoopTypes /\ FetchedTypes /\ CloudTypes
  BY Parts
<1>l. left \in LeftType
  BY <1>t DEF LoopTypes
<1>w. /\ world' = world /\ always' = always
      /\ \A v : OwnDisks(v)' = OwnDisks(v)
  BY FetchCases DEF OwnDisks
<1>a. ASSUME mark' = 0 PROVE PageInv'
  BY <1>a, <1>w, <1>t, Numbers DEF PageInv
<1>n. ASSUME NEW request, Asked(request) PROVE PageInv'
  BY <1>n, <1>a DEF Asked
<1>1. CASE Retry
  BY <1>1, <1>w DEF Retry, PageInv, cloud, folder
<1>2. ASSUME NEW m \in Listed, NextPage(m) PROVE PageInv'
  <2>1. /\ at' = at /\ left' = left /\ mark' = m /\ m \in Nat
        /\ got' = got \cup {x \in Rest : x <= m}
    BY <1>2, ItemsAssumption DEF NextPage
  <2>2. cloud' = cloud /\ folder' = folder
    BY <2>1 DEF cloud, folder
  <2>3. \A x \in Nat : x \in Items /\ x <= m => x <= mark \/ x \in got'
    BY <2>1, <1>t DEF Rest, LoopTypes
  <2>4. got \subseteq got'
    BY <2>1
  <2> QED
    BY <2>1, <2>2, <2>3, <2>4, <1>w, <1>t, ListedAll, Numbers DEF PageInv
<1>3. ASSUME NEW items, NEW ok, Take(items, ok) PROVE PageInv'
  <2>1. \E request : Asked(request)
    BY <1>3, <1>l, NextLoops
    DEF Take, TakeClouds, TakeFolders, TakeNetworks, TakeVms, TakeDisks,
        ToCloud, ToFolder, Ask, Asked
  <2> QED
    BY <2>1, <1>n
<1>4. CASE TakeZones(Zones, TRUE) \/ TakeZones(DefaultZones, FALSE) \/ AppendVm
  <2>1. \E request : Asked(request)
    BY <1>4, <1>l, NextLoops DEF TakeZones, AppendVm, ToVm, ToFolder, ToCloud, Ask, Asked
  <2> QED
    BY <2>1, <1>n
<1>5. CASE TakeBoot \/ TakeImage \/ NoOs \/ TakeDisk \/ NoDisk
  BY <1>5, <1>a, <1>l, VmGoesOn DEF SameVm
<1> QED
  BY <1>1, <1>2, <1>3, <1>4, <1>5, FetchCases

\* The disks of the VMs on a page are shown.
LEMMA ShownAll ==
    ASSUME CloudTypes, FetchedTypes, PageInv, ShownInv, at = "vms", NEW page
    PROVE  \A v \in Vms : v \in page \/ v \in got => OwnDisks(v) \subseteq Shown(page)[v]
<1>1. \A v \in Vms : OwnDisks(v) \subseteq Attached(v)
  BY DEF OwnDisks, Attached, Boots, PageInv
<1>2. \A v \in Vms : Shown(page)[v] = IF v \in page THEN Attached(v) ELSE instances[v]
  BY DEF Shown
<1> QED
  BY <1>1, <1>2 DEF ShownInv

LEMMA ShownStep ==
    ASSUME TypeOK, LoopInv, PageInv, ShownInv, FetchStep
    PROVE  ShownInv'
<1>t. LoopTypes /\ FetchedTypes /\ CloudTypes
  BY Parts
<1>l. left \in LeftType
  BY <1>t DEF LoopTypes
<1>w. \A v : OwnDisks(v)' = OwnDisks(v)
  BY FetchCases DEF OwnDisks
<1>1. CASE Retry
  BY <1>1, <1>w DEF Retry, ShownInv
<1>2. ASSUME NEW m \in Listed, NextPage(m) PROVE ShownInv'
  <2>1. PICK page : got' = got \cup page /\ instances' = Shown(page)
    BY <1>2 DEF NextPage
  <2>2. at' = at /\ left' = left /\ at \in Lists
    BY <1>2 DEF NextPage
  <2>3. CASE at = "vms"
    <3>1. got' \subseteq Vms
      BY <2>2, <2>3, <1>2, LoopStep DEF LoopInv
    <3> QED
      BY <2>1, <2>2, <2>3, <3>1, <1>t, <1>w, ShownAll DEF ShownInv, InVms
  <2>4. CASE at # "vms"
    BY <2>1, <2>2, <2>4, <1>w DEF ShownInv, Shown, InVms
  <2> QED
    BY <2>3, <2>4
<1>3. ASSUME NEW items, NEW ok, Received(items, ok), Take(items, ok) PROVE ShownInv'
  <2>1. CASE TakeClouds(items, ok) \/ TakeFolders(items, ok)
    <3>1. at' \in {"fetched", "folders", "vpcs"}
      BY <2>1, <1>l, NextLoops DEF TakeClouds, TakeFolders, ToFolder, ToCloud, Asked
    <3> QED
      BY <3>1 DEF ShownInv, InVms
  <2>2. CASE TakeNetworks(ok)
    BY <2>2 DEF TakeNetworks, Ask, ShownInv, InVms
  <2>3. CASE TakeVms(items, ok)
    <3>1. CASE items = {}
      <4>1. at' \in {"fetched", "folders", "vpcs"}
        BY <2>3, <3>1, <1>l, NextLoops DEF TakeVms, ToFolder, ToCloud, Asked
      <4> QED
        BY <4>1 DEF ShownInv, InVms
    <3>2. CASE items # {}
      <4>1. at = "vms" /\ at' = "disks" /\ left'.vms = items
        BY <2>3, <3>2, <1>l DEF TakeVms, Ask, LeftType
      <4>2. items = got \cup Rest /\ instances' = Shown(Rest)
        BY <1>3, <3>2 DEF Received
      <4>3. items \subseteq Vms
        BY <4>1, <1>3, <1>t, ReceivedItems DEF CloudTypes
      <4> QED
        BY <4>1, <4>2, <4>3, <1>t, <1>w, ShownAll DEF ShownInv
    <3> QED
      BY <3>1, <3>2
  <2>4. CASE TakeDisks(items, ok)
    <3>1. at = "disks" /\ at' = "boot" /\ left'.vms = left.vms
      BY <2>4, <1>l DEF TakeDisks, Ask, LeftType
    <3>2. instances' = instances
      BY <3>1, <1>3 DEF Received, Shown
    <3> QED
      BY <3>1, <3>2, <1>w DEF ShownInv, InVms
  <2> QED
    BY <1>3, <2>1, <2>2, <2>3, <2>4 DEF Take
<1>4. CASE TakeZones(Zones, TRUE) \/ TakeZones(DefaultZones, FALSE)
  BY <1>4 DEF TakeZones, Ask, ShownInv, InVms
<1>5. CASE (TakeBoot \/ TakeImage \/ NoOs \/ TakeDisk \/ NoDisk) /\ UNCHANGED instances
  <2>1. SameVm
    BY <1>5, <1>l, VmGoesOn
  <2> QED
    BY <2>1, <1>5, <1>w DEF SameVm, ShownInv
<1>6. CASE AppendVm /\ UNCHANGED instances
  <2>1. ToVm(left.vms \ {vm})
    BY <1>6, <1>l, NextLoops DEF AppendVm
  <2>2. CASE at' = "boot"
    <3>1. left'.vms = left.vms \ {vm} /\ at \in InVms
      BY <1>6, <2>1, <2>2 DEF AppendVm, InVms, ToVm, ToFolder, ToCloud, Asked
    <3> QED
      BY <2>2, <3>1, <1>6, <1>w DEF ShownInv
  <2>3. CASE at' # "boot"
    <3>1. at' \in {"fetched", "folders", "vpcs"}
      BY <2>1, <2>3 DEF ToVm, ToFolder, ToCloud, Asked
    <3> QED
      BY <3>1 DEF ShownInv, InVms
  <2> QED
    BY <2>2, <2>3
<1> QED
  BY <1>1, <1>2, <1>3, <1>4, <1>5, <1>6, FetchCases

-----------------------------------------------------------------------------
(* What is found *)

\* What a step of the fetch leaves of the listing.
LEMMA ListingGrows ==
    ASSUME TypeOK, LoopInv, FetchStep
    PROVE  /\ listing.flag => listing'.flag
           /\ listing.vms \subseteq listing'.vms
           /\ \A v \in Vms : listing.disks[v] \subseteq listing'.disks[v]
           /\ listing.os \subseteq listing'.os
           /\ lost.lists \subseteq lost'.lists /\ lost.disks \subseteq lost'.disks
           /\ lost.images \subseteq lost'.images
           /\ ~ AppendVm => listing'.vms = listing.vms
<1>t. listing \in ListingType /\ lost \in LostType /\ left \in LeftType
  BY Parts DEF FetchedTypes, LoopTypes
<1>1. CASE listing' = listing /\ lost' = lost
  BY <1>1
<1>2. ASSUME NEW ok \in BOOLEAN, listing' = [listing EXCEPT !.flag = Flagged(ok)], lost' = lost
      PROVE  /\ listing.flag => listing'.flag
             /\ listing'.vms = listing.vms
             /\ listing'.disks = listing.disks /\ listing'.os = listing.os
             /\ lost' = lost
  BY <1>2, <1>t DEF ListingType, Flagged
<1>3. CASE Retry \/ \E m \in Listed : NextPage(m)
  BY <1>1, <1>3 DEF Retry, NextPage
<1>4. ASSUME NEW items, NEW ok, Received(items, ok), Take(items, ok)
      PROVE  /\ listing.flag => listing'.flag
             /\ listing'.vms = listing.vms
             /\ listing'.disks = listing.disks /\ listing'.os = listing.os
             /\ lost.lists \subseteq lost'.lists /\ lost.disks \subseteq lost'.disks
             /\ lost.images \subseteq lost'.images
  <2>0. ok \in BOOLEAN
    BY <1>4 DEF Received
  <2>1. CASE TakeClouds(items, ok) \/ TakeFolders(items, ok) \/ TakeNetworks(ok) \/ TakeVms(items, ok)
    BY <1>2, <2>0, <2>1 DEF TakeClouds, TakeFolders, TakeNetworks, TakeVms
  <2>2. CASE TakeDisks(items, ok)
    <3>1. [lost EXCEPT !.lists = @ \cup {folder}].lists = lost.lists \cup {folder}
          /\ [lost EXCEPT !.lists = @ \cup {folder}].disks = lost.disks
          /\ [lost EXCEPT !.lists = @ \cup {folder}].images = lost.images
      BY <1>t DEF LostType
    <3> QED
      BY <2>2, <3>1 DEF TakeDisks
  <2> QED
    BY <1>4, <2>1, <2>2 DEF Take
<1>5. ASSUME NEW zones, NEW ok, TakeZones(zones, ok)
      PROVE  /\ listing'.flag = listing.flag /\ listing'.vms = listing.vms
             /\ listing'.disks = listing.disks /\ listing'.os = listing.os
             /\ lost'.lists = lost.lists /\ lost'.disks = lost.disks /\ lost'.images = lost.images
  BY <1>5, <1>t DEF TakeZones, ListingType, LostType
<1>6. CASE TakeBoot
  BY <1>1, <1>6 DEF TakeBoot
<1>7. CASE TakeImage
  BY <1>7, <1>t DEF TakeImage, ListingType
<1>8. CASE NoOs
  BY <1>8, <1>t DEF NoOs, LostType
<1>9. CASE TakeDisk
  <2>1. listing'.flag = listing.flag /\ listing'.vms = listing.vms /\ listing'.os = listing.os /\ lost' = lost
    BY <1>9, <1>t DEF TakeDisk, ListingType
  <2>2. \A v \in Vms : listing.disks[v] \subseteq listing'.disks[v]
    BY <1>9, <1>t DEF TakeDisk, ListingType
  <2> QED
    BY <2>1, <2>2
<1>10. CASE NoDisk
  BY <1>10, <1>t DEF NoDisk, LostType
<1>11. CASE AppendVm
  <2>1. listing'.flag = listing.flag /\ listing'.disks = listing.disks /\ listing'.os = listing.os
        /\ lost' = lost /\ listing'.vms = listing.vms \cup {vm}
    BY <1>11, <1>t DEF AppendVm, ListingType
  <2> QED
    BY <1>11, <2>1
<1> QED
  BY <1>3, <1>4, <1>5, <1>6, <1>7, <1>8, <1>9, <1>10, <1>11, FetchCases

\* VM v is still to come if the loops go on with its cloud, folder or itself.
LEMMA LoopsGoThere ==
    ASSUME left \in LeftType, NEW v \in Vms
    PROVE  /\ \A clouds : ToCloud(clouds) /\ CloudOf[FolderOf[v]] \in clouds => Ahead(v)'
           /\ \A folders : /\ ToFolder(folders)
                           /\ \/ CloudOf[FolderOf[v]] \in left.clouds \ {cloud}
                              \/ FolderOf[v] \in folders
                           => Ahead(v)'
           /\ \A vms : /\ ToVm(vms)
                       /\ \/ CloudOf[FolderOf[v]] \in left.clouds \ {cloud}
                          \/ FolderOf[v] \in left.folders \ {folder}
                          \/ v \in vms
                       => Ahead(v)'
<1>1. ASSUME NEW clouds, ToCloud(clouds), CloudOf[FolderOf[v]] \in clouds PROVE Ahead(v)'
  BY <1>1 DEF ToCloud, Asked, Ahead
<1>2. ASSUME NEW folders, ToFolder(folders),
             CloudOf[FolderOf[v]] \in left.clouds \ {cloud} \/ FolderOf[v] \in folders
      PROVE  Ahead(v)'
  <2>1. CASE folders = {} /\ ToCloud(left.clouds \ {cloud})
    BY <1>1, <1>2, <2>1
  <2>2. CASE /\ left' = [clouds |-> left.clouds, folders |-> folders, vms |-> {}, disks |-> {}]
             /\ Asked("vpcs")
    <3>1. left'.clouds = left.clouds /\ left'.folders = folders /\ at' = "vpcs"
      BY <2>2 DEF Asked
    <3>2. cloud' = cloud
      BY <3>1 DEF cloud
    <3> QED
      BY <1>2, <3>1, <3>2 DEF Ahead, InFolder, InVms
  <2> QED
    BY <1>2, <2>1, <2>2 DEF ToFolder
<1>3. ASSUME NEW vms, ToVm(vms),
             \/ CloudOf[FolderOf[v]] \in left.clouds \ {cloud}
             \/ FolderOf[v] \in left.folders \ {folder}
             \/ v \in vms
      PROVE  Ahead(v)'
  <2>1. CASE vms = {} /\ ToFolder(left.folders \ {folder})
    BY <1>2, <1>3, <2>1
  <2>2. CASE /\ left' = [clouds |-> left.clouds, folders |-> left.folders, vms |-> vms,
                         disks |-> instances[Min(vms)]]
             /\ Asked("boot")
    <3>1. left'.clouds = left.clouds /\ left'.folders = left.folders /\ left'.vms = vms /\ at' = "boot"
      BY <2>2 DEF Asked
    <3>2. cloud' = cloud /\ folder' = folder
      BY <3>1 DEF cloud, folder
    <3> QED
      BY <1>3, <3>1, <3>2 DEF Ahead, InFolder, InVms
  <2> QED
    BY <1>3, <2>1, <2>2 DEF ToVm
<1> QED
  BY <1>1, <1>2, <1>3

\* While the loops stand still, VM v stays ahead.
LEMMA LoopsStandStill ==
    ASSUME NEW v, Ahead(v),
           left'.clouds = left.clouds /\ left'.folders = left.folders,
           \/ at' = at /\ left'.vms = left.vms
           \/ at \in {"vpcs", "subnets"} /\ at' \in {"subnets", "vms"}
           \/ at \in InVms /\ at' \in InVms /\ left'.vms = left.vms
    PROVE  Ahead(v)'
<1>1. cloud' = cloud /\ folder' = folder
  BY DEF cloud, folder
<1> QED
  BY <1>1 DEF Ahead, InFolder, InVms

\* A request for a list succeeds, or raises the flag; that of disks does neither.
LEMMA ListFound ==
    ASSUME TypeOK, LoopInv, PageInv, NEW items, NEW ok, Received(items, ok), Take(items, ok),
           ~listing'.flag, NEW v \in always.vms, Ahead(v)
    PROVE  Ahead(v)'
<1>t. LoopTypes /\ FetchedTypes /\ CloudTypes /\ left \in LeftType /\ listing \in ListingType
  BY Parts DEF LoopTypes, FetchedTypes
<1>v. v \in Vms /\ FolderOf[v] \in Folders /\ CloudOf[FolderOf[v]] \in Clouds
  BY <1>t, BootDisks DEF CloudTypes, World
<1>k. ok \in BOOLEAN
  BY DEF Received
<1>f. ASSUME listing' = [listing EXCEPT !.flag = Flagged(ok)] PROVE ok = TRUE
  BY <1>f, <1>t, <1>k DEF ListingType, Flagged
<1>1. CASE TakeClouds(items, ok)
  <2>1. Clouds \subseteq items
    BY <1>1, <1>f, <1>t, ReceivedAll DEF TakeClouds
  <2> QED
    BY <1>1, <2>1, <1>v, <1>t, NextLoops, LoopsGoThere DEF TakeClouds
<1>2. CASE TakeFolders(items, ok)
  <2>1. \A f \in Folders : CloudOf[f] = cloud => f \in items
    BY <1>2, <1>f, <1>t, ReceivedAll DEF TakeFolders
  <2>2. CloudOf[FolderOf[v]] \in left.clouds
    BY <1>2 DEF TakeFolders, Ahead, InFolder, InVms
  <2> QED
    BY <1>2, <2>1, <2>2, <1>v, <1>t, NextLoops, LoopsGoThere DEF TakeFolders
<1>3. CASE TakeNetworks(ok)
  BY <1>3, LoopsStandStill DEF TakeNetworks, Ask
<1>4. CASE TakeVms(items, ok)
  <2>1. FolderOf[v] = folder => v \in items
    BY <1>4, <1>f, <1>t, ReceivedAll DEF TakeVms
  <2>2. CloudOf[FolderOf[v]] \in left.clouds \ {cloud} \/ FolderOf[v] \in left.folders
    BY <1>4 DEF TakeVms, Ahead, InFolder, InVms
  <2>3. CASE items = {}
    BY <1>4, <2>1, <2>2, <2>3, <1>v, <1>t, NextLoops, LoopsGoThere DEF TakeVms
  <2>4. CASE items # {}
    <3>1. /\ left'.clouds = left.clouds /\ left'.folders = left.folders /\ left'.vms = items
          /\ at' = "disks"
      BY <1>4, <2>4, <1>t DEF TakeVms, Ask, LeftType
    <3>2. cloud' = cloud /\ folder' = folder
      BY <3>1 DEF cloud, folder
    <3> QED
      BY <2>1, <2>2, <3>1, <3>2 DEF Ahead, InFolder, InVms
  <2> QED
    BY <2>3, <2>4
<1>5. CASE TakeDisks(items, ok)
  <2>1. /\ left'.clouds = left.clouds /\ left'.folders = left.folders /\ left'.vms = left.vms
        /\ at = "disks" /\ at' = "boot"
    BY <1>5, <1>t DEF TakeDisks, Ask, LeftType
  <2> QED
    BY <2>1, LoopsStandStill DEF InVms
<1> QED
  BY <1>1, <1>2, <1>3, <1>4, <1>5 DEF Take

LEMMA FoundStep ==
    ASSUME TypeOK, LoopInv, PageInv, FoundInv, FetchStep
    PROVE  FoundInv'
<1> SUFFICES ASSUME ~listing'.flag, NEW v \in always'.vms, v \notin listing'.vms
             PROVE  Ahead(v)'
  BY DEF FoundInv
<1>t. LoopTypes /\ FetchedTypes /\ CloudTypes /\ left \in LeftType /\ listing \in ListingType
  BY Parts DEF LoopTypes, FetchedTypes
<1>a. v \in always.vms /\ v \in Vms /\ Ahead(v)
  <2>1. v \in always.vms /\ at \in Requests
    BY FetchCases
  <2>2. ~listing.flag /\ v \notin listing.vms
    BY ListingGrows
  <2> QED
    BY <2>1, <2>2, <1>t, Numbers DEF FoundInv, Requests, Lists
<1>1. CASE Retry \/ \E m \in Listed : NextPage(m)
  BY <1>1, <1>a, LoopsStandStill DEF Retry, NextPage
<1>2. ASSUME NEW items, NEW ok, Received(items, ok), Take(items, ok) PROVE Ahead(v)'
  BY <1>2, <1>a, ListFound
<1>3. CASE TakeZones(Zones, TRUE) \/ TakeZones(DefaultZones, FALSE)
  BY <1>3 DEF TakeZones, Ask, Ahead
<1>4. CASE TakeBoot \/ TakeImage \/ NoOs \/ TakeDisk \/ NoDisk
  BY <1>4, <1>a, <1>t, VmGoesOn, LoopsStandStill DEF SameVm, InVms
<1>5. CASE AppendVm
  <2>1. ToVm(left.vms \ {vm}) /\ at = "disk"
    BY <1>5, <1>t, NextLoops DEF AppendVm
  <2>2. v # vm
    BY <1>5, <1>t DEF AppendVm, ListingType
  <2>3. \/ CloudOf[FolderOf[v]] \in left.clouds \ {cloud}
        \/ FolderOf[v] \in left.folders \ {folder}
        \/ v \in left.vms \ {vm}
    BY <2>1, <2>2, <1>a DEF Ahead, InFolder, InVms
  <2> QED
    BY <2>1, <2>3, <1>a, <1>t, LoopsGoThere
<1> QED
  BY <1>1, <1>2, <1>3, <1>4, <1>5, FetchCases

-----------------------------------------------------------------------------
(* What is lost *)

\* The request for a disk of the VM in turn fails only if the list of disks did.
LEMMA DiskStep ==
    ASSUME TypeOK, LoopInv, PageInv, ShownInv, DiskInv, FetchStep
    PROVE  DiskInv'
<1>t. /\ LoopTypes /\ FetchedTypes /\ CloudTypes /\ left \in LeftType
      /\ listing \in ListingType /\ lost \in LostType
  BY Parts DEF LoopTypes, FetchedTypes
<1>w. always' = always /\ \A v : OwnDisks(v)' = OwnDisks(v)
  BY FetchCases DEF OwnDisks
<1>g. /\ \A v \in Vms : listing.disks[v] \subseteq listing'.disks[v]
      /\ lost.lists \subseteq lost'.lists /\ lost.disks \subseteq lost'.disks
      /\ ~ AppendVm => listing'.vms = listing.vms
  BY ListingGrows
<1>v. at \in InVms => /\ vm \in left.vms /\ vm \in Vms /\ FolderOf[vm] = folder
                      /\ OwnDisks(vm) \subseteq instances[vm]
  BY <1>t, InTurn DEF LoopInv, ShownInv, InVms
<1>l. \A v \in Vms : \A d : Lost(v, d) => Lost(v, d)'
  BY <1>g DEF Lost
<1> DEFINE Found(v) == \A d \in OwnDisks(v) : d \in listing.disks[v] \/ Lost(v, d)
           Left(v)  == \A d \in OwnDisks(v) :
                          d \in left.disks \/ d \in listing.disks[v] \/ Lost(v, d)
           InCache  == folder \in lost.lists \/ \A v \in always.vms :
                                                   FolderOf[v] = folder => OwnDisks(v) \subseteq cache
           Whole    == \A v \in always.vms \cap listing.vms : Found(v)
           InTurnOK == at \in {"boot", "image", "disk"} => InCache /\ (vm \in always.vms => Left(vm))
<1>d. DiskInv <=> InTurnOK /\ Whole
  BY DEF DiskInv
<1>e. InTurnOK' /\ Whole' => DiskInv'
  BY DEF DiskInv
<1>0. ASSUME NEW v \in Vms, Found(v) PROVE Found(v)'
  BY <1>0, <1>g, <1>l, <1>w
<1>1. ~ AppendVm \/ listing' = listing => Whole'
  <2> HIDE DEF Found
  <2> QED
    BY <1>0, <1>d, <1>g, <1>w, <1>t, Numbers
<1> HIDE DEF Whole, InTurnOK
<1>2. CASE Retry
  <2>1. InTurnOK'
    BY <1>2, <1>d, <1>w DEF Retry, InTurnOK, folder, vm, Lost
  <2> QED
    BY <1>2, <2>1, <1>1, <1>e DEF Retry
<1>3. ASSUME NEW m \in Listed, NextPage(m) PROVE DiskInv'
  <2>1. InTurnOK'
    BY <1>3 DEF NextPage, Lists, InTurnOK
  <2> QED
    BY <1>3, <2>1, <1>1, <1>e DEF NextPage, AppendVm, Lists
<1>4. ASSUME NEW items, NEW ok, Received(items, ok), Take(items, ok) PROVE DiskInv'
  <2>1. ~ AppendVm
    BY <1>4 DEF Take, TakeClouds, TakeFolders, TakeNetworks, TakeVms, TakeDisks, AppendVm
  <2>2. CASE TakeClouds(items, ok) \/ TakeFolders(items, ok) \/ TakeNetworks(ok) \/ TakeVms(items, ok)
    <3>1. at' \notin {"boot", "image", "disk"}
      BY <2>2, <1>t, NextLoops
      DEF TakeClouds, TakeFolders, TakeNetworks, TakeVms, ToFolder, ToCloud, Ask, Asked
    <3> QED
      BY <2>1, <3>1, <1>1, <1>e DEF InTurnOK
  <2>3. CASE TakeDisks(items, ok)
    <3>1. /\ left'.folders = left.folders /\ left'.vms = left.vms /\ left'.disks = instances[vm]
          /\ at = "disks" /\ at' = "boot" /\ cache' = items
      BY <2>3, <1>t DEF TakeDisks, Ask, LeftType
    <3>2. folder' = folder /\ vm' = vm
      BY <3>1 DEF folder, vm
    <3>3. InCache'
      <4>1. CASE ok = TRUE
        BY <4>1, <3>1, <3>2, <1>4, <1>w, <1>t, ReceivedAll
      <4>2. CASE ok = FALSE
        BY <4>2, <2>3, <3>2, <1>t DEF TakeDisks, LostType
      <4> QED
        BY <1>4, <4>1, <4>2 DEF Received
    <3>4. Left(vm)'
      BY <3>1, <3>2, <1>v, <1>w DEF InVms
    <3> QED
      BY <2>1, <3>3, <3>4, <1>1, <1>e DEF InTurnOK
  <2> QED
    BY <1>4, <2>2, <2>3 DEF Take
<1>5. CASE TakeZones(Zones, TRUE) \/ TakeZones(DefaultZones, FALSE)
  BY <1>5, <1>1, <1>e DEF TakeZones, AppendVm, Ask, InTurnOK
<1>6. CASE TakeBoot \/ TakeImage \/ NoOs \/ TakeDisk \/ (NoDisk /\ ~Cached)
  <2>1. SameVm /\ at \in {"boot", "image", "disk"}
    BY <1>6, <1>t, VmGoesOn DEF TakeBoot, TakeImage, NoOs, TakeDisk, NoDisk
  <2>2. folder' = folder /\ vm' = vm
    BY <2>1 DEF folder, vm, SameVm
  <2>3. ~ AppendVm
    BY <1>6 DEF AppendVm, TakeBoot, TakeImage, NoOs, TakeDisk, NoDisk
  <2>4. cache \subseteq cache'
    BY <1>6 DEF TakeBoot, TakeImage, NoOs, TakeDisk, NoDisk
  <2>5. InCache'
    BY <2>1, <2>2, <2>4, <1>d, <1>g, <1>w DEF InTurnOK
  <2>6. ASSUME vm \in always.vms, NEW d \in OwnDisks(vm)
        PROVE  d \in left'.disks \/ d \in listing'.disks[vm] \/ Lost(vm, d)'
    <3>0. d \in left.disks \/ d \in listing.disks[vm] \/ Lost(vm, d)
      BY <2>1, <2>6, <1>d DEF InTurnOK
    <3>v. vm \in Vms /\ FolderOf[vm] = folder
      BY <2>1, <1>v DEF SameVm
    <3>l. Lost(vm, d) => Lost(vm, d)'
      BY <2>2, <1>g DEF Lost
    <3>1. CASE d \notin left.disks
      BY <3>0, <3>1, <3>v, <3>l, <1>g
    <3>2. CASE TakeBoot \/ TakeImage \/ NoOs
      BY <3>0, <3>2, <3>v, <3>l, <1>g DEF TakeBoot, TakeImage, NoOs
    <3>3. CASE d \in left.disks /\ TakeDisk
      <4>1. left'.disks = left.disks \ {disk}
        BY <3>3, <1>t DEF TakeDisk, LeftType
      <4>2. disk \in listing'.disks[vm]
        BY <3>3, <3>v, <1>t DEF TakeDisk, ListingType
      <4> QED
        BY <3>3, <4>1, <4>2
    <3>4. CASE d \in left.disks /\ NoDisk /\ ~Cached
      <4>1. left'.disks = left.disks \ {disk} /\ lost'.lists = lost.lists /\ disk \in lost'.disks
        BY <3>4, <1>t DEF NoDisk, LeftType, LostType
      <4>2. disk \notin cache
        BY <3>4 DEF NoDisk, Cached
      <4>3. d = disk => Lost(vm, d)'
        BY <2>1, <2>2, <2>6, <3>v, <4>1, <4>2, <1>d DEF InTurnOK, Lost
      <4> QED
        BY <3>4, <4>1, <4>3
    <3> QED
      BY <1>6, <3>1, <3>2, <3>3, <3>4
  <2>7. vm' \in always'.vms => Left(vm)'
    BY <2>2, <2>6, <1>w
  <2> QED
    BY <2>3, <2>5, <2>7, <1>1, <1>e DEF InTurnOK
<1>7. CASE AppendVm /\ UNCHANGED instances
  <2>1. /\ at = "disk" /\ left.disks = {} /\ ToVm(left.vms \ {vm})
        /\ listing'.vms = listing.vms \cup {vm} /\ listing'.disks = listing.disks
        /\ cache' = cache /\ lost' = lost
    BY <1>7, <1>t, NextLoops DEF AppendVm, ListingType
  <2>2. Whole'
    <3>1. vm \in always.vms => Found(vm)
      BY <2>1, <1>d DEF InTurnOK
    <3>2. \A v \in always.vms \cap listing.vms : Found(v)
      BY <1>d DEF Whole
    <3>3. \A v \in always.vms \cap listing'.vms : v \in Vms /\ Found(v)
      <4> HIDE DEF Found
      <4> QED
        BY <2>1, <3>1, <3>2, <1>t, Numbers
    <3>4. \A v \in always'.vms \cap listing'.vms : Found(v)'
      <4> HIDE DEF Found
      <4> QED
        BY <3>3, <1>0, <1>w
    <3> QED
      BY <3>4 DEF Whole
  <2>3. CASE at' # "boot"
    <3>1. at' \in {"fetched", "folders", "vpcs"}
      BY <2>1, <2>3 DEF ToVm, ToFolder, ToCloud, Asked
    <3> QED
      BY <2>2, <3>1, <1>e DEF InTurnOK
  <2>4. CASE at' = "boot"
    <3>1. /\ left'.folders = left.folders /\ left'.vms = left.vms \ {vm} /\ left'.vms # {}
          /\ left'.disks = instances[Min(left.vms \ {vm})]
      BY <2>1, <2>4 DEF ToVm, ToFolder, ToCloud, Asked
    <3>2. folder' = folder /\ vm' = Min(left.vms \ {vm})
      BY <3>1 DEF folder, vm
    <3>3. vm' \in left.vms
      BY <3>1, <3>2, <1>t, Numbers, MinIsFirst DEF LeftType
    <3>4. OwnDisks(vm') \subseteq left'.disks
      BY <2>1, <3>1, <3>2, <3>3 DEF ShownInv, InVms
    <3>5. Left(vm)'
      BY <3>4, <1>w
    <3>6. InCache'
      BY <2>1, <3>2, <1>d, <1>w DEF InTurnOK
    <3> QED
      BY <2>2, <3>5, <3>6, <1>e DEF InTurnOK
  <2> QED
    BY <2>3, <2>4
<1> QED
  BY <1>2, <1>3, <1>4, <1>5, <1>6, <1>7, FetchCases

LEMMA OsStep ==
    ASSUME TypeOK, LoopInv, OsInv, FetchStep
    PROVE  OsInv'
<1>t. listing \in ListingType /\ lost \in LostType /\ left \in LeftType
  BY Parts DEF LoopTypes, FetchedTypes
<1>g. /\ listing.os \subseteq listing'.os /\ lost.images \subseteq lost'.images
      /\ ~ AppendVm => listing'.vms = listing.vms
  BY ListingGrows
<1>1. ASSUME at' # "disk", ~ AppendVm PROVE OsInv'
  BY <1>1, <1>g DEF OsInv
<1>2. CASE Retry
  BY <1>2 DEF Retry, OsInv, vm
<1>3. ASSUME NEW m \in Listed, NextPage(m) PROVE OsInv'
  BY <1>1, <1>3 DEF NextPage, AppendVm, Lists
<1>4. ASSUME NEW items, NEW ok, Take(items, ok) PROVE OsInv'
  <2>1. at' # "disk"
    BY <1>4, <1>t, NextLoops
    DEF Take, TakeClouds, TakeFolders, TakeNetworks, TakeVms, TakeDisks, ToFolder, ToCloud, Ask, Asked
  <2>2. ~ AppendVm
    BY <1>4 DEF Take, TakeClouds, TakeFolders, TakeNetworks, TakeVms, TakeDisks, AppendVm
  <2> QED
    BY <2>1, <2>2, <1>1
<1>5. CASE TakeZones(Zones, TRUE) \/ TakeZones(DefaultZones, FALSE) \/ TakeBoot
  BY <1>5, <1>1 DEF TakeZones, TakeBoot, Ask, AppendVm
<1>6. CASE TakeImage \/ NoOs \/ TakeDisk \/ NoDisk
  <2>1. SameVm
    BY <1>6, <1>t, VmGoesOn
  <2>2. vm' = vm
    BY <2>1 DEF SameVm, vm
  <2>3. ~ AppendVm
    BY <1>6 DEF TakeImage, NoOs, TakeDisk, NoDisk, AppendVm
  <2>4. vm \in listing'.os \cup lost'.images
    <3>1. CASE TakeImage
      BY <3>1, <1>t DEF TakeImage, ListingType
    <3>2. CASE NoOs
      BY <3>2, <1>t DEF NoOs, LostType
    <3>3. CASE TakeDisk \/ NoDisk
      BY <3>3, <1>g DEF TakeDisk, NoDisk, OsInv
    <3> QED
      BY <1>6, <3>1, <3>2, <3>3
  <2> QED
    BY <2>2, <2>3, <2>4, <1>g DEF OsInv
<1>7. CASE AppendVm
  <2>1. at = "disk" /\ at' # "disk" /\ listing'.vms = listing.vms \cup {vm}
    BY <1>7, <1>t, NextLoops DEF AppendVm, ListingType, ToVm, ToFolder, ToCloud, Asked
  <2> QED
    BY <2>1, <1>g DEF OsInv
<1> QED
  BY <1>2, <1>3, <1>4, <1>5, <1>6, <1>7, FetchCases

LEMMA ZonesStep ==
    ASSUME TypeOK, ZonesInv, FetchStep
    PROVE  ZonesInv'
<1>t. listing \in ListingType /\ lost \in LostType
  BY Parts DEF LoopTypes, FetchedTypes
<1>1. ASSUME at = "zones" => at' = "zones", listing'.zones = listing.zones, lost'.zones = lost.zones
      PROVE  ZonesInv'
  BY <1>1, FetchCases DEF ZonesInv, Requests, Lists
<1>2. CASE Retry \/ \E m \in Listed : NextPage(m)
  BY <1>2, <1>1 DEF Retry, NextPage
<1>3. ASSUME NEW items, NEW ok, Take(items, ok) PROVE ZonesInv'
  BY <1>3, <1>1, <1>t
  DEF Take, TakeClouds, TakeFolders, TakeNetworks, TakeVms, TakeDisks, ListingType, LostType
<1>4. CASE TakeZones(Zones, TRUE) \/ TakeZones(DefaultZones, FALSE)
  BY <1>4, <1>t DEF TakeZones, ZonesInv, ListingType, LostType
<1>5. CASE TakeBoot \/ TakeImage \/ NoOs \/ TakeDisk \/ NoDisk \/ AppendVm
  BY <1>5, <1>1, <1>t
  DEF TakeBoot, TakeImage, NoOs, TakeDisk, NoDisk, AppendVm, ListingType, LostType
<1> QED
  BY <1>2, <1>3, <1>4, <1>5, FetchCases

LEMMA FetchKeepsInv ==
    ASSUME IInv, Fetch
    PROVE  IInv'
<1>1. FetchStep
  BY DEF Fetch
<1>2. TypeOK'
  BY FetchTypesStep DEF IInv
<1>3. /\ LoopInv' /\ PageInv' /\ ShownInv' /\ FoundInv' /\ DiskInv' /\ OsInv' /\ ZonesInv'
  BY <1>1, LoopStep, PageStep, ShownStep, FoundStep, DiskStep, OsStep, ZonesStep DEF IInv
<1>4. QueueInv' /\ IdleInv'
  <2>1. at \in Requests /\ at' \in Requests \cup {"fetched"}
    <3>1. at \in Requests
      BY <1>1, FetchCases
    <3>2. left \in LeftType
      BY Parts DEF IInv, LoopTypes
    <3> QED
      BY <1>1, <3>1, <3>2, FetchCases, NextLoops
      DEF Retry, NextPage, Take, TakeClouds, TakeFolders, TakeNetworks, TakeVms, TakeDisks,
          TakeZones, TakeBoot, TakeImage, NoOs, TakeDisk, NoDisk, AppendVm,
          ToVm, ToFolder, ToCloud, Ask, Asked, Requests, Lists
  <2>2. queue = NoQueue /\ UNCHANGED <<nb, known, queue>>
    BY <2>1 DEF IInv, QueueInv, Requests, Lists, Fetch, netbox
  <2> QED
    BY <2>1, <2>2 DEF IInv, QueueInv, IdleInv, NoQueue, Requests, Lists
<1> QED
  BY <1>2, <1>3, <1>4 DEF IInv

-----------------------------------------------------------------------------
(* The steps of the sync *)

\* Nothing of the fetch matters any more once it is over.
LEMMA AfterFetch ==
    ASSUME TypeOK, ZonesInv, FoundInv, PageInv, DiskInv, OsInv,
           at \notin Requests \cup {"idle"},
           at' \notin Requests \cup {"idle"},
           UNCHANGED <<world, always, listing, lost>>
    PROVE  LoopInv' /\ PageInv' /\ ShownInv' /\ FoundInv' /\ DiskInv' /\ OsInv' /\ ZonesInv'
<1>o. \A v : OwnDisks(v)' = OwnDisks(v)
  BY DEF OwnDisks
<1>1. LoopInv' /\ ShownInv'
  BY DEF LoopInv, ShownInv, InFolder, InVms, Requests, Lists
<1>2. PageInv'
  BY DEF PageInv, Requests, Lists
<1>3. FoundInv'
  BY DEF FoundInv, Ahead, InFolder, InVms, Requests, Lists
<1>4. DiskInv'
  BY <1>o DEF DiskInv, Lost, Requests, Lists
<1>5. OsInv' /\ ZonesInv'
  BY DEF OsInv, ZonesInv, Requests, Lists
<1> QED
  BY <1>1, <1>2, <1>3, <1>4, <1>5

\* Nothing is left once the sync has forgotten it.
LEMMA ForgetInv ==
    ASSUME TypeOK, Forget, UNCHANGED world, \A v \in Vms : nb'[v].disks \subseteq nb[v].disks, QueueInv
    PROVE  /\ LoopInv' /\ PageInv' /\ ShownInv' /\ FoundInv' /\ DiskInv' /\ OsInv' /\ ZonesInv'
           /\ QueueInv' /\ IdleInv'
<1>1. at' = "idle" /\ always' = world' /\ listing' = NoListing /\ lost' = NothingLost
      /\ known' = NoDisks /\ queue' = NoQueue
  BY DEF Forget
<1>2. LoopInv' /\ ShownInv' /\ PageInv' /\ FoundInv'
  BY <1>1 DEF LoopInv, ShownInv, PageInv, FoundInv, InFolder, InVms
<1>3. DiskInv' /\ OsInv' /\ ZonesInv'
  BY <1>1 DEF DiskInv, OsInv, ZonesInv, NoListing
<1>4. QueueInv' /\ IdleInv'
  BY <1>1 DEF QueueInv, IdleInv, NoQueue, NoDisks
<1> QED
  BY <1>2, <1>3, <1>4

LEMMA SyncKeepsInv ==
    ASSUME IInv, Sync
    PROVE  IInv'
<1>t. /\ TypeOK /\ LoopTypes /\ FetchedTypes /\ CloudTypes /\ NetBoxTypes
      /\ listing.vms \subseteq Vms /\ listing.disks \in [Vms -> SUBSET Disks]
  BY Parts DEF IInv, FetchedTypes, ListingType
<1>q. QueueInv
  BY DEF IInv
<1>1. TypeOK'
  BY <1>t, SyncTypesStep
<1>p. NetBoxTypes'
  BY <1>1 DEF TypeOK, NetBoxTypes
<1>g. ASSUME at \in {"fetched", "ensure", "load", "orphans", "process", "delete", "create"},
             NEW step \in {"ensure", "load", "orphans", "process", "delete", "create", "update"},
             Go(step), QueueInv'
      PROVE  IInv'
  BY <1>1, <1>g, AfterFetch DEF IInv, IdleInv, Go, fetch, Requests, Lists
<1>2. CASE CleanSites
  <2>1. /\ UNCHANGED <<nb, known, queue, listing>> /\ at = "fetched"
        /\ Go("ensure") /\ at' = "ensure"
    BY <1>2 DEF CleanSites, Go, fetch
  <2> QED
    BY <2>1, <1>g, <1>q DEF QueueInv
<1>3. CASE EnsureSites
  <2>1. /\ UNCHANGED <<nb, known, queue, listing>> /\ at = "ensure"
        /\ Go("load") /\ at' = "load"
    BY <1>3 DEF EnsureSites, Go, fetch
  <2> QED
    BY <2>1, <1>g, <1>q DEF QueueInv
<1>4. CASE Load
  <2>1. /\ UNCHANGED <<nb, queue, listing>> /\ at = "load"
        /\ Go("orphans") /\ at' = "orphans"
        /\ known' = NoDisks \/ known' = [v \in Vms |-> nb[v].disks]
    BY <1>4 DEF Load, Go, fetch
  <2>2. \A v \in Vms : known'[v] \subseteq nb[v].disks
    BY <2>1 DEF NoDisks
  <2> QED
    BY <2>1, <2>2, <1>g, <1>q DEF QueueInv
<1>5. CASE NoVmsListed
  BY <1>5, <1>1, <1>t, <1>q, ForgetInv DEF NoVmsListed, IInv
<1>6. CASE DeleteOrphans
  <2>1. /\ UNCHANGED <<known, queue, listing>> /\ at = "orphans"
        /\ Go("process") /\ at' = "process"
        /\ \A v \in Vms : nb'[v] = NoVm \/ nb'[v] = nb[v]
    BY <1>6 DEF DeleteOrphans, Go, fetch
  <2>2. \A v \in Vms : nb'[v].disks \subseteq nb[v].disks
    BY <2>1 DEF NoVm
  <2> QED
    BY <2>1, <2>2, <1>g, <1>q DEF QueueInv
<1>7. CASE Process
  <2>1. PICK done \in Outcomes(listing.vms) :
          /\ nb' = [v \in Vms |-> IF v \in done /\ nb[v] = NoVm THEN Created(v) ELSE nb[v]]
          /\ queue' = [create |-> UNION {listing.disks[v] \ Known(v) : v \in done},
                       delete |-> UNION {Known(v) \ listing.disks[v] : v \in done},
                       update |-> {v \in done \cap InNetBox : Updated(v) # nb[v]}]
          /\ Count(listing.vms, done)
    BY <1>7 DEF Process
  <2>2. UNCHANGED <<known, listing>> /\ at = "process" /\ Go("delete") /\ at' = "delete"
    BY <1>7 DEF Process, Go, fetch
  <2>3. done \subseteq listing.vms
    BY <2>1, <1>t, Counted
  <2>4. \A v \in Vms : nb'[v].disks \subseteq nb[v].disks
    BY <2>1, <1>t, VmForms
  <2>5. \A v \in Vms : Known(v) \subseteq known[v]
    BY DEF Known
  <2>6. ASSUME NEW d \in queue'.delete
        PROVE  OwnerOf[d] \in listing.vms /\ d \notin listing.disks[OwnerOf[d]]
    <3>1. PICK v \in done : d \in Known(v) \ listing.disks[v]
      BY <2>1, <2>6
    <3>2. v \in listing.vms /\ v \in Vms /\ d \in known[v]
      BY <2>3, <2>5, <3>1, <1>t
    <3> QED
      BY <3>1, <3>2, <1>q DEF QueueInv
  <2>7. queue'.update \subseteq listing.vms
    BY <2>1, <2>3
  <2> QED
    BY <2>2, <2>4, <2>6, <2>7, <1>g, <1>q DEF QueueInv
<1>8. CASE DeleteDisks
  <2>1. PICK done : nb' = [v \in Vms |-> [nb[v] EXCEPT !.disks = @ \ done]]
    BY <1>8 DEF DeleteDisks
  <2>2. UNCHANGED <<known, queue, listing>> /\ at = "delete" /\ Go("create") /\ at' = "create"
    BY <1>8 DEF DeleteDisks, Go, fetch
  <2>3. ASSUME NEW v \in Vms PROVE nb'[v].disks \subseteq nb[v].disks
    <3>1. PICK x, D : x = nb[v] /\ D = nb[v].disks \ done
      OBVIOUS
    <3>2. x \in AnyVm /\ D \in SUBSET Disks /\ D \subseteq nb[v].disks
      BY <3>1, <1>t, VmForms
    <3>3. nb'[v] = [x EXCEPT !.disks = D]
      BY <2>1, <3>1
    <3>4. nb'[v].disks = D
      BY <3>2, <3>3, DisksForm
    <3> QED
      BY <3>2, <3>4
  <2> QED
    BY <2>2, <2>3, <1>g, <1>q DEF QueueInv
<1>9. CASE CreateDisks
  <2>1. PICK done \in Outcomes(queue.create) :
           /\ nb' = [v \in Vms |-> IF v \in InNetBox
                                   THEN [nb[v] EXCEPT !.disks = @ \cup {d \in done : OwnerOf[d] = v}]
                                   ELSE NoVm]
           /\ Count(queue.create, done)
    BY <1>9 DEF CreateDisks
  <2>2. UNCHANGED <<known, queue, listing>> /\ at = "create" /\ Go("update") /\ at' = "update"
    BY <1>9 DEF CreateDisks, Go, fetch
  <2>3. done \subseteq Disks
    BY <2>1, <1>t, Counted DEF NetBoxTypes
  <2>4. ASSUME NEW v \in Vms, NEW d \in nb'[v].disks PROVE OwnerOf[d] = v
    <3>1. CASE v \in InNetBox
      <4>1. nb[v].disks \cup {e \in done : OwnerOf[e] = v} \in SUBSET Disks /\ nb[v] \in AnyVm
        BY <2>3, <1>t, VmForms
      <4>2. nb'[v].disks = nb[v].disks \cup {e \in done : OwnerOf[e] = v}
        BY <2>1, <3>1, <4>1, DisksForm
      <4> QED
        BY <2>4, <4>2, <1>q DEF QueueInv
    <3>2. CASE v \notin InNetBox
      BY <2>1, <2>4, <3>2 DEF NoVm
    <3> QED
      BY <3>1, <3>2
  <2> QED
    BY <2>2, <2>4, <1>g, <1>q DEF QueueInv
<1>10. CASE UpdateVms
  <2>1. \A v \in Vms : nb'[v] = Updated(v) \/ nb'[v] = nb[v]
    BY <1>10 DEF UpdateVms
  <2>2. \A v \in Vms : nb'[v].disks \subseteq nb[v].disks
    BY <2>1, <1>t, VmForms
  <2> QED
    BY <1>10, <2>2, <1>1, <1>t, <1>q, ForgetInv DEF UpdateVms, IInv
<1> QED
  BY <1>2, <1>3, <1>4, <1>5, <1>6, <1>7, <1>8, <1>9, <1>10 DEF Sync

\* The cloud changes: fewer VMs and disks have existed all the time.
LEMMA ChangeKeepsInv ==
    ASSUME IInv, Change
    PROVE  IInv'
<1>1. /\ always'.vms = always.vms \cap world'.vms
      /\ always'.disks = always.disks \cap world'.disks
      /\ UNCHANGED <<at, mark, got, instances, left, cache, listing, lost, nb, known, queue>>
  BY DEF Change, CloudChanges, netbox
<1>2. always'.vms \subseteq always.vms /\ \A v : OwnDisks(v)' \subseteq OwnDisks(v)
  BY <1>1 DEF OwnDisks
<1>3. cloud' = cloud /\ folder' = folder /\ vm' = vm
  BY <1>1 DEF cloud, folder, vm
<1>4. TypeOK'
  BY TypeStep DEF IInv, Next
<1>5. LoopInv'
  BY <1>1, <1>3 DEF IInv, LoopInv
<1>6. PageInv'
  BY <1>1, <1>2, <1>3 DEF IInv, PageInv
<1>7. ShownInv'
  BY <1>1, <1>2 DEF IInv, ShownInv
<1>8. FoundInv'
  BY <1>1, <1>2, <1>3 DEF IInv, FoundInv, Ahead
<1>9. DiskInv'
  BY <1>1, <1>2, <1>3 DEF IInv, DiskInv, Lost
<1>10. OsInv' /\ ZonesInv' /\ QueueInv' /\ IdleInv'
  BY <1>1, <1>3 DEF IInv, OsInv, ZonesInv, QueueInv, IdleInv
<1> QED
  BY <1>4, <1>5, <1>6, <1>7, <1>8, <1>9, <1>10 DEF IInv

LEMMA InvStep ==
    ASSUME IInv, [Next]_vars
    PROVE  IInv'
<1>0. TypeOK /\ QueueInv /\ ZonesInv
  BY DEF IInv
<1>t. TypeOK'
  BY TypeStep DEF IInv
<1>1. CASE Begin
  <2>1. /\ at = "idle" /\ at' = "zones" /\ always' = world /\ world' = world
        /\ UNCHANGED <<listing, lost, nb, known, queue>>
    BY <1>1 DEF Begin, Ask, netbox
  <2>2. LoopInv' /\ PageInv' /\ ShownInv' /\ FoundInv' /\ ZonesInv'
    BY <2>1 DEF LoopInv, PageInv, ShownInv, FoundInv, ZonesInv, Ahead, InFolder, InVms
  <2>3. listing.vms = {}
    BY <2>1 DEF IInv, IdleInv, NoListing
  <2>4. DiskInv' /\ OsInv'
    BY <2>1, <2>3 DEF DiskInv, OsInv
  <2>5. QueueInv'
    BY <2>1, <1>0 DEF QueueInv
  <2>6. IdleInv'
    BY <2>1 DEF IdleInv
  <2> QED
    BY <2>2, <2>4, <2>5, <2>6, <1>t DEF IInv
<1>2. CASE SyncDies
  BY <1>0, <1>2, <1>t, ForgetInv DEF SyncDies, IInv
<1>3. CASE UNCHANGED vars
  <2>1. /\ UNCHANGED <<at, world, always, mark, got, instances, left, cache, listing, lost,
                       nb, known, queue>>
    BY <1>3 DEF vars, fetch, netbox
  <2>2. cloud' = cloud /\ folder' = folder /\ vm' = vm /\ \A v : OwnDisks(v)' = OwnDisks(v)
    BY <2>1 DEF cloud, folder, vm, OwnDisks
  <2>3. LoopInv' /\ PageInv' /\ ShownInv'
    BY <2>1, <2>2 DEF IInv, LoopInv, PageInv, ShownInv
  <2>4. FoundInv' /\ DiskInv'
    BY <2>1, <2>2 DEF IInv, FoundInv, DiskInv, Ahead, Lost
  <2>5. OsInv' /\ ZonesInv' /\ QueueInv' /\ IdleInv'
    BY <2>1, <2>2 DEF IInv, OsInv, ZonesInv, QueueInv, IdleInv
  <2> QED
    BY <2>3, <2>4, <2>5, <1>t DEF IInv
<1> QED
  BY <1>1, <1>2, <1>3, FetchKeepsInv, SyncKeepsInv, ChangeKeepsInv DEF Next

LEMMA Initially == Init => IInv
<1> SUFFICES ASSUME Init PROVE IInv
  OBVIOUS
<1>1. TypeOK
  <2>1. LoopTypes
    BY NumbersAssumption DEF Init, NoFetch, LoopTypes, LeftType, NothingLeft, Places
  <2>2. FetchedTypes
    <3>1. NoDisks \in [Vms -> SUBSET Disks]
      BY DEF NoDisks
    <3>2. listing \in ListingType
      BY <3>1 DEF Init, NoFetch, NoListing, ListingType
    <3>3. lost \in LostType
      BY DEF Init, NoFetch, NothingLost, LostType
    <3> QED
      BY <3>1, <3>2, <3>3 DEF Init, NoFetch, FetchedTypes
  <2>3. CloudTypes
    BY InitialAssumption, NumbersAssumption DEF Init, NoFetch, CloudTypes
  <2>4. NetBoxTypes
    <3>1. NoDisks \in [Vms -> SUBSET Disks]
      BY DEF NoDisks
    <3>2. queue \in [create : SUBSET Disks, delete : SUBSET Disks, update : SUBSET Vms]
      BY DEF Init, NoQueue
    <3> QED
      BY <3>1, <3>2 DEF Init, NetBoxTypes
  <2> QED
    BY <2>1, <2>2, <2>3, <2>4, Parts
<1>2. /\ at = "idle" /\ always = world /\ listing = NoListing /\ lost = NothingLost
      /\ nb = [v \in Vms |-> NoVm] /\ known = NoDisks /\ queue = NoQueue
  BY DEF Init, NoFetch
<1>3. LoopInv /\ PageInv /\ ShownInv /\ FoundInv /\ ZonesInv /\ IdleInv
  BY <1>2 DEF LoopInv, PageInv, ShownInv, FoundInv, ZonesInv, IdleInv, InFolder, InVms
<1>4. DiskInv /\ OsInv
  BY <1>2 DEF DiskInv, OsInv, NoListing
<1>5. QueueInv
  BY <1>2 DEF QueueInv, NoVm, NoDisks, NoQueue
<1> QED
  BY <1>1, <1>3, <1>4, <1>5 DEF IInv

-----------------------------------------------------------------------------
(* Theorems *)

\* Every variable of the fetch and of the sync keeps its type: loops run over clouds,
\* folders, VMs and disks there are, and no count passes its bound (fetch_all_data,
\* sync_vms_optimized).
THEOREM TypeCorrect == Spec => []TypeOK
<1>1. IInv /\ [Next]_vars => IInv'
  BY InvStep
<1>2. IInv => TypeOK
  BY DEF IInv
<1> QED
  BY Initially, <1>1, <1>2, PTL DEF Spec

\* What a step may take from NetBox: the step of LossesAreExplained, in parts.
VmsStay == \A v \in always.vms : nb[v] # NoVm => nb'[v] # NoVm

DisksStay ==
    \A v \in always.vms : \A d \in nb[v].disks \ nb'[v].disks :
       d = BootOf[v] \/ d \in always.disks => FolderOf[v] \in lost.lists /\ d \in lost.disks

SitesStay == sites \cap Zones \subseteq sites' \/ lost.zones

PlatformsStay ==
    \A v \in always.vms :
       nb[v].platform # "linux" /\ nb'[v].platform = "linux" => v \in lost.images

LEMMA LossExplained ==
    ASSUME IInv, Next
    PROVE  VmsStay /\ DisksStay /\ SitesStay /\ PlatformsStay
<1>t. /\ LoopTypes /\ FetchedTypes /\ CloudTypes /\ NetBoxTypes
      /\ listing.vms \subseteq Vms /\ always.vms \subseteq Vms
  BY Parts, Numbers DEF IInv, FetchedTypes, ListingType
<1>o. ASSUME NEW v \in listing.vms, Platform(v) = "linux" PROVE v \in lost.images
  BY <1>o DEF IInv, OsInv, Platform
<1>1. CASE Begin \/ Fetch \/ SyncDies \/ Change \/ NoVmsListed \/ EnsureSites \/ Load
  <2>1. nb' = nb /\ sites \subseteq sites'
    BY <1>1 DEF Begin, Fetch, SyncDies, Change, NoVmsListed, EnsureSites, Load, netbox
  <2> QED
    BY <2>1 DEF VmsStay, DisksStay, SitesStay, PlatformsStay
<1>2. CASE CleanSites
  <2>1. PICK done \in Outcomes(OrphanSites) : sites' = sites \ done /\ Count(OrphanSites, done)
    BY <1>2 DEF CleanSites
  <2>2. done \subseteq sites \ listing.zones
    BY <2>1, <1>t, Counted DEF OrphanSites
  <2>3. Zones \subseteq listing.zones \/ lost.zones
    BY <1>2 DEF CleanSites, IInv, ZonesInv
  <2>4. nb' = nb
    BY <1>2 DEF CleanSites
  <2> QED
    BY <2>1, <2>2, <2>3, <2>4 DEF VmsStay, DisksStay, SitesStay, PlatformsStay
<1>3. CASE DeleteOrphans
  <2>1. PICK done \in Outcomes(Orphans) :
           /\ nb' = [v \in Vms |-> IF v \in done THEN NoVm ELSE nb[v]]
           /\ Count(Orphans, done)
    BY <1>3 DEF DeleteOrphans
  <2>2. done \subseteq Orphans /\ sites' = sites
    BY <2>1, <1>3, <1>t, Counted DEF DeleteOrphans
  <2>3. \A v \in always.vms : v \notin Orphans
    <3>1. ~listing.flag => always.vms \subseteq listing.vms
      BY <1>3 DEF DeleteOrphans, IInv, FoundInv, Ahead, InFolder, InVms
    <3> QED
      BY <3>1 DEF Orphans, Cleanup
  <2>4. \A v \in always.vms : nb'[v] = nb[v]
    BY <2>1, <2>2, <2>3, <1>t
  <2> QED
    BY <2>2, <2>4 DEF VmsStay, DisksStay, SitesStay, PlatformsStay
<1>4. CASE Process
  <2>1. PICK done \in Outcomes(listing.vms) :
          /\ nb' = [v \in Vms |-> IF v \in done /\ nb[v] = NoVm THEN Created(v) ELSE nb[v]]
          /\ Count(listing.vms, done)
    BY <1>4 DEF Process
  <2>2. done \subseteq listing.vms /\ sites' = sites
    BY <2>1, <1>4, <1>t, Counted DEF Process
  <2>3. \A v \in always.vms : nb'[v] = nb[v] \/ /\ v \in listing.vms /\ nb[v] = NoVm
                                                /\ nb'[v] = Created(v)
    BY <2>1, <2>2, <1>t
  <2>4. \A v \in always.vms : nb[v] = NoVm => nb[v].disks = {}
    BY DEF NoVm
  <2>5. \A v \in always.vms : Created(v).platform = Platform(v)
    BY <1>t, VmForms
  <2> QED
    BY <2>2, <2>3, <2>4, <2>5, <1>o DEF VmsStay, DisksStay, SitesStay, PlatformsStay
<1>5. CASE DeleteDisks
  <2>1. PICK done \in Outcomes(queue.delete) :
           /\ nb' = [v \in Vms |-> [nb[v] EXCEPT !.disks = @ \ done]]
           /\ Count(queue.delete, done)
    BY <1>5 DEF DeleteDisks
  <2>2. done \subseteq queue.delete /\ sites' = sites
    BY <2>1, <1>5, <1>t, Counted DEF DeleteDisks
  <2>3. ASSUME NEW v \in Vms
        PROVE  nb'[v].disks = nb[v].disks \ done /\ nb'[v].platform = nb[v].platform
    <3>1. PICK x, D : x = nb[v] /\ D = nb[v].disks \ done
      OBVIOUS
    <3>2. x \in AnyVm /\ D \in SUBSET Disks
      BY <3>1, <1>t, VmForms
    <3>3. nb'[v] = [x EXCEPT !.disks = D]
      BY <2>1, <3>1
    <3>4. nb'[v].disks = D /\ nb'[v].platform = x.platform
      BY <3>2, <3>3, DisksForm
    <3> QED
      BY <3>1, <3>4
  <2>4. VmsStay
    <3>1. \A v \in Vms : nb[v] # NoVm => nb[v].platform # "absent"
      BY <1>t, VmForms
    <3>2. NoVm.platform = "absent"
      BY DEF NoVm
    <3> QED
      BY <2>3, <3>1, <3>2, <1>t DEF VmsStay
  <2>5. DisksStay
    <3> SUFFICES ASSUME NEW v \in always.vms, NEW d \in nb[v].disks \ nb'[v].disks,
                        d = BootOf[v] \/ d \in always.disks
                 PROVE  Lost(v, d)
      BY DEF DisksStay, Lost
    <3>1. v \in Vms /\ d \in nb[v].disks /\ d \in done
      BY <2>3, <1>t
    <3>2. OwnerOf[d] = v
      BY <3>1 DEF IInv, QueueInv
    <3>3. v \in listing.vms /\ d \notin listing.disks[v]
      BY <2>2, <3>1, <3>2 DEF IInv, QueueInv
    <3>4. d \in Disks
      BY <3>1, <1>t, VmForms
    <3> QED
      BY <3>2, <3>3, <3>4 DEF IInv, DiskInv, OwnDisks
  <2> QED
    BY <2>2, <2>3, <2>4, <2>5, <1>t DEF SitesStay, PlatformsStay
<1>6. CASE CreateDisks
  <2>1. PICK done \in Outcomes(queue.create) :
           /\ nb' = [v \in Vms |-> IF v \in InNetBox
                                   THEN [nb[v] EXCEPT !.disks = @ \cup {d \in done : OwnerOf[d] = v}]
                                   ELSE NoVm]
           /\ Count(queue.create, done)
    BY <1>6 DEF CreateDisks
  <2>2. done \subseteq Disks /\ sites' = sites
    BY <2>1, <1>6, <1>t, Counted DEF CreateDisks, NetBoxTypes
  <2>3. ASSUME NEW v \in Vms
        PROVE  nb[v].disks \subseteq nb'[v].disks /\ nb'[v].platform = nb[v].platform
    <3>1. CASE v \in InNetBox
      <4>1. PICK x, D : x = nb[v] /\ D = nb[v].disks \cup {e \in done : OwnerOf[e] = v}
        OBVIOUS
      <4>2. x \in AnyVm /\ D \in SUBSET Disks /\ nb[v].disks \subseteq D
        BY <2>2, <4>1, <1>t, VmForms
      <4>3. nb'[v] = [x EXCEPT !.disks = D]
        BY <2>1, <3>1, <4>1
      <4>4. nb'[v].disks = D /\ nb'[v].platform = x.platform
        BY <4>2, <4>3, DisksForm
      <4> QED
        BY <4>1, <4>2, <4>4
    <3>2. CASE v \notin InNetBox
      BY <2>1, <3>2 DEF InNetBox
    <3> QED
      BY <3>1, <3>2
  <2>4. VmsStay
    <3>1. \A v \in Vms : nb[v] # NoVm => nb[v].platform # "absent"
      BY <1>t, VmForms
    <3>2. NoVm.platform = "absent"
      BY DEF NoVm
    <3> QED
      BY <2>3, <3>1, <3>2, <1>t DEF VmsStay
  <2> QED
    BY <2>2, <2>3, <2>4, <1>t DEF DisksStay, SitesStay, PlatformsStay
<1>7. CASE UpdateVms
  <2>1. PICK done \in Outcomes(queue.update) :
           /\ nb' = [v \in Vms |-> IF v \in done THEN Updated(v) ELSE nb[v]]
           /\ Count(queue.update, done)
    BY <1>7 DEF UpdateVms
  <2>2. done \subseteq listing.vms /\ sites' = sites
    BY <2>1, <1>7, <1>t, Counted DEF UpdateVms, IInv, QueueInv
  <2>3. \A v \in Vms : /\ nb'[v] = nb[v] \/ (v \in listing.vms /\ nb'[v] = Updated(v))
                       /\ Updated(v).disks = nb[v].disks
                       /\ Updated(v).platform = Platform(v) /\ Updated(v) # NoVm
    BY <2>1, <2>2, <1>t, VmForms
  <2> QED
    BY <2>2, <2>3, <1>o, <1>t DEF VmsStay, DisksStay, SitesStay, PlatformsStay
<1> QED
  BY <1>1, <1>2, <1>3, <1>4, <1>5, <1>6, <1>7 DEF Next, Sync

\* However many calls to the cloud and to NetBox fail, time out or are repeated, and
\* however the cloud changes meanwhile, a sync takes nothing from NetBox that existed
\* during its whole fetch, without a failure that explains it (fetch_all_data,
\* _sync_provider, _process_vm_disks).
THEOREM LossesExplained == Spec => LossesAreExplained
<1>1. IInv /\ [Next]_vars => IInv'
  BY InvStep
<1>2. IInv /\ [Next]_vars =>
         [/\ \A v \in always.vms : nb[v] # NoVm => nb'[v] # NoVm
          /\ \A v \in always.vms : \A d \in nb[v].disks \ nb'[v].disks :
                d = BootOf[v] \/ d \in always.disks =>
                    FolderOf[v] \in lost.lists /\ d \in lost.disks
          /\ sites \cap Zones \subseteq sites' \/ lost.zones
          /\ \A v \in always.vms :
                nb[v].platform # "linux" /\ nb'[v].platform = "linux" => v \in lost.images]_vars
  BY LossExplained DEF VmsStay, DisksStay, SitesStay, PlatformsStay
<1> QED
  BY Initially, <1>1, <1>2, PTL DEF Spec, LossesAreExplained

-----------------------------------------------------------------------------
(* Steady syncs: nothing fails and nothing changes since the fetch began *)

Past == {"orphans", "process", "delete", "create", "update"}

\* VMs are only ever put on sites of zones that exist.
SitesInv == \A v \in Vms : nb[v].site \in Zones \cup {NoSite}

\* What is listed is what the cloud contains.
ExactFetch ==
    /\ at # "idle" => always = world /\ lost = NothingLost /\ ~listing.flag
    /\ at \notin {"idle", "zones"} => listing.zones = Zones
    /\ at = "vms" => got \subseteq world.vms /\ \A v \in got : instances[v] = Attached(v)
    /\ at \in InVms => left.vms \subseteq world.vms /\ \A v \in left.vms : instances[v] = Attached(v)
    /\ at \in {"boot", "image", "disk"} => left.disks \subseteq Attached(vm)
    /\ listing.vms \subseteq world.vms
    /\ \A v \in Vms : listing.disks[v] \subseteq Attached(v)

\* First the sites are those of the zones.
ExactSites ==
    /\ at = "ensure" => sites \subseteq Zones
    /\ at \in {"load"} \cup Past => sites = OrDefault(Zones) /\ mapped = OrDefault(Zones)

\* Then the VMs are those of the cloud, and the updates of all others are queued.
ExactVms ==
    /\ at = "orphans" => \A v \in Vms : known[v] = nb[v].disks
    /\ at = "process" => \A v \in Vms : nb[v] # NoVm => v \in world.vms /\ known[v] = nb[v].disks
    /\ at \in {"delete", "create", "update"} =>
          /\ \A v \in Vms : nb[v] # NoVm <=> v \in world.vms
          /\ \A v \in world.vms \ queue.update :
                nb[v].site = ZoneOf[v] /\ nb[v].platform = "own"

\* And at last the disks; those that are missing or too many are queued.
ExactDisks ==
    /\ at \in {"delete", "create"} =>
          /\ \A v \in world.vms : Attached(v) \ nb[v].disks \subseteq queue.create
          /\ \A d \in queue.create : d \in Attached(OwnerOf[d])
    /\ at = "delete" =>
          \A v \in world.vms : nb[v].disks \ Attached(v) \subseteq queue.delete
    /\ at = "create" => \A v \in world.vms : nb[v].disks \subseteq Attached(v)
    /\ at = "update" => \A v \in world.vms : nb[v].disks = Attached(v)

SteadyInv == steady => ExactFetch /\ ExactSites /\ ExactVms /\ ExactDisks /\ SteadySyncRepairs

\* Writing and deleting VMs leaves their sites, but for those of zones.
LEMMA SitesStep ==
    ASSUME IInv, SitesInv, [Next]_vars
    PROVE  SitesInv'
<1>t. LoopTypes /\ FetchedTypes /\ CloudTypes /\ NetBoxTypes
  BY Parts DEF IInv
<1>s. \A v \in Vms : \A site \in Zones \cup {NoSite} : Site(v, site) \in Zones \cup {NoSite}
  BY ZonesAssumption DEF Site
<1>f. \A v \in Vms : /\ Created(v).site \in Zones \cup {NoSite}
                     /\ Updated(v).site \in Zones \cup {NoSite}
                     /\ NoVm.site = NoSite
  BY <1>s, <1>t, VmForms DEF SitesInv
<1>1. CASE Begin \/ Fetch \/ SyncDies \/ Change \/ NoVmsListed \/ EnsureSites \/ Load \/ CleanSites
           \/ UNCHANGED vars
  <2>1. nb' = nb
    BY <1>1 DEF Begin, Fetch, SyncDies, Change, NoVmsListed, EnsureSites, Load, CleanSites, netbox, vars
  <2> QED
    BY <2>1 DEF SitesInv
<1>2. CASE DeleteOrphans \/ Process \/ UpdateVms
  <2>1. \A v \in Vms : nb'[v] = nb[v] \/ nb'[v] = NoVm \/ nb'[v] = Created(v) \/ nb'[v] = Updated(v)
    BY <1>2 DEF DeleteOrphans, Process, UpdateVms
  <2> QED
    BY <2>1, <1>f DEF SitesInv
<1>3. CASE DeleteDisks
  <2>1. PICK done : nb' = [v \in Vms |-> [nb[v] EXCEPT !.disks = @ \ done]]
    BY <1>3 DEF DeleteDisks
  <2>2. ASSUME NEW v \in Vms PROVE nb'[v].site = nb[v].site
    <3>1. PICK x, D : x = nb[v] /\ D = nb[v].disks \ done
      OBVIOUS
    <3>2. x \in AnyVm /\ D \in SUBSET Disks
      BY <3>1, <1>t, VmForms
    <3>3. nb'[v] = [x EXCEPT !.disks = D]
      BY <2>1, <3>1
    <3> QED
      BY <3>1, <3>2, <3>3, DisksForm
  <2> QED
    BY <2>2 DEF SitesInv
<1>4. CASE CreateDisks
  <2>1. PICK done \in Outcomes(queue.create) :
           /\ nb' = [v \in Vms |-> IF v \in InNetBox
                                   THEN [nb[v] EXCEPT !.disks = @ \cup {d \in done : OwnerOf[d] = v}]
                                   ELSE NoVm]
           /\ Count(queue.create, done)
    BY <1>4 DEF CreateDisks
  <2>2. done \subseteq Disks
    BY <2>1, <1>t, Counted DEF NetBoxTypes
  <2>3. ASSUME NEW v \in Vms PROVE nb'[v].site \in {nb[v].site, NoSite}
    <3>1. CASE v \in InNetBox
      <4>1. PICK x, D : x = nb[v] /\ D = nb[v].disks \cup {e \in done : OwnerOf[e] = v}
        OBVIOUS
      <4>2. x \in AnyVm /\ D \in SUBSET Disks
        BY <2>2, <4>1, <1>t, VmForms
      <4>3. nb'[v] = [x EXCEPT !.disks = D]
        BY <2>1, <3>1, <4>1
      <4> QED
        BY <4>1, <4>2, <4>3, DisksForm
    <3>2. CASE v \notin InNetBox
      BY <2>1, <3>2, <1>f
    <3> QED
      BY <3>1, <3>2
  <2> QED
    BY <2>3 DEF SitesInv
<1> QED
  BY <1>1, <1>2, <1>3, <1>4 DEF Next, Sync

\* Nothing of a steady fetch is gone when it is asked for: no request fails.
LEMMA SteadyCases ==
    ASSUME IInv, SteadyInv, Fetch, steady'
    PROVE  /\ ExactFetch /\ at \in Requests
           /\ world' = world /\ always' = always
           /\ \/ Retry
              \/ \E m \in Listed : NextPage(m)
              \/ \E items : Received(items, TRUE) /\ Take(items, TRUE)
              \/ /\ UNCHANGED instances
                 /\ TakeZones(Zones, TRUE) \/ TakeBoot \/ TakeImage \/ TakeDisk \/ AppendVm
<1>1. steady /\ failures' = failures /\ FetchStep
  BY Zenon DEF Fetch
<1>2. ExactFetch
  BY <1>1 DEF SteadyInv
<1>3. /\ left \in LeftType /\ failures \in Nat
      /\ at \in Requests /\ world' = world /\ always' = always
  BY <1>1, Parts, NumbersAssumption, FetchCases DEF IInv, LoopTypes, CloudTypes
<1>4. ~ Gone
  <2>1. at \in InVms => vm \in world.vms /\ vm \in Vms
    BY <1>2, <1>3, InTurn DEF ExactFetch, IInv, LoopInv, InVms
  <2>2. at = "boot" => Exists(BootOf[vm])
    BY <2>1, OwnersAssumption DEF Exists, InVms
  <2>3. at = "disk" /\ left.disks # {} => Exists(disk)
    BY <2>1, <1>2, <1>3, InTurn DEF ExactFetch, Exists, Attached, InVms
  <2> QED
    BY <2>2, <2>3 DEF Gone
<1>5. ~ Fails
  <2>1. Fails => failures' = IF Gone THEN failures ELSE failures + 1
    BY DEF Fails
  <2>2. failures + 1 # failures
    BY <1>3
  <2> HIDE DEF Fails
  <2> QED
    BY <2>1, <2>2, <1>1, <1>4
<1>6. CASE Answer
  <2>1. CASE Take(got \cup Rest, TRUE)
    <3>1. Received(got \cup Rest, TRUE)
      BY <1>6 DEF Answer, Received
    <3> QED
      BY <2>1, <3>1, <1>2, <1>3
  <2>2. CASE TakeZones(Zones, TRUE) \/ TakeBoot \/ TakeImage \/ TakeDisk \/ AppendVm
    <3>1. at \in {"zones", "boot", "image", "disk"}
      BY <2>2 DEF TakeZones, TakeBoot, TakeImage, TakeDisk, AppendVm
    <3>2. UNCHANGED instances
      BY <1>6, <3>1 DEF Answer, Shown
    <3> QED
      BY <2>2, <3>2, <1>2, <1>3
  <2> QED
    BY <1>2, <1>3, <1>6, <2>1, <2>2 DEF Answer
<1> QED
  BY <1>1, <1>2, <1>3, <1>5, <1>6 DEF FetchStep

\* The VMs of a page, with the disks they have.
LEMMA ExactPages ==
    ASSUME IInv, ExactFetch, at = "vms", NEW page, page \subseteq Items
    PROVE  /\ got \cup page \subseteq world.vms
           /\ \A v \in got \cup page : Shown(page)[v] = Attached(v)
<1>1. page \subseteq world.vms /\ got \subseteq world.vms /\ world.vms \subseteq Vms
  BY Parts DEF Items, ExactFetch, IInv, CloudTypes, World
<1>2. \A v \in Vms : Shown(page)[v] = IF v \in page THEN Attached(v) ELSE instances[v]
  BY DEF Shown
<1>3. \A v \in got : v \in Vms /\ instances[v] = Attached(v)
  BY <1>1 DEF ExactFetch
<1> QED
  BY <1>1, <1>2, <1>3

\* A step that lists nothing more than the loops do.
LEMMA ExactLoops ==
    ASSUME IInv, ExactFetch, at # "idle",
           world' = world, always' = always, lost' = lost,
           listing'.flag = listing.flag, listing'.zones = listing.zones \/ listing'.zones = Zones,
           at = "zones" => at' = "zones" \/ listing'.zones = Zones,
           listing'.vms \subseteq world.vms,
           \A v \in Vms : listing'.disks[v] \subseteq Attached(v),
           at' = "vms" => got' \subseteq world.vms /\ \A v \in got' : instances'[v] = Attached(v),
           at' \in InVms => /\ left'.vms \subseteq world.vms
                            /\ \A v \in left'.vms : instances'[v] = Attached(v),
           NEW u, u = vm',
           at' \in {"boot", "image", "disk"} => left'.disks \subseteq Attached(u)
    PROVE  ExactFetch'
<1>1. \A v : Attached(v)' = Attached(v)
  BY DEF Attached
<1>2. always' = world' /\ lost' = NothingLost /\ ~listing'.flag
  BY DEF ExactFetch
<1>3. at' \notin {"idle", "zones"} => listing'.zones = Zones
  BY DEF ExactFetch
<1>4. at' = "vms" => got' \subseteq world'.vms /\ \A v \in got' : instances'[v] = Attached(v)'
  BY <1>1
<1>5. at' \in InVms => /\ left'.vms \subseteq world'.vms
                       /\ \A v \in left'.vms : instances'[v] = Attached(v)'
  BY <1>1
<1>6. at' \in {"boot", "image", "disk"} => left'.disks \subseteq Attached(vm)'
  BY DEF Attached
<1>7. listing'.vms \subseteq world'.vms /\ \A v \in Vms : listing'.disks[v] \subseteq Attached(v)'
  BY <1>1
<1> QED
  BY <1>2, <1>3, <1>4, <1>5, <1>6, <1>7 DEF ExactFetch

LEMMA ExactFetchStep ==
    ASSUME IInv, SteadyInv, Fetch, steady'
    PROVE  ExactFetch'
<1>e. ExactFetch /\ at \in Requests /\ at # "idle" /\ world' = world /\ always' = always
  BY SteadyCases DEF Requests, Lists
<1>t. /\ LoopTypes /\ FetchedTypes /\ CloudTypes /\ left \in LeftType
      /\ listing \in ListingType /\ lost \in LostType /\ world.vms \subseteq Vms
  BY Parts DEF IInv, LoopTypes, FetchedTypes, CloudTypes, World
<1>v. at \in InVms => vm \in left.vms /\ vm \in world.vms /\ vm \in Vms
  BY <1>e, <1>t, InTurn DEF IInv, LoopInv, ExactFetch, InVms
<1>x. /\ listing.vms \subseteq world.vms
      /\ \A v \in Vms : listing.disks[v] \subseteq Attached(v)
  BY <1>e DEF ExactFetch
<1>1. CASE Retry
  <2>1. vm' = vm
    BY <1>1 DEF Retry, vm
  <2> QED
    BY <1>1, <2>1, <1>e, ExactLoops DEF Retry, ExactFetch
<1>2. ASSUME NEW m \in Listed, NextPage(m) PROVE ExactFetch'
  <2>1. PICK page : /\ page = {x \in Rest : x <= m}
                    /\ got' = got \cup page /\ instances' = Shown(page)
    BY <1>2 DEF NextPage
  <2>2. /\ at' = at /\ left' = left /\ at \in Lists /\ lost' = lost /\ listing' = listing
        /\ page \subseteq Items
    BY <1>2, <2>1 DEF NextPage, Rest
  <2>3. at' = "vms" => got' \subseteq world.vms /\ \A v \in got' : instances'[v] = Attached(v)
    BY <2>1, <2>2, <1>e, ExactPages
  <2>4. at' \in InVms => /\ left'.vms \subseteq world.vms
                         /\ \A v \in left'.vms : instances'[v] = Attached(v)
    BY <2>1, <2>2, <1>e DEF Shown, ExactFetch, InVms
  <2>5. at' \notin {"boot", "image", "disk"}
    BY <2>2 DEF Lists
  <2> QED
    BY <2>2, <2>3, <2>4, <2>5, <1>e, <1>x, ExactLoops
<1>3. ASSUME NEW items, Received(items, TRUE), Take(items, TRUE) PROVE ExactFetch'
  <2>1. lost' = lost /\ at # "zones" /\ at' # "zones"
    BY <1>3, <1>t, NextLoops
    DEF Take, TakeClouds, TakeFolders, TakeNetworks, TakeVms, TakeDisks,
        ToCloud, ToFolder, Ask, Asked
  <2>2. /\ listing'.flag = listing.flag /\ listing'.zones = listing.zones
        /\ listing'.vms = listing.vms /\ listing'.disks = listing.disks
    BY <1>3, <1>t
    DEF Take, TakeClouds, TakeFolders, TakeNetworks, TakeVms, TakeDisks, ListingType, Flagged
  <2>3. ASSUME at' \notin {"vms"} \cup InVms PROVE ExactFetch'
    BY <2>1, <2>2, <2>3, <1>e, <1>x, ExactLoops DEF InVms
  <2>4. CASE TakeClouds(items, TRUE) \/ TakeFolders(items, TRUE)
    <3>1. at' \in {"fetched", "folders", "vpcs"}
      BY <2>4, <1>t, NextLoops DEF TakeClouds, TakeFolders, ToFolder, ToCloud, Asked
    <3> QED
      BY <2>3, <3>1 DEF InVms
  <2>5. CASE TakeNetworks(TRUE)
    <3>1. at' \in {"subnets", "vms"} /\ got' = {}
      BY <2>5 DEF TakeNetworks, Ask
    <3> QED
      BY <2>1, <2>2, <3>1, <1>e, <1>x, ExactLoops DEF InVms
  <2>6. CASE TakeVms(items, TRUE)
    <3>1. CASE items = {}
      <4>1. at' \in {"fetched", "folders", "vpcs"}
        BY <2>6, <3>1, <1>t, NextLoops DEF TakeVms, ToFolder, ToCloud, Asked
      <4> QED
        BY <2>3, <4>1 DEF InVms
    <3>2. CASE items # {}
      <4>1. at = "vms" /\ at' = "disks" /\ left'.vms = items
        BY <2>6, <3>2, <1>t DEF TakeVms, Ask, LeftType
      <4>2. items = got \cup Rest /\ instances' = Shown(Rest) /\ Rest \subseteq Items
        BY <1>3 DEF Received, Rest
      <4>3. items \subseteq world.vms /\ \A v \in items : instances'[v] = Attached(v)
        BY <4>1, <4>2, <1>e, ExactPages
      <4> QED
        BY <2>1, <2>2, <4>1, <4>3, <1>e, <1>x, ExactLoops
    <3> QED
      BY <3>1, <3>2
  <2>7. CASE TakeDisks(items, TRUE)
    <3>1. at = "disks" /\ at' = "boot" /\ left'.vms = left.vms /\ left'.disks = instances[vm]
      BY <2>7, <1>t DEF TakeDisks, Ask, LeftType
    <3>2. instances' = instances /\ vm' = vm
      BY <3>1, <1>3 DEF Received, Shown, vm
    <3>3. left.vms \subseteq world.vms /\ \A v \in left.vms : instances[v] = Attached(v)
      BY <3>1, <1>e DEF ExactFetch, InVms
    <3>4. instances[vm] = Attached(vm)
      BY <3>1, <3>3, <1>v DEF InVms
    <3> QED
      BY <2>1, <2>2, <3>1, <3>2, <3>3, <3>4, <1>e, <1>x, ExactLoops
  <2> QED
    BY <1>3, <2>4, <2>5, <2>6, <2>7 DEF Take
<1>4. CASE TakeZones(Zones, TRUE)
  <2>1. /\ at' = "clouds"
        /\ listing'.flag = listing.flag /\ listing'.zones = Zones
        /\ listing'.vms = listing.vms /\ listing'.disks = listing.disks
    BY <1>4, <1>t DEF TakeZones, Ask, ListingType
  <2>2. lost' = lost
    <3>1. lost.zones = FALSE
      BY <1>e DEF ExactFetch, NothingLost
    <3>2. lost' = [lost EXCEPT !.zones = FALSE]
      BY <1>4 DEF TakeZones
    <3> QED
      BY <3>1, <3>2, <1>t DEF LostType
  <2> QED
    BY <2>1, <2>2, <1>e, <1>x, ExactLoops DEF InVms
<1>5. CASE (TakeBoot \/ TakeImage \/ TakeDisk) /\ UNCHANGED instances
  <2>1. SameVm /\ at \in {"boot", "image", "disk"}
    BY <1>5, <1>t, VmGoesOn DEF TakeBoot, TakeImage, TakeDisk
  <2>2. vm' = vm
    BY <2>1 DEF vm, SameVm
  <2>3. left'.disks \subseteq left.disks /\ lost' = lost
    BY <1>5, <1>t DEF TakeBoot, TakeImage, TakeDisk, LeftType
  <2>4. left.vms \subseteq world.vms /\ \A v \in left.vms : instances[v] = Attached(v)
    BY <2>1, <1>e DEF ExactFetch, SameVm
  <2>5. left.disks \subseteq Attached(vm)
    BY <2>1, <1>e DEF ExactFetch
  <2>6. listing'.flag = listing.flag /\ listing'.zones = listing.zones /\ listing'.vms = listing.vms
    BY <1>5, <1>t DEF TakeBoot, TakeImage, TakeDisk, ListingType
  <2>7. \A v \in Vms : listing'.disks[v] \subseteq Attached(v)
    <3>1. CASE TakeBoot \/ TakeImage
      BY <3>1, <1>x, <1>t DEF TakeBoot, TakeImage, ListingType
    <3>2. CASE TakeDisk
      <4>1. \A v \in Vms : listing'.disks[v] = IF v = vm THEN listing.disks[v] \cup {disk}
                                                         ELSE listing.disks[v]
        BY <3>2, <1>t DEF TakeDisk, ListingType
      <4>2. disk \in left.disks
        BY <3>2, <1>t, InTurn DEF TakeDisk
      <4> QED
        BY <4>1, <4>2, <2>5, <1>x
    <3> QED
      BY <1>5, <3>1, <3>2
  <2> QED
    BY <2>1, <2>2, <2>3, <2>4, <2>5, <2>6, <2>7, <1>5, <1>e, <1>x, ExactLoops DEF SameVm
<1>6. CASE AppendVm /\ UNCHANGED instances
  <2>1. ToVm(left.vms \ {vm}) /\ at = "disk" /\ lost' = lost
    BY <1>6, <1>t, NextLoops DEF AppendVm
  <2>2. /\ listing'.flag = listing.flag /\ listing'.zones = listing.zones
        /\ listing'.vms = listing.vms \cup {vm} /\ listing'.disks = listing.disks
    BY <1>6, <1>t DEF AppendVm, ListingType
  <2>3. listing'.vms \subseteq world.vms
    BY <2>1, <2>2, <1>v, <1>x DEF InVms
  <2>4. CASE at' # "boot"
    <3>1. at' \in {"fetched", "folders", "vpcs"}
      BY <2>1, <2>4 DEF ToVm, ToFolder, ToCloud, Asked
    <3> QED
      BY <2>1, <2>2, <2>3, <3>1, <1>e, <1>x, ExactLoops DEF InVms
  <2>5. CASE at' = "boot"
    <3>1. /\ left'.vms = left.vms \ {vm} /\ left'.vms # {}
          /\ left'.disks = instances[Min(left.vms \ {vm})]
      BY <2>1, <2>5 DEF ToVm, ToFolder, ToCloud, Asked
    <3>2. PICK u : u = Min(left.vms \ {vm})
      OBVIOUS
    <3>3. u \in left.vms /\ u = vm'
      BY <3>1, <3>2, <1>t, Numbers, MinIsFirst DEF LeftType, vm
    <3>4. left.vms \subseteq world.vms /\ \A v \in left.vms : instances[v] = Attached(v)
      BY <2>1, <1>e DEF ExactFetch, InVms
    <3>5. left'.disks \subseteq Attached(u)
      BY <3>1, <3>2, <3>3, <3>4
    <3> QED
      BY <2>1, <2>2, <2>3, <2>5, <3>1, <3>3, <3>4, <3>5, <1>6, <1>e, <1>x, ExactLoops
  <2> QED
    BY <2>4, <2>5
<1> QED
  BY <1>1, <1>2, <1>3, <1>4, <1>5, <1>6, SteadyCases

\* After a steady fetch the listing is the cloud.
LEMMA ExactListing ==
    ASSUME IInv, ExactFetch, at \notin Requests \cup {"idle"}
    PROVE  /\ listing.vms = world.vms /\ listing.zones = Zones /\ ~listing.flag
           /\ \A v \in world.vms : v \in Vms /\ listing.disks[v] = Attached(v) /\ Platform(v) = "own"
           /\ \A v : Attached(v) \subseteq Disks /\ \A d \in Attached(v) : OwnerOf[d] = v
<1>1. always = world /\ lost = NothingLost /\ ~listing.flag /\ listing.zones = Zones
  BY DEF ExactFetch, Requests
<1>2. world.vms \subseteq Vms
  BY Parts DEF IInv, CloudTypes, World
<1>3. listing.vms = world.vms
  BY <1>1 DEF IInv, FoundInv, Ahead, InFolder, InVms, ExactFetch, Requests, Lists
<1>4. \A v \in Vms : Attached(v) = OwnDisks(v)
  BY <1>1, BootDisks DEF Attached, OwnDisks
<1>5. ASSUME NEW v \in world.vms PROVE listing.disks[v] = Attached(v)
  <2>1. \A d \in OwnDisks(v) : d \in listing.disks[v]
    BY <1>1, <1>3 DEF IInv, DiskInv, Lost, NothingLost
  <2> QED
    BY <2>1, <1>2, <1>4 DEF ExactFetch
<1>6. \A v \in world.vms : Platform(v) = "own"
  BY <1>1, <1>3 DEF IInv, OsInv, NothingLost, Platform
<1> QED
  BY <1>1, <1>2, <1>3, <1>5, <1>6 DEF Attached

\* It stays so until the sync ends.
LEMMA ExactAfter ==
    ASSUME ExactFetch, at \notin Requests \cup {"idle"}, at' \notin Requests \cup {"idle"},
           UNCHANGED <<world, always, listing, lost>>
    PROVE  ExactFetch' /\ SteadySyncRepairs'
<1>1. \A v : Attached(v)' = Attached(v)
  BY DEF Attached
<1> QED
  BY <1>1 DEF ExactFetch, SteadySyncRepairs, InVms, Requests, Lists

\* A VM's record is told by its fields.
LEMMA Fields ==
    ASSUME NEW x \in AnyVm, NEW y \in AnyVm,
           x.site = y.site, x.platform = y.platform, x.disks = y.disks
    PROVE  x = y
  BY DEF AnyVm

LEMMA SteadySites ==
    ASSUME IInv, SitesInv, SteadyInv, CleanSites \/ EnsureSites, steady'
    PROVE  SteadyInv'
<1>t. /\ LoopTypes /\ FetchedTypes /\ CloudTypes /\ NetBoxTypes
  BY Parts DEF IInv
<1>1. CASE CleanSites
  <2>1. PICK done \in Outcomes(OrphanSites) : sites' = sites \ done /\ Count(OrphanSites, done)
    BY <1>1 DEF CleanSites
  <2>2. done = OrphanSites /\ ExactFetch
    BY <2>1, <1>t, Counted DEF SteadyInv
  <2>3. at = "fetched" /\ at' = "ensure" /\ UNCHANGED <<world, always, listing, lost>>
    BY <1>1 DEF CleanSites, Go, fetch
  <2>4. listing.zones = Zones /\ Cleanup
    BY <2>2, <2>3, ExactListing DEF Cleanup, Requests, Lists
  <2>5. \A z \in sites \ Zones : z \in OrphanSites
    BY <2>4, <1>t, ZonesAssumption DEF OrphanSites, SitesInv, NetBoxTypes
  <2>6. ExactSites'
    BY <2>1, <2>2, <2>3, <2>5 DEF ExactSites, Past
  <2>7. ExactFetch' /\ SteadySyncRepairs'
    BY <2>2, <2>3, ExactAfter DEF Requests, Lists
  <2> QED
    BY <2>3, <2>6, <2>7 DEF SteadyInv, ExactVms, ExactDisks
<1>2. CASE EnsureSites
  <2>1. PICK done \in Outcomes(OrDefault(listing.zones)) :
           sites' = sites \cup done /\ mapped' = done /\ Count(OrDefault(listing.zones), done)
    BY <1>2 DEF EnsureSites
  <2>2. done = OrDefault(listing.zones) /\ ExactFetch /\ ExactSites
    BY <2>1, <1>t, Counted DEF SteadyInv
  <2>3. at = "ensure" /\ at' = "load" /\ UNCHANGED <<world, always, listing, lost>>
    BY <1>2 DEF EnsureSites, Go, fetch
  <2>4. listing.zones = Zones
    BY <2>2, <2>3, ExactListing DEF Requests, Lists
  <2>5. ExactSites'
    BY <2>1, <2>2, <2>3, <2>4 DEF ExactSites, Past, OrDefault
  <2>6. ExactFetch' /\ SteadySyncRepairs'
    BY <2>2, <2>3, ExactAfter DEF Requests, Lists
  <2> QED
    BY <2>3, <2>5, <2>6 DEF SteadyInv, ExactVms, ExactDisks
<1> QED
  BY <1>1, <1>2

LEMMA SteadyLoad ==
    ASSUME IInv, SteadyInv, Load \/ DeleteOrphans, steady'
    PROVE  SteadyInv'
<1>t. /\ LoopTypes /\ FetchedTypes /\ CloudTypes /\ NetBoxTypes
  BY Parts DEF IInv
<1>1. CASE Load
  <2>1. PICK done \in Outcomes({"disks"}) :
           /\ known' = IF done = {} THEN NoDisks ELSE [v \in Vms |-> nb[v].disks]
           /\ Count({"disks"}, done)
    BY <1>1 DEF Load
  <2>2. done = {"disks"} /\ ExactFetch /\ ExactSites
    BY <2>1, <1>t, Counted DEF SteadyInv
  <2>3. /\ at = "load" /\ at' = "orphans" /\ UNCHANGED <<world, always, listing, lost>>
        /\ UNCHANGED <<sites, nb, mapped>>
    BY <1>1 DEF Load, Go, fetch
  <2>4. known' = [v \in Vms |-> nb[v].disks]
    BY <2>1, <2>2
  <2>5. ExactVms' /\ ExactSites'
    BY <2>2, <2>3, <2>4 DEF ExactVms, ExactSites, Past
  <2>6. ExactFetch' /\ SteadySyncRepairs'
    BY <2>2, <2>3, ExactAfter DEF Requests, Lists
  <2> QED
    BY <2>3, <2>5, <2>6 DEF SteadyInv, ExactDisks
<1>2. CASE DeleteOrphans
  <2>1. PICK done \in Outcomes(Orphans) :
           /\ nb' = [v \in Vms |-> IF v \in done THEN NoVm ELSE nb[v]]
           /\ Count(Orphans, done)
    BY <1>2 DEF DeleteOrphans
  <2>2. done = Orphans /\ ExactFetch /\ ExactSites /\ ExactVms
    BY <2>1, <1>t, Counted DEF SteadyInv
  <2>3. /\ at = "orphans" /\ at' = "process" /\ UNCHANGED <<world, always, listing, lost>>
        /\ UNCHANGED <<sites, known, mapped>>
    BY <1>2 DEF DeleteOrphans, Go, fetch
  <2>4. listing.vms = world.vms /\ Cleanup
    BY <2>2, <2>3, ExactListing DEF Cleanup, Requests, Lists
  <2>5. \A v \in Vms : nb'[v] # NoVm => v \in world.vms /\ nb'[v] = nb[v]
    BY <2>1, <2>2, <2>4 DEF Orphans, InNetBox
  <2>6. ExactVms' /\ ExactSites'
    BY <2>2, <2>3, <2>5 DEF ExactVms, ExactSites, Past
  <2>7. ExactFetch' /\ SteadySyncRepairs'
    BY <2>2, <2>3, ExactAfter DEF Requests, Lists
  <2> QED
    BY <2>3, <2>6, <2>7 DEF SteadyInv, ExactDisks
<1> QED
  BY <1>1, <1>2

LEMMA SteadyProcess ==
    ASSUME IInv, SteadyInv, Process, steady'
    PROVE  SteadyInv'
<1>t. /\ LoopTypes /\ FetchedTypes /\ CloudTypes /\ NetBoxTypes
  BY Parts DEF IInv
<1>1. PICK done \in Outcomes(listing.vms) :
        /\ nb' = [v \in Vms |-> IF v \in done /\ nb[v] = NoVm THEN Created(v) ELSE nb[v]]
        /\ queue' = [create |-> UNION {listing.disks[v] \ Known(v) : v \in done},
                     delete |-> UNION {Known(v) \ listing.disks[v] : v \in done},
                     update |-> {v \in done \cap InNetBox : Updated(v) # nb[v]}]
        /\ Count(listing.vms, done)
  BY DEF Process
<1>2. done = listing.vms /\ ExactFetch /\ ExactSites /\ ExactVms
  BY <1>1, <1>t, Counted DEF SteadyInv
<1>3. /\ at = "process" /\ at' = "delete" /\ UNCHANGED <<world, always, listing, lost>>
      /\ UNCHANGED <<sites, known, mapped>>
  BY DEF Process, Go, fetch
<1>4. /\ listing.vms = world.vms
      /\ \A v \in world.vms : v \in Vms /\ listing.disks[v] = Attached(v) /\ Platform(v) = "own"
      /\ \A v : \A d \in Attached(v) : OwnerOf[d] = v
  BY <1>2, <1>3, ExactListing DEF Requests, Lists
<1>5. \A v \in Vms : \A site : Site(v, site) = ZoneOf[v]
  BY <1>2, <1>3, ZonesAssumption DEF ExactSites, Past, Site, OrDefault
<1>6. \A v \in Vms : nb[v] # NoVm => v \in world.vms /\ known[v] = nb[v].disks
  BY <1>2, <1>3 DEF ExactVms
<1>n. NoVm.disks = {}
  BY DEF NoVm
<1>7. \A v \in Vms : Known(v) = nb[v].disks
  BY <1>6, <1>n DEF Known
<1>8. \A v \in Vms : nb'[v].disks = nb[v].disks /\ (nb'[v] # NoVm <=> v \in world.vms)
  <2> TAKE v \in Vms
  <2>1. Created(v).disks = {} /\ Created(v) # NoVm
    BY <1>t, VmForms
  <2> QED
    BY <2>1, <1>1, <1>2, <1>4, <1>6, <1>n
<1>9. ASSUME NEW v \in world.vms, v \notin queue'.update
      PROVE  nb'[v].site = ZoneOf[v] /\ nb'[v].platform = "own"
  <2>1. v \in Vms /\ v \in done
    BY <1>2, <1>4
  <2>2. CASE nb[v] = NoVm
    BY <2>1, <2>2, <1>1, <1>t, <1>4, <1>5, VmForms
  <2>3. CASE nb[v] # NoVm
    <3>1. Updated(v) = nb[v]
      BY <2>1, <2>3, <1>1, <1>9 DEF InNetBox
    <3>2. nb'[v] = nb[v]
      BY <2>1, <2>3, <1>1
    <3>3. Updated(v).site = ZoneOf[v] /\ Updated(v).platform = "own"
      BY <2>1, <1>t, <1>4, <1>5, VmForms
    <3> QED
      BY <3>1, <3>2, <3>3
  <2> QED
    BY <2>2, <2>3
<1>10. ExactVms' /\ ExactSites'
  BY <1>2, <1>3, <1>8, <1>9 DEF ExactVms, ExactSites, Past
<1>11. ExactDisks'
  <2>0. \A v : Attached(v)' = Attached(v)
    BY <1>3 DEF Attached
  <2>1. /\ queue'.create = UNION {listing.disks[v] \ Known(v) : v \in world.vms}
        /\ queue'.delete = UNION {Known(v) \ listing.disks[v] : v \in world.vms}
    BY <1>1, <1>2, <1>4
  <2>2. \A v \in world.vms : /\ Attached(v) \ nb'[v].disks \subseteq queue'.create
                             /\ nb'[v].disks \ Attached(v) \subseteq queue'.delete
    BY <2>1, <1>4, <1>7, <1>8
  <2>3. \A d \in queue'.create : d \in Attached(OwnerOf[d])
    BY <2>1, <1>4
  <2>4. \A d : Attached(OwnerOf[d])' = Attached(OwnerOf[d])
    BY <1>3 DEF Attached
  <2> QED
    BY <1>3, <2>0, <2>2, <2>3, <2>4 DEF ExactDisks
<1>12. ExactFetch' /\ SteadySyncRepairs'
  BY <1>2, <1>3, ExactAfter DEF Requests, Lists
<1> QED
  BY <1>10, <1>11, <1>12 DEF SteadyInv

LEMMA SteadyDisks ==
    ASSUME IInv, SteadyInv, DeleteDisks \/ CreateDisks, steady'
    PROVE  SteadyInv'
<1>t. /\ LoopTypes /\ FetchedTypes /\ CloudTypes /\ NetBoxTypes
  BY Parts DEF IInv
<1>o. nb = [v \in Vms |-> nb[v]] /\ \A v \in Vms : nb[v] # NoVm <=> nb[v].platform # "absent"
  BY <1>t, VmForms DEF NetBoxTypes
<1>n. NoVm.platform = "absent" /\ NoVm.disks = {}
  BY DEF NoVm
<1>g. ASSUME at \in {"delete", "create"}, at' \in {"create", "update"}, ExactFetch, ExactSites, ExactVms,
             UNCHANGED <<world, always, listing, lost, sites, mapped, queue>>,
             \A v \in Vms : nb'[v].site = nb[v].site /\ nb'[v].platform = nb[v].platform,
             \A v \in Vms : nb'[v] = NoVm <=> nb[v] = NoVm,
             ExactDisks'
      PROVE  SteadyInv'
  <2>1. ExactFetch' /\ SteadySyncRepairs'
    BY <1>g, ExactAfter DEF Requests, Lists
  <2>2. world.vms \subseteq Vms
    BY <1>t DEF CloudTypes, World
  <2>3. ExactVms' /\ ExactSites'
    BY <1>g, <2>2 DEF ExactVms, ExactSites, Past
  <2> QED
    BY <1>g, <2>1, <2>3 DEF SteadyInv
<1>1. CASE DeleteDisks
  <2>1. PICK done \in Outcomes(queue.delete) :
           /\ nb' = [v \in Vms |-> [nb[v] EXCEPT !.disks = @ \ done]]
           /\ Count(queue.delete, done)
    BY <1>1 DEF DeleteDisks
  <2>2. done = queue.delete /\ ExactFetch /\ ExactSites /\ ExactVms /\ ExactDisks
    BY <2>1, <1>t, Counted DEF SteadyInv
  <2>3. /\ at = "delete" /\ at' = "create" /\ UNCHANGED <<world, always, listing, lost>>
        /\ UNCHANGED <<sites, mapped, queue>>
    BY <1>1 DEF DeleteDisks, Go, fetch
  <2>4. /\ listing.vms = world.vms
        /\ \A v \in world.vms : v \in Vms /\ listing.disks[v] = Attached(v)
        /\ \A v : \A d \in Attached(v) : OwnerOf[d] = v
    BY <2>2, <2>3, ExactListing DEF Requests, Lists
  <2>5. ASSUME NEW v \in Vms
        PROVE  /\ nb'[v].disks = nb[v].disks \ done
               /\ nb'[v].site = nb[v].site /\ nb'[v].platform = nb[v].platform
               /\ nb'[v] = NoVm <=> nb[v] = NoVm
    <3>1. PICK x, D : x = nb[v] /\ D = nb[v].disks \ done
      OBVIOUS
    <3>2. x \in AnyVm /\ D \in SUBSET Disks
      BY <3>1, <1>t, VmForms
    <3>3. nb'[v] = [x EXCEPT !.disks = D]
      BY <2>1, <3>1
    <3>4. nb'[v].disks = D /\ nb'[v].site = x.site /\ nb'[v].platform = x.platform
      BY <3>2, <3>3, DisksForm
    <3>5. nb[v] = NoVm => nb'[v] = NoVm
      BY <3>1, <3>2, <3>3, <1>n, DisksForm
    <3>6. nb'[v] = NoVm => nb[v] = NoVm
      BY <3>1, <3>4, <1>o, <1>n
    <3> QED
      BY <3>1, <3>4, <3>5, <3>6
  <2>6. \A v \in world.vms : \A d \in Attached(v) : d \notin done
    BY <2>2, <2>4 DEF IInv, QueueInv
  <2>7. /\ \A v : Attached(v)' = Attached(v)
        /\ \A d : Attached(OwnerOf[d])' = Attached(OwnerOf[d])
    BY <2>3 DEF Attached
  <2>8. \A v \in world.vms : nb'[v].disks \subseteq Attached(v) /\ Attached(v) \ nb'[v].disks \subseteq queue.create
    BY <2>2, <2>3, <2>4, <2>5, <2>6 DEF ExactDisks
  <2>9. \A d \in queue.create : d \in Attached(OwnerOf[d])
    BY <2>2, <2>3 DEF ExactDisks
  <2>10. ExactDisks'
    BY <2>3, <2>7, <2>8, <2>9 DEF ExactDisks
  <2> QED
    BY <2>2, <2>3, <2>5, <2>10, <1>g
<1>2. CASE CreateDisks
  <2>1. PICK done \in Outcomes(queue.create) :
           /\ nb' = [v \in Vms |-> IF v \in InNetBox
                                   THEN [nb[v] EXCEPT !.disks = @ \cup {d \in done : OwnerOf[d] = v}]
                                   ELSE NoVm]
           /\ Count(queue.create, done)
    BY <1>2 DEF CreateDisks
  <2>2. done = queue.create /\ done \subseteq Disks /\ ExactFetch /\ ExactSites /\ ExactVms /\ ExactDisks
    BY <2>1, <1>t, Counted DEF SteadyInv, NetBoxTypes
  <2>3. /\ at = "create" /\ at' = "update" /\ UNCHANGED <<world, always, listing, lost>>
        /\ UNCHANGED <<sites, mapped, queue>>
    BY <1>2 DEF CreateDisks, Go, fetch
  <2>4. \A v \in world.vms : v \in Vms /\ v \in InNetBox
    BY <2>2, <2>3, ExactListing DEF ExactVms, InNetBox, Requests, Lists
  <2>5. ASSUME NEW v \in Vms
        PROVE  /\ v \in InNetBox => nb'[v].disks = nb[v].disks \cup {d \in done : OwnerOf[d] = v}
               /\ nb'[v].site = nb[v].site /\ nb'[v].platform = nb[v].platform
               /\ nb'[v] = NoVm <=> nb[v] = NoVm
    <3>1. CASE v \in InNetBox
      <4>1. PICK x, D : x = nb[v] /\ D = nb[v].disks \cup {d \in done : OwnerOf[d] = v}
        OBVIOUS
      <4>2. x \in AnyVm /\ D \in SUBSET Disks
        BY <2>2, <4>1, <1>t, VmForms
      <4>3. nb'[v] = [x EXCEPT !.disks = D]
        BY <2>1, <3>1, <4>1
      <4>4. nb'[v].disks = D /\ nb'[v].site = x.site /\ nb'[v].platform = x.platform
        BY <4>2, <4>3, DisksForm
      <4>5. nb[v] # NoVm /\ nb'[v] # NoVm
        BY <3>1, <4>1, <4>4, <1>o, <1>n DEF InNetBox
      <4> QED
        BY <4>1, <4>4, <4>5
    <3>2. CASE v \notin InNetBox
      BY <2>1, <3>2 DEF InNetBox
    <3> QED
      BY <3>1, <3>2
  <2>6. \A v : \A d \in Attached(v) : OwnerOf[d] = v
    BY DEF Attached
  <2>7. \A v \in world.vms : nb'[v].disks = Attached(v)
    <3> TAKE v \in world.vms
    <3>1. nb'[v].disks = nb[v].disks \cup {d \in done : OwnerOf[d] = v}
      BY <2>4, <2>5
    <3>2. nb[v].disks \subseteq Attached(v) /\ Attached(v) \ nb[v].disks \subseteq done
      BY <2>2, <2>3 DEF ExactDisks
    <3>3. \A d \in done : d \in Attached(OwnerOf[d])
      BY <2>2, <2>3 DEF ExactDisks
    <3> QED
      BY <3>1, <3>2, <3>3, <2>6
  <2>8. \A v : Attached(v)' = Attached(v)
    BY <2>3 DEF Attached
  <2>9. ExactDisks'
    BY <2>3, <2>7, <2>8 DEF ExactDisks
  <2> QED
    BY <2>2, <2>3, <2>5, <2>9, <1>g
<1> QED
  BY <1>1, <1>2

\* Between syncs the listing is forgotten; only what is in NetBox counts.
LEMMA ExactEnd ==
    ASSUME Forget, SteadySyncRepairs'
    PROVE  SteadyInv'
<1>1. /\ at' = "idle" /\ listing' = NoListing
  BY DEF Forget
<1>2. ExactFetch'
  BY <1>1 DEF ExactFetch, NoListing, NoDisks, InVms
<1>3. ExactSites' /\ ExactVms' /\ ExactDisks'
  BY <1>1 DEF ExactSites, ExactVms, ExactDisks, Past
<1> QED
  BY <1>2, <1>3 DEF SteadyInv

LEMMA SteadyEnd ==
    ASSUME IInv, SteadyInv, NoVmsListed \/ UpdateVms, steady'
    PROVE  SteadyInv'
<1>t. /\ LoopTypes /\ FetchedTypes /\ CloudTypes /\ NetBoxTypes
  BY Parts DEF IInv
<1>1. CASE NoVmsListed
  <2>1. /\ Forget /\ at = "load" /\ listing.vms = {} /\ world' = world /\ sites' = sites /\ steady
    BY <1>1, Zenon DEF NoVmsListed
  <2>2. ExactFetch /\ ExactSites
    BY <2>1 DEF SteadyInv
  <2>3. world.vms = {} /\ sites = OrDefault(Zones)
    BY <2>1, <2>2, ExactListing DEF ExactSites, Requests, Lists
  <2> QED
    BY <2>1, <2>3, ExactEnd DEF SteadySyncRepairs
<1>2. CASE UpdateVms
  <2>1. PICK done \in Outcomes(queue.update) :
           /\ nb' = [v \in Vms |-> IF v \in done THEN Updated(v) ELSE nb[v]]
           /\ Count(queue.update, done)
    BY <1>2 DEF UpdateVms
  <2>2. done = queue.update /\ ExactFetch /\ ExactSites /\ ExactVms /\ ExactDisks
    BY <2>1, <1>t, Counted DEF SteadyInv
  <2>3. Forget /\ at = "update" /\ world' = world /\ sites' = sites
    BY <1>2 DEF UpdateVms
  <2>4. /\ listing.vms = world.vms
        /\ \A v \in world.vms : v \in Vms /\ Platform(v) = "own"
        /\ \A v : Attached(v) \subseteq Disks
    BY <2>2, <2>3, ExactListing DEF Requests, Lists
  <2>5. queue.update \subseteq world.vms
    BY <2>4 DEF IInv, QueueInv
  <2>6. sites = OrDefault(Zones) /\ mapped = OrDefault(Zones)
    BY <2>2, <2>3 DEF ExactSites, Past
  <2>7. ASSUME NEW v \in world.vms
        PROVE  nb'[v] = [site |-> ZoneOf[v], platform |-> "own", disks |-> Attached(v)]
    <3>1. nb'[v].site = ZoneOf[v] /\ nb'[v].platform = "own"
      <4>1. CASE v \in done
        BY <4>1, <2>1, <2>4, <2>6, <1>t, ZonesAssumption, VmForms DEF Site, OrDefault
      <4>2. CASE v \notin done
        BY <4>2, <2>1, <2>2, <2>3, <2>4 DEF ExactVms
      <4> QED
        BY <4>1, <4>2
    <3>2. nb'[v].disks = Attached(v)
      <4>1. nb[v].disks = Attached(v)
        BY <2>2, <2>3 DEF ExactDisks
      <4> QED
        BY <4>1, <2>1, <2>4, <1>t, VmForms
    <3>3. nb'[v] \in AnyVm
      <4>1. nb[v] \in AnyVm /\ Updated(v) \in VmType
        BY <2>4, <1>t, VmForms
      <4>2. VmType \subseteq AnyVm
        BY DEF VmType, AnyVm
      <4> QED
        BY <4>1, <4>2, <2>1, <2>4
    <3>4. PICK x, y : x = nb'[v] /\ y = [site |-> ZoneOf[v], platform |-> "own", disks |-> Attached(v)]
      OBVIOUS
    <3>5. /\ y \in AnyVm /\ y.site = ZoneOf[v] /\ y.platform = "own" /\ y.disks = Attached(v)
      BY <3>4, <2>4, ZonesAssumption DEF AnyVm, AllZones
    <3> QED
      BY <3>1, <3>2, <3>3, <3>4, <3>5, Fields
  <2>8. \A v \in Vms : v \notin world.vms => nb'[v] = NoVm
    BY <2>1, <2>2, <2>3, <2>5 DEF ExactVms
  <2>9. \A v : Attached(v)' = Attached(v)
    BY <2>3 DEF Attached
  <2>10. SteadySyncRepairs'
    BY <2>3, <2>6, <2>7, <2>8, <2>9 DEF SteadySyncRepairs, MirroredVm
  <2> QED
    BY <2>3, <2>10, ExactEnd
<1> QED
  BY <1>1, <1>2

LEMMA SteadyStep ==
    ASSUME IInv, SitesInv, SteadyInv, [Next]_vars
    PROVE  SteadyInv'
<1> SUFFICES ASSUME steady' PROVE SteadyInv'
  BY Zenon DEF SteadyInv
<1>1. CASE Begin
  <2>1. /\ at = "idle" /\ at' = "zones" /\ always' = world /\ world' = world
        /\ UNCHANGED <<listing, lost>>
    BY <1>1 DEF Begin, Ask
  <2>2. listing = NoListing /\ lost = NothingLost
    BY <2>1 DEF IInv, IdleInv
  <2>3. ExactFetch'
    BY <2>1, <2>2 DEF ExactFetch, NoListing, NoDisks, InVms
  <2> QED
    BY <2>1, <2>3 DEF SteadyInv, ExactSites, ExactVms, ExactDisks, SteadySyncRepairs, Past
<1>2. CASE Fetch
  <2>1. ExactFetch'
    BY <1>2, ExactFetchStep
  <2>2. at' \in Requests \cup {"fetched"}
    <3>1. FetchStep /\ left \in LeftType
      BY <1>2, Parts DEF Fetch, IInv, LoopTypes
    <3>2. at \in Requests
      BY <3>1, FetchCases
    <3> QED
      BY <3>1, <3>2, FetchCases, NextLoops
      DEF Retry, NextPage, Take, TakeClouds, TakeFolders, TakeNetworks, TakeVms, TakeDisks,
          TakeZones, TakeBoot, TakeImage, NoOs, TakeDisk, NoDisk, AppendVm,
          ToVm, ToFolder, ToCloud, Ask, Asked, Requests, Lists
  <2> QED
    BY <2>1, <2>2
    DEF SteadyInv, ExactSites, ExactVms, ExactDisks, SteadySyncRepairs, Past, Requests, Lists
<1>3. CASE Sync
  BY <1>3, SteadySites, SteadyLoad, SteadyProcess, SteadyDisks, SteadyEnd DEF Sync
<1>4. CASE SyncDies \/ Change
  <2>1. steady' = FALSE
    BY <1>4 DEF SyncDies, Change
  <2> QED
    BY <2>1
<1>5. CASE UNCHANGED vars
  <2>1. /\ UNCHANGED <<at, world, always, got, instances, left, listing, lost, steady,
                       sites, nb, mapped, known, queue>>
    BY <1>5 DEF vars, fetch, netbox
  <2>2. vm' = vm /\ \A v : Attached(v)' = Attached(v)
    BY <2>1 DEF vm, Attached
  <2>3. /\ Attached(vm)' = Attached(vm)
        /\ \A d : Attached(OwnerOf[d])' = Attached(OwnerOf[d])
    BY <2>1, <2>2 DEF Attached
  <2>4. steady
    BY <2>1, Zenon
  <2>5. ExactFetch'
    BY <2>1, <2>2, <2>3, <2>4 DEF SteadyInv, ExactFetch
  <2>6. ExactSites' /\ ExactVms'
    BY <2>1, <2>4 DEF SteadyInv, ExactSites, ExactVms
  <2>7. ExactDisks'
    BY <2>1, <2>2, <2>3, <2>4 DEF SteadyInv, ExactDisks
  <2>8. SteadySyncRepairs'
    BY <2>1, <2>2, <2>4 DEF SteadyInv, SteadySyncRepairs, MirroredVm
  <2> QED
    BY <2>5, <2>6, <2>7, <2>8 DEF SteadyInv
<1> QED
  BY <1>1, <1>2, <1>3, <1>4, <1>5 DEF Next

\* One sync in which nothing fails or changes makes of NetBox what the cloud is: its
\* sites, and of each VM the site, the platform and the disks, whatever the syncs
\* before left there, failed or cut short (_sync_provider, sync_vms_optimized).
THEOREM SteadySyncsRepair == Spec => []SteadySyncRepairs
<1>1. Init => IInv /\ SitesInv /\ SteadyInv
  <2>1. Init => steady = FALSE /\ nb = [v \in Vms |-> NoVm]
    BY DEF Init
  <2>2. NoVm.site = NoSite
    BY DEF NoVm
  <2> QED
    BY <2>1, <2>2, Initially DEF SitesInv, SteadyInv
<1>2. IInv /\ SitesInv /\ SteadyInv /\ [Next]_vars => (IInv /\ SitesInv /\ SteadyInv)'
  BY InvStep, SitesStep, SteadyStep
<1>3. IInv /\ SteadyInv => SteadySyncRepairs
  BY Zenon DEF SteadyInv, SteadySyncRepairs
<1> QED
  BY <1>1, <1>2, <1>3, PTL DEF Spec
==============================================================================
