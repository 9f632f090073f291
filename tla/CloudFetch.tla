------------------------------ MODULE CloudFetch ------------------------------
(***************************************************************************)
(* YandexCloudClient.fetch_all_data (providers/yandex.py) with the retries *)
(* of providers/retry.py: one request after another, pages of lists, and   *)
(* what is left of the listing when requests fail.                         *)
(*                                                                         *)
(* A failed request never ends the fetch.  Most failures raise the flag    *)
(* _has_fetch_errors, which spares NetBox the clean-up (sync/engine.py);   *)
(* those of zones, disks and images do not.                                *)
(*                                                                         *)
(* Clouds, folders, VMs and disks are numbered in the order in which the   *)
(* cloud lists them, on pages of any size; a page begins after the last    *)
(* item of the one before (nextPageToken), so what exists all the time is  *)
(* on one of them.                                                         *)
(* VMs come and go, and disks are attached and detached, at any moment.    *)
(* A VM's own platform is what the name of its image tells.  Folders,      *)
(* networks and subnets give clusters and prefixes, SyncEngine's subject:  *)
(* what counts here is whether they could be fetched.                      *)
(***************************************************************************)
EXTENDS Naturals, FiniteSets, FiniteSetsExt

CONSTANTS Zones,         \* the availability zones there are
          DefaultZones,  \* those the client puts in their place
          Clouds, Folders, Vms, Disks,
          CloudOf,       \* [folder -> cloud]
          FolderOf,      \* [VM -> folder]
          BootOf,        \* [VM -> its boot disk]
          OwnerOf,       \* [disk -> the VM it may be attached to]
          Initial,       \* what the cloud may contain at first
          MaxRetries,    \* max_retries of retry_with_backoff
          MaxFailures,   \* bound on the calls that fail for good
          MaxChanges     \* bound on the changes of the cloud

Listed == Clouds \cup Folders \cup Vms \cup Disks

ASSUME ItemsAssumption == Listed \subseteq Nat \ {0}
ASSUME OwnersAssumption ==
    /\ CloudOf \in [Folders -> Clouds] /\ FolderOf \in [Vms -> Folders]
    /\ OwnerOf \in [Disks -> Vms] /\ BootOf \in [Vms -> Disks]
    /\ \A v \in Vms : OwnerOf[BootOf[v]] = v
ASSUME NumbersAssumption ==
    {MaxRetries, MaxFailures, MaxChanges} \subseteq Nat

VARIABLES
    world,     \* the cloud: its VMs and the disks attached to them beside the boot disk
    at,        \* the request in turn, or where the sync is otherwise
    tries,     \* attempts of the request that failed
    mark,      \* pageToken: the last item received
    got,       \* items of the list received so far
    instances, \* the disks of each VM as its page showed them
    left,      \* what the loops have not reached: clouds, folders, VMs, disks
    cache,     \* disk_cache of the folder
    listing,   \* result
    failures, changes,
    always,    \* history: what existed during the whole fetch
    lost       \* history: the requests that failed without a flag

fetch == <<tries, mark, got, instances, left, cache, listing, always, lost>>

AllZones == Zones \cup DefaultZones
Boots    == {BootOf[v] : v \in Vms}
World    == [vms : SUBSET Vms, disks : SUBSET (Disks \ Boots)]

ASSUME InitialAssumption == Initial \subseteq World

NoDisks  == [v \in Vms |-> {}]

NoListing == [zones |-> {}, vms |-> {}, disks |-> NoDisks, os |-> {}, flag |-> FALSE]
NothingLeft == [clouds |-> {}, folders |-> {}, vms |-> {}, disks |-> {}]
NothingLost == [zones |-> FALSE, lists |-> {}, disks |-> {}, images |-> {}]

Lists    == {"clouds", "folders", "vpcs", "subnets", "vms", "disks"}
Requests == Lists \cup {"zones", "boot", "image", "disk"}

\* Where the loops are.
cloud  == Min(left.clouds)
folder == Min(left.folders)
vm     == Min(left.vms)
disk   == Min(left.disks)

\* The disks of a VM: it always has its boot disk.
Attached(v) == {d \in Disks : OwnerOf[d] = v /\ d \in world.disks \cup Boots}

\* A boot disk is deleted with its VM; others are only detached.
Exists(d) == d = BootOf[OwnerOf[d]] => OwnerOf[d] \in world.vms

FetchTypeOK ==
    /\ world \in World
    /\ tries \in 0..MaxRetries /\ mark \in Nat
    /\ got \subseteq Nat /\ cache \subseteq Disks
    /\ instances \in [Vms -> SUBSET Disks]
    /\ left \in [clouds : SUBSET Clouds, folders : SUBSET Folders,
                 vms : SUBSET Vms, disks : SUBSET Disks]
    /\ listing \in [zones : SUBSET AllZones, vms : SUBSET Vms,
                    disks : [Vms -> SUBSET Disks], os : SUBSET Vms, flag : BOOLEAN]
    /\ failures \in 0..MaxFailures /\ changes \in 0..MaxChanges
    /\ always \in World
    /\ lost \in [zones : BOOLEAN, lists : SUBSET Folders,
                 disks : SUBSET Disks, images : SUBSET Vms]

NoFetch ==
    /\ tries = 0 /\ mark = 0 /\ got = {} /\ instances = NoDisks
    /\ left = NothingLeft /\ cache = {} /\ listing = NoListing
    /\ always = world /\ lost = NothingLost

-----------------------------------------------------------------------------
(* Requests *)

\* The next request, with its first page.
Ask(request) == at' = request /\ tries' = 0 /\ mark' = 0 /\ got' = {}

\* No request is due: the disk is in the cache, or the VM has no more of them.
Cached ==
    \/ at = "boot" /\ BootOf[vm] \in cache
    \/ at = "disk" /\ left.disks = {}
    \/ at = "disk" /\ left.disks # {} /\ disk \in cache

\* Mutant: there is always another attempt.
RetryForever ==
    /\ at \in Requests /\ ~Cached
    /\ tries' = (tries + 1) % (MaxRetries + 1)
    /\ UNCHANGED <<world, at, mark, got, instances, left, cache, listing,
                   failures, changes, always, lost>>

\* An attempt fails and another is worth while: a network error, 429 or 5xx.
Retry ==
    /\ at \in Requests /\ ~Cached
    /\ tries < MaxRetries
    /\ tries' = tries + 1
    /\ UNCHANGED <<world, at, mark, got, instances, left, cache, listing,
                   failures, changes, always, lost>>

\* What the list in turn contains at this moment.
Items ==
    CASE at = "clouds"  -> Clouds
      [] at = "folders" -> {f \in Folders : CloudOf[f] = cloud}
      [] at \in {"vpcs", "subnets"} -> {folder}
      [] at = "vms"     -> {v \in world.vms : FolderOf[v] = folder}
      [] at = "disks"   -> {d \in Disks : FolderOf[OwnerOf[d]] = folder /\ Exists(d)}

Rest == {x \in Items : x > mark}

\* The instances of a page with their disks.
Shown(page) ==
    IF at = "vms" THEN [v \in Vms |-> IF v \in page THEN Attached(v) ELSE instances[v]]
    ELSE instances

\* A page, which ends with item m, and a nextPageToken.
NextPage(m) ==
    /\ at \in Lists
    /\ m \in Rest /\ {x \in Rest : x > m} # {}
    /\ LET page == {x \in Rest : x <= m} IN
       got' = got \cup page /\ instances' = Shown(page)
    /\ mark' = m
    /\ tries' = 0
    /\ UNCHANGED <<world, at, left, cache, listing, failures, changes, always, lost>>

-----------------------------------------------------------------------------
(* The loops of fetch_all_data; ok: the list was fetched without an exception *)

\* Mutant: the failure of a folder's VMs raises no flag.
FlaggedExceptVms(ok) == listing.flag \/ (~ok /\ at # "vms")

Flagged(ok) == listing.flag \/ ~ok

\* The next cloud, or the end.
NextCloud(clouds) ==
    /\ left' = [NothingLeft EXCEPT !.clouds = clouds]
    /\ IF clouds = {} THEN Ask("fetched") ELSE Ask("folders")

NextFolder(folders) ==
    IF folders = {} THEN NextCloud(left.clouds \ {cloud})
    ELSE /\ left' = [left EXCEPT !.folders = folders, !.vms = {}, !.disks = {}]
         /\ Ask("vpcs")

\* Of the next VM the boot disk comes first, then all its disks.
NextVm(vms) ==
    IF vms = {} THEN NextFolder(left.folders \ {folder})
    ELSE /\ left' = [left EXCEPT !.vms = vms, !.disks = instances[Min(vms)]]
         /\ Ask("boot")

TakeClouds(items, ok) ==
    /\ at = "clouds"
    /\ listing' = [listing EXCEPT !.flag = Flagged(ok)]
    /\ NextCloud(items)
    /\ UNCHANGED <<cache, lost>>

TakeFolders(items, ok) ==
    /\ at = "folders"
    /\ listing' = [listing EXCEPT !.flag = Flagged(ok)]
    /\ NextFolder(items)
    /\ UNCHANGED <<cache, lost>>

TakeNetworks(ok) ==
    /\ at \in {"vpcs", "subnets"}
    /\ listing' = [listing EXCEPT !.flag = Flagged(ok)]
    /\ Ask(IF at = "vpcs" THEN "subnets" ELSE "vms")
    /\ UNCHANGED <<left, cache, lost>>

\* The disks of a folder are fetched only if it has VMs.
TakeVms(items, ok) ==
    /\ at = "vms"
    /\ listing' = [listing EXCEPT !.flag = Flagged(ok)]
    /\ IF items = {} THEN NextFolder(left.folders \ {folder})
       ELSE left' = [left EXCEPT !.vms = items] /\ Ask("disks")
    /\ cache' = {}
    /\ UNCHANGED lost

\* Without the list each disk is fetched on its own, so nothing is flagged.
TakeDisks(items, ok) ==
    /\ at = "disks"
    /\ cache' = items
    /\ lost' = IF ok THEN lost ELSE [lost EXCEPT !.lists = @ \cup {folder}]
    /\ left' = [left EXCEPT !.disks = instances[vm]]
    /\ Ask("boot")
    /\ UNCHANGED listing

\* Zones are no list of pages; if they fail, default zones take their place.
TakeZones(zones, ok) ==
    /\ at = "zones"
    /\ listing' = [listing EXCEPT !.zones = zones]
    /\ lost' = [lost EXCEPT !.zones = ~ok]
    /\ Ask("clouds")
    /\ UNCHANGED <<left, cache>>

\* The boot disk is in the cache, or is fetched now.
TakeBoot ==
    /\ at = "boot"
    /\ cache' = cache \cup {BootOf[vm]}
    /\ Ask("image")
    /\ UNCHANGED <<left, listing, lost>>

\* The image's name is the VM's OS.
TakeImage ==
    /\ at = "image"
    /\ listing' = [listing EXCEPT !.os = @ \cup {vm}]
    /\ Ask("disk")
    /\ UNCHANGED <<left, cache, lost>>

\* Without boot disk or image the OS is unknown.
NoOs ==
    /\ at \in {"boot", "image"}
    /\ lost' = [lost EXCEPT !.images = @ \cup {vm},
                            !.disks = IF at = "boot" THEN @ \cup {BootOf[vm]} ELSE @]
    /\ Ask("disk")
    /\ UNCHANGED <<left, cache, listing>>

TakeDisk ==
    /\ at = "disk" /\ left.disks # {}
    /\ cache' = cache \cup {disk}
    /\ listing' = [listing EXCEPT !.disks[vm] = @ \cup {disk}]
    /\ left' = [left EXCEPT !.disks = @ \ {disk}]
    /\ Ask("disk")
    /\ UNCHANGED lost

\* A disk that could not be fetched is left out.
NoDisk ==
    /\ at = "disk" /\ left.disks # {}
    /\ lost' = [lost EXCEPT !.disks = @ \cup {disk}]
    /\ left' = [left EXCEPT !.disks = @ \ {disk}]
    /\ Ask("disk")
    /\ UNCHANGED <<cache, listing>>

\* The VM is complete.
AppendVm ==
    /\ at = "disk" /\ left.disks = {}
    /\ listing' = [listing EXCEPT !.vms = @ \cup {vm}]
    /\ NextVm(left.vms \ {vm})
    /\ UNCHANGED <<cache, lost>>

\* What is asked for does not exist any more.
Gone == \/ at = "boot" /\ ~Exists(BootOf[vm])
        \/ at = "disk" /\ left.disks # {} /\ ~Exists(disk)

Take(items, ok) ==
    \/ TakeClouds(items, ok) \/ TakeFolders(items, ok) \/ TakeNetworks(ok)
    \/ TakeVms(items, ok) \/ TakeDisks(items, ok)

\* The last page arrives, or the one thing asked for, or it need not be asked for.
Answer ==
    /\ \/ Take(got \cup Rest, TRUE)
       \/ TakeZones(Zones, TRUE) \/ TakeImage \/ AppendVm
       \/ (Cached \/ ~Gone) /\ (TakeBoot \/ TakeDisk)
    /\ instances' = Shown(Rest)
    /\ UNCHANGED <<world, failures, changes, always>>

\* All attempts failed, or one with an error that no attempt will cure; pages that
\* were received are lost.
Fails ==
    /\ at \in Requests /\ ~Cached
    /\ failures < MaxFailures \/ Gone
    /\ Take({}, FALSE) \/ TakeZones(DefaultZones, FALSE) \/ NoOs \/ NoDisk
    /\ failures' = IF Gone THEN failures ELSE failures + 1
    /\ UNCHANGED <<world, instances, changes, always>>

\* The cloud changes: what was not there all the time may be missed.
CloudChanges ==
    /\ changes < MaxChanges
    /\ \/ \E v \in Vms : world' = [world EXCEPT !.vms = SymDiff(@, {v})]
       \/ \E d \in Disks \ Boots : world' = [world EXCEPT !.disks = SymDiff(@, {d})]
    /\ always' = [vms |-> always.vms \cap world'.vms,
                  disks |-> always.disks \cap world'.disks]
    /\ changes' = changes + 1
    /\ UNCHANGED <<at, tries, mark, got, instances, left, cache, listing, failures, lost>>

FetchStep == Retry \/ (\E m \in Listed : NextPage(m)) \/ Answer \/ Fails
==============================================================================
