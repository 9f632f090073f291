----------------------------- MODULE CloudMirror -----------------------------
(***************************************************************************)
(* What NetBox becomes of the listings of CloudFetch: the sites, and of    *)
(* each VM its site, platform and disks (sync/infrastructure.py and        *)
(* sync/batch.py; clusters, prefixes and addresses are in SyncEngine and   *)
(* BatchSync).                                                             *)
(*                                                                         *)
(* One account syncs again and again.  A step that calls NetBox for each   *)
(* object of a set may fail for any of them, which is logged and passed    *)
(* over, and the whole sync may end at any point: an exception of the      *)
(* engine, or the end of the process.                                      *)
(* NetBox, the external part, refuses to delete a site that has VMs and a  *)
(* second disk of a VM with the same name.                                 *)
(***************************************************************************)
EXTENDS CloudFetch

CONSTANTS ZoneOf,  \* [VM -> its zone]
          NoSite

ASSUME ZonesAssumption == ZoneOf \in [Vms -> Zones] /\ NoSite \notin AllZones

VARIABLES
    sites,   \* sites in NetBox, each of a zone
    nb,      \* VMs in NetBox
    mapped,  \* id_mapping["zones"]
    known,   \* the cache: disks of each VM as they were loaded
    queue,   \* disks to create and to delete, VMs to update
    steady   \* history: nothing has failed or changed since the fetch began

netbox == <<sites, nb, mapped, known, queue>>
vars   == <<world, at, fetch, failures, changes, netbox, steady>>

NoVm     == [site |-> NoSite, platform |-> "absent", disks |-> {}]
InNetBox == {v \in Vms : nb[v] # NoVm}
NoQueue  == [create |-> {}, delete |-> {}, update |-> {}]

TypeOK ==
    /\ FetchTypeOK
    /\ at \in Requests \cup {"idle", "fetched", "ensure", "load", "orphans", "process",
                             "delete", "create", "update"}
    /\ sites \subseteq AllZones
    /\ nb \in [Vms -> {NoVm} \cup [site : AllZones \cup {NoSite},
                                   platform : {"own", "linux"}, disks : SUBSET Disks]]
    /\ mapped \subseteq AllZones
    /\ known \in [Vms -> SUBSET Disks]
    /\ queue \in [create : SUBSET Disks, delete : SUBSET Disks, update : SUBSET Vms]
    /\ steady \in BOOLEAN

Init ==
    /\ world \in Initial
    /\ at = "idle"
    /\ NoFetch
    /\ failures = 0 /\ changes = 0
    /\ sites = {} /\ nb = [v \in Vms |-> NoVm]
    /\ mapped = {} /\ known = NoDisks /\ queue = NoQueue
    /\ steady = FALSE

\* The sync ends and forgets all it knew of the cloud and of NetBox.
Forget ==
    /\ at' = "idle"
    /\ tries' = 0 /\ mark' = 0 /\ got' = {} /\ instances' = NoDisks
    /\ left' = NothingLeft /\ cache' = {} /\ listing' = NoListing
    /\ always' = world /\ lost' = NothingLost
    /\ mapped' = {} /\ known' = NoDisks /\ queue' = NoQueue

\* The sync begins with the request for the zones.
Begin ==
    /\ at = "idle"
    /\ Ask("zones")
    /\ always' = world
    /\ steady' = TRUE
    /\ UNCHANGED <<world, instances, left, cache, listing, lost, failures, changes, netbox>>

Fetch ==
    /\ FetchStep
    /\ steady' = (steady /\ failures' = failures)
    /\ UNCHANGED netbox

-----------------------------------------------------------------------------
(* Steps that call NetBox once for each object of a set *)

\* What may be done of it: all, or all but those that fail, which count as one failure.
Outcomes(objects) == IF failures < MaxFailures THEN SUBSET objects ELSE {objects}

Count(objects, done) ==
    /\ failures' = IF done = objects THEN failures ELSE failures + 1
    /\ steady' = (steady /\ done = objects)

Go(step) == at' = step /\ UNCHANGED <<world, fetch, changes>>

\* "Skipping orphan cleanup ... because some API calls failed"
Cleanup == ~listing.flag

\* Sites without VMs whose zone is not listed.
OrphanSites ==
    IF Cleanup THEN {z \in sites \ listing.zones : \A v \in Vms : nb[v].site # z} ELSE {}

CleanSites ==
    /\ at = "fetched"
    /\ \E done \in Outcomes(OrphanSites) :
          /\ sites' = sites \ done
          /\ Count(OrphanSites, done)
    /\ Go("ensure")
    /\ UNCHANGED <<nb, mapped, known, queue>>

\* "Using default zones as none were fetched from API"
OrDefault(zones) == IF zones = {} THEN DefaultZones ELSE zones

\* A site that cannot be ensured has no entry in the mapping.
EnsureSites ==
    /\ at = "ensure"
    /\ \E done \in Outcomes(OrDefault(listing.zones)) :
          /\ sites' = sites \cup done
          /\ mapped' = done
          /\ Count(OrDefault(listing.zones), done)
    /\ Go("load")
    /\ UNCHANGED <<nb, known, queue>>

\* load_netbox_data: if the disks cannot be loaded, no VM seems to have any.
Load ==
    /\ at = "load" /\ listing.vms # {}
    /\ \E done \in Outcomes({"disks"}) :
          /\ known' = IF done = {} THEN NoDisks ELSE [v \in Vms |-> nb[v].disks]
          /\ Count({"disks"}, done)
    /\ Go("orphans")
    /\ UNCHANGED <<sites, nb, mapped, queue>>

Orphans == IF Cleanup THEN InNetBox \ listing.vms ELSE {}

DeleteOrphans ==
    /\ at = "orphans"
    /\ \E done \in Outcomes(Orphans) :
          /\ nb' = [v \in Vms |-> IF v \in done THEN NoVm ELSE nb[v]]
          /\ Count(Orphans, done)
    /\ Go("process")
    /\ UNCHANGED <<sites, mapped, known, queue>>

\* The platform that detect_platform_slug gives: linux, if the OS is unknown.
Platform(v) == IF v \in listing.os THEN "own" ELSE "linux"

\* The site of VM v, which keeps the old one if its zone has no entry.
Site(v, site) == IF ZoneOf[v] \in mapped THEN ZoneOf[v] ELSE site

\* Mutant: the platform is written when the VM is created and never again.
UpdatedSite(v) == [nb[v] EXCEPT !.site = Site(v, @)]

Updated(v) == [nb[v] EXCEPT !.site = Site(v, @), !.platform = Platform(v)]

Created(v) == [site |-> Site(v, NoSite), platform |-> Platform(v), disks |-> {}]

\* The disks the cache has of v; of a VM that was created just now, none.
Known(v) == IF nb[v] = NoVm THEN {} ELSE known[v]

\* A VM that cannot be created or compared is passed over with all its updates.
Process ==
    /\ at = "process"
    /\ \E done \in Outcomes(listing.vms) :
          /\ nb' = [v \in Vms |-> IF v \in done /\ nb[v] = NoVm THEN Created(v) ELSE nb[v]]
          /\ queue' = [create |-> UNION {listing.disks[v] \ Known(v) : v \in done},
                       delete |-> UNION {Known(v) \ listing.disks[v] : v \in done},
                       update |-> {v \in done \cap InNetBox : Updated(v) # nb[v]}]
          /\ Count(listing.vms, done)
    /\ Go("delete")
    /\ UNCHANGED <<sites, mapped, known>>

DeleteDisks ==
    /\ at = "delete"
    /\ \E done \in Outcomes(queue.delete) :
          /\ nb' = [v \in Vms |-> [nb[v] EXCEPT !.disks = @ \ done]]
          /\ Count(queue.delete, done)
    /\ Go("create")
    /\ UNCHANGED <<sites, mapped, known, queue>>

CreateDisks ==
    /\ at = "create"
    /\ \E done \in Outcomes(queue.create) :
          /\ nb' = [v \in Vms |-> IF v \in InNetBox
                                  THEN [nb[v] EXCEPT !.disks =
                                            @ \cup {d \in done : OwnerOf[d] = v}]
                                  ELSE NoVm]
          /\ Count(queue.create, done)
    /\ Go("update")
    /\ UNCHANGED <<sites, mapped, known, queue>>

\* The last step of the sync.
UpdateVms ==
    /\ at = "update"
    /\ \E done \in Outcomes(queue.update) :
          /\ nb' = [v \in Vms |-> IF v \in done THEN Updated(v) ELSE nb[v]]
          /\ Count(queue.update, done)
    /\ Forget
    /\ UNCHANGED <<world, changes, sites>>

\* A listing without VMs: nothing more is done.
NoVmsListed ==
    /\ at = "load" /\ listing.vms = {}
    /\ Forget
    /\ UNCHANGED <<world, failures, changes, sites, nb, steady>>

\* An exception that nobody catches on the way, or the end of the process.
SyncDies ==
    /\ at # "idle"
    /\ failures < MaxFailures
    /\ Forget
    /\ failures' = failures + 1
    /\ steady' = FALSE
    /\ UNCHANGED <<world, changes, sites, nb>>

Change == CloudChanges /\ steady' = FALSE /\ UNCHANGED netbox

Sync == \/ CleanSites \/ EnsureSites \/ Load \/ NoVmsListed \/ DeleteOrphans
        \/ Process \/ DeleteDisks \/ CreateDisks \/ UpdateVms

Next == Begin \/ Fetch \/ Sync \/ SyncDies \/ Change

Spec == Init /\ [][Next]_vars

\* Requests to the cloud time out and attempts follow one another.
FairSpec == Spec /\ WF_vars(Fetch)

-----------------------------------------------------------------------------
(* Properties *)

\* Nothing that exists is lost without a failure that explains it: a VM never, for
\* every failed request that may hide one forbids the clean-up; a disk only if the
\* list of the folder's disks and the request for the disk failed, too; a site only
\* if the zones failed; and a platform becomes "linux" only if the boot disk or the
\* image failed (fetch_all_data, _sync_provider, _process_vm_disks).
LossesAreExplained ==
    [][/\ \A v \in always.vms : nb[v] # NoVm => nb'[v] # NoVm
       /\ \A v \in always.vms : \A d \in nb[v].disks \ nb'[v].disks :
             d = BootOf[v] \/ d \in always.disks =>
                 FolderOf[v] \in lost.lists /\ d \in lost.disks
       /\ sites \cap Zones \subseteq sites' \/ lost.zones
       /\ \A v \in always.vms :
             nb[v].platform # "linux" /\ nb'[v].platform = "linux" => v \in lost.images]_vars

\* One sync in which nothing fails or changes repairs what failures before it left:
\* lost disks, platforms and sites, and sites of zones that do not exist.  It does
\* not if the cloud has no VMs: then nothing is synced.
MirroredVm(v) ==
    IF v \in world.vms
    THEN nb[v] = [site |-> ZoneOf[v], platform |-> "own", disks |-> Attached(v)]
    ELSE nb[v] = NoVm

SteadySyncRepairs ==
    at = "idle" /\ steady =>
        /\ sites = OrDefault(Zones)
        /\ world.vms # {} => \A v \in Vms : MirroredVm(v)

\* A fetch ends, whatever fails: neither pages nor attempts go on for ever.
FetchEnds == at \in Requests ~> at \notin Requests
==============================================================================
