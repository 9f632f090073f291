----------------------------- MODULE SyncEngine -----------------------------
(***************************************************************************)
(* SyncEngine.run (sync/engine.py) over several accounts: what it creates, *)
(* moves and deletes in one NetBox, and what the scheduler records of it.  *)
(*                                                                         *)
(* Accounts are synced one after the other.  For each, the engine fetches  *)
(* the account's data, deletes clusters and prefixes that are gone         *)
(* (cleanup.py), ensures clusters and prefixes (infrastructure.py), then   *)
(* deletes orphaned VMs, creates and moves the listed ones (batch.py).     *)
(* Accounts share NetBox: what belongs to whom is told by the tag of the   *)
(* provider's type and the cloud name that begins a cluster's name.        *)
(*                                                                         *)
(* Interfaces and addresses are BatchSync's subject.  Sites are not        *)
(* modelled: all accounts of a type have the same zones.  One process      *)
(* syncs at a time.                                                        *)
(*                                                                         *)
(* NetBox, the external part, refuses to delete a cluster that has VMs.    *)
(***************************************************************************)
EXTENDS Naturals, Sequences, FiniteSets

CONSTANTS Providers,   \* the active accounts, in the order they are synced
          TypeOf,      \* [account -> type of its provider]
          Names,       \* names of VMs
          Folders,     \* folders of all clouds, each a cluster in NetBox
          CloudOf,     \* [folder -> cloud]
          OwnerOf,     \* [cloud -> account]
          Worlds,      \* what the clouds may look like: see WorldsAssumption
          NoFolder,
          MaxFailures, \* bound on the steps in which something fails
          MaxChanges   \* bound on the changes of the clouds

Types    == {"yandex_cloud", "vcloud"}
Accounts == {Providers[i] : i \in DOMAIN Providers}
Own(a)   == {f \in Folders : OwnerOf[CloudOf[f]] = a}

\* A listing of VMs: the folder of each, NoFolder for what does not exist.
Vms == [Names -> Folders \cup {NoFolder}]
In(vms) == {n \in Names : vms[n] # NoFolder}

\* What exists: the folders and the VMs of each account.
World == [folders : [Accounts -> SUBSET Folders], vms : [Accounts -> Vms]]

ASSUME ProvidersAssumption ==
    /\ Providers \in Seq(Accounts) /\ Len(Providers) > 0
    /\ \A i, j \in DOMAIN Providers : Providers[i] = Providers[j] => i = j
    /\ TypeOf \in [Accounts -> Types]
ASSUME FoldersAssumption ==
    /\ NoFolder \notin Folders
    /\ \A f \in Folders : OwnerOf[CloudOf[f]] \in Accounts
\* Each account has folders of its own clouds, and its VMs are in them; a
\* folder of vCloud is known by its VMs only.
ASSUME WorldsAssumption ==
    \A w \in Worlds :
        /\ w \in World
        /\ \A a \in Accounts :
              /\ w.folders[a] \subseteq Own(a)
              /\ \A n \in In(w.vms[a]) : w.vms[a][n] \in w.folders[a]
              /\ TypeOf[a] = "vcloud" =>
                    w.folders[a] = {w.vms[a][n] : n \in In(w.vms[a])}
ASSUME BoundsAssumption == MaxFailures \in Nat /\ MaxChanges \in Nat

VARIABLES
    world,     \* the clouds
    nb,        \* VMs in NetBox: tag and cluster
    clusters,  \* the tag of each folder's cluster in NetBox
    prefixes,  \* the tag of the prefix of each folder's subnet
    phase,     \* what the engine does next
    turn,      \* position of the account it does it for
    tags,      \* _sync_tag_cache: types whose tag is known
    listing,   \* the account's data
    mapped,    \* id_mapping["folders"]
    left,      \* listed VMs that are not processed yet
    moves,     \* vms_to_update: VMs whose cluster is to change
    vmErrors,  \* vm_errors of the account
    synced,    \* synced_vms of the account
    stats,     \* all_stats, by type
    rows,      \* names of the VM rows there were when errors were stored, till Begin
    dbErrors,  \* names of VM rows with a last_sync_error
    failures, changes,
    steady,    \* history: nothing failed and nothing changed in this sync
    clean,     \* history: number of completed steady syncs since something did
    failed,    \* history: the VMs of each account that failed in this sync
    seen       \* history: the account's VMs at the time of the fetch

netbox  == <<nb, clusters, prefixes>>
account == <<listing, mapped, left, moves, vmErrors, synced, seen>>
vars    == <<world, netbox, phase, turn, tags, account, stats, rows, dbErrors,
             failures, changes, steady, clean, failed>>

\* Bound on clean: further syncs are alike.
MaxClean == 2

Tags  == Types \cup {"untagged"}
NoVm  == [tag |-> "absent", cluster |-> NoFolder]
InNetBox == {n \in Names : nb[n] # NoVm}

Nothing   == [errors |-> {}, synced |-> {}]
NoListing == [folders |-> {}, vms |-> [n \in Names |-> NoFolder], whole |-> FALSE]

\* The data of account a, entire.
Whole(a) == [folders |-> world.folders[a], vms |-> world.vms[a], whole |-> TRUE]

cur  == Providers[turn]
type == TypeOf[cur]
Listed == In(listing.vms)

Phases == {"idle", "fetch", "tag", "cleanup", "clusters", "prefixes", "load",
           "orphans", "vms", "moves", "store"}

TypeOK ==
    /\ world \in World
    /\ nb \in [Names -> {NoVm} \cup [tag : Tags, cluster : Folders \cup {NoFolder}]]
    /\ clusters \in [Folders -> Tags \cup {"absent"}]
    /\ prefixes \in [Folders -> Tags \cup {"absent"}]
    /\ phase \in Phases
    /\ turn \in DOMAIN Providers
    /\ tags \subseteq Types
    /\ listing \in [folders : SUBSET Folders, vms : Vms, whole : BOOLEAN]
    /\ mapped \subseteq listing.folders
    /\ left \subseteq Listed /\ moves \subseteq Listed
    /\ vmErrors \subseteq Listed /\ synced \subseteq Listed
    /\ stats \in [Types -> [errors : SUBSET Names, synced : SUBSET Names]]
    /\ rows \subseteq Names /\ dbErrors \subseteq Names
    /\ failures \in 0..MaxFailures /\ changes \in 0..MaxChanges
    /\ steady \in BOOLEAN /\ clean \in 0..MaxClean
    /\ failed \in [Accounts -> SUBSET Names]
    /\ seen \in Vms

NoAccount ==
    /\ listing = NoListing
    /\ mapped = {} /\ left = {} /\ moves = {} /\ vmErrors = {} /\ synced = {}
    /\ seen = NoListing.vms

\* NetBox may know VMs that somebody else created.
Init ==
    /\ world \in Worlds
    /\ nb \in [Names -> {NoVm, [tag |-> "untagged", cluster |-> NoFolder]}]
    /\ clusters = [f \in Folders |-> "absent"]
    /\ prefixes = [f \in Folders |-> "absent"]
    /\ phase = "idle" /\ turn = 1 /\ tags = {}
    /\ NoAccount
    /\ stats = [t \in Types |-> Nothing]
    /\ rows = {} /\ dbErrors = {}
    /\ failures = 0 /\ changes = 0
    /\ steady = FALSE /\ clean = 0
    /\ failed = [a \in Accounts |-> {}]

-----------------------------------------------------------------------------
(* Outcomes.  A step in which calls fail counts once, however many do: an  *)
(* outage takes what it takes.                                             *)

Works == UNCHANGED <<failures, steady, clean>>

Fails ==
    /\ failures < MaxFailures
    /\ failures' = failures + 1
    /\ steady' = FALSE /\ clean' = 0

\* The objects in bad are those the step fails for.
Outcome(bad) == IF bad = {} THEN Works ELSE Fails

\* The phase over, the engine goes on with the next one for the same account.
Go(next) == phase' = next /\ UNCHANGED turn

ForgetAccount ==
    /\ listing' = NoListing
    /\ mapped' = {} /\ left' = {} /\ moves' = {} /\ vmErrors' = {} /\ synced' = {}
    /\ seen' = NoListing.vms

\* The engine is through with the account and takes the next.
Leave(s) ==
    /\ stats' = [stats EXCEPT ![type] = s]   \* all_stats[profile.key]
    /\ IF turn < Len(Providers)
       THEN turn' = turn + 1 /\ phase' = "fetch"
       ELSE phase' = "store" /\ UNCHANGED turn
    /\ ForgetAccount

\* ensure_sync_tag of a phase after "tag": once known the tag stays known.
TagKnown(known) ==
    /\ known \in (IF type \in tags THEN {TRUE} ELSE BOOLEAN)
    /\ tags' = IF known THEN tags \cup {type} ELSE tags

\* The tag an object gets that has tag old.
Tagged(old, known) ==
    IF known THEN type ELSE IF old = "absent" THEN "untagged" ELSE old

-----------------------------------------------------------------------------
(* The engine: _run_netbox_sync, run and _sync_provider. *)

Begin ==
    /\ phase = "idle"
    /\ phase' = "fetch" /\ turn' = 1 /\ tags' = {}
    /\ stats' = [t \in Types |-> Nothing]
    /\ rows' = {} /\ steady' = TRUE
    /\ failed' = [a \in Accounts |-> {}]
    /\ UNCHANGED <<world, netbox, account, dbErrors, failures, changes, clean>>

\* fetch_all_data answers.
Fetch ==
    /\ phase = "fetch" /\ Go("tag")
    /\ listing' = Whole(cur) /\ seen' = world.vms[cur]
    /\ Works
    /\ UNCHANGED <<world, netbox, tags, mapped, left, moves, vmErrors, synced,
                   stats, rows, dbErrors, changes, failed>>

\* fetch_all_data of Yandex Cloud leaves out the folders of some clouds, and
\* the VMs of some folders, whose requests failed: _has_fetch_errors.
FetchPart ==
    /\ phase = "fetch" /\ type = "yandex_cloud" /\ Go("tag")
    /\ \E clouds \in SUBSET {CloudOf[f] : f \in world.folders[cur]} :
       LET folders == {f \in world.folders[cur] : CloudOf[f] \notin clouds} IN
       \E listedIn \in SUBSET folders :
          listing' = [folders |-> folders,
                      vms |-> [n \in Names |->
                                 IF world.vms[cur][n] \in listedIn
                                 THEN world.vms[cur][n] ELSE NoFolder],
                      whole |-> FALSE]
    /\ seen' = world.vms[cur]
    /\ Fails
    /\ UNCHANGED <<world, netbox, tags, mapped, left, moves, vmErrors, synced,
                   stats, rows, dbErrors, changes, failed>>

\* ensure_sync_tag: found or created.
EnsureTag ==
    /\ phase = "tag" /\ Go("cleanup")
    /\ tags' = tags \cup {type}
    /\ Works
    /\ UNCHANGED <<world, netbox, account, stats, rows, dbErrors, changes, failed>>

\* ensure_sync_tag: neither, 0 is returned and nothing cached.
TagFails ==
    /\ phase = "tag" /\ type \notin tags /\ Go("cleanup")
    /\ Fails
    /\ UNCHANGED <<world, netbox, tags, account, stats, rows, dbErrors, changes, failed>>

\* An exception leaves _sync_provider: from fetch_all_data, ensure_tenant,
\* ensure_cluster_type or load_netbox_data.  run notes "sync failed", which
\* has neither vm_errors nor synced_vms, and goes on.
ProviderFails ==
    /\ phase \in {"fetch", "tag", "clusters", "load"}
    /\ Fails
    /\ Leave(Nothing)
    /\ UNCHANGED <<world, netbox, tags, rows, dbErrors, changes, failed>>

-----------------------------------------------------------------------------
(* Infrastructure: cleanup_orphaned_infrastructure, sync_infrastructure. *)

\* _extract_cloud_names
CloudNames == {CloudOf[f] : f \in listing.folders}

\* if cloud_names and not _belongs_to_clouds(...): continue
InScope(f) == CloudNames = {} \/ CloudOf[f] \in CloudNames

\* Mutant: clusters, like prefixes, are skipped when there are cloud names.
MutantOrphanClusters ==
    {f \in Folders : clusters[f] = type /\ CloudNames = {} /\ f \notin listing.folders}

OrphanClusters ==
    {f \in Folders : clusters[f] = type /\ InScope(f) /\ f \notin listing.folders}
\* The subnets listed are those of the folders listed; vCloud lists none.
Subnets == IF type = "vcloud" THEN {} ELSE listing.folders
OrphanPrefixes ==
    IF CloudNames # {} THEN {} ELSE {f \in Folders : prefixes[f] = type} \ Subnets
Deletable == {f \in OrphanClusters : \A n \in Names : nb[n].cluster # f}

\* Clusters with VMs are refused, which is logged and no failure.
CleanInfrastructure ==
    /\ phase = "cleanup" /\ Go("clusters")
    /\ \E known \in BOOLEAN :
       /\ TagKnown(known)
       /\ IF listing.whole /\ known
          THEN \E badC \in SUBSET Deletable, badP \in SUBSET OrphanPrefixes :
               /\ Outcome(badC \cup badP)
               /\ clusters' = [f \in Folders |-> IF f \in Deletable \ badC
                                                 THEN "absent" ELSE clusters[f]]
               /\ prefixes' = [f \in Folders |-> IF f \in OrphanPrefixes \ badP
                                                 THEN "absent" ELSE prefixes[f]]
          ELSE Works /\ UNCHANGED <<clusters, prefixes>>
    /\ UNCHANGED <<world, nb, account, stats, rows, dbErrors, changes, failed>>

\* ensure_cluster for each folder; one that raises is not mapped.
EnsureClusters ==
    /\ phase = "clusters" /\ Go("prefixes")
    /\ \E known \in BOOLEAN, bad \in SUBSET listing.folders :
       /\ TagKnown(known)
       /\ Outcome(bad)
       /\ mapped' = listing.folders \ bad
       /\ clusters' = [f \in Folders |-> IF f \in listing.folders \ bad
                                         THEN Tagged(clusters[f], known) ELSE clusters[f]]
    /\ UNCHANGED <<world, nb, prefixes, listing, left, moves, vmErrors, synced,
                   seen, stats, rows, dbErrors, changes, failed>>

\* ensure_prefix for each subnet.
EnsurePrefixes ==
    /\ phase = "prefixes" /\ Go("load")
    /\ \E known \in BOOLEAN, bad \in SUBSET Subnets :
       /\ TagKnown(known)
       /\ Outcome(bad)
       /\ prefixes' = [f \in Folders |-> IF f \in Subnets \ bad
                                         THEN Tagged(prefixes[f], known) ELSE prefixes[f]]
    /\ UNCHANGED <<world, nb, clusters, account, stats, rows, dbErrors, changes, failed>>

-----------------------------------------------------------------------------
(* VMs: sync_vms_optimized.  Nobody else writes to NetBox, so its cache is *)
(* nb at this point.                                                       *)

\* Without VMs, sync_vms_optimized returns before it looks for orphans.
NoVmsListed ==
    /\ phase = "load" /\ Listed = {}
    /\ Works
    /\ Leave(Nothing)
    /\ UNCHANGED <<world, netbox, tags, rows, dbErrors, changes, failed>>

Load ==
    /\ phase = "load" /\ Listed # {} /\ Go("orphans")
    /\ left' = Listed
    /\ Works
    /\ UNCHANGED <<world, netbox, tags, listing, mapped, moves, vmErrors, synced,
                   seen, stats, rows, dbErrors, changes, failed>>

\* Mutant: only the clusters of folders that exist are looked at.
MutantOrphans ==
    {n \in InNetBox : /\ nb[n].tag = type
                      /\ nb[n].cluster \in listing.folders
                      /\ n \notin Listed}

Orphans ==
    {n \in InNetBox : /\ nb[n].tag = type
                      /\ nb[n].cluster # NoFolder /\ InScope(nb[n].cluster)
                      /\ n \notin Listed}

\* Mutant: orphans are deleted after fetch errors, too.
MutantDeleteOrphans ==
    /\ phase = "orphans" /\ Go("vms")
    /\ nb' = [n \in Names |-> IF n \in Orphans THEN NoVm ELSE nb[n]]
    /\ Works
    /\ UNCHANGED <<world, clusters, prefixes, tags, account, stats, rows, dbErrors,
                   changes, failed>>

DeleteOrphans ==
    /\ phase = "orphans" /\ Go("vms")
    /\ \E known \in BOOLEAN :
       /\ TagKnown(known)
       /\ IF listing.whole /\ known
          THEN \E bad \in SUBSET Orphans :
               /\ Outcome(bad)
               /\ nb' = [n \in Names |-> IF n \in Orphans \ bad THEN NoVm ELSE nb[n]]
          ELSE Works /\ UNCHANGED nb
    /\ UNCHANGED <<world, clusters, prefixes, account, stats, rows, dbErrors, changes,
                   failed>>

\* Mutant: a VM in the wrong cluster is not moved.
MutantMoved(n) == FALSE

Moved(n) == listing.vms[n] \in mapped /\ nb[n].cluster # listing.vms[n]

\* process_vm_updates of a VM that NetBox knows, whoever created it.
UpdateVm(n) ==
    /\ phase = "vms" /\ n \in left \cap InNetBox
    /\ left' = left \ {n}
    /\ moves' = IF Moved(n) THEN moves \cup {n} ELSE moves
    /\ synced' = synced \cup {n}
    /\ Works
    /\ UNCHANGED <<world, netbox, phase, turn, tags, listing, mapped, vmErrors,
                   seen, stats, rows, dbErrors, changes, failed>>

\* It raises in ensure_tenant, before it queues anything.
UpdateVmFails(n) ==
    /\ phase = "vms" /\ n \in left \cap InNetBox
    /\ left' = left \ {n}
    /\ vmErrors' = vmErrors \cup {n}
    /\ failed' = [failed EXCEPT ![cur] = @ \cup {n}]
    /\ Fails
    /\ UNCHANGED <<world, netbox, phase, turn, tags, listing, mapped, moves, synced,
                   seen, stats, rows, dbErrors, changes>>

\* prepare_vm_data and create_vm.  The cluster of a folder that is not mapped
\* is ensured on the fly, and again for the next VM.
CreateVm(n) ==
    /\ phase = "vms" /\ n \in left \ InNetBox
    /\ left' = left \ {n}
    /\ synced' = synced \cup {n}
    /\ \E known \in BOOLEAN :
       /\ TagKnown(known)
       /\ nb' = [nb EXCEPT ![n] = [tag |-> Tagged("absent", known),
                                   cluster |-> listing.vms[n]]]
       /\ clusters' = IF listing.vms[n] \in mapped THEN clusters
                      ELSE [clusters EXCEPT ![listing.vms[n]] = Tagged(@, known)]
    /\ \/ Works /\ UNCHANGED <<vmErrors, failed>>
       \* process_vm_updates raises for the VM just created
       \/ /\ Fails
          /\ vmErrors' = vmErrors \cup {n}
          /\ failed' = [failed EXCEPT ![cur] = @ \cup {n}]
    /\ UNCHANGED <<world, prefixes, phase, turn, listing, mapped, moves,
                   seen, stats, rows, dbErrors, changes>>

\* prepare_vm_data raises, before or after it has ensured the cluster, or
\* create_vm returns None.
CreateVmFails(n) ==
    /\ phase = "vms" /\ n \in left \ InNetBox
    /\ left' = left \ {n}
    /\ vmErrors' = vmErrors \cup {n}
    /\ failed' = [failed EXCEPT ![cur] = @ \cup {n}]
    /\ Fails
    /\ \E known \in BOOLEAN, f \in {listing.vms[n], NoFolder} :
       /\ TagKnown(known)
       /\ clusters' = IF f \in mapped \cup {NoFolder} THEN clusters
                      ELSE [clusters EXCEPT ![f] = Tagged(@, known)]
    /\ UNCHANGED <<world, nb, prefixes, phase, turn, listing, mapped, moves, synced,
                   seen, stats, rows, dbErrors, changes>>

EndVms ==
    /\ phase = "vms" /\ left = {} /\ Go("moves")
    /\ Works
    /\ UNCHANGED <<world, netbox, tags, account, stats, rows, dbErrors, changes, failed>>

\* _step_update_vms; a failure is counted but not as one of the VM.
MoveVms ==
    /\ phase = "moves"
    /\ \E bad \in SUBSET moves :
       /\ Outcome(bad)
       /\ nb' = [n \in Names |-> IF n \in moves \ bad
                                 THEN [nb[n] EXCEPT !.cluster = listing.vms[n]]
                                 ELSE nb[n]]
    /\ Leave([errors |-> vmErrors, synced |-> synced])
    /\ UNCHANGED <<world, clusters, prefixes, tags, rows, dbErrors, changes, failed>>

-----------------------------------------------------------------------------
(* The scheduler records the outcome: _store_vm_sync_errors.               *)

Errors == UNION {stats[t].errors : t \in Types}
Synced == UNION {stats[t].synced : t \in Types}

\* Mutant: nothing is written unless a VM failed.
MutantErrorsOnly(known) ==
    IF Errors = {} THEN dbErrors ELSE (dbErrors \ Synced) \cup (Errors \cap known)

\* Mutant: a VM that is in both sets counts as synced.
MutantUpdateVmSyncErrors(known) == (dbErrors \cup (Errors \cap known)) \ Synced

\* update_vm_sync_errors: by name, over the VM rows of all accounts.  A VM without a
\* row has nowhere to show an error.
UpdateVmSyncErrors(known) == (dbErrors \ Synced) \cup (Errors \cap known)

\* Which names have rows is the work of ingestion, which may have failed or seen other
\* VMs than the engine: any do, except that a row that shows an error stays.
Store ==
    /\ phase = "store"
    /\ phase' = "idle"
    /\ \E known \in SUBSET Names :
          /\ dbErrors \subseteq known
          /\ rows' = known
          /\ dbErrors' = UpdateVmSyncErrors(known)
    /\ clean' = IF ~steady THEN 0 ELSE IF clean < MaxClean THEN clean + 1 ELSE clean
    /\ UNCHANGED <<world, netbox, turn, tags, account, stats, failures, changes,
                   steady, failed>>

\* The process dies, or the errors cannot be stored.
Crash ==
    /\ phase # "idle"
    /\ Fails
    /\ phase' = "idle" /\ turn' = 1 /\ tags' = {}
    /\ ForgetAccount
    /\ stats' = [t \in Types |-> Nothing]
    /\ failed' = [a \in Accounts |-> {}]
    /\ UNCHANGED <<world, netbox, rows, dbErrors, changes>>

\* External: somebody changes a cloud.  The clouds are read by Fetch only, so a
\* change at any other time has the effect of one right before the next Fetch.
WorldChanges ==
    /\ phase \in {"idle", "fetch"} /\ changes < MaxChanges
    /\ world' \in Worlds \ {world}
    /\ changes' = changes + 1
    /\ steady' = FALSE /\ clean' = 0
    /\ UNCHANGED <<netbox, phase, turn, tags, account, stats, rows, dbErrors, failures,
                   failed>>

Infrastructure == CleanInfrastructure \/ EnsureClusters \/ EnsurePrefixes
SyncVms ==
    \/ NoVmsListed \/ Load \/ DeleteOrphans \/ EndVms \/ MoveVms
    \/ \E n \in Names :
          UpdateVm(n) \/ UpdateVmFails(n) \/ CreateVm(n) \/ CreateVmFails(n)

Next ==
    \/ Begin \/ Fetch \/ FetchPart \/ EnsureTag \/ TagFails \/ ProviderFails
    \/ Infrastructure \/ SyncVms
    \/ Store \/ Crash \/ WorldChanges

Spec == Init /\ [][Next]_vars

-----------------------------------------------------------------------------
(* Properties.                                                             *)

OnlyOwnVmsGo ==
    \A n \in InNetBox :
        nb'[n] = NoVm => /\ nb[n].tag = type
                         /\ nb[n].cluster \in Own(cur)
                         /\ seen[n] = NoFolder

OnlyStaleClustersGo ==
    \A f \in Folders :
        clusters[f] # "absent" /\ clusters'[f] = "absent" =>
            /\ clusters[f] = type
            /\ f \notin world.folders[cur]
            /\ world.folders[cur] # {} => f \in Own(cur)

OnlyPrefixesWithoutFoldersGo ==
    \A f \in Folders :
        prefixes[f] # "absent" /\ prefixes'[f] = "absent" =>
            prefixes[f] = type /\ world.folders[cur] = {}

\* A VM disappears from NetBox only in the turn of an account that had it in
\* one of its own clusters, with the tag of its type, and that did not have
\* the VM any more when it was asked: never a VM of another account, one that
\* somebody else created, or one whose request failed (cleanup.py, batch.py).
\* A cluster disappears only if it has the tag and the account in turn does not have
\* the folder: so none does because a request for it failed, and none of another
\* account does in the turn of an account that has folders.  A prefix disappears only
\* in the turn of an account of its type that has no folders at all.  (Of such an
\* account the scope is empty, and what goes may be somebody else's.)
DeletesOnlyOwnOrphans ==
    [][OnlyOwnVmsGo /\ OnlyStaleClustersGo /\ OnlyPrefixesWithoutFoldersGo]_vars

VmsOf(a) == In(world.vms[a])
Holders(n) == {a \in Accounts : n \in VmsOf(a)}
CloudsOf(a) == {CloudOf[f] : f \in world.folders[a]}

\* Whatever failed or changed before, once a sync has run in which nothing did,
\* each VM is in the cluster of its folder (of one of its folders, if accounts
\* have VMs of the same name), and stays there while further syncs run.
VmsAreMirrored ==
    clean > 0 => \A a \in Accounts : \A n \in VmsOf(a) :
                    \E b \in Holders(n) : nb[n].cluster = world.vms[b][n]

\* Then no VM is left in the clusters of an account that does not have it: if
\* it has the tag, the account has other VMs, and the cloud other folders.
OrphansAreGone ==
    clean > 0 => \A a \in Accounts, n \in InNetBox :
        /\ VmsOf(a) # {}
        /\ nb[n].tag = TypeOf[a]
        /\ nb[n].cluster # NoFolder /\ CloudOf[nb[n].cluster] \in CloudsOf(a)
        => Holders(n) # {}

\* The cluster of a folder that is gone goes in the second such sync, as the
\* first finds it with VMs in it: infrastructure is cleaned up before VMs.
StaleClustersGo ==
    clean > 1 => \A a \in Accounts, f \in Folders :
        /\ clusters[f] = TypeOf[a]
        /\ CloudOf[f] \in CloudsOf(a)
        => f \in world.folders[a] \/ \E n \in Names : nb[n].cluster = f

\* No account of the same type is synced after a.
LastOfType(a) ==
    \E i \in DOMAIN Providers :
        /\ Providers[i] = a
        /\ \A j \in DOMAIN Providers : j > i => TypeOf[Providers[j]] # TypeOf[a]

\* When a sync is recorded, the VMs that failed for the last account of each
\* type show an error if the database has a row of them, also one that was created
\* before it failed, and also if a VM of that name was synced for another account.
\* (Those of accounts before it do not: all_stats has one entry per type.)
FailuresAreShown ==
    [][Store => \A a \in Accounts :
                   LastOfType(a) => failed[a] \cap rows' \subseteq dbErrors']_vars

\* An error does not outlive a sync in which nothing failed, for the VMs of
\* the last account of each type.
ErrorsAreCleared ==
    clean > 0 /\ phase = "idle" =>
        \A a \in Accounts : LastOfType(a) => VmsOf(a) \cap dbErrors = {}

\* The comment of _extract_cloud_names (sync/cleanup.py:12) says that clean-up
\* is scoped to the account: after a sync without failure every subnet that
\* exists has its prefix.
PrefixesAreMirrored ==
    clean > 0 /\ phase = "idle" =>
        \A a \in Accounts : TypeOf[a] = "yandex_cloud" =>
            \A f \in world.folders[a] : prefixes[f] # "absent"
=============================================================================
