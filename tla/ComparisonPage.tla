---------------------------- MODULE ComparisonPage ----------------------------
(***************************************************************************)
(* The comparison page (web/routes/comparison.py, comparison/diagnostics.py)*)
(* and the tables it reads, as the cycles of the scheduler fill them: VM   *)
(* rows (ingest_cloud_vms) and NetBoxHost rows (ingest_netbox_hosts).      *)
(*                                                                         *)
(* The page reads VM rows, NetBoxHost rows and the latest run in           *)
(* statements of their own, and no transaction keeps a cycle from          *)
(* committing in between.  What a cycle does to VM rows in detail is the   *)
(* subject of Ingest, what it writes to NetBox that of SyncEngine: here    *)
(* NetBox changes as its users like, this program being one of them.       *)
(*                                                                         *)
(* All VMs of the clouds run, so a VM row is active if the last listing of *)
(* its account has the VM, and offline if it has not.                      *)
(***************************************************************************)
EXTENDS Comparison

CONSTANTS Worlds,      \* what the clouds and NetBox may look like ...
          Initial,     \* ... and at first
          Settings,    \* what monitoring may look like
          NoAddr,      \* marks a VM that does not exist
          MaxChanges   \* bound on the changes of clouds and NetBox

NoVm == {NoAddr}

CloudVms  == [Names \X Accounts -> (SUBSET Addrs) \cup {NoVm}]
NetBoxVms == [Names -> (SUBSET Addrs) \cup {NoVm}]

ASSUME NoAddrAssumption == NoAddr \notin Addrs
ASSUME WorldsAssumption ==
    Worlds \subseteq [cloud : CloudVms, netbox : NetBoxVms] /\ Initial \subseteq Worlds
ASSUME SettingsAssumption ==
    Settings \subseteq [monitored : SUBSET Names, exempt : SUBSET Names, configured : BOOLEAN]
ASSUME MaxChangesAssumption == MaxChanges \in Nat

VARIABLES
    world,    \* the clouds and NetBox (outside the program)
    setting,  \* the MonitoringHost rows, the exempt VMs and whether Zabbix is configured
    vms,      \* the VM rows
    hosts,    \* the NetBoxHost rows
    run,      \* the latest run of source netbox
    at,       \* where the import of NetBox hosts is
    fetched,  \* what fetch_all_vms returned
    page,     \* where the request for the page is
    read,     \* the VM rows it read
    torn,     \* history: an import ended since it read the NetBoxHost rows
    stored,   \* history: what the latest import that succeeded fetched
    changes   \* number of changes of the world

database == <<vms, hosts, run, stored>>
cycle    == <<at, fetched>>
request  == <<page, read, torn>>
vars     == <<world, setting, database, cycle, request, compared, changes>>

VmRow  == [status : {"absent", "active", "offline"}, addrs : SUBSET Addrs]
NoRows == [vm \in Names \X Accounts |-> [status |-> "absent", addrs |-> {}]]
NoHosts == [n \in Names |-> NoVm]

\* listing stands for items_found: the listing it counts.
RunRow == [status : {"none", "running", "success", "failed"}, listing : NetBoxVms]

TypeOK ==
    /\ CompareTypeOK
    /\ world \in [cloud : CloudVms, netbox : NetBoxVms]
    /\ setting \in [monitored : SUBSET Names, exempt : SUBSET Names, configured : BOOLEAN]
    /\ vms \in [Names \X Accounts -> VmRow]
    /\ hosts \in NetBoxVms
    /\ run \in RunRow
    /\ at \in {"idle", "fetch", "store"}
    /\ fetched \in NetBoxVms
    /\ page \in {"closed", "vms", "compare", "shown"}
    /\ read \in [Names \X Accounts -> VmRow]
    /\ torn \in BOOLEAN
    /\ stored \in NetBoxVms
    /\ changes \in 0..MaxChanges

Init ==
    /\ world \in Initial
    /\ setting \in Settings
    /\ vms = NoRows /\ hosts = NoHosts
    /\ run = [status |-> "none", listing |-> NoHosts] /\ stored = NoHosts
    /\ at = "idle" /\ fetched = NoHosts
    /\ page = "closed" /\ read = NoRows /\ torn = FALSE
    /\ changes = 0
    /\ CompareInit

-----------------------------------------------------------------------------
(* A cycle of the scheduler                                                *)

\* The rows after a listing: a VM that it lacks is known on, and offline
\* (mark_vms_stale).
Refreshed(row, vm) ==
    IF vm # NoVm THEN [status |-> "active", addrs |-> vm]
    ELSE IF row.status = "absent" THEN row ELSE [row EXCEPT !.status = "offline"]

\* The VMs of account a are listed and stored: by the same cycle before its import, or
\* by `sync` from the command line at any time.
IngestAccount(a) ==
    /\ vms' = [vm \in Names \X Accounts |->
                 IF vm[2] = a THEN Refreshed(vms[vm], world.cloud[vm]) ELSE vms[vm]]
    /\ UNCHANGED <<world, setting, hosts, run, stored, cycle, request, compared, changes>>

\* create_sync_run, committed.  The job lock admits one import at a time.
ImportBegins ==
    /\ at = "idle"
    /\ at' = "fetch"
    /\ run' = [status |-> "running", listing |-> NoHosts]
    /\ UNCHANGED <<world, setting, vms, hosts, stored, fetched, request, compared, changes>>

ImportFetches ==
    /\ at = "fetch"
    /\ at' = "store"
    /\ fetched' = world.netbox
    /\ UNCHANGED <<world, setting, database, request, compared, changes>>

\* upsert_netbox_host for each VM listed.
UpsertNetBoxHost(rows, listing) ==
    [n \in Names |-> IF listing[n] # NoVm THEN listing[n] ELSE rows[n]]

\* delete_stale_netbox_hosts: rows that this import has not seen.
DeleteStaleNetBoxHosts(rows, listing) ==
    [n \in Names |-> IF listing[n] # NoVm THEN rows[n] ELSE NoVm]

ImportEnds ==
    /\ at' = "idle" /\ fetched' = NoHosts
    /\ torn' = (torn \/ page = "compare")
    /\ UNCHANGED <<world, setting, vms, page, read, compared, changes>>

\* Rows and run are committed together.
ImportStores ==
    /\ at = "store"
    /\ hosts' = DeleteStaleNetBoxHosts(UpsertNetBoxHost(hosts, fetched), fetched)
    /\ run' = [status |-> "success", listing |-> fetched]
    /\ stored' = fetched
    /\ ImportEnds

\* Mutant: the session is not rolled back, and the commit of the run takes it along.
MutantRolledBack(rows, session) == session

\* session.rollback(): rows are what they were.
RolledBack(rows, session) == rows

\* NetBox does not answer, which leaves nothing to store, or storing fails when some of
\* the VMs listed are in the session.
ImportFails ==
    /\ at \in {"fetch", "store"}
    /\ run' = [run EXCEPT !.status = "failed"]
    /\ \E done \in SUBSET Names :
          hosts' = RolledBack(hosts, UpsertNetBoxHost(hosts,
                       [n \in Names |-> IF n \in done THEN fetched[n] ELSE NoVm]))
    /\ UNCHANGED stored
    /\ ImportEnds

\* The process dies, or cannot even record the failure.
ImportDies ==
    /\ at # "idle"
    /\ at' = "idle" /\ fetched' = NoHosts
    /\ UNCHANGED <<world, setting, database, request, compared, changes>>

Cycle ==
    \/ ImportBegins \/ ImportFetches \/ ImportStores \/ ImportFails \/ ImportDies
    \/ \E a \in Accounts : IngestAccount(a)

-----------------------------------------------------------------------------
(* The page                                                                *)

\* list_vms, whatever the status of the rows.
ReadVms ==
    /\ page = "closed"
    /\ page' = "vms" /\ read' = vms
    /\ UNCHANGED <<world, setting, database, cycle, torn, compared, changes>>

\* Mutant: the addresses of NetBox hosts are not taken over.
MutantInputOf(rows, netbox) ==
    [cloud |-> {vm \in Names \X Accounts : rows[vm].status # "absent"},
     cloudAddrs |-> [vm \in Names \X Accounts |-> rows[vm].addrs],
     netbox |-> {n \in Names : netbox[n] # NoVm},
     netboxAddrs |-> [n \in Names |-> {}],
     monitored |-> setting.monitored]

\* list_netbox_hosts, _vm_to_vminfo and _netbox_host_to_vminfo: what is compared.
InputOf(rows, netbox) ==
    [cloud |-> {vm \in Names \X Accounts : rows[vm].status # "absent"},
     cloudAddrs |-> [vm \in Names \X Accounts |-> rows[vm].addrs],
     netbox |-> {n \in Names : netbox[n] # NoVm},
     netboxAddrs |-> [n \in Names |-> IF netbox[n] = NoVm THEN {} ELSE netbox[n]],
     monitored |-> setting.monitored]

ReadHosts ==
    /\ page = "vms"
    /\ page' = "compare"
    /\ Compare(InputOf(read, hosts))
    /\ torn' = FALSE
    /\ UNCHANGED <<world, setting, database, cycle, read, changes>>

VisitRow ==
    /\ page = "compare"
    /\ \E r \in left : Visit(r)
    /\ UNCHANGED <<world, setting, database, cycle, request, changes>>

\* get_latest_sync_run_by_source, for _get_reason.  The page is then shown, which is
\* one moment: run is what it has read.
ReadRun ==
    /\ page = "compare" /\ left = {}
    /\ page' = "shown"
    /\ UNCHANGED <<world, setting, database, cycle, read, torn, compared, changes>>

Close ==
    /\ page = "shown"
    /\ page' = "closed" /\ read' = NoRows /\ torn' = FALSE
    /\ Compare(InputOf(NoRows, NoHosts))
    /\ UNCHANGED <<world, setting, database, cycle, changes>>

-----------------------------------------------------------------------------
(* A VM appears in a cloud or in NetBox, or goes.                          *)

AppearsOrGoes(old, new) == (old = NoVm) # (new = NoVm)

Change ==
    /\ changes < MaxChanges
    /\ changes' = changes + 1
    /\ \/ \E vm \in Names \X Accounts, new \in (SUBSET Addrs) \cup {NoVm} :
             /\ AppearsOrGoes(world.cloud[vm], new)
             /\ world' = [world EXCEPT !.cloud[vm] = new]
       \/ \E n \in Names, new \in (SUBSET Addrs) \cup {NoVm} :
             /\ AppearsOrGoes(world.netbox[n], new)
             /\ world' = [world EXCEPT !.netbox[n] = new]
    /\ world' \in Worlds
    /\ UNCHANGED <<setting, database, cycle, request, compared>>

\* A comparison touches nothing but its own input, and a page shown does not change:
\* no need to interleave them.  The world is read by IngestAccount and ImportFetches
\* only, and the page reads VM rows but once: a change of the world while a page is
\* read has the effect of one before.
Next ==
    \/ left = {} /\ page # "shown" /\ Cycle
    \/ page = "closed" /\ Change
    \/ ReadVms \/ ReadHosts \/ VisitRow \/ ReadRun \/ Close

Spec == Init /\ [][Next]_vars

-----------------------------------------------------------------------------
(* Properties                                                              *)

NetBoxConfigured == input.netbox # {}

\* What the page says of row r.
Discrepancies(r) == Missing(r, NetBoxConfigured, setting.configured, setting.exempt)

\* Names with an address in common.
Partners(n) == {m \in Names \ {n} : AddrsOf(input, m) \cap AddrsOf(input, n) # {}}

\* n is the name of one VM of one cloud, and NetBox does not have it; or the reverse.
OnlyIn(s, n) ==
    IF s = "cloud" THEN /\ n \notin input.netbox
                          /\ \E vm \in input.cloud : {x \in input.cloud : x[1] = n} = {vm}
                   ELSE n \in input.netbox \ CloudNames(input)

\* The systems that have VM n and those that the page looks at.
Where(n, netbox) ==
    {s \in Systems : n \in NamesIn(input, s)} \cup netbox
    \cup (IF n \in input.monitored THEN {"monitoring"} ELSE {})
LookedAt(n) ==
    {"cloud"} \cup (IF NetBoxConfigured THEN {"netbox"} ELSE {})
    \cup (IF setting.configured /\ n \notin setting.exempt THEN {"monitoring"} ELSE {})

\* The table for VM n that is in the systems S.
Reference(n, S) ==
    {d \in (S \cap LookedAt(n)) \X LookedAt(n) : d[2] \notin S}

\* Where addresses are unambiguous the table is exact: a name without an address in
\* common with others is shown with just the discrepancies it has; and of two names
\* that share an address with each other only, one known to a cloud and the other to
\* NetBox, exactly one is shown, as being in both (engine.py:28 "Secondary: shared IP
\* address when names differ").
UnambiguousVmsAreExact ==
    page = "shown" =>
        /\ \A r \in Rows(input) :
              Partners(r[1]) = {} =>
                 r \in Shown /\ Discrepancies(r) = Reference(r[1], Where(r[1], {}))
        /\ \A n, m \in Names :
              /\ Partners(n) = {m} /\ Partners(m) = {n}
              /\ OnlyIn("cloud", n) /\ OnlyIn("netbox", m)
              => \E r \in Shown :
                    /\ {q \in Shown : q[1] \in {n, m}} = {r}
                    /\ Discrepancies(r) = Reference(r[1], Where(r[1], Systems))

\* The rows are all of one import, the latest that succeeded, and of no later one that
\* failed or whose process died on the way; and that import is the latest run, if the
\* run says "success".
HostsAreOfLatestRun ==
    /\ hosts = stored
    /\ run.status = "success" => run.listing = stored

\* "VM is not in NetBox", checked by the import that the page names, is what that
\* import saw, unless another import ended while the page was read: it found no VM of
\* the name, and only VMs that have a row elsewhere with one of its addresses
\* (diagnostics.py:35, comparison.py:217).
ReasonsFitRows ==
    page = "shown" /\ run.status = "success" /\ ~torn =>
        \A r \in Shown : <<"cloud", "netbox">> \in Discrepancies(r) =>
            /\ run.listing[r[1]] = NoVm
            /\ \A m \in Names :
                  run.listing[m] \cap AddrsOf(input, r[1]) # {} => m \in Taken
=============================================================================
