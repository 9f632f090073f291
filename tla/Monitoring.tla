----------------------------- MODULE Monitoring -----------------------------
(***************************************************************************)
(* DataIngestor.ingest_monitoring_hosts (sync/ingest.py): which VMs does   *)
(* Zabbix monitor?  One process checks the VMs of its active accounts,     *)
(* once per cycle.                                                         *)
(*                                                                         *)
(* All hosts are fetched page by page (providers/zabbix.py) and matched by *)
(* name, then by address (sync/monitoring.py).  If that fails, or for what *)
(* a truncated list does not contain, Zabbix is queried for every VM.      *)
(* Hosts found become rows, rows not found again go offline.  The pages of *)
(* the web application read the names in these rows.                       *)
(*                                                                         *)
(* Zabbix is external: it keeps its hosts in some order and may ignore     *)
(* the offset of a request.  It may change between any two steps, but not  *)
(* within the few requests about one VM.  A request that fails has failed  *)
(* after its retries (providers/retry.py).                                 *)
(***************************************************************************)
EXTENDS Naturals, FiniteSets, FiniteSetsExt

CONSTANTS Vms,         \* rows of VMs, numbered by name and then id
          NameOf,      \* [VM -> name]
          AccountOf,   \* [VM -> account]
          Names, Ips, HostIds,
          Zabbixes,    \* what Zabbix may know: sets of hosts
          Tables,      \* what may be known of the VMs when a check begins
          Absent,      \* no row, no host
          PageSize,    \* hosts on a page (1000 in the code)
          MaxPages,    \* pages of a fetch (100 in the code)
          MaxFailures, \* bound on failing steps and crashes
          MaxChanges   \* bound on the changes of Zabbix and of the VMs

Accounts == {AccountOf[v] : v \in Vms}
Statuses == {"active", "offline"}

\* A host of Zabbix; names are unique there.
Host == [id : HostIds, name : Names, ips : SUBSET Ips, status : Statuses]
\* What ingestion has stored of the VMs, and the accounts with a provider.
Table == [ips : [Vms -> SUBSET Ips], exempt : SUBSET Vms, active : SUBSET Accounts]
\* A row of monitoring_hosts carries the name and the account of a VM.
Row == [vm : Vms, status : Statuses]

ASSUME VmsAssumption ==
    /\ Vms \subseteq Nat /\ IsFiniteSet(Vms) /\ HostIds \subseteq Nat
    /\ NameOf \in [Vms -> Names]
    /\ Absent \notin Host /\ Absent \notin Row
ASSUME WorldsAssumption ==
    /\ Tables \subseteq Table
    /\ \A z \in Zabbixes :
          /\ z \subseteq Host /\ IsFiniteSet(z)
          /\ \A g, h \in z : g.id = h.id \/ g.name = h.name => g = h
ASSUME BoundsAssumption ==
    /\ PageSize \in Nat \ {0} /\ MaxPages \in Nat \ {0}
    /\ MaxFailures \in Nat /\ MaxChanges \in Nat

VARIABLES
    zabbix,   \* the hosts Zabbix knows
    honest,   \* whether Zabbix heeds the offset of a request
    table,    \* the VMs in the database
    rows,     \* monitoring_hosts: [host id -> row or Absent]
    run,      \* status of the newest SyncRun of source "zabbix"
    phase,    \* "idle", or what ingest_monitoring_hosts does next
    page,     \* number of the page to be fetched
    retried,  \* whether fetch_hosts has authenticated anew
    got,      \* the hosts fetched, with the page each was on first
    bulk,     \* what became of the fetch
    todo,     \* VMs still to be checked
    result,   \* [VM -> the host found or Absent]
    missed,   \* VMs about which a request failed
    steady,   \* history: Zabbix has not changed since the check began
    fresh,    \* history: nothing has changed since the check that was stored
    failures, changes

world == <<zabbix, honest, table>>
vars == <<world, rows, run, phase, page, retried, got, bulk, todo, result,
          missed, steady, fresh, failures, changes>>

Fetched == [page : 0 .. MaxPages - 1, host : Host]

TypeOK ==
    /\ zabbix \subseteq Host /\ honest \in BOOLEAN /\ table \in Table
    /\ rows \in [HostIds -> Row \cup {Absent}]
    /\ run \in {"none", "running", "success", "failed"}
    /\ phase \in {"idle", "pages", "check"}
    /\ page \in 0 .. MaxPages - 1 /\ retried \in BOOLEAN
    /\ got \subseteq Fetched /\ bulk \in {"none", "whole", "truncated", "failed"}
    /\ todo \subseteq Vms /\ missed \subseteq Vms
    /\ result \in [Vms -> Host \cup {Absent}]
    /\ steady \in BOOLEAN /\ fresh \in BOOLEAN
    /\ failures \in 0 .. MaxFailures /\ changes \in 0 .. MaxChanges

Nothing == [v \in Vms |-> Absent]

Init ==
    /\ zabbix \in Zabbixes /\ honest \in BOOLEAN /\ table \in Tables
    /\ rows = [i \in HostIds |-> Absent]
    /\ run = "none" /\ phase = "idle" /\ page = 0 /\ retried = FALSE
    /\ got = {} /\ bulk = "none" /\ todo = {} /\ result = Nothing /\ missed = {}
    /\ steady = FALSE /\ fresh = FALSE /\ failures = 0 /\ changes = 0

Fails == failures < MaxFailures /\ failures' = failures + 1

------------------------------------------------------------------------------
(* The surroundings *)

ZabbixChanges ==
    /\ changes < MaxChanges /\ changes' = changes + 1
    /\ zabbix' \in Zabbixes
    /\ steady' = FALSE /\ fresh' = FALSE
    /\ UNCHANGED <<honest, table, rows, run, phase, page, retried, got, bulk, todo,
                   result, missed, failures>>

\* A check works on the VMs as they were when it began.
TableChanges ==
    /\ phase = "idle"
    /\ changes < MaxChanges /\ changes' = changes + 1
    /\ table' \in Tables
    /\ fresh' = FALSE
    /\ UNCHANGED <<zabbix, honest, rows, run, phase, page, retried, got, bulk, todo,
                   result, missed, steady, failures>>

------------------------------------------------------------------------------
(* Which VMs are checked *)

Due == {v \in Vms : AccountOf[v] \in table.active /\ v \notin table.exempt}

Begin ==
    /\ phase = "idle" /\ Due # {}
    /\ run' = "running" /\ phase' = "pages"
    /\ bulk' = "none" /\ missed' = {} /\ todo' = Due
    /\ steady' = TRUE /\ fresh' = FALSE
    /\ UNCHANGED <<world, rows, page, retried, got, result, failures, changes>>

------------------------------------------------------------------------------
(* All hosts, page by page *)

\* The hosts that Zabbix keeps before h.
Before(h) == {g \in zabbix : g.id < h.id}

Page(n) ==
    LET first == IF honest THEN n * PageSize ELSE 0
    IN {h \in zabbix : Cardinality(Before(h)) \in first .. first + PageSize - 1}

\* Hosts already fetched never win a lookup again: they are not kept twice.
Extended(answer) ==
    got \cup {[page |-> page, host |-> h] : h \in answer \ {e.host : e \in got}}

FetchEnds(outcome) == bulk' = outcome /\ phase' = "check" /\ page' = 0

IsLast(n) == n + 1 = MaxPages

\* Mutant: without the limit; the offset stays where it is at the bound.
FetchForever ==
    /\ phase = "pages"
    /\ LET answer == Page(page) IN
       /\ got' = Extended(answer)
       /\ \/ Cardinality(answer) < PageSize /\ FetchEnds("whole")
          \/ /\ Cardinality(answer) = PageSize
             /\ page' = Min({page + 1, MaxPages - 1})
             /\ UNCHANGED <<bulk, phase>>
    /\ UNCHANGED <<world, rows, run, retried, todo, result, missed, steady, fresh,
                   failures, changes>>

FetchPage ==
    /\ phase = "pages"
    /\ LET answer == Page(page) IN
       /\ got' = Extended(answer)
       /\ \/ Cardinality(answer) < PageSize /\ FetchEnds("whole")
          \/ Cardinality(answer) = PageSize /\ IsLast(page) /\ FetchEnds("truncated")
          \/ /\ Cardinality(answer) = PageSize /\ ~IsLast(page)
             /\ page' = page + 1
             /\ UNCHANGED <<bulk, phase>>
    /\ UNCHANGED <<world, rows, run, retried, todo, result, missed, steady, fresh,
                   failures, changes>>

\* fetch_hosts takes the error for an expired token and starts again, once.
Reauthenticate ==
    /\ phase = "pages" /\ ~retried /\ Fails
    /\ retried' = TRUE /\ page' = 0 /\ got' = {}
    /\ UNCHANGED <<world, rows, run, phase, bulk, todo, result, missed, steady, fresh,
                   changes>>

BulkFails ==
    /\ phase = "pages" /\ Fails
    /\ FetchEnds("failed") /\ got' = {}
    /\ UNCHANGED <<world, rows, run, retried, todo, result, missed, steady, fresh,
                   changes>>

------------------------------------------------------------------------------
(* One VM after the other *)

Named(v, hosts)   == {h \in hosts : h.name = NameOf[v]}
Reached(v, hosts) == {h \in hosts : h.ips \cap table.ips[v] # {}}

Precedes(e, f) == e.page < f.page \/ (e.page = f.page /\ e.host.id < f.host.id)
Firsts(entries) == {e.host : e \in {e \in entries : \A f \in entries : ~Precedes(f, e)}}

\* The hosts that win a lookup of v by name, or else by one of its addresses.
BulkMatches(v) ==
    LET named == {e \in got : e.host.name = NameOf[v]} IN
    IF named # {} THEN Firsts(named)
    ELSE UNION {Firsts({e \in got : ip \in e.host.ips}) : ip \in table.ips[v]}

\* check_vm_monitoring: Zabbix answers with any of several hosts.
QueryMatches(v) ==
    IF Named(v, zabbix) # {} THEN Named(v, zabbix) ELSE Reached(v, zabbix)

\* Mutant: what a truncated list does not contain is taken for unmonitored.
QueriedUnlessFetched(v) == bulk = "failed"
Queried(v) == bulk = "failed" \/ (bulk = "truncated" /\ BulkMatches(v) = {})

NextVm(v) == phase = "check" /\ v \in todo /\ \A w \in todo : v <= w

CheckVm(v) ==
    /\ NextVm(v)
    /\ LET found == IF Queried(v) THEN QueryMatches(v) ELSE BulkMatches(v) IN
       \/ found = {} /\ UNCHANGED result
       \/ \E h \in found : result' = [result EXCEPT ![v] = h]
    /\ todo' = todo \ {v}
    /\ UNCHANGED <<world, rows, run, phase, page, retried, got, bulk, missed, steady,
                   fresh, failures, changes>>

\* The error is logged and the VM counts as not found.
CheckVmFails(v) ==
    /\ NextVm(v) /\ Queried(v) /\ Fails
    /\ missed' = missed \cup {v}
    /\ todo' = todo \ {v}
    /\ UNCHANGED <<world, rows, run, phase, page, retried, got, bulk, result, steady,
                   fresh, changes>>

------------------------------------------------------------------------------
(* Storing the results *)

Found   == {v \in Due : result[v] # Absent}
Checked == {AccountOf[v] : v \in Due}

\* The VM whose result is stored last for host i.
StoredFor(i) == {v \in Found : result[v].id = i}

\* Mutants: rows of all accounts go offline; or of those with a VM found.
StaleEverywhere(row) == row # Absent
StaleWhereFound(row) == row # Absent /\ \E v \in Found : AccountOf[v] = AccountOf[row.vm]
Stale(row) == row # Absent /\ AccountOf[row.vm] \in Checked

Stored(i) ==
    IF StoredFor(i) # {} THEN LET v == Max(StoredFor(i)) IN
        [vm |-> v, status |-> result[v].status]
    ELSE IF Stale(rows[i]) THEN [rows[i] EXCEPT !.status = "offline"]
    ELSE rows[i]

\* What is left of a check when it is over.
Over ==
    /\ phase' = "idle" /\ page' = 0 /\ retried' = FALSE
    /\ got' = {} /\ todo' = {} /\ result' = Nothing

Store ==
    /\ phase = "check" /\ todo = {}
    /\ rows' = [i \in HostIds |-> Stored(i)]
    /\ run' = "success"
    /\ fresh' = steady
    /\ Over
    /\ UNCHANGED <<world, bulk, missed, steady, failures, changes>>

\* Mutant: what was flushed before the error is committed with the failed run.
StoreFailsUnrolled ==
    /\ phase = "check" /\ todo = {} /\ Fails
    /\ rows' = [i \in HostIds |-> Stored(i)]
    /\ run' = "failed"
    /\ Over
    /\ UNCHANGED <<world, bulk, missed, steady, fresh, changes>>

\* The transaction is rolled back, and then even the failure may not be stored.
StoreFails ==
    /\ phase = "check" /\ todo = {} /\ Fails
    /\ run' \in {"failed", "running"}
    /\ Over
    /\ UNCHANGED <<world, rows, bulk, missed, steady, fresh, changes>>

Crash ==
    /\ phase # "idle" /\ Fails
    /\ Over
    /\ UNCHANGED <<world, rows, run, bulk, missed, steady, fresh, changes>>

Check ==
    \/ FetchPage \/ Reauthenticate \/ BulkFails
    \/ \E v \in Vms : CheckVm(v) \/ CheckVmFails(v)
    \/ Store \/ StoreFails

Next == Begin \/ Check \/ Crash \/ ZabbixChanges \/ TableChanges

\* Requests have a timeout (providers/zabbix.py:54) and a bounded number of
\* retries; nothing obliges a check to begin.
Spec == Init /\ [][Next]_vars /\ WF_vars(Check)

------------------------------------------------------------------------------
(* Properties *)

\* The hosts that stand for v.  Beyond the end of a truncated list there may be
\* one with its name that an address within the list hides.
Matches(v) ==
    LET named == Named(v, zabbix) IN
    IF named # {} /\ bulk # "truncated" THEN named ELSE named \cup Reached(v, zabbix)

\* What Zabbix monitors is shown.  When a check is stored and nothing in Zabbix has
\* changed since it began, every VM that was checked, that Zabbix knows by name or
\* address and whose own queries, if there were any, were answered has a row with the
\* status of its host, whatever became of the pages and of the token.  The row has the
\* VM's name unless a VM checked later matches the same host (sync/monitoring.py:97,
\* sync/ingest.py:174).
MonitoredVmsAreShown ==
    fresh => \A v \in Due \ missed : Matches(v) # {} =>
        \E h \in Matches(v) :
            /\ rows[h.id] # Absent /\ rows[h.id].status = h.status
            /\ rows[h.id].vm \in {w \in Due : w >= v /\ h \in Matches(w)}

\* Nothing else is shown as active for the accounts that were checked: hosts that
\* are gone, disabled, renamed, or of VMs that are no longer checked go
\* offline, in whatever order they were stored before (sync/ingest.py:191).
NothingElseIsActive ==
    fresh => \A i \in HostIds :
        (rows[i] # Absent /\ rows[i].status = "active" /\ AccountOf[rows[i].vm] \in Checked) =>
            \E v \in Due : \E h \in Matches(v) : h.id = i /\ h.status = "active"

\* A row of an account none of whose VMs is checked, because its provider is
\* gone or its VMs are exempt, stays as it is unless a VM of another account
\* turns out to be the host's (db/repository.py:379).
UncheckedAccountsKeepTheirRows ==
    [][\A i \in HostIds :
          (rows[i] # Absent /\ AccountOf[rows[i].vm] \notin Checked /\ rows'[i] # rows[i]) =>
              rows'[i].vm \in Due /\ result[rows'[i].vm].id = i]_vars

\* Rows change only when a check is complete, and in a run that then succeeded: a
\* check that is cut off shows nothing of it (sync/ingest.py:174).
RowsChangeOnlyBySuccess == [][rows' # rows => todo = {} /\ run' = "success"]_vars

\* Every check ends, also if Zabbix ignores offsets or rejects every token
\* (providers/zabbix.py:180: "Safety limit to prevent infinite loops").
CheckEnds == phase # "idle" ~> phase = "idle"
=============================================================================
