# A TLA+ model of infraverse

infraverse collects virtual machines from cloud accounts into a database, checks
whether they are monitored, and mirrors them in NetBox. This directory holds TLA+
modules of its core, TLC configurations that check them on small instances, and
theorems proved with TLAPS for instances of any size. Paths below are relative to
`src/infraverse/` unless they start with `README`, `docs` or `tests`.

## The system

| Component | State | Operations | Interacts with |
|---|---|---|---|
| Scheduler (`scheduler.py`, `web/routes/sync.py`) | `_job_lock`, `_running`, `_last_result`, `_last_run_time` | `start`, `stop`, interval job, `trigger_now`, `get_status`, `_run_ingestion` | threads of APScheduler, request threads, daemon threads; one session per cycle |
| Ingestion (`sync/orchestrator.py`, `sync/config_sync.py`, `sync/ingest.py`) | none but the session | `run_ingestion_cycle`, `sync_config_to_db`, `ingest_all`, `ingest_cloud_vms`, `ingest_monitoring_hosts`, `ingest_netbox_hosts` | providers, Zabbix and NetBox (calls), database |
| Database (`db/`) | `CloudAccount`, `VM`, `MonitoringHost`, `NetBoxHost`, `SyncRun` rows; SQLite's writer lock | the repository's upserts, `mark_*_stale`, `create_/update_sync_run`, commit, rollback | every process that ingests |
| Providers (`providers/yandex.py`, `vcloud.py`, `retry.py`, `yc_auth.py`) | tokens | `fetch_vms`, `fetch_all_data`: one request after another, with pages and retries | cloud APIs; may raise, or return a part |
| Sync engine (`sync/engine.py`, `sync/providers.py`) | none | `SyncEngine.run` over all accounts | providers, NetBox |
| Batch sync (`sync/batch.py`) | `NetBoxCache`: a copy of NetBox and the queues of changes | load, compare, eight steps of writes | NetBox, each call failing alone |
| Sequential sync (`sync/vms.py`, `sync/vms_networking.py`) | the VMs as they were read | the same with `--no-batch`: one VM after the other, one call after the other | NetBox |
| Clean-up (`sync/cleanup.py`, `sync/infrastructure.py`) | none | delete what an account no longer has | NetBox |
| Monitoring (`sync/monitoring.py`, `providers/zabbix.py`) | session token | bulk fetch, query per VM | Zabbix, database |
| Comparison (`comparison/`, `web/routes/comparison.py`) | none | match cloud, NetBox and monitoring by name and address; give reasons | database (reads, in several statements) |
| Web application (`web/`) | login session | pages; `POST /sync/trigger` | scheduler, database (reads) |
| Command line (`cli.py`, `config*.py`) | the configuration, read once | `sync`, `serve`, `db` | all of the above |

What is hard in it:

- *Threads.* An interval job and any number of manual triggers start cycles in one
  process; `trigger_now` looks at the lock and lets it go again before the thread
  takes it; the status is written and read without a lock.
- *Processes.* `sync` from the command line may run beside `serve` on one database.
  Only SQLite's writer lock is between them, reads take no lock at all, and a write
  may fail because the database is locked, also the one that records a failure.
- *Failures.* A provider may raise, return a part, or return nothing; a process may
  die anywhere; every single call to NetBox may fail while the sync goes on.
- *Stale copies.* The batch sync decides on a cache that it loads once, and queues
  changes in dictionaries in which one VM's entry may replace another's. The sequential
  sync reads the VMs once, and changes them while it goes on.
- *Readers.* A page reads rows in several statements while a cycle commits.

What makes each part correct: cycles never overlap and the lock is always
released (scheduler); the active VMs of an account are those of its last listing,
and a run that fails leaves no trace (ingestion); run rows are history (database);
NetBox ends up as a mirror of the cloud, whatever failed before, and is not
disturbed needlessly (batch sync); nothing is deleted that exists or belongs to
someone else (clean-up); a VM counts as unmonitored only if Zabbix was asked and
does not know it (monitoring); every discrepancy shown is real and none is hidden by a
VM that belongs elsewhere (comparison); what exists is never lost without a failure that
explains it (providers).

## Modules

| Module | What it is |
|---|---|
| `Inventory` | abstract: the inventory of an account changes only by taking over a whole listing |
| `Ingest` | ingestion of cloud VMs by several processes on one database; implements `Inventory` |
| `Scheduler` | `SchedulerService` and the handler of `POST /sync/trigger` |
| `Service` | `Scheduler` and `Ingest` composed: the `serve` process |
| `BatchSync` | `sync_vms_optimized`: interfaces, addresses and primary addresses in NetBox |
| `SequentialSync` | extends `BatchSync`: `sync_vms` beside it on the same NetBox |
| `SyncEngine` | `SyncEngine.run` over several accounts: clean-up, clusters, prefixes, VMs, and the errors the scheduler records |
| `CloudFetch` | `YandexCloudClient.fetch_all_data`, request by request |
| `CloudMirror` | extends `CloudFetch`: sites, platforms and disks in NetBox, made of what was fetched |
| `Monitoring` | `ingest_monitoring_hosts`: which VMs Zabbix knows, and the rows the pages read |
| `Comparison` | `ComparisonEngine.compare` with monitored names |
| `ComparisonPage` | extends `Comparison`: `ingest_netbox_hosts`, the page that reads while it commits, and its reasons |
| `IngestProofs` | theorems about `Ingest`, and that it implements `Inventory` |
| `ServiceProofs` | theorems about `Service`, from those about its two components |
| `BatchSyncProofs` | theorems about `SequentialSync`, and so about both kinds of sync, that they converge among them |
| `CloudMirrorProofs` | theorems about `CloudMirror` and `CloudFetch` |
| `SchedulerProofs`, `SyncEngineProofs`, `MonitoringProofs`, `ComparisonProofs` | theorems about these modules (`ComparisonProofs` about `ComparisonPage`) |
| `MC*` | instances for TLC: sets of configurations and clouds, symmetry |

Operators whose comment begins with "Mutant" are faulty variants of the operator
that follows them, each what a plausible bug would make of it. No specification
uses them; `PROJECT.json` names the property that notices each.

### Ingest

A process (`Procs`) is an execution of `serve` or `sync` with one session. `pc`
says where it is: `idle` between cycles, `build` after `sync_config_to_db`,
`accounts` in the loop of `ingest_all`, then through one run `fetch`, `write` (or
`mark`) and perhaps `except`. `acct`, `vms` and `runs` are the committed rows;
`pend` is what a session has flushed. `writer` is the writer lock, taken by the first
flush and given back by commit, rollback or the death of the process.

Time is counted in runs: `sync_start` is the number of the run, a row upserted
gets the number of the newest run (`last_seen_at`), and `mark_vms_stale` compares
the two. This keeps the order of the times that the code compares, where a row
seen in the instant at which the run begins counts as seen. `upsert_vm` takes the time
before its flush waits for the lock (`db/repository.py:146`), so the first row of a listing
may be written with a time before the start of runs that began meanwhile: `stamp` keeps
that time.

Reads before the lock. SQLite's driver begins a transaction with the first write,
so what is read before is not protected, and SQLAlchemy writes only the attributes
that differ from what was read. `LoadVm` is such a read of the first row of a listing
by `upsert_vm`, `LoadStale` the one of `mark_vms_stale` when the listing is empty;
`loaded` keeps what they saw. All later reads of a run happen under the lock.

`InventoryOf` maps the rows to `Inventory`: `KeepsPromise` says that every step of
`Ingest` is a step of `Inventory` or changes nothing there.

### Scheduler and Service

`at[t]` is the line of `_run_ingestion` that thread `t` is about to execute, with
the steps of its try, except and finally blocks as actions of their own, since the
status is read concurrently. A request executes `trigger_now` (two steps: look,
start the thread) and `get_status` (two reads). `lastResult` and `lastTime` hold
the number of the cycle they were written by. In `Service` the step `ingest` is
a cycle of `Ingest` in the same thread; its threads are the processes of `Ingest`,
and closing the session is what `Crash` does to them: the transaction is rolled back.
The clouds stand still in `Service`: only `Fetch` reads them, and partial listings of a full
cloud give it everything that a changing one could.

### BatchSync

`nb` is NetBox, `cache` the copy loaded at the beginning, and the queues have their
names from `NetBoxCache` (`change` is `primary_ip_changes`, `move` is
`ips_to_update`, `pendMove` is `pending_ip_reassignments`, `pendPrim` is
`pending_primary_ips`). A sync is `Load`, `DeleteOrphan` for orphaned VMs, `Process` for
every VM of the listing in any order, and the steps 1, 3, 4, 5 and 8 of
`apply_batch_updates`, one action per object and call. Steps 2, 6 and 7 (disks and
parameters) are in `CloudMirror` and touch nothing that is modelled here. Every call may
fail (`CallFails`) and the process may die (`Crash`).

NetBox is external. From the way the code uses it and the errors it handles: a
primary address must be on an interface of its VM, an address may not leave the VM it
is primary of, and a VM is deleted with its interfaces and their addresses.

### SequentialSync

`sync --no-batch` runs `sync_vms` instead, on the same NetBox: a sync is of either kind, and
one kind has to live with what the other has left. `at` says what it does next for VM `vm`,
`slots` which addresses of it are still to be done. `known` and `was` are the VMs and their
primary addresses as `fetch_vms` read them (none, if NetBox did not answer: the sync goes on,
and NetBox refuses to create what it has); everything else is read when it is needed. VMs
that are not known are created with their interfaces and addresses and without a look at
other VMs; for known VMs an address is first unset as the primary one of whoever has it.

### SyncEngine

One `SyncEngine.run` after the other, and within it one account (`turn`) after the
other. `phase` is what `_sync_provider` does next for the account: `fetch`, `tag`,
`cleanup`, `clusters`, `prefixes` (`sync_infrastructure`), `load`, `orphans`, `vms`,
`moves` (`sync_vms_optimized`), and at the end `store` (`_store_vm_sync_errors`).
Accounts share NetBox (`nb`, `clusters`, `prefixes`); what belongs to whom is told by the
tag of the provider's type and by the cloud name in front of a cluster's name, so folders
carry their cloud (`CloudOf`) and clouds their account (`OwnerOf`). VMs are known by
their name, as in the code; two accounts may have a VM of the same name, and NetBox may
know VMs that someone else created.

A phase that makes many calls is one action that picks the objects whose calls fail (any
subset). `ensure_sync_tag` returns the tag, or 0 if NetBox fails (`TagKnown`), after which
new objects are created without a tag. `steady` and `clean` count the syncs in which
nothing failed and no cloud changed; `seen` and `failed` remember what was true of the
cloud, and what failed, independently of the code's own data. `rows` are the names that had a
row in the database when the errors were last stored: others get no error.

### Monitoring

One check after the other by one process; `phase` is `idle`, `pages` (`fetch_hosts`) or `check`
(the loop of `check_all_vms_monitoring`, then storing). `zabbix` is what Zabbix knows, a set of
hosts with unique names; `honest` says whether it heeds the offset of a request. `got` holds
the hosts fetched so far with the page each was on first, since the first host of the list wins a
lookup (`Firsts`); `bulk` is what became of the fetch, and decides with `got` which VMs are
queried one by one (`Queried`). VMs
are numbered in the order in which the code reads them, by name and id, so that
`Max(StoredFor(i))` is the VM that takes the row of a host in the end. A row carries the VM,
that is its name and its account. `fresh` remembers that neither Zabbix nor the VMs have
changed since the check began that was stored last.

### CloudFetch and CloudMirror

`at` is the request in turn. A request is tried up to `MaxRetries` more times (`Retry`); a
list comes in pages, each of which begins after the last item of the one before (`mark`);
`left` is what the nested loops have not reached; `cache` is `disk_cache`. `Answer` is the
last page or the one object asked for, `Fails` a failure after the last attempt, and what
either makes of the listing is said once for each kind of request (`TakeVms(items, ok)`).
The cloud changes at any moment. `always` remembers what existed during the whole fetch and
`lost` which requests failed without raising `_has_fetch_errors`, independently of the
listing.

`CloudMirror` goes on where `fetch_all_data` returns: clean-up and creation of sites, then
of the batch sync what concerns a VM's site, platform and disks. A step that calls NetBox
for each of many objects is one action in which the calls for any of them may fail, which
counts as one failure (`Outcomes`). A cloud without zones gets the default ones. A VM's platform is "own" if its OS could be found out, and "linux" otherwise.

### Comparison and ComparisonPage

`Comparison` has one action per row of the second pass of the engine (`Visit`): a row that
lacks a system claims a VM that has one of its addresses and is not claimed yet. Which
address comes first depends on the order of a set of strings, and which VM on the database's
order of names with capitals, so it may be any.
`owner[n]` is the row that claimed name `n`; `ip_merged_names` is the set of names that
have one. `Missing` is `_compute_discrepancies`.

`ComparisonPage` surrounds it with the tables: `ingest_netbox_hosts` in its steps, a cycle's
ingestion of an account as one (its details are `Ingest`), and a page that reads VM rows,
NetBox rows and the latest run one after the other. `torn` remembers that an import ended in
between, `stored` what the latest successful import fetched; one that fails may have any part of
its rows in the session, which is rolled back. Only the page's own rows matter while it compares, so that cycles wait for the
comparison, not for the page.

## Runs

| Run | Module, configuration | Question | States |
|---|---|---|---|
| `ingest_single` | `MCIngest`, `Ingest_single.cfg` | does one process isolate failing accounts, follow its configuration, and implement `Inventory`? | 892 000 |
| `ingest_two` | `MCIngest`, `Ingest_two.cfg` | what still holds when two processes overlap, and does every cycle end? | 157 000 |
| `ingest_partial` | `MCIngest`, `Ingest_partial.cfg` | do existing VMs stay active with a provider that swallows errors? (violated) | |
| `ingest_lost` | `MCIngest`, `Ingest_lost.cfg` | are the VMs of the last listing active, with two processes? (violated) | |
| `scheduler` | `MCScheduler`, `Scheduler.cfg` | overlap, lost triggers, torn status, lock and liveness | 188 000 |
| `service` | `MCService`, `Service.cfg` | is the job lock enough for a whole process? | 647 000 |
| `batch` | `MCBatchSync`, `BatchSync.cfg` | does NetBox converge to the cloud after failures and moves, whichever kind of sync runs, and are primary addresses left alone? | 1 198 000 |
| `engine` | `MCSyncEngine`, `SyncEngine.cfg` | is only deleted what is an orphan of the account in turn, do clouds end up mirrored, do failures show? | 2 119 000 |
| `engine_scope` | `MCSyncEngine`, `SyncEngine_scope.cfg` | do accounts leave each other's prefixes alone? (violated) | |
| `fetch` | `MCCloudMirror`, `CloudMirror.cfg` | is anything lost without a failure that explains it, and does one good sync repair it? | 399 000 |
| `monitoring` | `MCMonitoring`, `Monitoring.cfg` | is what Zabbix knows shown and nothing else, does every check end, are other accounts left alone? | 325 000 |
| `comparison` | `MCComparison`, `Comparison.cfg` | is every discrepancy shown real, and none hidden; do reasons fit the rows? | 1 482 000 |

Bounds, and why they are enough:

- `MaxRuns = 3`: with one process a listing, one that changes it and one that changes
  it back; with two processes a run before the overlap and one of each in it. A cycle
  only begins if the bound leaves room for all its runs, so that no cycle is cut off.
- Two accounts are needed for isolation, two ids for a listing that loses one VM and
  keeps another. Overlap is about one account, so those runs have one. With one process
  the clouds change; in `ingest_two` they stand still, but a listing may be any part of the
  cloud, so that the processes get every pair of listings that a change could give them.
- `MaxCycles = 3` with two requests and the interval job: each thread may have a cycle,
  in any order, with a skip before and after.
- `MaxFailures = 1`, `MaxChanges = 1` in `BatchSync`: one failure, or the death of the
  process, at any place, and one change from any cloud to any other. NetBox starts
  with any of the addresses known and no VM, so that every reachable NetBox
  is one that earlier syncs produced. `MaxClean` stops the count of clean syncs at 3,
  which are enough for two VMs (see *Batch sync* below for more of them).
- Two VMs with two interfaces each and two private and one public address let addresses
  swap, move, vanish and compete, within a VM and between VMs. A VM has private addresses on
  any interface, or anything on the first and nothing on the second. Each sync is of either
  kind, so that three clean syncs may be any mixture of the two.
- `CloudMirror` has two VMs in one folder and one in another, so that a page may end between
  two VMs and a folder's failure leaves another folder's VMs; one disk that comes and goes; a
  zone that the default zones lack and a default zone that does not exist, each the other
  way to be wrong. Two failures are what it takes to lose a disk (the list, then the disk);
  one retry is enough to tell attempts from failures.
- `Comparison` has three names and two addresses: a row that claims a VM, one that competes
  for it, and one that is claimed itself. Two cloud VMs may be of one name in two accounts. The
  world begins with any two VMs in the clouds and one or two in NetBox, each with an address
  or none, and changes once: a VM appears or goes.
- `SyncEngine` has two accounts of one type with a vCloud account between them, so that an
  account follows one of its own type and one of another; two clouds, one with two folders,
  so that a VM moves within an account, between accounts and between types; one failing
  step or crash and one change of the clouds to any other. A step with failures counts
  once, whatever subset of its calls fails. A cloud changes only when no account is being
  synced or one is about to be fetched: it is read by the fetch alone, so that every other
  moment is the same as one of these.
- `Monitoring` has pages of two hosts and two pages. Three hosts are a full page and a short
  one, or two equal pages if offsets are ignored, so that the list is truncated and lacks the
  third. Its VMs share a name across accounts and an address within one, and are known by
  name, by address, or not at all. Two failures let the fetch fail and then a query, or a
  renewed token be rejected; one change of Zabbix to anything else, or of the VMs, happens
  between any two steps (of the VMs: between checks, as a check keeps what it has read).
- Symmetry is used for accounts, ids, VMs and private addresses in runs without
  liveness properties; nothing in the modules distinguishes them.

`CHECK_DEADLOCK FALSE` stands in all configurations: the bounds stop every model, and
the scheduler may be stopped.

### Fairness

`Scheduler!Fairness` lets every started thread and every begun request make progress while
the service runs, as threads of a live process do. Two things end that: `Stop`, after
which the process ends and its daemon threads with it, and NetBox, since
`providers/netbox.py:46` gives its client no timeout while the clients of the clouds and of
Zabbix have one (`httpx.Client(timeout=30.0)`). `LockIsReleased` and
`TriggeredMeansIngested` say exactly that: nothing but a stop or a NetBox that never answers
keeps the lock, or the cycle somebody was promised, for ever. Nothing obliges the interval
or a user to come. `Ingest!Fairness` lets a cycle that has begun go
on: its steps wait for nothing but a provider (which answers, raises or times out) and
the writer lock (SQLite gives up after its timeout, the `...Locked` actions). Starting,
dying and the next cycle are not fair. `BatchSync` states no liveness:
`Converges` counts completed syncs instead, as `clean` does in `SyncEngine`. `Monitoring` lets a
check that has begun go on: its requests time out after 30 s and are repeated three times. So does
`CloudMirror` with a fetch, whose client has the same time-out. `Comparison` promises nothing about
time: a page is computed in one thread without waiting.

### Disagreements found

1. `ingest_partial`. `fetch_all_data` (`providers/yandex.py:329`) swallows the failure
   of a folder and notes it in `_has_fetch_errors`, which `sync/engine.py:78` heeds and
   `fetch_vms` drops: VMs that exist go offline in the database.
2. `ingest_lost`. An overlapping run with an empty listing reads a row as stale, the
   other run reads it as active and upserts it, the first commits "offline", and the
   second does not write the status because it had not changed when it was read. The VM
   is in the listing committed last and offline until the next run.
3. `engine_scope`. Clean-up is scoped by the cloud names of the account's folders
   (`sync/cleanup.py:13`, `:90`, `:134`). An account without folders has none, and its
   clean-up then covers all accounts of the type: it deletes their prefixes and their
   clusters without VMs. An account synced before it lacks them until the next sync,
   which creates them and deletes them again.

What holds nevertheless is stated next to it: `ActiveReflectsListing` and
`VmsChangeOnlyBySuccess` bound the damage of overlapping processes, `DeletesOnlyOwnOrphans`
says that VMs are not among what the third deletes - an account without folders lists no
VMs, and `sync_vms_optimized` returns before its clean-up - and that prefixes, and clusters of
other accounts, are deleted by an account without folders only. `VmsOfEveryListingStayActive`
is what is left of the first: no VM goes offline that every listing contains.

Limits of the code that properties carry as conditions, or that the modules show without a
property of their own:

- *Database.* `web/routes/comparison.py` reads VM rows (`:68`) and monitoring rows (`:90`)
  whatever their status, and neither are ever deleted: a VM that has left its cloud counts
  as in the cloud for ever, one whose host has left Zabbix as monitored, although
  `README.md:442` promises "discrepancies: VMs missing from any system".
- *Comparison.* The rows of a claimed name are dropped, also that of another VM with the
  name: of cloud VMs `a` (address 1) and `b` and a NetBox VM `b` (address 1), `a` claims
  `b`, and the cloud VM `b` is not shown at all. A VM that is known to NetBox under
  another name may be shown under that name, without its exemption and its errors. With no
  NetBox row at all NetBox counts as not configured. `UnambiguousVmsAreExact` is therefore about
  names that share addresses with one other at most.
- *Clean-up.* The VMs of an account that has lost its last VM stay in NetBox, as do VMs created
  without a tag and VMs that moved to an account of another type with its old tag
  (`OrphansAreGone`); a cluster goes one sync after its VMs (`StaleClustersGo`). The
  sequential sync adds the default tag of Yandex Cloud to every VM it updates, of vCloud, too
  (`providers/netbox_vms.py:167`).
- *Configuration.* Each process puts the accounts right by the file it read: `serve` with an old
  file and `sync` with a new one activate and deactivate accounts in turn
  (`sync/config_sync.py:52`). `OnlyConfiguredAccounts` is about one process.
- *Run rows.* A run row that could not be closed, because the process died or the database was
  locked, says "running" for ever (`RunRowsAreOwned` says that nobody else writes it).
- *Errors* are kept for the last account of each type only, and for VMs that have a row in the
  database when they are stored (`FailuresAreShown`), and those of
  the steps of the batch sync for no VM at all (`sync/batch.py:908`).
- *Batch sync.* Step 1 misses a primary address if its VM is processed after the VM that takes
  it over, as `primary_ip_changes` has one entry per VM; NetBox refuses the move and later
  syncs repair it (`Converges`). How many it takes depends on the addresses. If those of
  interfaces are private, three syncs are enough for any number of VMs (proved). If VMs have
  public addresses of their own and exchange them, a VM keeps its old one as its primary address
  until it can have the new one, which another VM keeps in turn: each VM beyond the second may
  take one more sync, hence `MaxClean`. With three VMs three syncs are not enough; four for three
  VMs and five for four were enough in the instances tried.
- *Sequential sync.* An address that moves between two interfaces of a VM is unset as its
  primary address, which `update_vm_primary_ip` does not notice, since it looks at what was
  read before (`sync/vms_networking.py:62`): the VM has no primary address until the next
  sync. `StablePrimary` is about addresses that need not move.
- *Providers.* Failures that raise no flag change NetBox: without zones the default ones
  take their place (`providers/yandex.py:238`), sites of others are deleted if no VM is on
  them; without a disk list and a disk the disk is deleted (`:408`); without an image the
  platform becomes linux (`:385`). `LossesAreExplained` says that nothing else is lost, and
  `SteadySyncRepairs` that the next good sync repairs it. Pages of vCloud are numbered
  (`providers/vcloud.py:120`): if a VM goes between two pages, one that exists may be listed on
  neither, and clean-up deletes it. Lists are read until there is no further page, without
  a limit.
- *Monitoring.* A VM whose query fails counts as not monitored and the check as a success, even
  if Zabbix answers no request at all, although `sync/ingest.py:150` says that Zabbix errors
  are re-raised: the tests want them isolated (`tests/sync/test_monitoring.py:379`), and
  `MonitoredVmsAreShown` leaves such VMs out. It also leaves out checks during which Zabbix
  changed (a host deleted between two pages hides another one), and allows for an address
  within a truncated list to hide a name beyond it.

## Proofs

`IngestProofs` proves for any accounts, ids, processes, configurations and `MaxRuns`:
`TypeOK`, `RunRowsAreOwned`, `ActiveReflectsListing`, `VmsOfEveryListingStayActive`,
`VmsChangeOnlyBySuccess` and `FailuresAreIsolated`, and
`OnlyConfiguredAccounts` for one process. `TypeOK` is not inductive, since the account of a process'
run is only defined if its run row exists. The inductive invariant `IInv` adds

- `RunInv`: rows up to `nruns` exist; a process in a run works on an existing row that
  is "running", and no two processes on the same;
- `LastOkInv`: `lastOk` points to a successful run on the account;
- `StampInv`: the time taken before the lock is not before the start of the run;
- `SeenInv`: a row with a time was listed by a run that ended then or later (`ListedSince`);
- `MarkInv`: between the unprotected read of `mark_vms_stale` and its commit, a row
  that was not read as active is active only if it is in the listing of a run that
  ended since the run began: a process that commits meanwhile makes rows active only by
  listing them, whatever time it gives them.

Given these, only `CommitRun` touches `vms`; `CommitRows` says what it does to each
row, and every theorem follows from it. For `VmsOfEveryListingStayActive` an offline row
needs a witness: `OfflineStep` finds it in the run that commits, or keeps the one there was,
since rows of runs that succeeded do not change. `CleanInv` and `ConfInv` are small invariants of
their own: a provider without an outcome is still to come and only a session that writes has
anything to commit; the accounts a process takes up are of its configuration.

The second half of `IngestProofs` proves `KeepsPromise`: `Ingest` implements `Inventory` for any
number of processes. Again only `CommitRun` is of interest. The listing that `Inventory` takes over
is what the commit has made active (`RowsFollowListing`), rows that a commit kept although its
listing lacks them are there only if processes overlap. That rests on `ReadInv`: what a session read
without the lock is still true. A row read as active still exists, as rows are never deleted; and
if one process at a time ingests, it is still active and was seen before the run began
(`AloneInv`), so that nothing escapes `mark_vms_stale`. `SoloIsExact` says of one process that
the active VMs are exactly those of the listing committed last (`ExactInventory`), and that listings
are committed in the order of their runs (`ListingsInOrder`).

`SchedulerProofs` proves for any requests and `MaxCycles`: `TypeOK`, `NoOverlap`,
`SkippedRunsAreReplaced`, `StatusIsNotTorn` and `QuietStatusIsCurrent`. The
invariant says that whoever is in the critical section holds the lock, that its cycle is
the newest, and which of the two status fields it has written at each line.

`ServiceProofs` puts the two together, for any requests, accounts and bounds. `Components` says
that a behaviour of `Service` is one of `Scheduler` and one of `Ingest`, whose proofs are used as
instances. `LinkInv` ties them: a thread is in an ingestion only at the line `ingest`, where
`NoOverlap` allows one thread, and its session is open as long. So threads are processes that
ingest one at a time, although there are many of them, which is all that `AloneInv` needs: hence
`ServeKeepsExactInventory` and `ServeKeepsListingOrder`. For `NoRunLeftOpen` the invariant
`RunningInv` says that a run row which is running is that of a thread in a run: as no other session
has the writer lock, the except branch that records a failure finds it free.

`SyncEngineProofs` proves for any accounts, types, folders, clouds, VMs and worlds: `TypeOK`,
`DeletesOnlyOwnOrphans` and `FailuresAreShown`. That a deletion hits an orphan - of VMs, and of
clusters and prefixes with the limits that the third disagreement leaves - follows from
what the engine has listed, which must be what the account in turn had. The inductive
invariant `IInv` adds to `TypeOK`, besides that the clouds stay in `Worlds`,

- `AccountInv`: between two accounts there is no data of an account, and before the VMs of
  one nothing is to be moved and nothing has failed;
- `ListingInv`: what is listed is of the account in turn, a whole listing is what the
  account had when it was asked (`seen`), and when orphans are looked for something is
  listed, so that there are cloud names and deletion is scoped;
- `MovesInv`: VMs to be moved are in NetBox.

For `FailuresAreShown` the invariant `FailedInv` is added: what failed for the account in turn is in
`vmErrors`, and what failed for an account whose turn is over is in the statistics of its
type, unless a later account has the type, too.

What a sync achieves in which nothing fails or changes is proved as a second invariant
(`SteadyInv`) that follows such a sync: `VmsAreMirrored`, `OrphansAreGone`, `StaleClustersGo` and
`ErrorsAreCleared`. Each has the same form: it holds of the accounts whose turn is over, of the one
in turn for what is done of it, and the rest of the sync does not undo it. The last is what could
go wrong, since accounts share names, clusters and NetBox: a VM that two accounts list is moved from
one to the other and is still in a cluster of a holder; no step of an account creates an orphan of
another (`OrphansStayGone`). What is left in a stale cluster after the first steady sync
belongs to nobody and is not touched by the second (`StaleVmsStay`), which is why `StaleClustersGo`
needs two.

`CloudMirrorProofs` proves for any clouds, folders, VMs, disks, zones, page sizes and retries, with
a cloud that changes between any two requests: `TypeOK`, `LossesAreExplained` and
`SteadySyncRepairs`. The loops of the fetch are nested, so the invariant says for every VM that
exists all the time that it is listed, or still ahead (`Ahead`: its cloud, folder, page or itself has
not been reached), unless the flag is up that forbids the clean-up (`FoundInv`); for every disk that
it is in the cache, ahead, listed, or lost by two failures (`DiskInv`); and likewise for the
OS and the zones. A page begins after the last item of the one before, and what existed all the
time is not missed by that (`PageInv`). For `SteadySyncRepairs` the invariant `SteadyInv` follows a
fetch in which nothing fails or changes, whose listing is exact, and then says for each phase of
the sync what is already right in NetBox and that the queues hold what is not.

`BatchSyncProofs` proves for any VMs, interfaces, addresses and clouds, of both kinds of sync on
one NetBox, with failures and crashes anywhere: `SeqTypeOK`, `UnlistedAddressesStay` and
`StablePrimary`. Both properties are about decisions that are made on a cache and carried out
many steps later, when NetBox may be different. The invariant says what still holds of each entry of
a queue: `QueueInv`, that addresses in the queues are of the listing, or are where the cache
has them already; `PrimaryInv`, that until a primary address is written it is as cached or unset,
that it is to be unset only if the listing gives it to another VM, and replaced only if it is not
private. That interfaces have distinct addresses excludes that the first happens to an address
that is in place. `Sound` says what NetBox itself sees to, `LeftInv` and `SeqInv` what the
steps have not reached yet.

`ThreeSyncsConverge` proves `Converges`, and that three syncs are enough however many VMs there
are, if the addresses of interfaces are private (`OwnAddressesArePrivate`), as they are in Yandex
Cloud, where a public address is mapped to a private one; vCloud may have it otherwise. The
invariant `CInv` goes by stages (`Stages`). One sync in which no call fails leaves all VMs
and interfaces, and every address either in place or where it can be moved from (`Free`): its holder
is the same VM, or has a primary address already, so that the fallback of `_select_primary_ip`
does not take it for itself. The second puts the addresses in place, the third makes the private ones
primary. Within a batch sync `Course` says of the cache, the queues and NetBox how far it is
on this way: `MovesPart`, that an address the cache has elsewhere is queued to be moved, and
unset as a primary address in time; `IpsPart`, that one it lacks is queued to be created;
`PlacePart`, where the addresses are from step to step. `Again` and `Third` are what a second
and a third sync add. Within a sequential one `SeqWhole` says what is done, and why an address of a
VM that was just created may still be elsewhere (`Blocked`: `create_ip` does not unset it as
the primary address of another VM). A sync is of either kind, so both keep what the other needs.
`CInv` was model-checked on instances with private addresses before it was proved.

`MonitoringProofs` proves for any VMs, hosts, page size and number of pages: `TypeOK`,
`MonitoredVmsAreShown`, `NothingElseIsActive`, `RowsChangeOnlyBySuccess` and
`UncheckedAccountsKeepTheirRows`. The first is about the limits: a fetch is taken for whole when a
page is short. Hosts have ranks in Zabbix' order, every rank below the number of hosts is that of
a host (`EveryRank`), and a page is the hosts of `PageSize` successive ranks, so that one that is
short is the last one (`PageIsFull`). `CoverInv` says that while Zabbix stands still and heeds
the offset the hosts before the page in turn are all fetched, `TrueInv` that nothing else is.
Hence a VM that Zabbix knows is found in the list, by name or address, or asked for
(`ResultInv`), and its host's row goes to the last of the VMs that found it (`MaxIsGreatest`).
`ShownInv` keeps both properties of the rows until something changes.

`ComparisonProofs` proves for any names, addresses, accounts and worlds: `TypeOK`,
`SystemsAreBacked`, `GapsAreReal`, `UnambiguousVmsAreExact`, `HostsAreOfLatestRun` and
`ReasonsFitRows`. Its invariant says
of every row that the systems it is shown in are backed; that a row which has been looked at, is
not claimed and lacks a system had nothing to claim there - and never will have, since names
are only ever added to those that are taken; and that what the page compares is what it has
read. As the latter is compared with the latest run, the invariant also says that the rows are
those of the latest import that succeeded, and of the run if it is that one. `Claimed` says what became of every name: a row that claimed it has another
name, one of its addresses and by now both systems, and was not claimed itself. Hence of two names
that share an address with each other only, one row claims the other's name and not conversely,
and a name that shares no address is neither claimed nor claims anything.

The proofs assume the named assumptions of the modules only (a configuration lists
accounts, nobody is not a process, bounds are numbers, VMs and hosts are finitely many), and
`ThreeSyncsConverge` that own addresses are private; TLC
evaluates the assumptions in every run. One of them restricts the clouds: `DistinctAssumption` of
`BatchSync` says that no two interfaces of an account have one address, which is how the cloud
assigns them in one network; accounts with overlapping networks are named below.

Model-checked only: liveness (`CycleEnds`, `LockIsReleased`, `TriggeredMeansIngested`,
`CheckEnds`, `FetchEnds`), which TLAPS cannot do under fairness; and `Converges` for VMs with public
addresses of their own, where the number of syncs depends on how many VMs wait for each other's
addresses: a proof would have to count them. The three runs that expect a
violation end with a counterexample, so there is nothing to prove about their properties.

## Abstractions

- VMs have a status and a time; other attributes are written with them. All VMs of a
  listing run. An external id is unique in its account (a constraint of the table).
- `SyncConfig` is one step. Two processes with different files that interleave inside it
  could mix their account flags; the next cycle of either puts its own right. `sync_start`
  is read right after the commit that creates the run row, and is one step with it.
- PostgreSQL and other databases without a single writer are not modelled; SQLite is the
  default of the program.
- A cycle's ingestion of an account is one step in `ComparisonPage`, and what its own sync does
  to NetBox is part of what NetBox's users do.
- `run_ingestion_cycle` with Zabbix runs one more step after the loop, which touches no
  VM row; it is `Monitoring`, not in `Ingest`. There the VMs and the exempt ones among
  them are given, one process checks at a time, and Zabbix does not change within the two or
  three requests about one VM. Names are compared as they are written.
- VMs stay in their cluster in `BatchSync` and `SequentialSync`. (Of a VM that has moved to another
  one the sequential sync would create a second if `fetch_vms` had failed.)
- VM names are unique in `BatchSync`, addresses are on one interface at a time (`Distinct`)
  and have one object in NetBox. The order of objects within a step is arbitrary, which includes
  the order of the code.
- `CloudMirror` has one account: two with different zones would delete each other's empty sites, as
  `engine_scope` shows for prefixes. Every VM has an image of its own, so that the cache of
  images changes nothing. Disks keep their size. Two disks of a VM have different names.
- `SyncEngine` has no sites, no tenants and no
  dry runs; VM rows are never deleted, so one that shows an error is there for good; a cluster belongs to one folder, a prefix to one folder, a name to one VM of an
  account and to one VM in NetBox. Tagging objects that exist does not fail on its own.
- A cached object that failed to be saved keeps its new value, as in the code; saving it
  again later sends what differs.

## Not modelled

- *vCloud requests and tokens.* What `VCloudDirectorClient.fetch_all_data` adds to what
  `CloudFetch` has is numbered pages, named above. Clients are built for each cycle, so that
  a token is made for a cycle and seldom renewed (`providers/yc_auth.py`).
- *Other parameters* of VMs (memory, CPUs, status, comments, tenant): each is compared and
  written with the platform and the site, by the same two functions.
- *Dry runs*, which write nothing, and clean-up switched off, which leaves steps out.
- *Addresses that two accounts share.* `BatchSync` has one account; with two, each sync moves the
  one object that NetBox has per address to its own VM (`sync/batch.py:446`).
- *Pages of one tenant.* The comparison page may be narrowed to a tenant (`web/routes/comparison.py:71`),
  whose rows alone it then reads; `ComparisonPage` has the page of all.
- *The other pages and the login*, which are single queries, their layout, and a cookie;
  *configuration files, migrations, formatting and address helpers*, which have no state.
- *Matching with Zabbix hosts* in `comparison/engine.py`, which only tests call.

## Plan

What is left is to prove `Converges` for VMs with public addresses of their own. That needs a
measure of the VMs that still wait for an address, which each sync after the second decreases, and
with it an argument by induction on the number of syncs.
