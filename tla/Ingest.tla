-------------------------------- MODULE Ingest --------------------------------
(***************************************************************************)
(* Ingestion of cloud VMs into the database: run_ingestion_cycle           *)
(* (sync/orchestrator.py), sync_config_to_db (sync/config_sync.py),        *)
(* DataIngestor.ingest_all and ingest_cloud_vms (sync/ingest.py) and the   *)
(* repository operations they call (db/repository.py).                     *)
(*                                                                         *)
(* Several operating system processes may ingest into one database: `serve`*)
(* with its scheduler, and `sync` started from the command line.  Each has *)
(* its own session and the configuration file it read when it started.     *)
(* Nothing but the database's single writer lock keeps them apart.         *)
(*                                                                         *)
(* Time.  datetime.now is compared only between the start of a run         *)
(* (sync_start) and the moment a row was seen (last_seen_at), so time is   *)
(* the number of run rows created so far; sync_start is the number of the  *)
(* run itself.  A process may take the time and wait for the lock before   *)
(* it writes it (stamp).                                                   *)
(*                                                                         *)
(* Reads take no lock.  The database begins a transaction with the first   *)
(* write, so a row read before that may change until it is written, and    *)
(* the session writes only attributes that differ from what it read.       *)
(*                                                                         *)
(* All VMs of the clouds run: a listing gives each of them status active.  *)
(***************************************************************************)
EXTENDS Naturals, FiniteSets

CONSTANTS Accounts,         \* cloud accounts (tenant, name)
          Ids,              \* external ids of VMs
          Procs,            \* processes that ingest
          FileConfigs,      \* what a configuration file may list: sets of accounts
          EnvMode,          \* may a process be configured by environment variables?
          PartialListings,  \* may fetch_vms return a partial listing?
          MaxRuns,          \* bound on the run rows ever created
          NoProc            \* nobody holds the writer lock

ASSUME ConfigsAssumption ==
    FileConfigs \subseteq SUBSET Accounts /\ FileConfigs # {}
ASSUME FlagsAssumption == EnvMode \in BOOLEAN /\ PartialListings \in BOOLEAN
ASSUME MaxRunsAssumption == MaxRuns \in Nat
ASSUME NoProcAssumption == NoProc \notin Procs

VARIABLES
    cloud,    \* cloud[a]: the VMs that exist in account a (outside the program)
    acct,     \* acct[a]: the CloudAccount row: absent, active or inactive
    vms,      \* vms[a][i]: the committed VM row
    runs,     \* runs[r]: the committed SyncRun row
    nruns,    \* number of SyncRun rows created
    writer,   \* holder of the database's writer lock
    lastOk,   \* history: lastOk[a] is the run on a that succeeded last, or 0
    pc,       \* pc[p]: where process p is
    conf,     \* conf[p]: the configuration p loaded
    todo,     \* todo[p]: providers that ingest_all has not reached yet
    results,  \* results[p][a]: the results dict of ingest_all
    run,      \* run[p]: the run row p works on (and its sync_start), or 0
    listing,  \* listing[p]: what fetch_vms returned
    loaded,   \* loaded[p][i]: the status of row i that p read without the lock
    stamp,    \* stamp[p]: the time p took for the row it read without the lock, or 0
    pend      \* pend[p]: VM rows flushed by p and not committed

vars == <<cloud, acct, vms, runs, nruns, writer, lastOk,
          pc, conf, todo, results, run, listing, loaded, stamp, pend>>

RunIds == 1..MaxRuns

\* A configuration: YAML file (with the accounts it lists) or environment.
Conf == [mode : {"file"}, accounts : FileConfigs]
        \cup (IF EnvMode THEN [mode : {"env"}, accounts : {{}}] ELSE {})

VmRow == [status : {"absent", "active", "offline"}, seen : 0..MaxRuns]
NoVm  == [status |-> "absent", seen |-> 0]

\* found stands for items_found: the listing it counts.  ended is history: the newest
\* run when a successful run was committed.
RunRow == [status : {"running", "success", "failed"},
           account : Accounts, found : SUBSET Ids, ended : 0..MaxRuns]
NoRun  == [status |-> "none"]

TypeOK ==
    /\ cloud \in [Accounts -> SUBSET Ids]
    /\ acct \in [Accounts -> {"absent", "active", "inactive"}]
    /\ vms \in [Accounts -> [Ids -> VmRow]]
    /\ runs \in [RunIds -> RunRow \cup {NoRun}]
    /\ nruns \in 0..MaxRuns
    /\ writer \in Procs \cup {NoProc}
    /\ lastOk \in [Accounts -> 0..MaxRuns]
    /\ pc \in [Procs -> {"off", "idle", "build", "accounts",
                         "fetch", "write", "mark", "except"}]
    /\ conf \in [Procs -> Conf]
    /\ todo \in [Procs -> SUBSET Accounts]
    /\ results \in [Procs -> [Accounts -> {"none", "pending", "success", "error"}]]
    /\ run \in [Procs -> 0..MaxRuns]
    /\ listing \in [Procs -> SUBSET Ids]
    /\ loaded \in [Procs -> [Ids -> {"unread", "absent", "active", "offline"}]]
    /\ stamp \in [Procs -> 0..MaxRuns]
    /\ pend \in [Procs -> SUBSET Ids]

NoResults == [a \in Accounts |-> "none"]
Unread    == [i \in Ids |-> "unread"]

Init ==
    /\ cloud \in [Accounts -> SUBSET Ids]
    /\ acct = [a \in Accounts |-> "absent"]
    /\ vms = [a \in Accounts |-> [i \in Ids |-> NoVm]]
    /\ runs = [r \in RunIds |-> NoRun]
    /\ nruns = 0
    /\ writer = NoProc
    /\ lastOk = [a \in Accounts |-> 0]
    /\ pc = [p \in Procs |-> "off"]
    /\ \E c \in Conf : conf = [p \in Procs |-> c]
    /\ todo = [p \in Procs |-> {}]
    /\ results = [p \in Procs |-> NoResults]
    /\ run = [p \in Procs |-> 0]
    /\ listing = [p \in Procs |-> {}]
    /\ loaded = [p \in Procs |-> Unread]
    /\ stamp = [p \in Procs |-> 0]
    /\ pend = [p \in Procs |-> {}]

-----------------------------------------------------------------------------
(* Helpers *)

\* The account of the run that p works on.
Cur(p) == runs[run[p]].account

\* p holds the writer lock, or can take it now.
CanWrite(p) == writer \in {NoProc, p}

\* The writer lock after p committed or rolled back.
Released(p) == IF writer = p THEN NoProc ELSE writer

\* Mutant: an exception ends the loop of ingest_all.
OutcomeStopsLoop(p, o) ==
    /\ pc' = [pc EXCEPT ![p] = IF o = "error" THEN "idle" ELSE "accounts"]
    /\ todo' = [todo EXCEPT ![p] = @ \ {Cur(p)}]
    /\ results' = [results EXCEPT ![p][Cur(p)] = o]
    /\ run' = [run EXCEPT ![p] = 0]
    /\ listing' = [listing EXCEPT ![p] = {}]

\* Mutant: an account that failed is tried again at once.
OutcomeRetries(p, o) ==
    /\ pc' = [pc EXCEPT ![p] = "accounts"]
    /\ todo' = IF o = "error" THEN todo ELSE [todo EXCEPT ![p] = @ \ {Cur(p)}]
    /\ results' = [results EXCEPT ![p][Cur(p)] = o]
    /\ run' = [run EXCEPT ![p] = 0]
    /\ listing' = [listing EXCEPT ![p] = {}]

\* p leaves the try block of its current run with an outcome for results.
Outcome(p, o) ==
    /\ pc' = [pc EXCEPT ![p] = "accounts"]
    /\ todo' = [todo EXCEPT ![p] = @ \ {Cur(p)}]
    /\ results' = [results EXCEPT ![p][Cur(p)] = o]
    /\ run' = [run EXCEPT ![p] = 0]
    /\ listing' = [listing EXCEPT ![p] = {}]

-----------------------------------------------------------------------------
(* The environment: VMs come and go in the clouds *)

CloudChanges(a) ==
    /\ \E S \in SUBSET Ids : cloud' = [cloud EXCEPT ![a] = S]
    /\ UNCHANGED <<acct, vms, runs, nruns, writer, lastOk,
                   pc, conf, todo, results, run, listing, loaded, stamp, pend>>

-----------------------------------------------------------------------------
(* Processes *)

\* A process starts and loads its configuration.
Start(p) ==
    /\ pc[p] = "off"
    /\ \E c \in Conf : conf' = [conf EXCEPT ![p] = c]
    /\ pc' = [pc EXCEPT ![p] = "idle"]
    /\ UNCHANGED <<cloud, acct, vms, runs, nruns, writer, lastOk,
                   todo, results, run, listing, loaded, stamp, pend>>

\* A process dies at any point: the database rolls its session back, run rows
\* it left behind stay as they are.
Crash(p) ==
    /\ pc[p] # "off"
    /\ pc' = [pc EXCEPT ![p] = "off"]
    /\ writer' = Released(p)
    /\ todo' = [todo EXCEPT ![p] = {}]
    /\ results' = [results EXCEPT ![p] = NoResults]
    /\ run' = [run EXCEPT ![p] = 0]
    /\ listing' = [listing EXCEPT ![p] = {}]
    /\ loaded' = [loaded EXCEPT ![p] = Unread]
    /\ stamp' = [stamp EXCEPT ![p] = 0]
    /\ pend' = [pend EXCEPT ![p] = {}]
    /\ UNCHANGED <<cloud, acct, vms, runs, nruns, lastOk, conf>>

-----------------------------------------------------------------------------
(* run_ingestion_cycle *)

\* Mutant: accounts that are not listed stay active.
NobodyDeactivated(listed) ==
    [a \in Accounts |-> IF a \in listed THEN "active" ELSE acct[a]]

\* The account rows after sync_config_to_db: listed accounts are created or
\* reactivated, all others deactivated, none deleted.
ConfiguredAccounts(listed) ==
    [a \in Accounts |-> IF a \in listed THEN "active"
                        ELSE IF acct[a] = "absent" THEN "absent" ELSE "inactive"]

\* sync_config_to_db and its commit.  A session with nothing to write needs no lock.
SyncConfig(p) ==
    /\ pc[p] = "idle"
    /\ conf[p].mode = "file"
    /\ acct' = ConfiguredAccounts(conf[p].accounts)
    /\ CanWrite(p) \/ acct' = acct
    /\ pc' = [pc EXCEPT ![p] = "build"]
    /\ results' = [results EXCEPT ![p] = NoResults]
    /\ UNCHANGED <<cloud, vms, runs, nruns, writer, lastOk,
                   conf, todo, run, listing, loaded, stamp, pend>>

\* The database is locked: the exception ends the cycle.
SyncConfigLocked(p) ==
    /\ pc[p] = "idle"
    /\ conf[p].mode = "file"
    /\ ~CanWrite(p)
    /\ results' = [results EXCEPT ![p] = NoResults]
    /\ UNCHANGED <<cloud, acct, vms, runs, nruns, writer, lastOk,
                   pc, conf, todo, run, listing, loaded, stamp, pend>>

\* Environment mode has no configuration to store.
SkipConfig(p) ==
    /\ pc[p] = "idle"
    /\ conf[p].mode = "env"
    /\ pc' = [pc EXCEPT ![p] = "build"]
    /\ results' = [results EXCEPT ![p] = NoResults]
    /\ UNCHANGED <<cloud, acct, vms, runs, nruns, writer, lastOk,
                   conf, todo, run, listing, loaded, stamp, pend>>

\* The accounts a cycle considers: active ones with a file, else all.
Eligible(p) ==
    {a \in Accounts : IF conf[p].mode = "file" THEN acct[a] = "active"
                                               ELSE acct[a] # "absent"}

\* Run rows that the open cycles may still create.  A cycle is only begun when the
\* bound MaxRuns leaves room for it, so that no cycle is stopped by the bound.
Reserved == Cardinality({x \in Procs \X Accounts : x[2] \in todo[x[1]]})

\* _build_providers_for_ingestion: an account whose provider cannot be built is
\* left out.
BuildProviders(p) ==
    /\ pc[p] = "build"
    /\ \E built \in SUBSET Eligible(p) :
          /\ nruns + Reserved + Cardinality(built) <= MaxRuns
          /\ todo' = [todo EXCEPT ![p] = built]
          /\ results' = [results EXCEPT ![p] =
                [a \in Accounts |-> IF a \in built THEN "pending" ELSE "none"]]
    /\ pc' = [pc EXCEPT ![p] = "accounts"]
    /\ UNCHANGED <<cloud, acct, vms, runs, nruns, writer, lastOk,
                   conf, run, listing, loaded, stamp, pend>>

\* ingest_all has no account left.
EndCycle(p) ==
    /\ pc[p] = "accounts"
    /\ todo[p] = {}
    /\ pc' = [pc EXCEPT ![p] = "idle"]
    /\ UNCHANGED <<cloud, acct, vms, runs, nruns, writer, lastOk,
                   conf, todo, results, run, listing, loaded, stamp, pend>>

-----------------------------------------------------------------------------
(* ingest_cloud_vms *)

\* create_sync_run, its commit, and sync_start.  Account rows are never deleted,
\* so ingest_all always finds the account.
StartRun(p, a) ==
    /\ pc[p] = "accounts"
    /\ a \in todo[p]
    /\ CanWrite(p)
    /\ nruns < MaxRuns
    /\ nruns' = nruns + 1
    /\ runs' = [runs EXCEPT ![nruns + 1] =
                  [status |-> "running", account |-> a, found |-> {}, ended |-> 0]]
    /\ run' = [run EXCEPT ![p] = nruns + 1]
    /\ pc' = [pc EXCEPT ![p] = "fetch"]
    /\ UNCHANGED <<cloud, acct, vms, writer, lastOk,
                   conf, todo, results, listing, loaded, stamp, pend>>

\* The database is locked: ingest_all notes the error and goes on.
StartRunLocked(p, a) ==
    /\ pc[p] = "accounts"
    /\ a \in todo[p]
    /\ ~CanWrite(p)
    /\ todo' = [todo EXCEPT ![p] = @ \ {a}]
    /\ results' = [results EXCEPT ![p][a] = "error"]
    /\ UNCHANGED <<cloud, acct, vms, runs, nruns, writer, lastOk,
                   pc, conf, run, listing, loaded, stamp, pend>>

\* The listings fetch_vms may return without raising.  A provider that swallows
\* the failure of one request returns what the others gave.
Listings(a) == IF PartialListings THEN SUBSET cloud[a] ELSE {cloud[a]}

Fetch(p) ==
    /\ pc[p] = "fetch"
    /\ \E L \in Listings(Cur(p)) : listing' = [listing EXCEPT ![p] = L]
    /\ pc' = [pc EXCEPT ![p] = "write"]
    /\ UNCHANGED <<cloud, acct, vms, runs, nruns, writer, lastOk,
                   conf, todo, results, run, loaded, stamp, pend>>

\* Mutant: the failure is passed on without closing the run row.
FetchFailsSilently(p) ==
    /\ pc[p] = "fetch"
    /\ Outcome(p, "error")
    /\ UNCHANGED <<cloud, acct, vms, runs, nruns, writer, lastOk, conf, loaded, stamp, pend>>

FetchFails(p) ==
    /\ pc[p] = "fetch"
    /\ pc' = [pc EXCEPT ![p] = "except"]
    /\ UNCHANGED <<cloud, acct, vms, runs, nruns, writer, lastOk,
                   conf, todo, results, run, listing, loaded, stamp, pend>>

\* upsert_vm reads the first row it is going to write and takes the time, before it has
\* the lock.
LoadVm(p, i) ==
    /\ pc[p] = "write"
    /\ writer # p
    /\ loaded[p] = Unread
    /\ i \in listing[p]
    /\ loaded' = [loaded EXCEPT ![p][i] = vms[Cur(p)][i].status]
    /\ stamp' = [stamp EXCEPT ![p] = nruns]
    /\ UNCHANGED <<cloud, acct, vms, runs, nruns, writer, lastOk,
                   pc, conf, todo, results, run, listing, pend>>

\* upsert_vm flushes one row of the listing; the first one takes the writer lock.
\* (A row that was absent when read and exists now violates a constraint: WriteFails.)
UpsertVm(p, i) ==
    /\ pc[p] = "write"
    /\ i \in listing[p] \ pend[p]
    /\ CanWrite(p)
    /\ writer = p \/ loaded[p][i] # "unread"
    /\ loaded[p][i] = "absent" => vms[Cur(p)][i].status = "absent"
    /\ writer' = p
    /\ pend' = [pend EXCEPT ![p] = @ \cup {i}]
    /\ UNCHANGED <<cloud, acct, vms, runs, nruns, lastOk,
                   pc, conf, todo, results, run, listing, loaded, stamp>>

\* Mutant: no rollback, so the commit of the except block keeps what was flushed.
WriteFailsUnrolled(p) ==
    /\ pc[p] \in {"write", "mark"}
    /\ writer' = Released(p)
    /\ vms' = [vms EXCEPT ![Cur(p)] =
                 [i \in Ids |-> IF i \in pend[p]
                                THEN [status |-> "active", seen |-> nruns] ELSE @[i]]]
    /\ loaded' = [loaded EXCEPT ![p] = Unread]
    /\ stamp' = [stamp EXCEPT ![p] = 0]
    /\ pend' = [pend EXCEPT ![p] = {}]
    /\ pc' = [pc EXCEPT ![p] = "except"]
    /\ UNCHANGED <<cloud, acct, runs, nruns, lastOk,
                   conf, todo, results, run, listing>>

\* An exception while writing (also: locked for too long): session.rollback().
WriteFails(p) ==
    /\ pc[p] \in {"write", "mark"}
    /\ writer' = Released(p)
    /\ loaded' = [loaded EXCEPT ![p] = Unread]
    /\ stamp' = [stamp EXCEPT ![p] = 0]
    /\ pend' = [pend EXCEPT ![p] = {}]
    /\ pc' = [pc EXCEPT ![p] = "except"]
    /\ UNCHANGED <<cloud, acct, vms, runs, nruns, lastOk,
                   conf, todo, results, run, listing>>

\* A row after upsert_vm, if it was listed.  The time of the row that was read without
\* the lock was taken then; the others are written at the time of the newest run
\* row, which cannot change while the lock is held.  The status is not written if the
\* row already had it when it was read.
Upserted(row, isListed, was, time) ==
    IF ~isListed THEN row
    ELSE [status |-> IF was = "active" THEN row.status ELSE "active",
          seen |-> IF was = "unread" THEN nruns ELSE time]

\* Mutants: the comparison is not strict; nothing goes offline.
MarkedStaleLoosely(row, start) ==
    IF row.status # "absent" /\ row.seen <= start
    THEN [row EXCEPT !.status = "offline"] ELSE row

NeverMarkedStale(row, start) == row

\* mark_vms_stale: a row not seen since the run started goes offline.
MarkedStale(row, start) ==
    IF row.status # "absent" /\ row.seen < start
    THEN [row EXCEPT !.status = "offline"] ELSE row

\* With an empty listing nothing is upserted, and mark_vms_stale reads the rows
\* before it has the lock.
LoadStale(p) ==
    /\ pc[p] = "write"
    /\ listing[p] = {}
    /\ loaded' = [loaded EXCEPT ![p] =
          [i \in Ids |-> IF MarkedStale(vms[Cur(p)][i], run[p]) # vms[Cur(p)][i]
                         THEN "active" ELSE "unread"]]
    /\ pc' = [pc EXCEPT ![p] = "mark"]
    /\ UNCHANGED <<cloud, acct, vms, runs, nruns, writer, lastOk,
                   conf, todo, results, run, listing, stamp, pend>>

\* ... and later writes the status of those that were active then, seen again or not.
MarkedLoaded(row, was) ==
    IF was = "active" THEN [row EXCEPT !.status = "offline"] ELSE row

\* Mutant: mark_vms_stale without its filter on the account.
CommittedEverywhere(p, r) ==
    [a \in Accounts |-> [i \in Ids |->
        IF pc[p] = "mark" THEN MarkedLoaded(vms[a][i], loaded[p][i])
        ELSE MarkedStale(Upserted(vms[a][i], a = runs[r].account /\ i \in pend[p],
                                  loaded[p][i], stamp[p]), r)]]

\* The table when the transaction of run r of process p is committed.
CommittedVms(p, r) ==
    [vms EXCEPT ![runs[r].account] =
        [i \in Ids |->
            IF pc[p] = "mark" THEN MarkedLoaded(@[i], loaded[p][i])
            ELSE MarkedStale(Upserted(@[i], i \in pend[p], loaded[p][i], stamp[p]), r)]]

\* All rows upserted: mark_vms_stale, update_sync_run("success"), commit.
CommitRun(p) ==
    /\ \/ pc[p] = "write" /\ listing[p] # {} /\ pend[p] = listing[p]
       \/ pc[p] = "mark"
    /\ CanWrite(p)
    /\ vms' = CommittedVms(p, run[p])
    /\ runs' = [runs EXCEPT ![run[p]].status = "success",
                            ![run[p]].found = listing[p],
                            ![run[p]].ended = nruns]
    /\ lastOk' = [lastOk EXCEPT ![Cur(p)] = run[p]]
    /\ writer' = NoProc
    /\ loaded' = [loaded EXCEPT ![p] = Unread]
    /\ stamp' = [stamp EXCEPT ![p] = 0]
    /\ pend' = [pend EXCEPT ![p] = {}]
    /\ Outcome(p, "success")
    /\ UNCHANGED <<cloud, acct, nruns, conf>>

\* Mutant: the newest run row is closed instead of the process' own.
RecordFailureOnLatest(p) ==
    /\ pc[p] = "except"
    /\ CanWrite(p)
    /\ runs' = [runs EXCEPT ![nruns].status = "failed"]
    /\ Outcome(p, "error")
    /\ UNCHANGED <<cloud, acct, vms, nruns, writer, lastOk, conf, loaded, stamp, pend>>

\* The except block: update_sync_run("failed"), commit, re-raise to ingest_all.
RecordFailure(p) ==
    /\ pc[p] = "except"
    /\ CanWrite(p)
    /\ runs' = [runs EXCEPT ![run[p]].status = "failed"]
    /\ Outcome(p, "error")
    /\ UNCHANGED <<cloud, acct, vms, nruns, writer, lastOk, conf, loaded, stamp, pend>>

\* The except block fails too, because the database is locked: the run row stays
\* "running" for ever.
RecordFailureLocked(p) ==
    /\ pc[p] = "except"
    /\ ~CanWrite(p)
    /\ Outcome(p, "error")
    /\ UNCHANGED <<cloud, acct, vms, runs, nruns, writer, lastOk, conf, loaded, stamp, pend>>

-----------------------------------------------------------------------------
(* Specification *)

Cycle(p) == SyncConfig(p) \/ SyncConfigLocked(p) \/ SkipConfig(p)
            \/ BuildProviders(p) \/ EndCycle(p)

Run(p) ==
    \/ \E a \in Accounts : StartRun(p, a) \/ StartRunLocked(p, a)
    \/ Fetch(p) \/ FetchFails(p)
    \/ \E i \in Ids : LoadVm(p, i) \/ UpsertVm(p, i)
    \/ LoadStale(p) \/ WriteFails(p) \/ CommitRun(p)
    \/ RecordFailure(p) \/ RecordFailureLocked(p)

\* A step of the program: it changes no cloud.
Step == \E p \in Procs : Start(p) \/ Crash(p) \/ Cycle(p) \/ Run(p)

Next == Step \/ \E a \in Accounts : CloudChanges(a)

Spec == Init /\ [][Next]_vars

\* Once begun, a cycle goes on: the session's thread runs, requests time out and
\* waits for the writer lock end.
Fairness == \A p \in Procs : WF_vars(BuildProviders(p) \/ EndCycle(p) \/ Run(p))

\* The clouds do not change while the program runs.
SteadyCloudSpec == Init /\ [][Step]_vars

SteadyFairSpec == SteadyCloudSpec /\ Fairness

-----------------------------------------------------------------------------
(* Safety *)

OnlyOwnersWrite ==
    \A r \in RunIds : runs[r] # NoRun /\ runs'[r] # runs[r] =>
        /\ runs[r].status = "running"
        /\ \E p \in Procs : /\ run[p] = r /\ run'[p] = 0
                            /\ \A q \in Procs \ {p} : run[q] # r

\* A run row changes once, in the step in which the only process that works on it
\* leaves the run.  Nobody ever writes a finished row, or that of a process that died
\* or failed to close it (create_sync_run, update_sync_run).
RunRowsAreOwned == [][OnlyOwnersWrite]_vars

\* The step is the commit by which a run on a becomes successful; it takes only VMs
\* offline that the listing lacks and, unless the listing is empty, that were last
\* seen before the run began.
IsSuccessOn(a) ==
    \E r \in RunIds :
        /\ runs[r].status = "running"
        /\ runs'[r].status = "success"
        /\ runs'[r].account = a
        /\ \A i \in Ids :
              vms[a][i].status = "active" /\ vms'[a][i].status = "offline" =>
                  /\ i \notin runs'[r].found
                  /\ runs'[r].found # {} => vms[a][i].seen < r

OnlySuccessChangesVms == \A a \in Accounts : vms'[a] # vms[a] => IsSuccessOn(a)

\* A VM row changes only in the commit by which a run on its account becomes
\* successful; a failed or interrupted run leaves no trace in the table.  A row
\* goes offline there only if the listing lacks it and it was last seen before
\* that run began (ingest_cloud_vms, mark_vms_stale) - or if the listing is empty:
\* then another run may have seen it after mark_vms_stale read it.
VmsChangeOnlyBySuccess == [][OnlySuccessChangesVms]_vars

\* A run that was committed as successful after run r had begun, or r itself, lists
\* VM i of account a.
ListedSince(a, i, r) ==
    \E x \in RunIds : /\ runs[x].status = "success" /\ runs[x].account = a
                      /\ i \in runs[x].found
                      /\ runs[x].ended >= r

\* Processes that overlap, each with listings and times of its own: a VM is active
\* only if the listing committed last has it, or that of a run that ended since the
\* run of this listing began.  The VMs of the listing committed last were seen since
\* then, and so was every active VM unless that listing is empty (ingest_cloud_vms,
\* mark_vms_stale).
ActiveReflectsListing ==
    \A a \in Accounts : \A i \in Ids :
        /\ lastOk[a] = 0 => vms[a][i].status = "absent"
        /\ lastOk[a] # 0 /\ vms[a][i].status = "active" => ListedSince(a, i, lastOk[a])
        /\ lastOk[a] # 0 =>
              LET found == runs[lastOk[a]].found
              IN  i \in found \/ (vms[a][i].status = "active" /\ found # {})
                      => vms[a][i].seen >= lastOk[a]

\* "Mark VMs as offline if they weren't seen in the latest sync"
\* (db/repository.py:263): a VM of the listing committed last is not offline.
ListedVmsAreActive ==
    \A a \in Accounts : lastOk[a] # 0 =>
        \A i \in runs[lastOk[a]].found : vms[a][i].status = "active"

\* After a cycle every provider has an outcome: a provider that fails does not
\* stop the others ("Provider failures are isolated", sync/ingest.py:22), and
\* between cycles nothing is pending or locked.
FailuresAreIsolated ==
    \A p \in Procs : pc[p] = "idle" =>
        /\ \A a \in Accounts : results[p][a] # "pending"
        /\ writer # p
        /\ pend[p] = {}

\* A VM that every committed listing of its account contains is never offline, however
\* the runs overlap and whatever fails between them (upsert_vm and the strict
\* comparison of mark_vms_stale, whose times are of different calls of the clock).
VmsOfEveryListingStayActive ==
    \A a \in Accounts : \A i \in Ids :
        vms[a][i].status = "offline" =>
            \E r \in RunIds : /\ runs[r].status = "success"
                             /\ runs[r].account = a
                             /\ i \notin runs[r].found

\* In clouds that never change no VM that exists is ever shown as offline
\* (mark_vms_stale after "Fetch all VMs", providers/yandex.py:485).
ExistingVmsStayActive ==
    \A a \in Accounts : \A i \in cloud[a] : vms[a][i].status # "offline"

-----------------------------------------------------------------------------
(* With one process only *)

\* The active VMs of an account are exactly those of the listing committed last.
ExactInventory ==
    \A a \in Accounts : lastOk[a] # 0 =>
        {i \in Ids : vms[a][i].status = "active"} = runs[lastOk[a]].found

\* Listings are committed in the order in which their runs began: an older
\* listing never replaces a newer one.
ListingsInOrder == [][\A a \in Accounts : lastOk'[a] >= lastOk[a]]_vars

\* A process never ingests an account that its configuration file does not list.
OnlyConfiguredAccounts ==
    \A p \in Procs : conf[p].mode = "file" => todo[p] \subseteq conf[p].accounts

-----------------------------------------------------------------------------
(* Liveness *)

\* A cycle that has begun ends, or its process dies: neither a failing provider
\* nor a writer lock held by another process keeps it for ever.
CycleEnds ==
    \A p \in Procs : pc[p] \notin {"off", "idle"} ~> pc[p] \in {"off", "idle"}

-----------------------------------------------------------------------------
(* Refinement *)

InventoryOf == [a \in Accounts |-> [i \in Ids |-> vms[a][i].status]]

Promise == INSTANCE Inventory WITH inv <- InventoryOf,
                                   Overlap <- \E p, q \in Procs : p # q

\* The database keeps its promise.
KeepsPromise == Promise!Spec
==============================================================================
