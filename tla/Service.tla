------------------------------- MODULE Service -------------------------------
(***************************************************************************)
(* The `serve` process as a whole: SchedulerService (Scheduler) whose      *)
(* threads execute ingestion cycles (Ingest), each with a session of its   *)
(* own, on one database.                                                   *)
(*                                                                         *)
(* The threads of the scheduler are the ingesting processes of Ingest.     *)
(* Only the job lock keeps their cycles apart.                             *)
(*                                                                         *)
(* The clouds do not change here: with partial listings a cloud in which   *)
(* every VM exists gives every listing that a changing one could give.     *)
(***************************************************************************)
EXTENDS Naturals, FiniteSets

CONSTANTS Requests, Tick, MaxCycles, NoThread,              \* of Scheduler
          Accounts, Ids, FileConfigs, EnvMode,
          PartialListings, MaxRuns                          \* of Ingest

\* What the two components assume of them.
ASSUME ThreadsAssumption == Tick \notin Requests /\ NoThread \notin Requests \cup {Tick}
ASSUME BoundsAssumption == MaxCycles \in Nat /\ MaxRuns \in Nat
ASSUME ConfigsAssumption ==
    FileConfigs \subseteq SUBSET Accounts /\ FileConfigs # {}
ASSUME FlagsAssumption == EnvMode \in BOOLEAN /\ PartialListings \in BOOLEAN

VARIABLES service, netbox, lock, at, open, ncycles, cycle,
          lastResult, lastTime, req, asked, answer, shown

VARIABLES cloud, acct, vms, runs, nruns, writer, lastOk,
          pc, conf, todo, results, run, listing, loaded, stamp, pend

schedVars  == <<service, netbox, lock, at, open, ncycles, cycle,
                lastResult, lastTime, req, asked, answer, shown>>
ingestVars == <<cloud, acct, vms, runs, nruns, writer, lastOk,
                pc, conf, todo, results, run, listing, loaded, stamp, pend>>
vars == <<schedVars, ingestVars>>

Sched == INSTANCE Scheduler

Threads == Sched!Threads

Ing == INSTANCE Ingest WITH Procs <- Threads, NoProc <- NoThread

Init == Sched!Init /\ Ing!Init

\* The session of a thread is opened: its cycle works with the configuration that
\* the process loaded (the same for all threads).
OpenSession(t) ==
    /\ Sched!OpenSession(t)
    /\ Ing!Start(t)
    /\ conf' = conf

\* A step of run_ingestion_cycle that is not its last.
IngestStep(t) ==
    /\ at[t] = "ingest"
    /\ Ing!SyncConfig(t) \/ Ing!SkipConfig(t) \/ Ing!BuildProviders(t) \/ Ing!Run(t)
    /\ UNCHANGED schedVars

\* ingest_all returns, and run_ingestion_cycle with it.
RunCycle(t) == Sched!RunCycle(t) /\ Ing!EndCycle(t)

\* A step of the try block raises.  In run_ingestion_cycle this is
\* sync_config_to_db or its commit: ingest_all catches what happens later.
Raises(t) ==
    /\ Sched!Raises(t)
    /\ at[t] = "ingest" => pc[t] = "idle" /\ conf[t].mode = "file"
    /\ UNCHANGED ingestVars

\* session.close() rolls back what is not committed and frees the connection.
CloseSession(t) ==
    /\ Sched!CloseSession(t)
    /\ IF t \in open THEN Ing!Crash(t) ELSE UNCHANGED ingestVars

\* The other steps of _run_ingestion do not touch the VM tables.
OtherStep(t) ==
    /\ \/ Sched!Acquire(t) \/ Sched!Skip(t) \/ Sched!NetBoxIngestion(t)
       \/ Sched!ListAccounts(t) \/ Sched!NetBoxSync(t) \/ Sched!StoreSyncErrors(t)
       \/ Sched!PublishResult(t) \/ Sched!PublishError(t)
       \/ Sched!Stamp(t) \/ Sched!Release(t)
    /\ UNCHANGED ingestVars

Surroundings ==
    \/ /\ Sched!Start \/ Sched!Stop \/ Sched!IntervalElapses
       /\ UNCHANGED ingestVars
    \/ /\ \E r \in Requests : Sched!Handle(r)
       /\ UNCHANGED ingestVars

Next ==
    \/ Surroundings
    \/ \E t \in Threads :
          \/ OpenSession(t) \/ IngestStep(t) \/ RunCycle(t) \/ Raises(t)
          \/ CloseSession(t) \/ OtherStep(t)

Spec == Init /\ [][Next]_vars

-----------------------------------------------------------------------------

\* The job lock makes the ingestion of a process sequential, however ticks and
\* manual triggers fall: the active VMs of an account are exactly those of the
\* listing committed last (_run_ingestion, mark_vms_stale).
ServeKeepsExactInventory == Ing!ExactInventory

\* ... and listings are committed in the order in which their runs began.
ServeKeepsListingOrder == Ing!ListingsInOrder

\* No session of the process ever waits for the writer lock, so no run of a
\* process that is alive is left "running" when its cycle is over.
NoRunLeftOpen ==
    lock = NoThread => \A r \in Ing!RunIds : runs[r].status # "running"
==============================================================================
