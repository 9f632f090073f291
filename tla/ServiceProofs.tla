----------------------------- MODULE ServiceProofs -----------------------------
(***************************************************************************)
(* Safety of the `serve` process for any manual triggers, accounts, VMs    *)
(* and bounds.                                                             *)
(*                                                                         *)
(* Service implements both of its components, so their invariants hold in  *)
(* it.  The link between them (LinkInv): a thread has ingestion state only *)
(* while its session is open, hence while it holds the job lock, and is    *)
(* inside a cycle of Ingest only at the step that runs it.  So the threads *)
(* ingest one at a time, which is all that the results on a process that   *)
(* is alone (IngestProofs) ask for.                                        *)
(***************************************************************************)
EXTENDS Service, TLAPS

SP == INSTANCE SchedulerProofs

IP == INSTANCE IngestProofs WITH Procs <- Threads, NoProc <- NoThread

LinkInv ==
    /\ \A t \in Threads : pc[t] # "off" => t \in open
    /\ \A t \in Threads : pc[t] \notin {"off", "idle"} => at[t] = "ingest"

ServeInv == /\ SP!IInv /\ LinkInv
            /\ IP!IInv /\ IP!CleanInv /\ IP!ReadInv
            /\ IP!AloneInv /\ IP!ExactInventory /\ IP!RunningInv

-----------------------------------------------------------------------------
(* The instances *)

\* What the components and their proofs assume of their constants holds here.
LEMMA Assumptions ==
    /\ Tick \notin Requests /\ NoThread \notin Requests \cup {Tick}
    /\ NoThread \notin Threads
    /\ MaxCycles \in Nat /\ MaxRuns \in Nat
    /\ EnvMode \in BOOLEAN /\ PartialListings \in BOOLEAN
    /\ FileConfigs \subseteq SUBSET Accounts /\ FileConfigs # {}
BY ThreadsAssumption, BoundsAssumption, ConfigsAssumption, FlagsAssumption
   DEF Threads, Sched!Threads

LEMMA SameThreads == Threads = SP!Threads
BY DEF Threads, Sched!Threads, SP!Threads

\* The module of the proofs and Service instantiate the same specifications.
LEMMA SameScheduler ==
    /\ Sched!Init => SP!Init
    /\ Sched!Next => SP!Next
    /\ Sched!vars = SP!vars
<1>1. Sched!Init => SP!Init
  BY DEF Sched!Init, SP!Init, Sched!Threads, SP!Threads
<1>2. \A r \in Requests : Sched!Handle(r) => SP!Handle(r)
  BY DEF Sched!Handle, SP!Handle, Sched!TriggerFree, SP!TriggerFree,
         Sched!TriggerBusy, SP!TriggerBusy, Sched!SpawnThread, SP!SpawnThread,
         Sched!ReadTime, SP!ReadTime, Sched!ReadResult, SP!ReadResult
<1>3. \A t \in Threads : Sched!RunIngestion(t) => SP!RunIngestion(t)
  BY DEF Sched!RunIngestion, SP!RunIngestion, Sched!Goes, SP!Goes,
         Sched!Acquire, SP!Acquire, Sched!Skip, SP!Skip,
         Sched!OpenSession, SP!OpenSession, Sched!RunCycle, SP!RunCycle,
         Sched!NetBoxIngestion, SP!NetBoxIngestion, Sched!ListAccounts, SP!ListAccounts,
         Sched!NetBoxSync, SP!NetBoxSync, Sched!StoreSyncErrors, SP!StoreSyncErrors,
         Sched!Raises, SP!Raises, Sched!PublishResult, SP!PublishResult,
         Sched!PublishError, SP!PublishError, Sched!Stamp, SP!Stamp,
         Sched!CloseSession, SP!CloseSession, Sched!Release, SP!Release
<1>4. /\ Sched!Start => SP!Start
      /\ Sched!Stop => SP!Stop
      /\ Sched!IntervalElapses => SP!IntervalElapses
  BY DEF Sched!Start, SP!Start, Sched!Stop, SP!Stop,
         Sched!IntervalElapses, SP!IntervalElapses,
         Sched!Cardinality, SP!Cardinality, Sched!IsFiniteSet, SP!IsFiniteSet
<1>5. Sched!Next => SP!Next
  BY <1>2, <1>3, <1>4, SameThreads DEF Sched!Next, SP!Next, Threads
<1>6. Sched!vars = SP!vars
  BY DEF Sched!vars, SP!vars
<1>7. QED
  BY <1>1, <1>5, <1>6

LEMMA SameIngest ==
    /\ Ing!Init => IP!Init
    /\ Ing!Next => IP!Next
    /\ Ing!vars = IP!vars
<1>1. Ing!Init => IP!Init
  BY DEF Ing!Init, IP!Init, Ing!NoVm, IP!NoVm, Ing!Conf, IP!Conf, Ing!NoRun, IP!NoRun,
         Ing!RunIds, IP!RunIds, Ing!NoResults, IP!NoResults, Ing!Unread, IP!Unread
<1>2. \A t \in Threads : /\ Ing!Start(t) => IP!Start(t)
                         /\ Ing!Crash(t) => IP!Crash(t)
  BY DEF Ing!Start, IP!Start, Ing!Conf, IP!Conf, Ing!Crash, IP!Crash,
         Ing!Unread, IP!Unread, Ing!Released, IP!Released, Ing!NoResults, IP!NoResults
<1>3. Ing!Reserved = IP!Reserved
  BY DEF Ing!Reserved, IP!Reserved, Ing!Cardinality, IP!Cardinality,
         Ing!IsFiniteSet, IP!IsFiniteSet
<1>4. \A t \in Threads : Ing!Cycle(t) => IP!Cycle(t)
  <2>1. \A t \in Threads : /\ Ing!SyncConfig(t) <=> IP!SyncConfig(t)
                           /\ Ing!SyncConfigLocked(t) <=> IP!SyncConfigLocked(t)
                           /\ Ing!SkipConfig(t) <=> IP!SkipConfig(t)
                           /\ Ing!EndCycle(t) <=> IP!EndCycle(t)
    BY DEF Ing!SyncConfig, IP!SyncConfig, Ing!SyncConfigLocked, IP!SyncConfigLocked,
           Ing!SkipConfig, IP!SkipConfig, Ing!EndCycle, IP!EndCycle,
           Ing!CanWrite, IP!CanWrite, Ing!NoResults, IP!NoResults,
           Ing!ConfiguredAccounts, IP!ConfiguredAccounts
  <2>2. \A t \in Threads : Ing!Eligible(t) = IP!Eligible(t)
    BY DEF Ing!Eligible, IP!Eligible
  <2>3. \A t \in Threads : Ing!BuildProviders(t) => IP!BuildProviders(t)
    BY <1>3, <2>2 DEF Ing!BuildProviders, IP!BuildProviders, Ing!Cardinality,
                      IP!Cardinality, Ing!IsFiniteSet, IP!IsFiniteSet
  <2>4. QED
    BY <2>1, <2>3 DEF Ing!Cycle, IP!Cycle
<1>5. \A t \in Threads : Ing!Run(t) <=> IP!Run(t)
  BY DEF Ing!Run, IP!Run, Ing!Unread, IP!Unread, Ing!Released, IP!Released,
         Ing!CanWrite, IP!CanWrite, Ing!StartRun, IP!StartRun,
         Ing!StartRunLocked, IP!StartRunLocked, Ing!Fetch, IP!Fetch,
         Ing!FetchFails, IP!FetchFails, Ing!LoadVm, IP!LoadVm,
         Ing!UpsertVm, IP!UpsertVm, Ing!LoadStale, IP!LoadStale,
         Ing!WriteFails, IP!WriteFails, Ing!CommitRun, IP!CommitRun,
         Ing!RecordFailure, IP!RecordFailure,
         Ing!RecordFailureLocked, IP!RecordFailureLocked,
         Ing!Outcome, IP!Outcome, Ing!Cur, IP!Cur, Ing!Listings, IP!Listings,
         Ing!MarkedStale, IP!MarkedStale, Ing!MarkedLoaded, IP!MarkedLoaded,
         Ing!Upserted, IP!Upserted, Ing!CommittedVms, IP!CommittedVms
<1>6. \A a \in Accounts : Ing!CloudChanges(a) => IP!CloudChanges(a)
  BY DEF Ing!CloudChanges, IP!CloudChanges
<1>7. Ing!Next => IP!Next
  BY <1>2, <1>4, <1>5, <1>6 DEF Ing!Next, IP!Next, Ing!Step, IP!Step
<1>8. Ing!vars = IP!vars
  BY DEF Ing!vars, IP!vars
<1>9. QED
  BY <1>1, <1>7, <1>8

-----------------------------------------------------------------------------
(* Service implements its components *)

LEMMA SchedulerStep == [Next]_vars => [Sched!Next]_(Sched!vars)
<1> SUFFICES ASSUME [Next]_vars PROVE [Sched!Next]_(Sched!vars)
  OBVIOUS
<1>1. CASE Surroundings
  BY <1>1 DEF Surroundings, Sched!Next
<1>2. ASSUME NEW t \in Threads,
             OpenSession(t) \/ RunCycle(t) \/ Raises(t) \/ CloseSession(t) \/ OtherStep(t)
      PROVE  Sched!Next
  BY <1>2 DEF OpenSession, RunCycle, Raises, CloseSession, OtherStep,
              Sched!Next, Sched!RunIngestion, Threads
<1>3. ASSUME NEW t \in Threads, IngestStep(t) PROVE UNCHANGED Sched!vars
  BY <1>3 DEF IngestStep, schedVars, Sched!vars
<1>4. CASE UNCHANGED vars
  BY <1>4 DEF vars, schedVars, Sched!vars
<1>5. QED
  BY <1>1, <1>2, <1>3, <1>4 DEF Next

LEMMA IngestionStep == [Next]_vars => [Ing!Next]_(Ing!vars)
<1> SUFFICES ASSUME [Next]_vars PROVE [Ing!Next]_(Ing!vars)
  OBVIOUS
<1>1. CASE Surroundings
  BY <1>1 DEF Surroundings, ingestVars, Ing!vars
<1>2. ASSUME NEW t \in Threads, OpenSession(t) \/ IngestStep(t) \/ RunCycle(t)
      PROVE  Ing!Next
  BY <1>2 DEF OpenSession, IngestStep, RunCycle, Ing!Next, Ing!Step, Ing!Cycle
<1>3. ASSUME NEW t \in Threads, Raises(t) \/ OtherStep(t) PROVE UNCHANGED Ing!vars
  BY <1>3 DEF Raises, OtherStep, ingestVars, Ing!vars
<1>4. ASSUME NEW t \in Threads, CloseSession(t) PROVE [Ing!Next]_(Ing!vars)
  BY <1>4 DEF CloseSession, Ing!Next, Ing!Step, ingestVars, Ing!vars
<1>5. CASE UNCHANGED vars
  BY <1>5 DEF vars, ingestVars, Ing!vars
<1>6. QED
  BY <1>1, <1>2, <1>3, <1>4, <1>5 DEF Next

\* Every behaviour of the service is one of its scheduler, which the results of
\* SchedulerProofs are about, and one of an ingestion whose processes are the threads
\* (_run_ingestion, scheduler.py; run_ingestion_cycle, sync/orchestrator.py).
THEOREM Components == Spec => Sched!Spec /\ Ing!Spec
<1>1. Init => Sched!Init /\ Ing!Init
  BY DEF Init
<1>2. QED
  BY <1>1, SchedulerStep, IngestionStep, PTL DEF Spec, Sched!Spec, Ing!Spec

\* The invariants of the components, taken over.
LEMMA ComponentSteps ==
    [Next]_vars => /\ SP!IInv => SP!IInv'
                   /\ IP!IInv => IP!IInv'
                   /\ [SP!Next]_(SP!vars)
                   /\ [IP!Next]_(IP!vars)
<1> SUFFICES ASSUME [Next]_vars
             PROVE  /\ SP!IInv => SP!IInv'
                    /\ IP!IInv => IP!IInv'
                    /\ [SP!Next]_(SP!vars)
                    /\ [IP!Next]_(IP!vars)
  OBVIOUS
<1>1. [SP!Next]_(SP!vars)
  BY SchedulerStep, SameScheduler DEF Sched!vars, SP!vars
<1>2. [IP!Next]_(IP!vars)
  BY IngestionStep, SameIngest DEF Ing!vars, IP!vars
<1>3. QED
  BY <1>1, <1>2, Assumptions, SP!InvStep, IP!InvStep

-----------------------------------------------------------------------------
(* The link between them *)

LEMMA LinkStep ==
    SP!TypeOK /\ SP!RequestInv /\ IP!TypeOK /\ LinkInv /\ [Next]_vars => LinkInv'
<1> SUFFICES ASSUME SP!TypeOK, SP!RequestInv, IP!TypeOK, LinkInv, [Next]_vars PROVE LinkInv'
  OBVIOUS
<1>0. /\ at \in [Threads -> SP!Critical \cup {"none", "spawned", "skipped", "done"}]
      /\ pc \in [Threads -> {"off", "idle", "build", "accounts",
                             "fetch", "write", "mark", "except"}]
      /\ open \in SUBSET Threads
  BY SameThreads DEF SP!TypeOK, IP!TypeOK
<1> USE <1>0 DEF LinkInv
<1>1. CASE Surroundings
  <2>1. UNCHANGED <<pc, open>>
    BY <1>1 DEF Surroundings, ingestVars, Sched!Start, Sched!Stop, Sched!IntervalElapses,
                Sched!Handle, Sched!TriggerFree, Sched!TriggerBusy, Sched!SpawnThread,
                Sched!ReadTime, Sched!ReadResult
  <2>2. \A t \in Threads : at[t] = "ingest" => at'[t] = "ingest"
    <3>1. \A r \in Requests : req[r] = "free" => at[r] = "none"
      BY DEF SP!RequestInv
    <3>2. \A r \in Requests : Sched!SpawnThread(r) =>
             at[r] = "none" /\ at' = [at EXCEPT ![r] = "spawned"]
      BY <3>1 DEF Sched!SpawnThread
    <3>3. Sched!IntervalElapses => at[Tick] = "none" /\ at' = [at EXCEPT ![Tick] = "spawned"]
      BY DEF Sched!IntervalElapses
    <3>4. QED
      BY <1>1, <3>2, <3>3 DEF Surroundings, Sched!Start, Sched!Stop, Sched!Handle,
             Sched!TriggerFree, Sched!TriggerBusy, Sched!ReadTime, Sched!ReadResult
  <2>3. QED
    BY <2>1, <2>2
<1>2. ASSUME NEW t \in Threads, OpenSession(t) PROVE LinkInv'
  BY <1>2 DEF OpenSession, Sched!OpenSession, Sched!Goes, Ing!Start
<1>3. ASSUME NEW t \in Threads, IngestStep(t) PROVE LinkInv'
  <2>1. at[t] = "ingest" /\ UNCHANGED <<at, open>>
    BY <1>3 DEF IngestStep, schedVars
  <2>2. pc[t] # "off" /\ \A u \in Threads \ {t} : pc'[u] = pc[u]
    BY <1>3 DEF IngestStep, Ing!SyncConfig, Ing!SkipConfig, Ing!BuildProviders, Ing!Run,
                Ing!StartRun, Ing!StartRunLocked, Ing!Fetch, Ing!FetchFails, Ing!LoadVm,
                Ing!UpsertVm, Ing!LoadStale, Ing!WriteFails, Ing!CommitRun,
                Ing!RecordFailure, Ing!RecordFailureLocked, Ing!Outcome
  <2>3. QED
    BY <2>1, <2>2
<1>4. ASSUME NEW t \in Threads, RunCycle(t) PROVE LinkInv'
  BY <1>4 DEF RunCycle, Sched!RunCycle, Sched!Goes, Ing!EndCycle
<1>5. ASSUME NEW t \in Threads, Raises(t) PROVE LinkInv'
  <2>1. /\ at' = [at EXCEPT ![t] = "except"] /\ UNCHANGED <<pc, open>>
        /\ at[t] = "ingest" => pc[t] = "idle"
    BY <1>5 DEF Raises, Sched!Raises, Sched!Goes, ingestVars
  <2>2. QED
    BY <2>1
<1>6. ASSUME NEW t \in Threads, CloseSession(t) PROVE LinkInv'
  <2>1. /\ at[t] = "close" /\ at' = [at EXCEPT ![t] = "release"]
        /\ open' = open \ {t}
        /\ IF t \in open THEN pc' = [pc EXCEPT ![t] = "off"] ELSE pc' = pc
    BY <1>6 DEF CloseSession, Sched!CloseSession, Sched!Goes, Ing!Crash, ingestVars
  <2>2. QED
    BY <2>1
<1>7. ASSUME NEW t \in Threads, OtherStep(t) PROVE LinkInv'
  <2>1. UNCHANGED <<pc, open>>
    BY <1>7 DEF OtherStep, ingestVars, Sched!Acquire, Sched!Skip, Sched!NetBoxIngestion,
                Sched!ListAccounts, Sched!NetBoxSync, Sched!StoreSyncErrors,
                Sched!PublishResult, Sched!PublishError, Sched!Stamp, Sched!Release
  <2>2. at[t] # "ingest" /\ \A u \in Threads \ {t} : at'[u] = at[u]
    BY <1>7 DEF OtherStep, Sched!Goes, Sched!Acquire, Sched!Skip, Sched!NetBoxIngestion,
                Sched!ListAccounts, Sched!NetBoxSync, Sched!StoreSyncErrors,
                Sched!PublishResult, Sched!PublishError, Sched!Stamp, Sched!Release
  <2>3. QED
    BY <2>1, <2>2
<1>8. CASE UNCHANGED vars
  BY <1>8 DEF vars, schedVars, ingestVars
<1>9. QED
  BY <1>1, <1>2, <1>3, <1>4, <1>5, <1>6, <1>7, <1>8 DEF Next

\* Only one thread at a time has begun to ingest: the one that holds the job lock.
LEMMA OneThread == SP!LockInv /\ LinkInv => IP!Alone
<1> SUFFICES ASSUME SP!LockInv, LinkInv, NEW t \in Threads, NEW u \in Threads,
                    pc[t] # "off", pc[u] # "off"
             PROVE  t = u
  BY DEF IP!Alone
<1>1. t \in open /\ u \in open
  BY DEF LinkInv
<1>2. lock = t /\ lock = u
  BY <1>1, SameThreads DEF SP!LockInv
<1>3. QED
  BY <1>2

\* A session is closed after its cycle, never within a run.
LEMMA NobodyDies ==
    IP!TypeOK /\ LinkInv /\ [Next]_vars =>
        \A t \in Threads : IP!InRun(t) => pc'[t] # "off"
<1> SUFFICES ASSUME IP!TypeOK, LinkInv, [Next]_vars,
                    NEW t \in Threads, IP!InRun(t), pc'[t] = "off"
             PROVE  FALSE
  OBVIOUS
<1>0. /\ pc \in [Threads -> {"off", "idle", "build", "accounts",
                             "fetch", "write", "mark", "except"}]
      /\ at[t] = "ingest" /\ pc'[t] # pc[t]
  BY DEF IP!TypeOK, IP!InRun, LinkInv
<1>1. CASE Surroundings
  BY <1>0, <1>1 DEF Surroundings, ingestVars
<1>2. ASSUME NEW u \in Threads, OpenSession(u) PROVE FALSE
  BY <1>0, <1>2 DEF OpenSession, Ing!Start
<1>3. ASSUME NEW u \in Threads, IngestStep(u) PROVE FALSE
  BY <1>0, <1>3 DEF IngestStep, Ing!SyncConfig, Ing!SkipConfig, Ing!BuildProviders,
                Ing!Run, Ing!StartRun, Ing!StartRunLocked, Ing!Fetch, Ing!FetchFails,
                Ing!LoadVm, Ing!UpsertVm, Ing!LoadStale, Ing!WriteFails, Ing!CommitRun,
                Ing!RecordFailure, Ing!RecordFailureLocked, Ing!Outcome
<1>4. ASSUME NEW u \in Threads, RunCycle(u) PROVE FALSE
  BY <1>0, <1>4 DEF RunCycle, Ing!EndCycle
<1>5. ASSUME NEW u \in Threads, Raises(u) \/ OtherStep(u) PROVE FALSE
  BY <1>0, <1>5 DEF Raises, OtherStep, ingestVars
<1>6. ASSUME NEW u \in Threads, CloseSession(u) PROVE FALSE
  BY <1>0, <1>6 DEF CloseSession, Sched!CloseSession, Sched!Goes, Ing!Crash, ingestVars
<1>7. CASE UNCHANGED vars
  BY <1>0, <1>7 DEF vars, ingestVars
<1>8. QED
  BY <1>1, <1>2, <1>3, <1>4, <1>5, <1>6, <1>7 DEF Next

-----------------------------------------------------------------------------
(* The theorems *)

LEMMA ServeInit == Init => ServeInv
<1> SUFFICES ASSUME Init PROVE ServeInv
  OBVIOUS
<1>1. SP!Init /\ IP!Init
  BY SameScheduler, SameIngest DEF Init
<1>2. SP!IInv /\ IP!IInv /\ IP!CleanInv /\ IP!ReadInv /\ IP!AloneInv
  BY <1>1, Assumptions, SP!InitInv, IP!InitInv, IP!CleanInit, IP!ReadInit
<1>3. LinkInv
  BY <1>1 DEF IP!Init, LinkInv
<1>4. IP!ExactInventory /\ IP!RunningInv
  BY <1>1 DEF IP!Init, IP!ExactInventory, IP!RunningInv, IP!NoRun
<1>5. QED
  BY <1>2, <1>3, <1>4 DEF ServeInv

LEMMA ServeStep == ServeInv /\ [Next]_vars => ServeInv'
<1> SUFFICES ASSUME ServeInv, [Next]_vars PROVE ServeInv'
  OBVIOUS
<1>1. /\ SP!IInv' /\ IP!IInv'
      /\ [IP!Next]_(IP!vars)
  BY ComponentSteps DEF ServeInv
<1>2. /\ SP!TypeOK /\ SP!LockInv /\ SP!RequestInv
      /\ IP!TypeOK /\ IP!RunInv
  BY DEF ServeInv, SP!IInv, IP!IInv
<1>3. LinkInv' /\ IP!Alone
  BY <1>2, LinkStep, OneThread DEF ServeInv
<1>4. IP!CleanInv' /\ IP!ReadInv'
  BY <1>1, <1>2, Assumptions, IP!CleanStep, IP!ReadStep DEF ServeInv
<1>5. IP!AloneInv' /\ IP!ExactInventory'
  BY <1>1, <1>3, Assumptions, IP!AloneStep, IP!ExactStep DEF ServeInv
<1>6. IP!RunningInv'
  BY <1>1, <1>2, <1>3, Assumptions, NobodyDies, IP!RunningStep DEF ServeInv
<1>7. QED
  BY <1>1, <1>3, <1>4, <1>5, <1>6 DEF ServeInv

LEMMA Invariance == Spec => []ServeInv
BY ServeInit, ServeStep, PTL DEF Spec

\* However ticks and manual triggers fall, the active VMs of an account are exactly
\* those of the listing committed last: the job lock makes ingestion sequential
\* (_run_ingestion, scheduler.py:108; mark_vms_stale, db/repository.py:260).
THEOREM InventoryIsExact == Spec => []ServeKeepsExactInventory
<1>1. ServeInv => ServeKeepsExactInventory
  BY DEF ServeInv, ServeKeepsExactInventory, IP!ExactInventory, Ing!ExactInventory
<1>2. QED
  BY <1>1, Invariance, PTL

\* A listing never replaces one whose run began later (_run_ingestion; create_sync_run,
\* update_sync_run).
THEOREM ListingsKeepOrder == Spec => ServeKeepsListingOrder
<1>1. ServeInv /\ [Next]_vars => [\A a \in Accounts : lastOk'[a] >= lastOk[a]]_(Ing!vars)
  <2> SUFFICES ASSUME ServeInv, [Next]_vars
               PROVE  \A a \in Accounts : lastOk'[a] >= lastOk[a]
    OBVIOUS
  <2>1. IP!IInv /\ IP!AloneInv /\ [IP!Next]_(IP!vars)
    BY ComponentSteps DEF ServeInv
  <2>2. QED
    BY <2>1, Assumptions, IP!OrderStep
<1>2. QED
  BY <1>1, Invariance, PTL DEF Spec, ServeKeepsListingOrder, Ing!ListingsInOrder

\* While nobody holds the job lock no run row says "running": every run of a process
\* that is alive is closed, because the writer lock is free for the only session that
\* writes (ingest_cloud_vms, sync/ingest.py; _run_ingestion's finally).
THEOREM RunsAreClosed == Spec => []NoRunLeftOpen
<1>1. ServeInv => NoRunLeftOpen
  <2> SUFFICES ASSUME ServeInv, lock = NoThread,
                      NEW r \in Ing!RunIds, runs[r].status = "running"
               PROVE  FALSE
    BY DEF NoRunLeftOpen
  <2>1. PICK t \in Threads : IP!InRun(t)
    BY DEF ServeInv, IP!RunningInv, IP!RunIds, Ing!RunIds
  <2>2. t \in open
    BY <2>1 DEF ServeInv, LinkInv, IP!InRun
  <2>3. lock = t
    BY <2>2, SameThreads DEF ServeInv, SP!IInv, SP!LockInv
  <2>4. QED
    BY <2>3, ThreadsAssumption DEF Threads, Sched!Threads
<1>2. QED
  BY <1>1, Invariance, PTL
==============================================================================
