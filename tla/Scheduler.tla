------------------------------ MODULE Scheduler ------------------------------
(***************************************************************************)
(* SchedulerService (scheduler.py): periodic and manual ingestion in one   *)
(* process, kept apart by a non-blocking lock, and the status that web     *)
(* requests read meanwhile (web/routes/sync.py).                           *)
(*                                                                         *)
(* Three kinds of actors run concurrently:                                 *)
(*   - Tick: the interval job in APScheduler's thread pool (max_instances  *)
(*     = 1, so at most one instance);                                      *)
(*   - requests: POST /sync/trigger handlers in the web server's threads,  *)
(*     which call trigger_now and then get_status;                         *)
(*   - for a request that finds the lock free, the daemon thread that      *)
(*     trigger_now starts; it bears the request's name here.               *)
(*                                                                         *)
(* A cycle is one execution of the try block of _run_ingestion; cycles are *)
(* numbered in the order in which they acquire the lock.                   *)
(***************************************************************************)
EXTENDS Naturals, FiniteSets

CONSTANTS Requests,    \* manual triggers
          Tick,        \* the interval job
          MaxCycles,   \* bound on the number of cycles
          NoThread     \* nobody holds the job lock

ASSUME TickAssumption == Tick \notin Requests
ASSUME NoThreadAssumption == NoThread \notin Requests \cup {Tick}
ASSUME MaxCyclesAssumption == MaxCycles \in Nat

Threads == Requests \cup {Tick}

VARIABLES
    service,     \* "new", "running" (_running) or "stopped"
    netbox,      \* is NetBox configured?
    lock,        \* _job_lock: the thread that holds it
    at,          \* at[t]: where in _run_ingestion thread t is
    open,        \* threads with an open database session
    ncycles,     \* number of cycles begun
    cycle,       \* cycle[t]: number of the cycle that t executes, or 0
    lastResult,  \* _last_result: the cycle it is of
    lastTime,    \* _last_run_time: the cycle it is of
    req,         \* req[r]: where in its handler request r is
    asked,       \* history: asked[r] is ncycles when r found the lock free
    answer,      \* answer[r]: what trigger_now returned to r
    shown        \* shown[r]: last_run_time and last_result in r's answer

vars == <<service, netbox, lock, at, open, ncycles, cycle,
          lastResult, lastTime, req, asked, answer, shown>>

\* Where a thread is while it holds the lock.
TryBlock == {"session", "ingest", "netbox", "accounts", "push", "store", "publish"}
Finishing == {"except", "stamp", "close", "release"}
Critical == TryBlock \cup Finishing

TypeOK ==
    /\ service \in {"new", "running", "stopped"}
    /\ netbox \in BOOLEAN
    /\ lock \in Threads \cup {NoThread}
    /\ at \in [Threads -> Critical \cup {"none", "spawned", "skipped", "done"}]
    /\ open \in SUBSET Threads
    /\ ncycles \in 0..MaxCycles
    /\ cycle \in [Threads -> 0..MaxCycles]
    /\ lastResult \in 0..MaxCycles
    /\ lastTime \in 0..MaxCycles
    /\ req \in [Requests -> {"new", "free", "answered", "reading", "done"}]
    /\ asked \in [Requests -> 0..MaxCycles]
    /\ answer \in [Requests -> {"none", "triggered", "already_running"}]
    /\ shown \in [Requests -> [time : 0..MaxCycles, result : 0..MaxCycles]]

Init ==
    /\ service = "new"
    /\ netbox \in BOOLEAN
    /\ lock = NoThread
    /\ at = [t \in Threads |-> "none"]
    /\ open = {}
    /\ ncycles = 0
    /\ cycle = [t \in Threads |-> 0]
    /\ lastResult = 0
    /\ lastTime = 0
    /\ req = [r \in Requests |-> "new"]
    /\ asked = [r \in Requests |-> 0]
    /\ answer = [r \in Requests |-> "none"]
    /\ shown = [r \in Requests |-> [time |-> 0, result |-> 0]]

-----------------------------------------------------------------------------
(* start, stop and the interval job *)

Start ==
    /\ service = "new"
    /\ service' = "running"
    /\ UNCHANGED <<netbox, lock, at, open, ncycles, cycle,
                   lastResult, lastTime, req, asked, answer, shown>>

\* shutdown(wait=False): no more ticks; a thread that runs is left alone.
Stop ==
    /\ service = "running"
    /\ service' = "stopped"
    /\ UNCHANGED <<netbox, lock, at, open, ncycles, cycle,
                   lastResult, lastTime, req, asked, answer, shown>>

\* The interval elapses.  max_instances=1: not while the last instance runs.  The
\* bound leaves room for a cycle of every request.
IntervalElapses ==
    /\ service = "running"
    /\ at[Tick] = "none"
    /\ ncycles + Cardinality(Requests) < MaxCycles
    /\ at' = [at EXCEPT ![Tick] = "spawned"]
    /\ UNCHANGED <<service, netbox, lock, open, ncycles, cycle,
                   lastResult, lastTime, req, asked, answer, shown>>

-----------------------------------------------------------------------------
(* A request: trigger_now, then get_status *)

\* Mutant: trigger_now does not look at the lock.
TriggerUnchecked(r) ==
    /\ service = "running"
    /\ req[r] = "new"
    /\ req' = [req EXCEPT ![r] = "free"]
    /\ asked' = [asked EXCEPT ![r] = ncycles]
    /\ UNCHANGED <<service, netbox, lock, at, open, ncycles, cycle,
                   lastResult, lastTime, answer, shown>>

\* The web server answers requests only between start and stop.
TriggerFree(r) ==
    /\ service = "running"
    /\ req[r] = "new"
    /\ lock = NoThread
    /\ req' = [req EXCEPT ![r] = "free"]
    /\ asked' = [asked EXCEPT ![r] = ncycles]
    /\ UNCHANGED <<service, netbox, lock, at, open, ncycles, cycle,
                   lastResult, lastTime, answer, shown>>

TriggerBusy(r) ==
    /\ service = "running"
    /\ req[r] = "new"
    /\ lock # NoThread
    /\ req' = [req EXCEPT ![r] = "answered"]
    /\ answer' = [answer EXCEPT ![r] = "already_running"]
    /\ UNCHANGED <<service, netbox, lock, at, open, ncycles, cycle,
                   lastResult, lastTime, asked, shown>>

\* Some time after the check the daemon thread is started.
SpawnThread(r) ==
    /\ req[r] = "free"
    /\ req' = [req EXCEPT ![r] = "answered"]
    /\ answer' = [answer EXCEPT ![r] = "triggered"]
    /\ at' = [at EXCEPT ![r] = "spawned"]
    /\ UNCHANGED <<service, netbox, lock, open, ncycles, cycle,
                   lastResult, lastTime, asked, shown>>

\* get_status reads last_run_time first and last_result second.
ReadTime(r) ==
    /\ req[r] = "answered"
    /\ req' = [req EXCEPT ![r] = "reading"]
    /\ shown' = [shown EXCEPT ![r].time = lastTime]
    /\ UNCHANGED <<service, netbox, lock, at, open, ncycles, cycle,
                   lastResult, lastTime, asked, answer>>

ReadResult(r) ==
    /\ req[r] = "reading"
    /\ req' = [req EXCEPT ![r] = "done"]
    /\ shown' = [shown EXCEPT ![r].result = lastResult]
    /\ UNCHANGED <<service, netbox, lock, at, open, ncycles, cycle,
                   lastResult, lastTime, asked, answer>>

-----------------------------------------------------------------------------
(* _run_ingestion *)

\* t goes on, touching nothing that the actions below do not mention.
Goes(t, from, to) ==
    /\ at[t] = from
    /\ at' = [at EXCEPT ![t] = to]
    /\ UNCHANGED <<service, netbox, req, asked, answer, shown>>

\* Mutant: a cycle begins whether the lock is free or not.
AcquireAnyway(t) ==
    /\ ncycles < MaxCycles
    /\ Goes(t, "spawned", "session")
    /\ lock' = t
    /\ ncycles' = ncycles + 1
    /\ cycle' = [cycle EXCEPT ![t] = ncycles + 1]
    /\ UNCHANGED <<open, lastResult, lastTime>>

\* acquire(blocking=False) succeeds: a cycle begins.
Acquire(t) ==
    /\ lock = NoThread
    /\ ncycles < MaxCycles
    /\ Goes(t, "spawned", "session")
    /\ lock' = t
    /\ ncycles' = ncycles + 1
    /\ cycle' = [cycle EXCEPT ![t] = ncycles + 1]
    /\ UNCHANGED <<open, lastResult, lastTime>>

\* acquire(blocking=False) fails: the execution is skipped.  The next tick is a
\* new execution.
Skip(t) ==
    /\ lock # NoThread
    /\ Goes(t, "spawned", IF t = Tick THEN "none" ELSE "skipped")
    /\ UNCHANGED <<lock, open, ncycles, cycle, lastResult, lastTime>>

OpenSession(t) ==
    /\ Goes(t, "session", "ingest")
    /\ open' = open \cup {t}
    /\ UNCHANGED <<lock, ncycles, cycle, lastResult, lastTime>>

\* run_ingestion_cycle returns its results.
RunCycle(t) ==
    /\ Goes(t, "ingest", "netbox")
    /\ UNCHANGED <<lock, open, ncycles, cycle, lastResult, lastTime>>

\* _run_netbox_ingestion never raises: an error goes into the results.
NetBoxIngestion(t) ==
    /\ Goes(t, "netbox", "accounts")
    /\ UNCHANGED <<lock, open, ncycles, cycle, lastResult, lastTime>>

ListAccounts(t) ==
    /\ Goes(t, "accounts", "push")
    /\ UNCHANGED <<lock, open, ncycles, cycle, lastResult, lastTime>>

\* _run_netbox_sync never raises either.  It returns None without NetBox, else
\* statistics or an error; only then there is something to store.
NetBoxSync(t) ==
    /\ Goes(t, "push", IF netbox THEN "store" ELSE "publish")
    /\ UNCHANGED <<lock, open, ncycles, cycle, lastResult, lastTime>>

\* _store_vm_sync_errors and the commit.
StoreSyncErrors(t) ==
    /\ Goes(t, "store", "publish")
    /\ UNCHANGED <<lock, open, ncycles, cycle, lastResult, lastTime>>

\* Mutants: the exception ends the thread without the finally block; it goes to the
\* finally block without except.
RaisesWithoutFinally(t) ==
    /\ at[t] \in {"session", "ingest", "accounts", "store"}
    /\ Goes(t, at[t], "done")
    /\ UNCHANGED <<lock, open, ncycles, cycle, lastResult, lastTime>>

RaisesWithoutExcept(t) ==
    /\ at[t] \in {"session", "ingest", "accounts", "store"}
    /\ Goes(t, at[t], "close")
    /\ UNCHANGED <<lock, open, ncycles, cycle, lastResult, lastTime>>

\* The steps of the try block that can raise.
Raises(t) ==
    /\ at[t] \in {"session", "ingest", "accounts", "store"}
    /\ Goes(t, at[t], "except")
    /\ UNCHANGED <<lock, open, ncycles, cycle, lastResult, lastTime>>

\* self._last_result = results
PublishResult(t) ==
    /\ Goes(t, "publish", "stamp")
    /\ lastResult' = cycle[t]
    /\ UNCHANGED <<lock, open, ncycles, cycle, lastTime>>

\* self._last_result = {"error": ...}
PublishError(t) ==
    /\ Goes(t, "except", "stamp")
    /\ lastResult' = cycle[t]
    /\ UNCHANGED <<lock, open, ncycles, cycle, lastTime>>

\* self._last_run_time = now
Stamp(t) ==
    /\ Goes(t, "stamp", "close")
    /\ lastTime' = cycle[t]
    /\ UNCHANGED <<lock, open, ncycles, cycle, lastResult>>

\* finally: the session, if there is one, is closed ...
CloseSession(t) ==
    /\ Goes(t, "close", "release")
    /\ open' = open \ {t}
    /\ UNCHANGED <<lock, ncycles, cycle, lastResult, lastTime>>

\* ... and the lock released.
Release(t) ==
    /\ Goes(t, "release", IF t = Tick THEN "none" ELSE "done")
    /\ lock' = NoThread
    /\ cycle' = [cycle EXCEPT ![t] = 0]
    /\ UNCHANGED <<open, ncycles, lastResult, lastTime>>

-----------------------------------------------------------------------------
(* Specification *)

RunIngestion(t) ==
    \/ Acquire(t) \/ Skip(t) \/ OpenSession(t) \/ RunCycle(t)
    \/ NetBoxIngestion(t) \/ ListAccounts(t) \/ NetBoxSync(t)
    \/ StoreSyncErrors(t) \/ Raises(t) \/ PublishResult(t) \/ PublishError(t)
    \/ Stamp(t) \/ CloseSession(t) \/ Release(t)

\* Mutant: get_status reads the result first and the time second.
HandleReadingResultFirst(r) ==
    \/ TriggerFree(r) \/ TriggerBusy(r) \/ SpawnThread(r)
    \/ /\ req[r] = "answered"
       /\ req' = [req EXCEPT ![r] = "reading"]
       /\ shown' = [shown EXCEPT ![r].result = lastResult]
       /\ UNCHANGED <<service, netbox, lock, at, open, ncycles, cycle,
                      lastResult, lastTime, asked, answer>>
    \/ /\ req[r] = "reading"
       /\ req' = [req EXCEPT ![r] = "done"]
       /\ shown' = [shown EXCEPT ![r].time = lastTime]
       /\ UNCHANGED <<service, netbox, lock, at, open, ncycles, cycle,
                      lastResult, lastTime, asked, answer>>

Handle(r) == TriggerFree(r) \/ TriggerBusy(r) \/ SpawnThread(r)
             \/ ReadTime(r) \/ ReadResult(r)

Next ==
    \/ Start \/ Stop \/ IntervalElapses
    \/ \E r \in Requests : Handle(r)
    \/ \E t \in Threads : RunIngestion(t)

Spec == Init /\ [][Next]_vars

\* The thread that holds the lock waits for NetBox, whose client has no timeout.
WaitsForNetBox == netbox /\ \E t \in Threads : at[t] \in {"netbox", "push"}

\* While the service runs, a started thread and a begun request handler make
\* progress, except where NetBox may keep them: all other requests have timeouts.
\* The interval and the users are under no obligation; Stop is the beginning of the
\* end of the process, which daemon threads do not survive.
Fairness ==
    /\ \A t \in Threads :
          WF_vars(/\ service = "running"
                  /\ netbox => at[t] \notin {"netbox", "push"}
                  /\ RunIngestion(t))
    /\ \A r \in Requests :
          WF_vars(service = "running" /\ (SpawnThread(r) \/ ReadTime(r) \/ ReadResult(r)))

FairSpec == Spec /\ Fairness

-----------------------------------------------------------------------------
(* Safety *)

\* "a concurrent interval run and this manual trigger never overlap"
\* (scheduler.py:68): one thread at most is in _run_ingestion beyond the lock, and
\* only that thread has a session open.
NoOverlap ==
    /\ \A t, u \in Threads : at[t] \in Critical /\ at[u] \in Critical => t = u
    /\ \A t \in open : lock = t

\* "acceptable because the interval run performs the same work" (scheduler.py:75):
\* when a manual run is skipped, a cycle has begun after the request found the
\* lock free, so that cycle ingests everything the request asked for.
SkippedRunsAreReplaced ==
    \A r \in Requests : at[r] = "skipped" => ncycles > asked[r]

\* An answer of get_status never shows the time of a cycle together with the
\* result of an earlier one.
StatusIsNotTorn ==
    \A r \in Requests : req[r] = "done" => shown[r].result >= shown[r].time

\* While no cycle runs, the status is that of the last cycle: whatever failed in
\* it, it left a result and a time.
QuietStatusIsCurrent ==
    lock = NoThread => lastResult = ncycles /\ lastTime = ncycles

-----------------------------------------------------------------------------
(* Liveness *)

\* While the service runs the lock is released again and again, whatever fails in the
\* cycles: only a NetBox that never answers can keep it.
LockIsReleased ==
    []<>(lock = NoThread \/ service = "stopped") \/ <>[]WaitsForNetBox

\* Who was told "triggered" gets a cycle that began after the request and ends, unless
\* the service is stopped or a cycle waits for NetBox for ever.
TriggeredMeansIngested ==
    \/ <>[]WaitsForNetBox
    \/ \A r \in Requests :
          answer[r] = "triggered" ~> lastTime > asked[r] \/ service = "stopped"
==============================================================================
