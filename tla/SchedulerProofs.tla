--------------------------- MODULE SchedulerProofs ---------------------------
(***************************************************************************)
(* The safety properties of Scheduler, for any number of manual triggers   *)
(* and any bound on the cycles.                                            *)
(*                                                                         *)
(* The properties are not inductive.  IInv adds what ties the lock to the  *)
(* thread that runs: the thread in the critical part holds the lock and    *)
(* works on the newest cycle, and how far it has come says which of the    *)
(* two halves of the status are already those of that cycle.               *)
(***************************************************************************)
EXTENDS Scheduler, TLAPS

-----------------------------------------------------------------------------
(* The inductive invariant *)

\* The lock is held by exactly the thread in the critical part, which works on
\* the newest cycle; only there a session is open.
LockInv ==
    /\ \A t \in Threads : at[t] \in Critical <=> lock = t
    /\ \A t \in Threads : lock = t => cycle[t] = ncycles
    /\ \A t \in open : at[t] \in Critical \ {"session", "release"}

\* How much of the status is that of the newest cycle.
StatusInv ==
    /\ lastTime <= lastResult
    /\ lastResult <= ncycles
    /\ lock = NoThread => lastTime = ncycles
    /\ \A t \in Threads :
          /\ at[t] = "stamp" => lastResult = ncycles
          /\ at[t] \in {"close", "release"} => lastTime = ncycles

\* A request has no thread before it spawns one.  Once it found the lock free,
\* somebody who holds the lock began a newer cycle.
RequestInv ==
    \A r \in Requests :
        /\ req[r] \in {"new", "free"} => at[r] = "none"
        /\ req[r] = "free" \/ at[r] \in {"spawned", "skipped"} =>
              /\ asked[r] <= ncycles
              /\ lock # NoThread \/ at[r] = "skipped" => asked[r] < ncycles
        /\ req[r] = "reading" => shown[r].time <= lastResult
        /\ req[r] = "done" => shown[r].time <= shown[r].result

IInv == TypeOK /\ LockInv /\ StatusInv /\ RequestInv

-----------------------------------------------------------------------------
(* Every step preserves each part *)

\* Types.
LEMMA TypeStep == TypeOK /\ [Next]_vars => TypeOK'
<1> SUFFICES ASSUME TypeOK, [Next]_vars PROVE TypeOK'
  OBVIOUS
<1> USE TickAssumption, NoThreadAssumption, MaxCyclesAssumption DEF TypeOK, Threads, Critical, TryBlock, Finishing
<1>1. CASE Start
  BY <1>1 DEF Start
<1>2. CASE Stop
  BY <1>2 DEF Stop
<1>3. CASE IntervalElapses
  BY <1>3 DEF IntervalElapses
<1>4. ASSUME NEW r \in Requests, TriggerFree(r) PROVE TypeOK'
  BY <1>4 DEF TriggerFree
<1>5. ASSUME NEW r \in Requests, TriggerBusy(r) PROVE TypeOK'
  BY <1>5 DEF TriggerBusy
<1>6. ASSUME NEW r \in Requests, SpawnThread(r) PROVE TypeOK'
  BY <1>6 DEF SpawnThread
<1>7. ASSUME NEW r \in Requests, ReadTime(r) PROVE TypeOK'
  BY <1>7 DEF ReadTime
<1>8. ASSUME NEW r \in Requests, ReadResult(r) PROVE TypeOK'
  BY <1>8 DEF ReadResult
<1>9. ASSUME NEW t \in Threads, Acquire(t) PROVE TypeOK'
  BY <1>9 DEF Acquire, Goes
<1>10. ASSUME NEW t \in Threads, Skip(t) PROVE TypeOK'
  BY <1>10 DEF Skip, Goes
<1>11. ASSUME NEW t \in Threads, OpenSession(t) PROVE TypeOK'
  BY <1>11 DEF OpenSession, Goes
<1>12. ASSUME NEW t \in Threads, RunCycle(t) PROVE TypeOK'
  BY <1>12 DEF RunCycle, Goes
<1>13. ASSUME NEW t \in Threads, NetBoxIngestion(t) PROVE TypeOK'
  BY <1>13 DEF NetBoxIngestion, Goes
<1>14. ASSUME NEW t \in Threads, ListAccounts(t) PROVE TypeOK'
  BY <1>14 DEF ListAccounts, Goes
<1>15. ASSUME NEW t \in Threads, NetBoxSync(t) PROVE TypeOK'
  BY <1>15 DEF NetBoxSync, Goes
<1>16. ASSUME NEW t \in Threads, StoreSyncErrors(t) PROVE TypeOK'
  BY <1>16 DEF StoreSyncErrors, Goes
<1>17. ASSUME NEW t \in Threads, Raises(t) PROVE TypeOK'
  BY <1>17 DEF Raises, Goes
<1>18. ASSUME NEW t \in Threads, PublishResult(t) PROVE TypeOK'
  BY <1>18 DEF PublishResult, Goes
<1>19. ASSUME NEW t \in Threads, PublishError(t) PROVE TypeOK'
  BY <1>19 DEF PublishError, Goes
<1>20. ASSUME NEW t \in Threads, Stamp(t) PROVE TypeOK'
  BY <1>20 DEF Stamp, Goes
<1>21. ASSUME NEW t \in Threads, CloseSession(t) PROVE TypeOK'
  BY <1>21 DEF CloseSession, Goes
<1>22. ASSUME NEW t \in Threads, Release(t) PROVE TypeOK'
  BY <1>22 DEF Release, Goes
<1>23. CASE UNCHANGED vars
  BY <1>23 DEF vars
<1>24. QED
  BY <1>1, <1>2, <1>3, <1>4, <1>5, <1>6, <1>7, <1>8, <1>9, <1>10, <1>11, <1>12, <1>13, <1>14, <1>15, <1>16, <1>17, <1>18, <1>19, <1>20, <1>21, <1>22, <1>23 DEF Next, Handle, RunIngestion

\* The lock: no other thread can get past acquire while somebody is beyond it.
LEMMA LockStep == TypeOK /\ LockInv /\ RequestInv /\ [Next]_vars => LockInv'
<1> SUFFICES ASSUME TypeOK /\ LockInv /\ RequestInv, [Next]_vars PROVE LockInv'
  OBVIOUS
<1> USE TickAssumption, NoThreadAssumption, MaxCyclesAssumption DEF TypeOK, LockInv, RequestInv, Threads, Critical, TryBlock, Finishing
<1>1. CASE Start
  BY <1>1 DEF Start
<1>2. CASE Stop
  BY <1>2 DEF Stop
<1>3. CASE IntervalElapses
  BY <1>3 DEF IntervalElapses
<1>4. ASSUME NEW r \in Requests, TriggerFree(r) PROVE LockInv'
  BY <1>4 DEF TriggerFree
<1>5. ASSUME NEW r \in Requests, TriggerBusy(r) PROVE LockInv'
  BY <1>5 DEF TriggerBusy
<1>6. ASSUME NEW r \in Requests, SpawnThread(r) PROVE LockInv'
  BY <1>6 DEF SpawnThread
<1>7. ASSUME NEW r \in Requests, ReadTime(r) PROVE LockInv'
  BY <1>7 DEF ReadTime
<1>8. ASSUME NEW r \in Requests, ReadResult(r) PROVE LockInv'
  BY <1>8 DEF ReadResult
<1>9. ASSUME NEW t \in Threads, Acquire(t) PROVE LockInv'
  BY <1>9 DEF Acquire, Goes
<1>10. ASSUME NEW t \in Threads, Skip(t) PROVE LockInv'
  BY <1>10 DEF Skip, Goes
<1>11. ASSUME NEW t \in Threads, OpenSession(t) PROVE LockInv'
  BY <1>11 DEF OpenSession, Goes
<1>12. ASSUME NEW t \in Threads, RunCycle(t) PROVE LockInv'
  BY <1>12 DEF RunCycle, Goes
<1>13. ASSUME NEW t \in Threads, NetBoxIngestion(t) PROVE LockInv'
  BY <1>13 DEF NetBoxIngestion, Goes
<1>14. ASSUME NEW t \in Threads, ListAccounts(t) PROVE LockInv'
  BY <1>14 DEF ListAccounts, Goes
<1>15. ASSUME NEW t \in Threads, NetBoxSync(t) PROVE LockInv'
  BY <1>15 DEF NetBoxSync, Goes
<1>16. ASSUME NEW t \in Threads, StoreSyncErrors(t) PROVE LockInv'
  BY <1>16 DEF StoreSyncErrors, Goes
<1>17. ASSUME NEW t \in Threads, Raises(t) PROVE LockInv'
  BY <1>17 DEF Raises, Goes
<1>18. ASSUME NEW t \in Threads, PublishResult(t) PROVE LockInv'
  BY <1>18 DEF PublishResult, Goes
<1>19. ASSUME NEW t \in Threads, PublishError(t) PROVE LockInv'
  BY <1>19 DEF PublishError, Goes
<1>20. ASSUME NEW t \in Threads, Stamp(t) PROVE LockInv'
  BY <1>20 DEF Stamp, Goes
<1>21. ASSUME NEW t \in Threads, CloseSession(t) PROVE LockInv'
  BY <1>21 DEF CloseSession, Goes
<1>22. ASSUME NEW t \in Threads, Release(t) PROVE LockInv'
  BY <1>22 DEF Release, Goes
<1>23. CASE UNCHANGED vars
  BY <1>23 DEF vars
<1>24. QED
  BY <1>1, <1>2, <1>3, <1>4, <1>5, <1>6, <1>7, <1>8, <1>9, <1>10, <1>11, <1>12, <1>13, <1>14, <1>15, <1>16, <1>17, <1>18, <1>19, <1>20, <1>21, <1>22, <1>23 DEF Next, Handle, RunIngestion

\* The status: only the holder of the lock writes it, result first.
LEMMA StatusStep == TypeOK /\ LockInv /\ StatusInv /\ [Next]_vars => StatusInv'
<1> SUFFICES ASSUME TypeOK /\ LockInv /\ StatusInv, [Next]_vars PROVE StatusInv'
  OBVIOUS
<1> USE TickAssumption, NoThreadAssumption, MaxCyclesAssumption DEF TypeOK, LockInv, StatusInv, Threads, Critical, TryBlock, Finishing
<1>1. CASE Start
  BY <1>1 DEF Start
<1>2. CASE Stop
  BY <1>2 DEF Stop
<1>3. CASE IntervalElapses
  BY <1>3 DEF IntervalElapses
<1>4. ASSUME NEW r \in Requests, TriggerFree(r) PROVE StatusInv'
  BY <1>4 DEF TriggerFree
<1>5. ASSUME NEW r \in Requests, TriggerBusy(r) PROVE StatusInv'
  BY <1>5 DEF TriggerBusy
<1>6. ASSUME NEW r \in Requests, SpawnThread(r) PROVE StatusInv'
  BY <1>6 DEF SpawnThread
<1>7. ASSUME NEW r \in Requests, ReadTime(r) PROVE StatusInv'
  BY <1>7 DEF ReadTime
<1>8. ASSUME NEW r \in Requests, ReadResult(r) PROVE StatusInv'
  BY <1>8 DEF ReadResult
<1>9. ASSUME NEW t \in Threads, Acquire(t) PROVE StatusInv'
  BY <1>9 DEF Acquire, Goes
<1>10. ASSUME NEW t \in Threads, Skip(t) PROVE StatusInv'
  BY <1>10 DEF Skip, Goes
<1>11. ASSUME NEW t \in Threads, OpenSession(t) PROVE StatusInv'
  BY <1>11 DEF OpenSession, Goes
<1>12. ASSUME NEW t \in Threads, RunCycle(t) PROVE StatusInv'
  BY <1>12 DEF RunCycle, Goes
<1>13. ASSUME NEW t \in Threads, NetBoxIngestion(t) PROVE StatusInv'
  BY <1>13 DEF NetBoxIngestion, Goes
<1>14. ASSUME NEW t \in Threads, ListAccounts(t) PROVE StatusInv'
  BY <1>14 DEF ListAccounts, Goes
<1>15. ASSUME NEW t \in Threads, NetBoxSync(t) PROVE StatusInv'
  BY <1>15 DEF NetBoxSync, Goes
<1>16. ASSUME NEW t \in Threads, StoreSyncErrors(t) PROVE StatusInv'
  BY <1>16 DEF StoreSyncErrors, Goes
<1>17. ASSUME NEW t \in Threads, Raises(t) PROVE StatusInv'
  BY <1>17 DEF Raises, Goes
<1>18. ASSUME NEW t \in Threads, PublishResult(t) PROVE StatusInv'
  BY <1>18 DEF PublishResult, Goes
<1>19. ASSUME NEW t \in Threads, PublishError(t) PROVE StatusInv'
  BY <1>19 DEF PublishError, Goes
<1>20. ASSUME NEW t \in Threads, Stamp(t) PROVE StatusInv'
  BY <1>20 DEF Stamp, Goes
<1>21. ASSUME NEW t \in Threads, CloseSession(t) PROVE StatusInv'
  BY <1>21 DEF CloseSession, Goes
<1>22. ASSUME NEW t \in Threads, Release(t) PROVE StatusInv'
  BY <1>22 DEF Release, Goes
<1>23. CASE UNCHANGED vars
  BY <1>23 DEF vars
<1>24. QED
  BY <1>1, <1>2, <1>3, <1>4, <1>5, <1>6, <1>7, <1>8, <1>9, <1>10, <1>11, <1>12, <1>13, <1>14, <1>15, <1>16, <1>17, <1>18, <1>19, <1>20, <1>21, <1>22, <1>23 DEF Next, Handle, RunIngestion

\* The requests.
LEMMA RequestStep == IInv /\ [Next]_vars => RequestInv'
<1> SUFFICES ASSUME IInv, [Next]_vars PROVE RequestInv'
  OBVIOUS
<1> USE TickAssumption, NoThreadAssumption, MaxCyclesAssumption DEF IInv, TypeOK, LockInv, StatusInv, RequestInv, Threads, Critical, TryBlock, Finishing
<1>1. CASE Start
  BY <1>1 DEF Start
<1>2. CASE Stop
  BY <1>2 DEF Stop
<1>3. CASE IntervalElapses
  BY <1>3 DEF IntervalElapses
<1>4. ASSUME NEW r \in Requests, TriggerFree(r) PROVE RequestInv'
  BY <1>4 DEF TriggerFree
<1>5. ASSUME NEW r \in Requests, TriggerBusy(r) PROVE RequestInv'
  BY <1>5 DEF TriggerBusy
<1>6. ASSUME NEW r \in Requests, SpawnThread(r) PROVE RequestInv'
  BY <1>6 DEF SpawnThread
<1>7. ASSUME NEW r \in Requests, ReadTime(r) PROVE RequestInv'
  BY <1>7 DEF ReadTime
<1>8. ASSUME NEW r \in Requests, ReadResult(r) PROVE RequestInv'
  BY <1>8 DEF ReadResult
<1>9. ASSUME NEW t \in Threads, Acquire(t) PROVE RequestInv'
  BY <1>9 DEF Acquire, Goes
<1>10. ASSUME NEW t \in Threads, Skip(t) PROVE RequestInv'
  BY <1>10 DEF Skip, Goes
<1>11. ASSUME NEW t \in Threads, OpenSession(t) PROVE RequestInv'
  BY <1>11 DEF OpenSession, Goes
<1>12. ASSUME NEW t \in Threads, RunCycle(t) PROVE RequestInv'
  BY <1>12 DEF RunCycle, Goes
<1>13. ASSUME NEW t \in Threads, NetBoxIngestion(t) PROVE RequestInv'
  BY <1>13 DEF NetBoxIngestion, Goes
<1>14. ASSUME NEW t \in Threads, ListAccounts(t) PROVE RequestInv'
  BY <1>14 DEF ListAccounts, Goes
<1>15. ASSUME NEW t \in Threads, NetBoxSync(t) PROVE RequestInv'
  BY <1>15 DEF NetBoxSync, Goes
<1>16. ASSUME NEW t \in Threads, StoreSyncErrors(t) PROVE RequestInv'
  BY <1>16 DEF StoreSyncErrors, Goes
<1>17. ASSUME NEW t \in Threads, Raises(t) PROVE RequestInv'
  BY <1>17 DEF Raises, Goes
<1>18. ASSUME NEW t \in Threads, PublishResult(t) PROVE RequestInv'
  BY <1>18 DEF PublishResult, Goes
<1>19. ASSUME NEW t \in Threads, PublishError(t) PROVE RequestInv'
  BY <1>19 DEF PublishError, Goes
<1>20. ASSUME NEW t \in Threads, Stamp(t) PROVE RequestInv'
  BY <1>20 DEF Stamp, Goes
<1>21. ASSUME NEW t \in Threads, CloseSession(t) PROVE RequestInv'
  BY <1>21 DEF CloseSession, Goes
<1>22. ASSUME NEW t \in Threads, Release(t) PROVE RequestInv'
  BY <1>22 DEF Release, Goes
<1>23. CASE UNCHANGED vars
  BY <1>23 DEF vars
<1>24. QED
  BY <1>1, <1>2, <1>3, <1>4, <1>5, <1>6, <1>7, <1>8, <1>9, <1>10, <1>11, <1>12, <1>13, <1>14, <1>15, <1>16, <1>17, <1>18, <1>19, <1>20, <1>21, <1>22, <1>23 DEF Next, Handle, RunIngestion
-----------------------------------------------------------------------------
(* The theorems *)

LEMMA InitInv == Init => IInv
BY TickAssumption, NoThreadAssumption, MaxCyclesAssumption
   DEF Init, IInv, TypeOK, LockInv, StatusInv, RequestInv,
       Threads, Critical, TryBlock, Finishing

LEMMA InvStep == IInv /\ [Next]_vars => IInv'
BY TypeStep, LockStep, StatusStep, RequestStep DEF IInv

LEMMA Invariance == Spec => []IInv
BY InitInv, InvStep, PTL DEF Spec

\* Every variable keeps its type.
THEOREM TypeCorrect == Spec => []TypeOK
<1>1. IInv => TypeOK
  BY DEF IInv
<1>2. QED
  BY <1>1, Invariance, PTL

\* Mutual exclusion of the cycles (_job_lock, scheduler.py:108-145): interval runs
\* and manual runs never overlap, and a session is open only under the lock.
THEOREM MutualExclusion == Spec => []NoOverlap
<1>1. IInv => NoOverlap
  BY DEF IInv, TypeOK, LockInv, NoOverlap
<1>2. QED
  BY <1>1, Invariance, PTL

\* A manual run that is skipped is replaced by a cycle that began after the request
\* (trigger_now, scheduler.py:64-86).
THEOREM SkipsAreReplaced == Spec => []SkippedRunsAreReplaced
<1>1. IInv => SkippedRunsAreReplaced
  BY DEF IInv, TypeOK, RequestInv, SkippedRunsAreReplaced, Threads
<1>2. QED
  BY <1>1, Invariance, PTL

\* get_status never joins a time with an older result (scheduler.py:88-104).
THEOREM StatusOrder == Spec => []StatusIsNotTorn
<1>1. IInv => StatusIsNotTorn
  BY DEF IInv, TypeOK, RequestInv, StatusIsNotTorn
<1>2. QED
  BY <1>1, Invariance, PTL

\* Between cycles the status is that of the last cycle (scheduler.py:133-145).
THEOREM QuietStatus == Spec => []QuietStatusIsCurrent
<1>1. IInv => QuietStatusIsCurrent
  BY DEF IInv, TypeOK, StatusInv, QuietStatusIsCurrent
<1>2. QED
  BY <1>1, Invariance, PTL
==============================================================================
