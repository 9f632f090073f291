----------------------------- MODULE IngestProofs -----------------------------
(***************************************************************************)
(* Safety of Ingest for any accounts, VMs, processes and configurations.   *)
(*                                                                         *)
(* TypeOK is not inductive: the account of the current run is only defined *)
(* because a process in a run works on a row that exists.  RunInv says so; *)
(* it also keeps the processes' rows apart, which is what RunRowsAreOwned  *)
(* and VmsChangeOnlyBySuccess rest on.  StampInv, MarkInv and SeenInv      *)
(* relate what was read without the lock to the runs that ended since.     *)
(* CleanInv and ConfInv say what a cycle leaves behind and which accounts  *)
(* it takes up.                                                            *)
(* The second half proves that Ingest implements Inventory.                *)
(***************************************************************************)
EXTENDS Ingest, TLAPS

InRun(p) == pc[p] \in {"fetch", "write", "mark", "except"}

\* Rows up to nruns exist, the others do not; a process in a run works on a row of
\* its own that is still "running".
RunInv ==
    /\ \A r \in RunIds : IF r <= nruns THEN runs[r] \in RunRow ELSE runs[r] = NoRun
    /\ \A p \in Procs :
          IF InRun(p) THEN /\ run[p] \in 1..nruns
                           /\ runs[run[p]].status = "running"
                      ELSE run[p] = 0
    /\ \A p, q \in Procs : run[p] = run[q] /\ run[p] # 0 => p = q

\* lastOk points to a run on the account that was successful.
LastOkInv ==
    \A a \in Accounts : lastOk[a] # 0 =>
        /\ lastOk[a] <= nruns
        /\ runs[lastOk[a]].status = "success"
        /\ runs[lastOk[a]].account = a

\* Between the read of mark_vms_stale and its commit: a row that was not read as
\* active is active only if a run lists it that ended since the run of p began.
MarkInv ==
    \A p \in Procs : pc[p] = "mark" =>
        /\ listing[p] = {}
        /\ \A i \in Ids :
              vms[Cur(p)][i].status = "active" /\ loaded[p][i] # "active" =>
                  ListedSince(Cur(p), i, run[p])

\* What upsert_vm read without the lock was read in the run, and the time was taken then.
StampInv ==
    \A p \in Procs : \A i \in Ids :
        loaded[p][i] # "unread" /\ pc[p] # "mark" =>
            pc[p] = "write" /\ stamp[p] \in run[p]..nruns

\* A row was seen by a run that ended at that time or later.
SeenInv ==
    \A a \in Accounts : \A i \in Ids :
        vms[a][i].seen # 0 => ListedSince(a, i, vms[a][i].seen)

IInv == /\ TypeOK /\ RunInv /\ LastOkInv /\ MarkInv /\ StampInv /\ SeenInv
        /\ ActiveReflectsListing

-----------------------------------------------------------------------------
(* Rows *)

\* Closing a run row keeps it a run row of the same account.
LEMMA ClosedRow ==
    ASSUME NEW row \in RunRow, NEW s \in {"running", "success", "failed"}
    PROVE  /\ [row EXCEPT !.status = s] \in RunRow
           /\ [row EXCEPT !.status = s].status = s
           /\ [row EXCEPT !.status = s].account = row.account
           /\ [row EXCEPT !.status = s].found = row.found
BY DEF RunRow

\* A listed row after upsert_vm.
Written(row, was, time) ==
    [status |-> IF was = "active" THEN row.status ELSE "active",
     seen |-> IF was = "unread" THEN nruns ELSE time]

\* mark_vms_stale leaves a row alone that was just upserted, and upsert_vm does not
\* take an active row offline.
LEMMA SeenRow ==
    ASSUME TypeOK, NEW r \in 0..nruns, NEW row \in VmRow, NEW was, NEW time,
           was = "unread" \/ time \in r..nruns
    PROVE  LET new == MarkedStale(Written(row, was, time), r)
           IN  /\ new \in VmRow
               /\ new.seen \in r..nruns
               /\ new.status = IF was = "active" THEN row.status ELSE "active"
<1> DEFINE seen == IF was = "unread" THEN nruns ELSE time
           up == Written(row, was, time)
<1>1. seen \in r..nruns /\ seen \in 0..MaxRuns /\ ~(seen < r)
  BY MaxRunsAssumption DEF TypeOK
<1>2. up = [status |-> IF was = "active" THEN row.status ELSE "active", seen |-> seen]
  BY DEF Written
<1> HIDE DEF seen, up
<1>3. /\ up \in VmRow /\ up.seen = seen
      /\ up.status = IF was = "active" THEN row.status ELSE "active"
  BY <1>1, <1>2 DEF VmRow
<1>4. MarkedStale(up, r) = up
  BY <1>1, <1>3 DEF MarkedStale
<1>5. QED
  BY <1>1, <1>3, <1>4 DEF up

\* The rows that mark_vms_stale read before it had the lock go offline, the others
\* stay.
LEMMA LoadedRow ==
    ASSUME NEW row \in VmRow, NEW was
    PROVE  LET new == MarkedLoaded(row, was)
           IN  /\ new \in VmRow
               /\ new.seen = row.seen
               /\ new.status = "active" => new = row /\ was # "active"
BY DEF VmRow, MarkedLoaded

\* Of the other rows it leaves those active that were seen since the run began.
LEMMA UnseenRow ==
    ASSUME NEW row \in VmRow, NEW r \in Nat
    PROVE  LET new == MarkedStale(row, r)
           IN  /\ new \in VmRow
               /\ new.seen = row.seen
               /\ new.status = "active" => new = row /\ row.seen >= r
               /\ new.status = "offline" /\ row.status = "active" => row.seen < r
<1> DEFINE off == [row EXCEPT !.status = "offline"]
<1>1. off \in VmRow /\ off.status = "offline" /\ off.seen = row.seen
  BY DEF VmRow
<1>2. row.seen \in Nat
  BY MaxRunsAssumption DEF VmRow
<1>3. CASE row.status # "absent" /\ row.seen < r
  BY <1>1, <1>3 DEF MarkedStale
<1>4. CASE ~(row.status # "absent" /\ row.seen < r)
  <2>1. MarkedStale(row, r) = row
    BY <1>4 DEF MarkedStale
  <2>2. row.status = "active" => row.seen >= r
    BY <1>2, <1>4
  <2>3. QED
    BY <1>4, <2>1, <2>2
<1>5. QED
  BY <1>3, <1>4

-----------------------------------------------------------------------------
(* The steps that close a run *)

\* The run a process is in.
LEMMA CurrentRun ==
    ASSUME TypeOK, RunInv, NEW p \in Procs, InRun(p)
    PROVE  /\ run[p] \in RunIds /\ run[p] \in 1..nruns
           /\ runs[run[p]] \in RunRow
           /\ runs[run[p]].status = "running"
           /\ Cur(p) \in Accounts
BY MaxRunsAssumption DEF TypeOK, RunInv, RunIds, RunRow, Cur

\* Who closes a run closes the row of its own run and no other.
LEMMA FailureEffect ==
    ASSUME TypeOK, RunInv, NEW p \in Procs, RecordFailure(p)
    PROVE  /\ InRun(p)
           /\ runs' \in [RunIds -> RunRow \cup {NoRun}]
           /\ runs'[run[p]] \in RunRow
           /\ runs'[run[p]].status = "failed"
           /\ \A r \in RunIds \ {run[p]} : runs'[r] = runs[r]
<1>1. InRun(p)
  BY DEF RecordFailure, InRun
<1>2. /\ run[p] \in RunIds
      /\ runs[run[p]] \in RunRow
  BY <1>1, CurrentRun
<1>3. /\ runs' = [runs EXCEPT ![run[p]] = [runs[run[p]] EXCEPT !.status = "failed"]]
      /\ runs'[run[p]] = [runs[run[p]] EXCEPT !.status = "failed"]
  BY <1>2 DEF RecordFailure, TypeOK
<1>4. runs'[run[p]] \in RunRow /\ runs'[run[p]].status = "failed"
  BY <1>2, <1>3, ClosedRow
<1>5. QED
  BY <1>1, <1>2, <1>3, <1>4 DEF TypeOK

LEMMA CommitEffect ==
    ASSUME TypeOK, RunInv, NEW p \in Procs, CommitRun(p)
    PROVE  /\ InRun(p)
           /\ runs' \in [RunIds -> RunRow \cup {NoRun}]
           /\ runs'[run[p]] \in RunRow
           /\ runs'[run[p]].status = "success"
           /\ runs'[run[p]].account = Cur(p)
           /\ runs'[run[p]].found = listing[p]
           /\ runs'[run[p]].ended = nruns
           /\ \A r \in RunIds \ {run[p]} : runs'[r] = runs[r]
<1>1. InRun(p)
  BY DEF CommitRun, InRun
<1>2. /\ run[p] \in RunIds
      /\ runs[run[p]] \in RunRow
      /\ listing[p] \in SUBSET Ids
  BY <1>1, CurrentRun DEF TypeOK
<1> DEFINE closed == [runs[run[p]] EXCEPT !.status = "success", !.found = listing[p],
                                          !.ended = nruns]
<1>3. runs' = [runs EXCEPT ![run[p]] = closed]
  BY <1>2 DEF CommitRun, TypeOK
<1>4. runs'[run[p]] = closed
  BY <1>2, <1>3 DEF TypeOK
<1>5. /\ closed \in RunRow
      /\ closed.status = "success"
      /\ closed.account = Cur(p)
      /\ closed.found = listing[p]
      /\ closed.ended = nruns
  <2> DEFINE row == runs[run[p]]
  <2>1. row \in RunRow /\ listing[p] \in SUBSET Ids /\ Cur(p) = row.account
    BY <1>2 DEF Cur
  <2> HIDE DEF row
  <2>2. \A L \in SUBSET Ids, e \in 0..MaxRuns :
          LET new == [row EXCEPT !.status = "success", !.found = L, !.ended = e]
          IN  new \in RunRow /\ new.status = "success" /\ new.account = row.account
              /\ new.found = L /\ new.ended = e
    BY <2>1 DEF RunRow
  <2>3. closed = [row EXCEPT !.status = "success", !.found = listing[p], !.ended = nruns]
    BY DEF row
  <2>4. nruns \in 0..MaxRuns
    BY DEF TypeOK
  <2> HIDE DEF closed
  <2>5. LET new == [row EXCEPT !.status = "success", !.found = listing[p], !.ended = nruns]
        IN  new \in RunRow /\ new.status = "success" /\ new.account = row.account
            /\ new.found = listing[p] /\ new.ended = nruns
    BY <2>1, <2>2, <2>4, Zenon
  <2>6. QED
    BY <2>1, <2>3, <2>5, Zenon
<1> HIDE DEF closed
<1>6. runs' \in [RunIds -> RunRow \cup {NoRun}]
  BY <1>3, <1>5 DEF TypeOK
<1>7. \A r \in RunIds \ {run[p]} : runs'[r] = runs[r]
  BY <1>3 DEF TypeOK
<1>8. QED
  BY <1>1, <1>4, <1>5, <1>6, <1>7

\* Closing a run and leaving it keeps the processes' runs apart.
LEMMA RunsAfterClose ==
    ASSUME TypeOK, RunInv, NEW p \in Procs,
           run[p] \in 1..nruns, nruns' = nruns,
           runs'[run[p]] \in RunRow,
           \A r \in RunIds \ {run[p]} : runs'[r] = runs[r],
           ~InRun(p)', run'[p] = 0,
           \A q \in Procs \ {p} : InRun(q)' = InRun(q) /\ run'[q] = run[q]
    PROVE  RunInv'
<1>1. nruns \in Nat /\ nruns <= MaxRuns
  BY MaxRunsAssumption DEF TypeOK
<1>2. \A r \in RunIds : IF r <= nruns' THEN runs'[r] \in RunRow ELSE runs'[r] = NoRun
  BY <1>1 DEF RunInv, RunIds
<1>3. ASSUME NEW q \in Procs
      PROVE  IF InRun(q)' THEN run'[q] \in 1..nruns' /\ runs'[run'[q]].status = "running"
                          ELSE run'[q] = 0
  <2>1. CASE q = p
    BY <2>1
  <2>2. CASE q # p
    <3>1. /\ InRun(q)' = InRun(q) /\ run'[q] = run[q]
          /\ run[q] \in 1..nruns => run[q] # run[p] /\ run[q] \in RunIds
      <4>1. run[p] # 0
        OBVIOUS
      <4>2. run[q] # run[p]
        BY <2>2, <4>1 DEF RunInv
      <4>3. QED
        BY <1>1, <2>2, <4>2, MaxRunsAssumption DEF RunIds
    <3>2. IF InRun(q) THEN run[q] \in 1..nruns /\ runs[run[q]].status = "running"
                      ELSE run[q] = 0
      BY DEF RunInv
    <3>3. QED
      BY <3>1, <3>2
  <2>3. QED
    BY <2>1, <2>2
<1>4. ASSUME NEW x \in Procs, NEW y \in Procs, run'[x] = run'[y], run'[x] # 0
      PROVE  x = y
  <2>1. x # p /\ y # p
    BY <1>4
  <2>2. run[x] = run[y] /\ run[x] # 0
    BY <1>4, <2>1
  <2>3. QED
    BY <2>2 DEF RunInv
<1>5. QED
  BY <1>2, <1>3, <1>4 DEF RunInv

\* The table after a commit: other accounts keep their rows; in the account of the
\* run, the VMs of the listing were seen in the run.
LEMMA CommitRows ==
    ASSUME TypeOK, RunInv, MarkInv, StampInv, NEW p \in Procs, CommitRun(p)
    PROVE  /\ vms' \in [Accounts -> [Ids -> VmRow]]
           /\ \A a \in Accounts \ {Cur(p)} : vms'[a] = vms[a]
           /\ \A i \in Ids :
                LET old == vms[Cur(p)][i]
                    new == vms'[Cur(p)][i]
                IN  /\ IF i \in listing[p] THEN new.seen \in run[p]..nruns
                                           ELSE new.seen = old.seen
                    /\ new.status = "active" =>
                          \/ i \in listing[p]
                          \/ /\ new = old
                             /\ IF listing[p] = {} THEN ListedSince(Cur(p), i, run[p])
                                                   ELSE new.seen >= run[p]
                    /\ new.status = "offline" => old.status = "offline" \/ i \notin listing[p]
                    /\ new.status = "offline" /\ old.status = "active" /\ listing[p] # {} =>
                          old.seen < run[p]
<1>1. /\ run[p] \in 0..nruns /\ run[p] \in Nat
      /\ Cur(p) \in Accounts
  BY CurrentRun, MaxRunsAssumption DEF CommitRun, InRun, TypeOK
<1> DEFINE old(i) == vms[Cur(p)][i]
           row(i) == IF pc[p] = "mark" THEN MarkedLoaded(old(i), loaded[p][i])
                     ELSE MarkedStale(Upserted(old(i), i \in pend[p], loaded[p][i],
                                               stamp[p]), run[p])
<1>2. vms' = [vms EXCEPT ![Cur(p)] = [i \in Ids |-> row(i)]]
  BY <1>1 DEF CommitRun, CommittedVms, Cur, TypeOK
<1>3. ASSUME NEW i \in Ids
      PROVE  /\ row(i) \in VmRow
             /\ IF i \in listing[p] THEN row(i).seen \in run[p]..nruns
                                    ELSE row(i).seen = old(i).seen
             /\ row(i).status = "active" =>
                   \/ i \in listing[p]
                   \/ /\ row(i) = old(i)
                      /\ IF listing[p] = {} THEN ListedSince(Cur(p), i, run[p])
                                            ELSE row(i).seen >= run[p]
             /\ row(i).status = "offline" => old(i).status = "offline" \/ i \notin listing[p]
             /\ row(i).status = "offline" /\ old(i).status = "active" /\ listing[p] # {} =>
                   old(i).seen < run[p]
  <2>1. old(i) \in VmRow
    BY <1>1 DEF TypeOK
  <2>2. CASE pc[p] = "mark"
    <3>1. /\ listing[p] = {}
          /\ old(i).status = "active" /\ loaded[p][i] # "active" =>
                ListedSince(Cur(p), i, run[p])
      BY <2>2 DEF MarkInv
    <3>2. row(i) = MarkedLoaded(old(i), loaded[p][i])
      BY <2>2
    <3> HIDE DEF old, row
    <3>3. QED
      BY <2>1, <3>1, <3>2, LoadedRow
  <2>3. CASE pc[p] # "mark" /\ i \in listing[p]
    <3>1. row(i) = MarkedStale(Written(old(i), loaded[p][i], stamp[p]), run[p])
      BY <2>3 DEF CommitRun, Upserted, Written
    <3>2. loaded[p][i] = "unread" \/ stamp[p] \in run[p]..nruns
      BY <2>3 DEF StampInv
    <3> HIDE DEF old, row
    <3>3. /\ row(i) \in VmRow
          /\ row(i).seen \in run[p]..nruns
          /\ row(i).status \in {old(i).status, "active"}
      BY <1>1, <2>1, <3>1, <3>2, SeenRow
    <3>4. QED
      BY <2>3, <3>3
  <2>4. CASE pc[p] # "mark" /\ i \notin listing[p]
    <3>1. row(i) = MarkedStale(old(i), run[p]) /\ listing[p] # {}
      BY <2>4 DEF CommitRun, Upserted
    <3> HIDE DEF old, row
    <3>2. QED
      BY <1>1, <2>1, <2>4, <3>1, UnseenRow
  <2>5. QED
    BY <2>2, <2>3, <2>4
<1>4. /\ vms' \in [Accounts -> [Ids -> VmRow]]
      /\ \A a \in Accounts \ {Cur(p)} : vms'[a] = vms[a]
      /\ \A i \in Ids : vms'[Cur(p)][i] = row(i)
  <2> HIDE DEF row
  <2>1. QED
    BY <1>1, <1>2, <1>3 DEF TypeOK
<1> HIDE DEF row
<1>5. QED
  BY <1>1, <1>3, <1>4

-----------------------------------------------------------------------------
(* Every step preserves each part of the invariant *)

\* Types.
LEMMA TypeStep == TypeOK /\ RunInv /\ MarkInv /\ StampInv /\ [Next]_vars => TypeOK'
<1> SUFFICES ASSUME TypeOK /\ RunInv /\ MarkInv /\ StampInv, [Next]_vars PROVE TypeOK'
  OBVIOUS
<1> USE MaxRunsAssumption, NoProcAssumption DEF TypeOK, RunInv, InRun, RunIds,
        NoResults, Unread, VmRow, RunRow
<1>1. ASSUME NEW a \in Accounts, CloudChanges(a) PROVE TypeOK'
  BY <1>1 DEF CloudChanges
<1>2. ASSUME NEW p \in Procs, Start(p) PROVE TypeOK'
  BY <1>2 DEF Start
<1>3. ASSUME NEW p \in Procs, Crash(p) PROVE TypeOK'
  BY <1>3 DEF Crash, Released
<1>4. ASSUME NEW p \in Procs, SyncConfig(p) PROVE TypeOK'
  BY <1>4 DEF SyncConfig, ConfiguredAccounts
<1>5. ASSUME NEW p \in Procs, SyncConfigLocked(p) PROVE TypeOK'
  BY <1>5 DEF SyncConfigLocked
<1>6. ASSUME NEW p \in Procs, SkipConfig(p) PROVE TypeOK'
  BY <1>6 DEF SkipConfig
<1>7. ASSUME NEW p \in Procs, BuildProviders(p) PROVE TypeOK'
  BY <1>7 DEF BuildProviders, Eligible
<1>8. ASSUME NEW p \in Procs, EndCycle(p) PROVE TypeOK'
  BY <1>8 DEF EndCycle
<1>9. ASSUME NEW p \in Procs, NEW a \in Accounts, StartRun(p, a) PROVE TypeOK'
  <2> DEFINE row == [status |-> "running", account |-> a, found |-> {}, ended |-> 0]
  <2>1. row \in RunRow
    OBVIOUS
  <2> HIDE DEF row, RunRow, VmRow
  <2>2. runs' = [runs EXCEPT ![nruns + 1] = row] /\ nruns + 1 \in RunIds
    BY <1>9 DEF StartRun, row
  <2>3. runs' \in [RunIds -> RunRow \cup {NoRun}]
    BY <2>1, <2>2
  <2>4. nruns' \in 0..MaxRuns /\ run' \in [Procs -> 0..MaxRuns]
    BY <1>9 DEF StartRun
  <2> HIDE DEF RunInv
  <2>5. QED
    BY <1>9, <2>3, <2>4 DEF StartRun
<1>10. ASSUME NEW p \in Procs, NEW a \in Accounts, StartRunLocked(p, a) PROVE TypeOK'
  BY <1>10 DEF StartRunLocked
<1>11. ASSUME NEW p \in Procs, Fetch(p) PROVE TypeOK'
  <2> HIDE DEF VmRow, RunRow, RunInv
  <2>1. Cur(p) \in Accounts
    BY <1>11, CurrentRun DEF Fetch
  <2>2. \A L \in Listings(Cur(p)) : L \in SUBSET Ids
    BY <2>1 DEF Listings
  <2>3. QED
    BY <1>11, <2>2 DEF Fetch
<1>12. ASSUME NEW p \in Procs, FetchFails(p) PROVE TypeOK'
  BY <1>12 DEF FetchFails
<1>13. ASSUME NEW p \in Procs, NEW i \in Ids, UpsertVm(p, i) PROVE TypeOK'
  BY <1>13 DEF UpsertVm
<1>14. ASSUME NEW p \in Procs, WriteFails(p) PROVE TypeOK'
  <2> HIDE DEF VmRow, RunRow, RunInv
  <2>1. QED
    BY <1>14 DEF WriteFails, Released
<1>15. ASSUME NEW p \in Procs, CommitRun(p) PROVE TypeOK'
  <2> HIDE DEF VmRow, RunRow, RunInv
  <2>1. Cur(p) \in Accounts
    BY <1>15, CurrentRun DEF CommitRun
  <2>2. /\ runs' \in [RunIds -> RunRow \cup {NoRun}]
        /\ vms' \in [Accounts -> [Ids -> VmRow]]
    BY <1>15, CommitEffect, CommitRows
  <2>3. lastOk' \in [Accounts -> 0..MaxRuns]
    BY <1>15, <2>1 DEF CommitRun
  <2>4. results' \in [Procs -> [Accounts -> {"none", "pending", "success", "error"}]]
    BY <1>15, <2>1 DEF CommitRun, Outcome
  <2>5. /\ writer' \in Procs \cup {NoProc}
        /\ pc' \in [Procs -> {"off", "idle", "build", "accounts",
                              "fetch", "write", "mark", "except"}]
        /\ todo' \in [Procs -> SUBSET Accounts]
        /\ run' \in [Procs -> 0..MaxRuns]
        /\ listing' \in [Procs -> SUBSET Ids]
        /\ loaded' \in [Procs -> [Ids -> {"unread", "absent", "active", "offline"}]]
        /\ stamp' \in [Procs -> 0..MaxRuns]
        /\ pend' \in [Procs -> SUBSET Ids]
    BY <1>15 DEF CommitRun, Outcome
  <2>6. UNCHANGED <<cloud, acct, nruns, conf>>
    BY <1>15 DEF CommitRun
  <2>7. QED
    BY <2>2, <2>3, <2>4, <2>5, <2>6
<1>16. ASSUME NEW p \in Procs, RecordFailure(p) PROVE TypeOK'
  <2> HIDE DEF VmRow, RunRow, RunInv
  <2>1. Cur(p) \in Accounts
    BY <1>16, CurrentRun DEF RecordFailure
  <2>2. runs' \in [RunIds -> RunRow \cup {NoRun}]
    BY <1>16, FailureEffect
  <2>3. results' \in [Procs -> [Accounts -> {"none", "pending", "success", "error"}]]
    BY <1>16, <2>1 DEF RecordFailure, Outcome
  <2>4. QED
    BY <1>16, <2>2, <2>3 DEF RecordFailure, Outcome
<1>17. ASSUME NEW p \in Procs, RecordFailureLocked(p) PROVE TypeOK'
  <2>1. Cur(p) \in Accounts
    BY <1>17, CurrentRun DEF RecordFailureLocked
  <2> HIDE DEF VmRow, RunRow, RunInv
  <2>2. results' \in [Procs -> [Accounts -> {"none", "pending", "success", "error"}]]
    BY <1>17, <2>1 DEF RecordFailureLocked, Outcome
  <2>3. QED
    BY <1>17, <2>2 DEF RecordFailureLocked, Outcome
<1>18. ASSUME NEW p \in Procs, NEW i \in Ids, LoadVm(p, i) PROVE TypeOK'
  <2>1. vms[Cur(p)][i].status \in {"absent", "active", "offline"}
    <3>1. Cur(p) \in Accounts
      BY <1>18, CurrentRun DEF LoadVm
    <3>2. QED
      BY <3>1
  <2>2. QED
    BY <1>18, <2>1 DEF LoadVm
<1>19. ASSUME NEW p \in Procs, LoadStale(p) PROVE TypeOK'
  BY <1>19 DEF LoadStale
<1>20. CASE UNCHANGED vars
  BY <1>20 DEF vars
<1>21. QED
  BY <1>1, <1>2, <1>3, <1>4, <1>5, <1>6, <1>7, <1>8, <1>9, <1>10, <1>11, <1>12,
     <1>13, <1>14, <1>15, <1>16, <1>17, <1>18, <1>19, <1>20 DEF Next, Step, Cycle, Run

\* Run rows: only the process in a run closes its row.
LEMMA RunStep == TypeOK /\ RunInv /\ [Next]_vars => RunInv'
<1> SUFFICES ASSUME TypeOK /\ RunInv, [Next]_vars PROVE RunInv'
  OBVIOUS
<1> USE MaxRunsAssumption, NoProcAssumption DEF TypeOK, RunInv, InRun, RunIds,
        RunRow, NoRun
<1>1. ASSUME NEW a \in Accounts, CloudChanges(a) PROVE RunInv'
  BY <1>1 DEF CloudChanges
<1>2. ASSUME NEW p \in Procs, Start(p) PROVE RunInv'
  BY <1>2 DEF Start
<1>3. ASSUME NEW p \in Procs, Crash(p) PROVE RunInv'
  BY <1>3 DEF Crash, Released
<1>4. ASSUME NEW p \in Procs, SyncConfig(p) PROVE RunInv'
  BY <1>4 DEF SyncConfig, ConfiguredAccounts
<1>5. ASSUME NEW p \in Procs, SyncConfigLocked(p) PROVE RunInv'
  BY <1>5 DEF SyncConfigLocked
<1>6. ASSUME NEW p \in Procs, SkipConfig(p) PROVE RunInv'
  BY <1>6 DEF SkipConfig
<1>7. ASSUME NEW p \in Procs, BuildProviders(p) PROVE RunInv'
  BY <1>7 DEF BuildProviders, Eligible
<1>8. ASSUME NEW p \in Procs, EndCycle(p) PROVE RunInv'
  BY <1>8 DEF EndCycle
<1>9. ASSUME NEW p \in Procs, NEW a \in Accounts, StartRun(p, a) PROVE RunInv'
  <2> DEFINE row == [status |-> "running", account |-> a, found |-> {}, ended |-> 0]
  <2>1. nruns + 1 \in RunIds /\ nruns' = nruns + 1
    BY <1>9 DEF StartRun
  <2>2. /\ row \in RunRow
        /\ row.status = "running"
        /\ runs' = [runs EXCEPT ![nruns + 1] = row]
    BY <1>9 DEF StartRun
  <2>3. /\ runs'[nruns + 1] = row
        /\ \A r \in RunIds \ {nruns + 1} : runs'[r] = runs[r]
    BY <2>1, <2>2
  <2>4. /\ InRun(p)' /\ run'[p] = nruns + 1
        /\ \A q \in Procs \ {p} : InRun(q)' = InRun(q) /\ run'[q] = run[q]
    BY <1>9 DEF StartRun
  <2> HIDE DEF RunRow, NoRun, InRun, row
  <2>5. \A r \in RunIds :
           IF r <= nruns' THEN runs'[r] \in RunRow ELSE runs'[r] = NoRun
    BY <2>1, <2>2, <2>3
  <2>6. \A q \in Procs :
           IF InRun(q)' THEN run'[q] \in 1..nruns' /\ runs'[run'[q]].status = "running"
                        ELSE run'[q] = 0
    <3> SUFFICES ASSUME NEW q \in Procs, q # p
                 PROVE  IF InRun(q)' THEN run'[q] \in 1..nruns' /\ runs'[run'[q]].status = "running"
                                     ELSE run'[q] = 0
      BY <2>1, <2>2, <2>3, <2>4
    <3>1. /\ InRun(q)' = InRun(q) /\ run'[q] = run[q]
          /\ IF InRun(q) THEN run[q] \in 1..nruns /\ runs[run[q]].status = "running"
                         ELSE run[q] = 0
      BY <2>4
    <3>2. run[q] \in 1..nruns => runs'[run[q]] = runs[run[q]] /\ run[q] \in 1..nruns'
      BY <2>1, <2>3
    <3> HIDE DEF TypeOK, RunInv
    <3>3. QED
      BY <3>1, <3>2
  <2>7. ASSUME NEW q \in Procs \ {p} PROVE run[q] # nruns + 1
    <3>1. run[q] \in 1..nruns \/ run[q] = 0
      OBVIOUS
    <3>2. nruns \in Nat
      OBVIOUS
    <3> HIDE DEF TypeOK, RunInv
    <3>3. QED
      BY <3>1, <3>2
  <2>8. QED
    BY <2>4, <2>5, <2>6, <2>7
<1>10. ASSUME NEW p \in Procs, NEW a \in Accounts, StartRunLocked(p, a) PROVE RunInv'
  BY <1>10 DEF StartRunLocked
<1>11. ASSUME NEW p \in Procs, Fetch(p) PROVE RunInv'
  BY <1>11 DEF Fetch, Listings, Cur
<1>12. ASSUME NEW p \in Procs, FetchFails(p) PROVE RunInv'
  BY <1>12 DEF FetchFails
<1>13. ASSUME NEW p \in Procs, NEW i \in Ids, UpsertVm(p, i) PROVE RunInv'
  BY <1>13 DEF UpsertVm
<1>14. ASSUME NEW p \in Procs, WriteFails(p) PROVE RunInv'
  BY <1>14 DEF WriteFails, Released
<1>15. ASSUME NEW p \in Procs, CommitRun(p) PROVE RunInv'
  <2>1. /\ run[p] \in RunIds /\ run[p] \in 1..nruns
        /\ runs'[run[p]] \in RunRow
        /\ \A r \in RunIds \ {run[p]} : runs'[r] = runs[r]
    <3>1. InRun(p)
      BY <1>15, CommitEffect
    <3>2. QED
      BY <1>15, <3>1, CurrentRun, CommitEffect
  <2>2. nruns' = nruns
    BY <1>15 DEF CommitRun
  <2>3. /\ ~InRun(p)' /\ run'[p] = 0
        /\ \A q \in Procs \ {p} : InRun(q)' = InRun(q) /\ run'[q] = run[q]
    BY <1>15 DEF CommitRun, Outcome
  <2>4. QED
    BY <1>15, <2>1, <2>2, <2>3, RunsAfterClose
<1>16. ASSUME NEW p \in Procs, RecordFailure(p) PROVE RunInv'
  <2>1. /\ run[p] \in RunIds /\ run[p] \in 1..nruns
        /\ runs'[run[p]] \in RunRow
        /\ \A r \in RunIds \ {run[p]} : runs'[r] = runs[r]
    <3>1. InRun(p)
      BY <1>16, FailureEffect
    <3>2. QED
      BY <1>16, <3>1, CurrentRun, FailureEffect
  <2>2. nruns' = nruns
    BY <1>16 DEF RecordFailure
  <2>3. /\ ~InRun(p)' /\ run'[p] = 0
        /\ \A q \in Procs \ {p} : InRun(q)' = InRun(q) /\ run'[q] = run[q]
    BY <1>16 DEF RecordFailure, Outcome
  <2>4. QED
    BY <1>16, <2>1, <2>2, <2>3, RunsAfterClose
<1>17. ASSUME NEW p \in Procs, RecordFailureLocked(p) PROVE RunInv'
  BY <1>17 DEF RecordFailureLocked, Outcome, Cur
<1>18. ASSUME NEW p \in Procs, NEW i \in Ids, LoadVm(p, i) PROVE RunInv'
  BY <1>18 DEF LoadVm
<1>19. ASSUME NEW p \in Procs, LoadStale(p) PROVE RunInv'
  BY <1>19 DEF LoadStale
<1>20. CASE UNCHANGED vars
  BY <1>20 DEF vars
<1>21. QED
  BY <1>1, <1>2, <1>3, <1>4, <1>5, <1>6, <1>7, <1>8, <1>9, <1>10, <1>11, <1>12,
     <1>13, <1>14, <1>15, <1>16, <1>17, <1>18, <1>19, <1>20 DEF Next, Step, Cycle, Run

\* lastOk: a successful run row is never written again.
LEMMA LastOkStep == TypeOK /\ RunInv /\ LastOkInv /\ [Next]_vars => LastOkInv'
<1> SUFFICES ASSUME TypeOK /\ RunInv /\ LastOkInv, [Next]_vars PROVE LastOkInv'
  OBVIOUS
<1> USE MaxRunsAssumption, NoProcAssumption DEF TypeOK, RunInv, LastOkInv, InRun,
        RunIds, RunRow, NoRun
<1>1. ASSUME NEW a \in Accounts, CloudChanges(a) PROVE LastOkInv'
  BY <1>1 DEF CloudChanges
<1>2. ASSUME NEW p \in Procs, Start(p) PROVE LastOkInv'
  BY <1>2 DEF Start
<1>3. ASSUME NEW p \in Procs, Crash(p) PROVE LastOkInv'
  BY <1>3 DEF Crash, Released
<1>4. ASSUME NEW p \in Procs, SyncConfig(p) PROVE LastOkInv'
  BY <1>4 DEF SyncConfig, ConfiguredAccounts
<1>5. ASSUME NEW p \in Procs, SyncConfigLocked(p) PROVE LastOkInv'
  BY <1>5 DEF SyncConfigLocked
<1>6. ASSUME NEW p \in Procs, SkipConfig(p) PROVE LastOkInv'
  BY <1>6 DEF SkipConfig
<1>7. ASSUME NEW p \in Procs, BuildProviders(p) PROVE LastOkInv'
  BY <1>7 DEF BuildProviders, Eligible
<1>8. ASSUME NEW p \in Procs, EndCycle(p) PROVE LastOkInv'
  BY <1>8 DEF EndCycle
<1>9. ASSUME NEW p \in Procs, NEW a \in Accounts, StartRun(p, a) PROVE LastOkInv'
  BY <1>9 DEF StartRun
<1>10. ASSUME NEW p \in Procs, NEW a \in Accounts, StartRunLocked(p, a) PROVE LastOkInv'
  BY <1>10 DEF StartRunLocked
<1>11. ASSUME NEW p \in Procs, Fetch(p) PROVE LastOkInv'
  BY <1>11 DEF Fetch, Listings, Cur
<1>12. ASSUME NEW p \in Procs, FetchFails(p) PROVE LastOkInv'
  BY <1>12 DEF FetchFails
<1>13. ASSUME NEW p \in Procs, NEW i \in Ids, UpsertVm(p, i) PROVE LastOkInv'
  BY <1>13 DEF UpsertVm
<1>14. ASSUME NEW p \in Procs, WriteFails(p) PROVE LastOkInv'
  BY <1>14 DEF WriteFails, Released
<1>15. ASSUME NEW p \in Procs, CommitRun(p) PROVE LastOkInv'
  <2>1. /\ run[p] \in 1..nruns
        /\ runs[run[p]].status = "running"
        /\ runs'[run[p]].status = "success"
        /\ runs'[run[p]].account = Cur(p)
        /\ \A r \in RunIds \ {run[p]} : runs'[r] = runs[r]
    BY <1>15, CurrentRun, CommitEffect
  <2>2. /\ lastOk' = [lastOk EXCEPT ![Cur(p)] = run[p]]
        /\ nruns' = nruns
    BY <1>15 DEF CommitRun
  <2> HIDE DEF RunInv, RunRow, InRun
  <2>3. ASSUME NEW a \in Accounts, lastOk'[a] # 0
        PROVE  /\ lastOk'[a] <= nruns'
               /\ runs'[lastOk'[a]].status = "success"
               /\ runs'[lastOk'[a]].account = a
    <3>1. CASE a = Cur(p)
      BY <2>1, <2>2, <3>1
    <3>2. CASE a # Cur(p)
      <4>1. lastOk'[a] = lastOk[a]
        BY <2>2, <3>2
      <4>2. lastOk[a] \in RunIds /\ lastOk[a] # run[p]
        BY <2>1, <2>3, <4>1
      <4>3. QED
        BY <2>1, <2>2, <2>3, <4>1, <4>2
    <3>3. QED
      BY <3>1, <3>2
  <2>4. QED
    BY <2>3
<1>16. ASSUME NEW p \in Procs, RecordFailure(p) PROVE LastOkInv'
  BY <1>16 DEF RecordFailure, Outcome, Cur
<1>17. ASSUME NEW p \in Procs, RecordFailureLocked(p) PROVE LastOkInv'
  BY <1>17 DEF RecordFailureLocked, Outcome, Cur
<1>18. ASSUME NEW p \in Procs, NEW i \in Ids, LoadVm(p, i) PROVE LastOkInv'
  BY <1>18 DEF LoadVm
<1>19. ASSUME NEW p \in Procs, LoadStale(p) PROVE LastOkInv'
  BY <1>19 DEF LoadStale
<1>20. CASE UNCHANGED vars
  BY <1>20 DEF vars
<1>21. QED
  BY <1>1, <1>2, <1>3, <1>4, <1>5, <1>6, <1>7, <1>8, <1>9, <1>10, <1>11, <1>12,
     <1>13, <1>14, <1>15, <1>16, <1>17, <1>18, <1>19, <1>20 DEF Next, Step, Cycle, Run

\* Run rows: only the process that works on a row writes it.
LEMMA OwnersStep == TypeOK /\ RunInv /\ [Next]_vars => OnlyOwnersWrite
<1> SUFFICES ASSUME TypeOK, RunInv, [Next]_vars PROVE OnlyOwnersWrite
  OBVIOUS
<1> USE MaxRunsAssumption, NoProcAssumption DEF TypeOK, RunInv,
        OnlyOwnersWrite, InRun, RunIds
<1>1. ASSUME NEW a \in Accounts, CloudChanges(a) PROVE OnlyOwnersWrite
  BY <1>1 DEF CloudChanges
<1>2. ASSUME NEW p \in Procs, Start(p) PROVE OnlyOwnersWrite
  BY <1>2 DEF Start
<1>3. ASSUME NEW p \in Procs, Crash(p) PROVE OnlyOwnersWrite
  BY <1>3 DEF Crash, Released
<1>4. ASSUME NEW p \in Procs, SyncConfig(p) PROVE OnlyOwnersWrite
  BY <1>4 DEF SyncConfig, ConfiguredAccounts
<1>5. ASSUME NEW p \in Procs, SyncConfigLocked(p) PROVE OnlyOwnersWrite
  BY <1>5 DEF SyncConfigLocked
<1>6. ASSUME NEW p \in Procs, SkipConfig(p) PROVE OnlyOwnersWrite
  BY <1>6 DEF SkipConfig
<1>7. ASSUME NEW p \in Procs, BuildProviders(p) PROVE OnlyOwnersWrite
  BY <1>7 DEF BuildProviders, Eligible
<1>8. ASSUME NEW p \in Procs, EndCycle(p) PROVE OnlyOwnersWrite
  BY <1>8 DEF EndCycle
<1>9. ASSUME NEW p \in Procs, NEW a \in Accounts, StartRun(p, a) PROVE OnlyOwnersWrite
  <2>1. /\ runs[nruns + 1] = NoRun
        /\ \A r \in RunIds \ {nruns + 1} : runs'[r] = runs[r]
    BY <1>9 DEF StartRun
  <2>2. QED
    BY <2>1 DEF NoRun
<1>10. ASSUME NEW p \in Procs, NEW a \in Accounts, StartRunLocked(p, a) PROVE OnlyOwnersWrite
  BY <1>10 DEF StartRunLocked
<1>11. ASSUME NEW p \in Procs, Fetch(p) PROVE OnlyOwnersWrite
  BY <1>11 DEF Fetch, Listings, Cur
<1>12. ASSUME NEW p \in Procs, FetchFails(p) PROVE OnlyOwnersWrite
  BY <1>12 DEF FetchFails
<1>13. ASSUME NEW p \in Procs, NEW i \in Ids, UpsertVm(p, i) PROVE OnlyOwnersWrite
  BY <1>13 DEF UpsertVm
<1>14. ASSUME NEW p \in Procs, WriteFails(p) PROVE OnlyOwnersWrite
  BY <1>14 DEF WriteFails, Released
<1>15. ASSUME NEW p \in Procs, CommitRun(p) PROVE OnlyOwnersWrite
  <2>1. /\ InRun(p)
        /\ \A r \in RunIds \ {run[p]} : runs'[r] = runs[r]
    BY <1>15, CommitEffect
  <2>2. run'[p] = 0
    BY <1>15 DEF CommitRun, Outcome
  <2>3. QED
    BY <2>1, <2>2, CurrentRun
<1>16. ASSUME NEW p \in Procs, RecordFailure(p) PROVE OnlyOwnersWrite
  <2>1. /\ InRun(p)
        /\ \A r \in RunIds \ {run[p]} : runs'[r] = runs[r]
    BY <1>16, FailureEffect
  <2>2. run'[p] = 0
    BY <1>16 DEF RecordFailure, Outcome
  <2>3. QED
    BY <2>1, <2>2, CurrentRun
<1>17. ASSUME NEW p \in Procs, RecordFailureLocked(p) PROVE OnlyOwnersWrite
  BY <1>17 DEF RecordFailureLocked, Outcome, Cur
<1>18. ASSUME NEW p \in Procs, NEW i \in Ids, LoadVm(p, i) PROVE OnlyOwnersWrite
  BY <1>18 DEF LoadVm
<1>19. ASSUME NEW p \in Procs, LoadStale(p) PROVE OnlyOwnersWrite
  BY <1>19 DEF LoadStale
<1>20. CASE UNCHANGED vars
  BY <1>20 DEF vars
<1>21. QED
  BY <1>1, <1>2, <1>3, <1>4, <1>5, <1>6, <1>7, <1>8, <1>9, <1>10, <1>11, <1>12,
     <1>13, <1>14, <1>15, <1>16, <1>17, <1>18, <1>19, <1>20 DEF Next, Step, Cycle, Run

\* A finished row is history.
LEMMA FinishedStay ==
    ASSUME TypeOK, RunInv, [Next]_vars,
           NEW r \in RunIds, runs[r].status \in {"success", "failed"}
    PROVE  runs'[r] = runs[r]
BY OwnersStep DEF OnlyOwnersWrite, NoRun

\* Only a commit writes VM rows and makes a run the last one that succeeded.
LEMMA TableSteps ==
    [Next]_vars => UNCHANGED <<vms, lastOk>> \/ \E p \in Procs : CommitRun(p)
<1> SUFFICES ASSUME [Next]_vars
             PROVE  UNCHANGED <<vms, lastOk>> \/ \E p \in Procs : CommitRun(p)
  OBVIOUS
<1>1. ASSUME NEW a \in Accounts, CloudChanges(a) PROVE UNCHANGED <<vms, lastOk>>
  BY <1>1 DEF CloudChanges
<1>2. ASSUME NEW p \in Procs, Start(p) PROVE UNCHANGED <<vms, lastOk>>
  BY <1>2 DEF Start
<1>3. ASSUME NEW p \in Procs, Crash(p) PROVE UNCHANGED <<vms, lastOk>>
  BY <1>3 DEF Crash, Released
<1>4. ASSUME NEW p \in Procs, SyncConfig(p) PROVE UNCHANGED <<vms, lastOk>>
  BY <1>4 DEF SyncConfig, ConfiguredAccounts
<1>5. ASSUME NEW p \in Procs, SyncConfigLocked(p) PROVE UNCHANGED <<vms, lastOk>>
  BY <1>5 DEF SyncConfigLocked
<1>6. ASSUME NEW p \in Procs, SkipConfig(p) PROVE UNCHANGED <<vms, lastOk>>
  BY <1>6 DEF SkipConfig
<1>7. ASSUME NEW p \in Procs, BuildProviders(p) PROVE UNCHANGED <<vms, lastOk>>
  BY <1>7 DEF BuildProviders, Eligible
<1>8. ASSUME NEW p \in Procs, EndCycle(p) PROVE UNCHANGED <<vms, lastOk>>
  BY <1>8 DEF EndCycle
<1>9. ASSUME NEW p \in Procs, NEW a \in Accounts, StartRun(p, a) PROVE UNCHANGED <<vms, lastOk>>
  BY <1>9 DEF StartRun
<1>10. ASSUME NEW p \in Procs, NEW a \in Accounts, StartRunLocked(p, a) PROVE UNCHANGED <<vms, lastOk>>
  BY <1>10 DEF StartRunLocked
<1>11. ASSUME NEW p \in Procs, Fetch(p) PROVE UNCHANGED <<vms, lastOk>>
  BY <1>11 DEF Fetch, Listings, Cur
<1>12. ASSUME NEW p \in Procs, FetchFails(p) PROVE UNCHANGED <<vms, lastOk>>
  BY <1>12 DEF FetchFails
<1>13. ASSUME NEW p \in Procs, NEW i \in Ids, UpsertVm(p, i) PROVE UNCHANGED <<vms, lastOk>>
  BY <1>13 DEF UpsertVm
<1>14. ASSUME NEW p \in Procs, WriteFails(p) PROVE UNCHANGED <<vms, lastOk>>
  BY <1>14 DEF WriteFails, Released
<1>15. ASSUME NEW p \in Procs, RecordFailure(p) PROVE UNCHANGED <<vms, lastOk>>
  BY <1>15 DEF RecordFailure, Outcome, Cur
<1>16. ASSUME NEW p \in Procs, RecordFailureLocked(p) PROVE UNCHANGED <<vms, lastOk>>
  BY <1>16 DEF RecordFailureLocked, Outcome, Cur
<1>17. ASSUME NEW p \in Procs, NEW i \in Ids, LoadVm(p, i) PROVE UNCHANGED <<vms, lastOk>>
  BY <1>17 DEF LoadVm
<1>18. ASSUME NEW p \in Procs, LoadStale(p) PROVE UNCHANGED <<vms, lastOk>>
  BY <1>18 DEF LoadStale
<1>19. CASE UNCHANGED vars
  BY <1>19 DEF vars
<1>20. QED
  BY <1>1, <1>2, <1>3, <1>4, <1>5, <1>6, <1>7, <1>8, <1>9, <1>10, <1>11, <1>12,
     <1>13, <1>14, <1>15, <1>16, <1>17, <1>18, <1>19 DEF Next, Step, Cycle, Run

\* A run that lists a VM stays one, and one that ended after r ended after every run
\* before r.
LEMMA SinceStays ==
    ASSUME TypeOK, RunInv, [Next]_vars,
           NEW a \in Accounts, NEW i \in Ids, NEW r, ListedSince(a, i, r)
    PROVE  ListedSince(a, i, r)'
<1>1. PICK x \in RunIds : /\ runs[x].status = "success" /\ runs[x].account = a
                          /\ i \in runs[x].found
                          /\ runs[x].ended >= r
  BY DEF ListedSince
<1>2. runs'[x] = runs[x]
  BY <1>1, FinishedStay
<1>3. QED
  BY <1>1, <1>2 DEF ListedSince

LEMMA SinceEarlier ==
    ASSUME TypeOK, NEW a \in Accounts, NEW i \in Ids, NEW r \in Nat, NEW s \in Nat,
           s <= r, ListedSince(a, i, r)
    PROVE  ListedSince(a, i, s)
<1>1. PICK x \in RunIds : /\ runs[x].status = "success" /\ runs[x].account = a
                          /\ i \in runs[x].found
                          /\ runs[x].ended >= r
  BY DEF ListedSince
<1>2. runs[x].ended \in Nat
  <2>1. runs[x] \in RunRow
    BY <1>1 DEF TypeOK, NoRun
  <2>2. QED
    BY <2>1, MaxRunsAssumption DEF RunRow
<1>3. QED
  BY <1>1, <1>2 DEF ListedSince

\* Who commits a listing is a run that lists its VMs and ends now.
LEMMA CommitLists ==
    ASSUME TypeOK, RunInv, NEW p \in Procs, CommitRun(p),
           NEW a \in Accounts, a = Cur(p), NEW i \in listing[p], NEW r \in 0..nruns
    PROVE  ListedSince(a, i, r)'
<1>1. /\ run[p] \in RunIds
      /\ runs'[run[p]].status = "success"
      /\ runs'[run[p]].account = a
      /\ runs'[run[p]].found = listing[p]
      /\ runs'[run[p]].ended = nruns
  BY CommitEffect, CurrentRun
<1>2. nruns >= r
  BY MaxRunsAssumption DEF TypeOK
<1>3. QED
  BY <1>1, <1>2 DEF ListedSince

\* Rows read by mark_vms_stale: whoever commits meanwhile makes a row active only by
\* listing it.
LEMMA MarkStep ==
    TypeOK /\ RunInv /\ MarkInv /\ StampInv /\ SeenInv /\ [Next]_vars => MarkInv'
<1> SUFFICES ASSUME TypeOK, RunInv, MarkInv, StampInv, SeenInv, [Next]_vars PROVE MarkInv'
  OBVIOUS
<1>0. ASSUME NEW q \in Procs, pc[q] = "mark", run'[q] = run[q]
      PROVE  /\ Cur(q)' = Cur(q) /\ Cur(q) \in Accounts
             /\ run[q] \in 1..nruns /\ run[q] \in Nat /\ listing[q] = {}
             /\ \A i \in Ids : ListedSince(Cur(q), i, run[q]) => ListedSince(Cur(q), i, run[q])'
  <2>1. /\ run[q] \in RunIds /\ run[q] \in 1..nruns /\ run[q] \in Nat
        /\ Cur(q) \in Accounts /\ listing[q] = {}
        /\ runs[run[q]] \in RunRow
    BY <1>0, CurrentRun, MaxRunsAssumption DEF InRun, MarkInv, TypeOK
  <2>2. runs'[run[q]] = runs[run[q]]
    BY <1>0, <2>1, OwnersStep DEF OnlyOwnersWrite, RunRow, NoRun
  <2>3. Cur(q)' = Cur(q)
    BY <1>0, <2>2 DEF Cur
  <2>4. \A i \in Ids : ListedSince(Cur(q), i, run[q]) => ListedSince(Cur(q), i, run[q])'
    <3> DEFINE b == Cur(q)
               r == run[q]
    <3> SUFFICES ASSUME NEW i \in Ids, ListedSince(b, i, r) PROVE ListedSince(b, i, r)'
      OBVIOUS
    <3>1. PICK x \in RunIds : /\ runs[x].status = "success" /\ runs[x].account = b
                              /\ i \in runs[x].found /\ runs[x].ended >= r
      BY DEF ListedSince
    <3>2. runs'[x] = runs[x]
      BY <3>1, FinishedStay
    <3>3. b' = b /\ r' = r
      BY <1>0, <2>3
    <3> HIDE DEF b, r
    <3>4. QED
      BY <3>1, <3>2, <3>3 DEF ListedSince
  <2>5. QED
    BY <2>1, <2>3, <2>4
\* A step that leaves the table and what the processes that marked have read.
<1>1. ASSUME vms' = vms,
             \A q \in Procs : pc'[q] = "mark" =>
                /\ pc[q] = "mark" /\ run'[q] = run[q]
                /\ listing'[q] = listing[q] /\ loaded'[q] = loaded[q]
      PROVE  MarkInv'
  <2> SUFFICES ASSUME NEW q \in Procs, pc'[q] = "mark"
               PROVE  /\ listing'[q] = {}
                      /\ \A i \in Ids :
                            vms'[Cur(q)'][i].status = "active" /\ loaded'[q][i] # "active"
                                => ListedSince(Cur(q), i, run[q])'
    BY DEF MarkInv
  <2>1. QED
    BY <1>0, <1>1 DEF MarkInv
<1>2. ASSUME NEW a \in Accounts, CloudChanges(a) PROVE MarkInv'
  BY <1>2, <1>1 DEF TypeOK, CloudChanges
<1>3. ASSUME NEW p \in Procs, Start(p) PROVE MarkInv'
  BY <1>3, <1>1 DEF TypeOK, Start
<1>4. ASSUME NEW p \in Procs, Crash(p) PROVE MarkInv'
  BY <1>4, <1>1 DEF TypeOK, Crash
<1>5. ASSUME NEW p \in Procs, Cycle(p) PROVE MarkInv'
  BY <1>5, <1>1 DEF TypeOK, Cycle, SyncConfig, SyncConfigLocked, SkipConfig, BuildProviders, EndCycle
<1>6. ASSUME NEW p \in Procs, NEW a \in Accounts, StartRun(p, a) PROVE MarkInv'
  BY <1>6, <1>1 DEF TypeOK, StartRun
<1>7. ASSUME NEW p \in Procs, NEW a \in Accounts, StartRunLocked(p, a) PROVE MarkInv'
  BY <1>7, <1>1 DEF TypeOK, StartRunLocked
<1>8. ASSUME NEW p \in Procs, Fetch(p) PROVE MarkInv'
  BY <1>8, <1>1 DEF TypeOK, Fetch
<1>9. ASSUME NEW p \in Procs, FetchFails(p) PROVE MarkInv'
  BY <1>9, <1>1 DEF TypeOK, FetchFails
<1>10. ASSUME NEW p \in Procs, NEW i \in Ids, LoadVm(p, i) PROVE MarkInv'
  BY <1>10, <1>1 DEF TypeOK, LoadVm
<1>11. ASSUME NEW p \in Procs, NEW i \in Ids, UpsertVm(p, i) PROVE MarkInv'
  BY <1>11, <1>1 DEF TypeOK, UpsertVm
<1>12. ASSUME NEW p \in Procs, WriteFails(p) PROVE MarkInv'
  BY <1>12, <1>1 DEF TypeOK, WriteFails
<1>13. ASSUME NEW p \in Procs, RecordFailure(p) PROVE MarkInv'
  BY <1>13, <1>1 DEF TypeOK, RecordFailure, Outcome
<1>14. ASSUME NEW p \in Procs, RecordFailureLocked(p) PROVE MarkInv'
  BY <1>14, <1>1 DEF TypeOK, RecordFailureLocked, Outcome
<1>15. ASSUME NEW p \in Procs, CommitRun(p) PROVE MarkInv'
  <2> SUFFICES ASSUME NEW q \in Procs, pc'[q] = "mark"
               PROVE  /\ listing'[q] = {}
                      /\ \A i \in Ids :
                            vms'[Cur(q)'][i].status = "active" /\ loaded'[q][i] # "active"
                                => ListedSince(Cur(q), i, run[q])'
    BY DEF MarkInv
  <2>1. /\ q # p /\ pc[q] = "mark"
        /\ run'[q] = run[q] /\ listing'[q] = listing[q] /\ loaded'[q] = loaded[q]
    BY <1>15 DEF CommitRun, Outcome, TypeOK
  <2>2. ASSUME NEW i \in Ids, vms'[Cur(q)][i].status = "active", loaded[q][i] # "active"
        PROVE  ListedSince(Cur(q), i, run[q])'
    <3>1. CASE vms'[Cur(q)][i] = vms[Cur(q)][i]
      BY <1>0, <2>1, <2>2, <3>1 DEF MarkInv
    <3>2. CASE vms'[Cur(q)][i] # vms[Cur(q)][i]
      <4>1. Cur(q) = Cur(p)
        BY <1>15, <1>0, <2>1, <3>2, CommitRows
      <4>2. i \in listing[p]
        BY <1>15, <2>2, <3>2, <4>1, CommitRows
      <4>3. \A b \in Accounts, r \in 0..nruns : b = Cur(p) => ListedSince(b, i, r)'
        BY <1>15, <4>2, CommitLists
      <4>4. /\ Cur(q)' = Cur(q) /\ run'[q] = run[q]
            /\ Cur(q) \in Accounts /\ run[q] \in 0..nruns
        BY <1>0, <2>1
      <4>5. QED
        BY <4>1, <4>3, <4>4 DEF ListedSince
    <3>3. QED
      BY <3>1, <3>2
  <2>3. QED
    BY <1>0, <2>1, <2>2
<1>16. ASSUME NEW p \in Procs, LoadStale(p) PROVE MarkInv'
  <2>1. UNCHANGED <<vms, runs, run, listing>>
    BY <1>16 DEF LoadStale
  <2> SUFFICES ASSUME NEW q \in Procs, pc'[q] = "mark"
               PROVE  /\ listing[q] = {}
                      /\ \A i \in Ids :
                            vms[Cur(q)][i].status = "active" /\ loaded'[q][i] # "active"
                                => ListedSince(Cur(q), i, run[q])
    BY <2>1 DEF MarkInv, Cur, ListedSince
  <2>2. CASE q # p
    BY <1>16, <2>2 DEF LoadStale, TypeOK, MarkInv
  <2>3. CASE q = p
    <3>1. /\ listing[p] = {} /\ Cur(p) \in Accounts
          /\ run[p] \in Nat /\ run[p] # 0
      BY <1>16, CurrentRun DEF LoadStale, InRun
    <3>2. ASSUME NEW i \in Ids, vms[Cur(p)][i].status = "active", loaded'[p][i] # "active"
          PROVE  ListedSince(Cur(p), i, run[p])
      <4> DEFINE row == vms[Cur(p)][i]
      <4>1. row \in VmRow /\ row.seen \in Nat
        BY <3>1, MaxRunsAssumption DEF TypeOK, VmRow
      <4>2. MarkedStale(row, run[p]).status = "active"
        BY <1>16, <3>2 DEF LoadStale, TypeOK
      <4> HIDE DEF row
      <4>3. row.seen >= run[p] /\ row.seen # 0
        BY <3>1, <4>1, <4>2, UnseenRow
      <4>4. ListedSince(Cur(p), i, row.seen)
        BY <3>1, <4>3 DEF SeenInv, row
      <4>5. QED
        BY <3>1, <4>1, <4>3, <4>4, SinceEarlier
    <3>3. QED
      BY <2>3, <3>1, <3>2
  <2>4. QED
    BY <2>2, <2>3
<1>17. CASE UNCHANGED vars
  BY <1>17, <1>1 DEF vars
<1>18. QED
  BY <1>2, <1>3, <1>4, <1>5, <1>6, <1>7, <1>8, <1>9, <1>10, <1>11, <1>12, <1>13, <1>14, <1>15, <1>16, <1>17
     DEF Next, Step, Run

\* Times that were taken: runs only begin.
LEMMA StampStep == TypeOK /\ RunInv /\ StampInv /\ [Next]_vars => StampInv'
<1> SUFFICES ASSUME TypeOK, RunInv, StampInv, [Next]_vars PROVE StampInv'
  OBVIOUS
<1>1. ASSUME UNCHANGED <<nruns>>,
             \A q \in Procs, i \in Ids : loaded'[q][i] # "unread" /\ pc'[q] # "mark" =>
                /\ loaded[q][i] # "unread" /\ pc'[q] = pc[q]
                /\ run'[q] = run[q] /\ stamp'[q] = stamp[q]
      PROVE  StampInv'
  BY <1>1 DEF StampInv
<1> USE DEF StampInv
<1>2. ASSUME NEW a \in Accounts, CloudChanges(a) PROVE StampInv'
  BY <1>2, <1>1 DEF TypeOK, CloudChanges
<1>3. ASSUME NEW p \in Procs, Start(p) PROVE StampInv'
  BY <1>3, <1>1 DEF TypeOK, Start
<1>4. ASSUME NEW p \in Procs, Crash(p) PROVE StampInv'
  BY <1>4, <1>1 DEF TypeOK, Crash, Unread
<1>5. ASSUME NEW p \in Procs, Cycle(p) PROVE StampInv'
  BY <1>5, <1>1 DEF TypeOK, Cycle, SyncConfig, SyncConfigLocked, SkipConfig, BuildProviders, EndCycle
<1>6. ASSUME NEW p \in Procs, NEW a \in Accounts, StartRun(p, a) PROVE StampInv'
  <2>1. /\ nruns' = nruns + 1 /\ nruns \in Nat
        /\ UNCHANGED <<loaded, stamp>>
        /\ pc[p] = "accounts"
        /\ \A q \in Procs \ {p} : pc'[q] = pc[q] /\ run'[q] = run[q]
    BY <1>6, MaxRunsAssumption DEF TypeOK, StartRun
  <2>2. \A q \in Procs : stamp[q] \in Nat /\ run[q] \in Nat
    BY MaxRunsAssumption DEF TypeOK
  <2>3. QED
    BY <2>1, <2>2 DEF StampInv
<1>7. ASSUME NEW p \in Procs, NEW a \in Accounts, StartRunLocked(p, a) PROVE StampInv'
  BY <1>7, <1>1 DEF TypeOK, StartRunLocked
<1>8. ASSUME NEW p \in Procs, Fetch(p) PROVE StampInv'
  BY <1>8, <1>1 DEF TypeOK, Fetch
<1>9. ASSUME NEW p \in Procs, FetchFails(p) PROVE StampInv'
  BY <1>9, <1>1 DEF TypeOK, FetchFails
<1>10. ASSUME NEW p \in Procs, NEW i \in Ids, LoadVm(p, i) PROVE StampInv'
  <2>1. run[p] \in 0..nruns /\ nruns \in run[p]..nruns
    BY <1>10, CurrentRun, MaxRunsAssumption DEF LoadVm, InRun, TypeOK
  <2>2. QED
    BY <1>10, <2>1 DEF TypeOK, StampInv, LoadVm
<1>11. ASSUME NEW p \in Procs, NEW i \in Ids, UpsertVm(p, i) PROVE StampInv'
  BY <1>11, <1>1 DEF TypeOK, UpsertVm
<1>12. ASSUME NEW p \in Procs, WriteFails(p) PROVE StampInv'
  BY <1>12, <1>1 DEF TypeOK, WriteFails, Unread
<1>13. ASSUME NEW p \in Procs, RecordFailure(p) PROVE StampInv'
  BY <1>13, <1>1 DEF TypeOK, RecordFailure, Outcome
<1>14. ASSUME NEW p \in Procs, RecordFailureLocked(p) PROVE StampInv'
  BY <1>14, <1>1 DEF TypeOK, RecordFailureLocked, Outcome
<1>15. ASSUME NEW p \in Procs, CommitRun(p) PROVE StampInv'
  BY <1>15, <1>1 DEF TypeOK, CommitRun, Outcome, Unread
<1>16. ASSUME NEW p \in Procs, LoadStale(p) PROVE StampInv'
  BY <1>16, <1>1 DEF TypeOK, LoadStale
<1>17. CASE UNCHANGED vars
  BY <1>17, <1>1 DEF vars
<1>18. QED
  BY <1>2, <1>3, <1>4, <1>5, <1>6, <1>7, <1>8, <1>9, <1>10, <1>11, <1>12, <1>13, <1>14, <1>15, <1>16, <1>17
     DEF Next, Step, Run

\* Times in the table: a commit writes those of its listing.
LEMMA SeenStep == IInv /\ [Next]_vars => SeenInv'
<1> SUFFICES ASSUME IInv, [Next]_vars, NEW a \in Accounts, NEW i \in Ids,
                    vms'[a][i].seen # 0
             PROVE  \E r \in Nat : r = vms'[a][i].seen /\ ListedSince(a, i, r)'
  BY DEF SeenInv, ListedSince
<1>0. TypeOK /\ RunInv /\ MarkInv /\ StampInv /\ SeenInv
  BY DEF IInv
<1>1. vms[a][i].seen \in Nat
  BY <1>0, MaxRunsAssumption DEF TypeOK, VmRow
<1>2. CASE vms'[a][i].seen = vms[a][i].seen
  BY <1>0, <1>1, <1>2, SinceStays DEF SeenInv
<1>3. CASE vms'[a][i].seen # vms[a][i].seen
  <2>1. PICK p \in Procs : CommitRun(p)
    BY <1>3, TableSteps
  <2>2. a = Cur(p) /\ i \in listing[p] /\ vms'[a][i].seen \in run[p]..nruns
    BY <1>0, <1>3, <2>1, CommitRows
  <2>3. run[p] \in Nat /\ nruns \in Nat
    BY <1>0, MaxRunsAssumption DEF TypeOK
  <2>4. QED
    BY <1>0, <2>1, <2>2, <2>3, CommitLists
<1>4. QED
  BY <1>2, <1>3

\* Active rows: only a commit touches them.
LEMMA ActiveStep == IInv /\ [Next]_vars => ActiveReflectsListing'
<1> SUFFICES ASSUME IInv, [Next]_vars, NEW a \in Accounts, NEW i \in Ids
             PROVE  LET last == lastOk'[a]
                        row == vms'[a][i]
                    IN  /\ last = 0 => row.status = "absent"
                        /\ last # 0 /\ row.status = "active" => ListedSince(a, i, lastOk[a])'
                        /\ last # 0 /\ (i \in runs'[last].found
                                        \/ (row.status = "active" /\ runs'[last].found # {}))
                              => row.seen >= last
  BY DEF ActiveReflectsListing
<1>0. TypeOK /\ RunInv /\ LastOkInv /\ MarkInv /\ StampInv /\ ActiveReflectsListing
  BY DEF IInv
<1>1. CASE vms'[a] = vms[a] /\ lastOk'[a] = lastOk[a]
  <2>1. lastOk[a] # 0 => runs'[lastOk[a]] = runs[lastOk[a]]
    <3>1. lastOk[a] # 0 => lastOk[a] \in RunIds /\ runs[lastOk[a]].status = "success"
      BY <1>0, MaxRunsAssumption DEF LastOkInv, TypeOK, RunIds
    <3>2. QED
      BY <1>0, <3>1, FinishedStay
  <2>2. lastOk[a] # 0 /\ vms[a][i].status = "active" => ListedSince(a, i, lastOk[a])'
    <3> DEFINE last == lastOk[a]
    <3>1. ASSUME ListedSince(a, i, last) PROVE ListedSince(a, i, last)'
      <4>1. PICK x \in RunIds : /\ runs[x].status = "success" /\ runs[x].account = a
                                /\ i \in runs[x].found /\ runs[x].ended >= last
        BY <3>1 DEF ListedSince
      <4>2. runs'[x] = runs[x]
        BY <1>0, <4>1, FinishedStay
      <4>3. QED
        BY <1>1, <4>1, <4>2 DEF ListedSince
    <3>2. QED
      BY <1>0, <3>1 DEF ActiveReflectsListing
  <2>3. QED
    BY <1>0, <1>1, <2>1, <2>2 DEF ActiveReflectsListing
<1>2. CASE ~(vms'[a] = vms[a] /\ lastOk'[a] = lastOk[a])
  <2>1. PICK p \in Procs : CommitRun(p)
    BY <1>2, TableSteps
  <2>2. /\ run[p] \in 1..nruns /\ run[p] \in Nat /\ nruns \in Nat
        /\ Cur(p) \in Accounts
    BY <1>0, <2>1, CurrentRun, MaxRunsAssumption DEF CommitRun, InRun, TypeOK
  <2>3. lastOk' = [lastOk EXCEPT ![Cur(p)] = run[p]]
    BY <2>1 DEF CommitRun
  <2>4. a = Cur(p)
    BY <1>0, <1>2, <2>1, <2>2, <2>3, CommitRows DEF TypeOK
  <2>5. /\ lastOk'[a] = run[p] /\ run[p] # 0
        /\ runs'[run[p]].found = listing[p]
    BY <1>0, <2>1, <2>2, <2>3, <2>4, CommitEffect DEF TypeOK
  <2>6. IF i \in listing[p] THEN vms'[a][i].seen >= run[p]
        ELSE vms'[a][i].status = "active" /\ listing[p] # {} => vms'[a][i].seen >= run[p]
    BY <1>0, <2>1, <2>2, <2>4, CommitRows
  <2>7. ASSUME vms'[a][i].status = "active" PROVE \E r \in Nat : r = run[p] /\ ListedSince(a, i, r)'
    <3>1. CASE i \in listing[p]
      BY <1>0, <2>1, <2>2, <2>4, <3>1, CommitLists
    <3>2. CASE i \notin listing[p] /\ listing[p] = {}
      <4>1. ListedSince(a, i, run[p])
        BY <1>0, <2>1, <2>4, <2>7, <3>2, CommitRows
      <4>2. QED
        BY <1>0, <2>2, <4>1, SinceStays
    <3>3. CASE i \notin listing[p] /\ listing[p] # {}
      <4>1. vms'[a][i] = vms[a][i] /\ vms[a][i].seen >= run[p]
        BY <1>0, <2>1, <2>4, <2>7, <3>3, CommitRows
      <4>2. vms[a][i].seen \in Nat /\ vms[a][i].seen # 0
        BY <1>0, <2>2, <4>1, MaxRunsAssumption DEF TypeOK, VmRow
      <4>3. ListedSince(a, i, vms[a][i].seen)
        BY <4>2 DEF IInv, SeenInv
      <4>4. ListedSince(a, i, run[p])
        BY <1>0, <2>2, <4>1, <4>2, <4>3, SinceEarlier
      <4>5. QED
        BY <1>0, <2>2, <4>4, SinceStays
    <3>4. QED
      BY <3>1, <3>2, <3>3
  <2>8. ListedSince(a, i, lastOk[a])' <=> \E r \in Nat : r = run[p] /\ ListedSince(a, i, r)'
    BY <2>2, <2>5 DEF ListedSince
  <2>9. QED
    BY <2>2, <2>5, <2>6, <2>7, <2>8
<1>3. QED
  BY <1>1, <1>2

-----------------------------------------------------------------------------
(* The theorems *)

LEMMA InitInv == Init => IInv
BY MaxRunsAssumption
   DEF Init, IInv, TypeOK, RunInv, LastOkInv, MarkInv, StampInv, SeenInv,
       ActiveReflectsListing, InRun,
       RunIds, NoResults, Unread, VmRow, NoVm

LEMMA InvStep == IInv /\ [Next]_vars => IInv'
BY TypeStep, RunStep, LastOkStep, MarkStep, StampStep, SeenStep, ActiveStep DEF IInv

LEMMA Invariance == Spec => []IInv
BY InitInv, InvStep, PTL DEF Spec

\* Every variable keeps its type; in particular the rows of the database do.
THEOREM TypeCorrect == Spec => []TypeOK
<1>1. IInv => TypeOK
  BY DEF IInv
<1>2. QED
  BY <1>1, Invariance, PTL

\* The processes' runs are kept apart, however many processes there are: a run row is
\* written once, by the only process that works on it, so the rows of runs that ended
\* and of processes that died stay as they are (create_sync_run, update_sync_run).
THEOREM RunsAreOwned == Spec => RunRowsAreOwned
<1>1. IInv /\ [Next]_vars => OnlyOwnersWrite
  BY OwnersStep DEF IInv
<1>2. QED
  BY <1>1, Invariance, PTL DEF Spec, RunRowsAreOwned

\* Overlapping processes: a VM is active only if the listing committed last has it or
\* that of a run that overlapped, and is at least as fresh as that listing unless the
\* listing is empty (ingest_cloud_vms, upsert_vm, mark_vms_stale).
THEOREM ActiveIsListed == Spec => []ActiveReflectsListing
<1>1. IInv => ActiveReflectsListing
  BY DEF IInv
<1>2. QED
  BY <1>1, Invariance, PTL

-----------------------------------------------------------------------------
(* Action properties *)

\* ... in a run that becomes successful.
LEMMA TableChangesBySuccessStep == IInv /\ [Next]_vars => OnlySuccessChangesVms
<1> SUFFICES ASSUME IInv, [Next]_vars, NEW a \in Accounts, vms'[a] # vms[a]
             PROVE  IsSuccessOn(a)
  BY DEF OnlySuccessChangesVms
<1>1. PICK p \in Procs : CommitRun(p)
  BY TableSteps
<1>2. /\ run[p] \in RunIds
      /\ runs[run[p]].status = "running"
      /\ runs'[run[p]].status = "success"
      /\ runs'[run[p]].account = Cur(p)
      /\ runs'[run[p]].found = listing[p]
  BY <1>1, CommitEffect, CurrentRun DEF IInv, RunIds
<1>3. a = Cur(p)
  BY <1>1, CommitRows DEF IInv
<1>4. ASSUME NEW i \in Ids, vms[a][i].status = "active", vms'[a][i].status = "offline"
      PROVE  /\ i \notin listing[p]
             /\ listing[p] # {} => vms[a][i].seen < run[p]
  BY <1>1, <1>3, <1>4, CommitRows DEF IInv
<1>5. QED
  BY <1>2, <1>3, <1>4 DEF IsSuccessOn

\* VM rows change only in the commit of a successful run on their account, and go
\* offline only if its listing lacks them (ingest_cloud_vms, mark_vms_stale).
THEOREM TableChangesBySuccess == Spec => VmsChangeOnlyBySuccess
<1>1. IInv /\ [Next]_vars => OnlySuccessChangesVms
  BY TableChangesBySuccessStep
<1>2. QED
  BY <1>1, Invariance, PTL DEF Spec, VmsChangeOnlyBySuccess

\* A row that goes offline misses in the listing of a run that has just succeeded.
LEMMA OfflineStep ==
    IInv /\ VmsOfEveryListingStayActive /\ [Next]_vars => VmsOfEveryListingStayActive'
<1> SUFFICES ASSUME IInv, VmsOfEveryListingStayActive, [Next]_vars,
                    NEW a \in Accounts, NEW i \in Ids,
                    vms'[a][i].status = "offline"
             PROVE  \E r \in RunIds : /\ runs'[r].status = "success"
                                      /\ runs'[r].account = a
                                      /\ i \notin runs'[r].found
  BY DEF VmsOfEveryListingStayActive, RunIds
<1>1. CASE vms[a][i].status = "offline"
  <2>1. PICK r \in RunIds : /\ runs[r].status = "success"
                            /\ runs[r].account = a
                            /\ i \notin runs[r].found
    BY <1>1 DEF VmsOfEveryListingStayActive
  <2>2. runs'[r] = runs[r]
    BY <2>1, FinishedStay DEF IInv
  <2>3. QED
    BY <2>1, <2>2
<1>2. CASE vms[a][i].status # "offline"
  <2>1. PICK p \in Procs : CommitRun(p)
    BY <1>2, TableSteps
  <2>2. a = Cur(p) /\ i \notin listing[p]
    BY <1>2, <2>1, CommitRows DEF IInv
  <2>3. /\ run[p] \in RunIds
        /\ runs'[run[p]].status = "success"
        /\ runs'[run[p]].account = Cur(p)
        /\ runs'[run[p]].found = listing[p]
    BY <2>1, CommitEffect, CurrentRun DEF IInv, RunIds
  <2>4. QED
    BY <2>2, <2>3
<1>3. QED
  BY <1>1, <1>2

\* A VM that every committed listing of its account contains is never offline, however
\* many processes overlap and whatever fails (upsert_vm, mark_vms_stale).
THEOREM ListedVmsStay == Spec => []VmsOfEveryListingStayActive
<1>1. Init => VmsOfEveryListingStayActive
  BY DEF Init, VmsOfEveryListingStayActive, NoVm
<1>2. QED
  BY <1>1, OfflineStep, Invariance, PTL DEF Spec

-----------------------------------------------------------------------------
(* Cycles: what they leave behind and which accounts they touch *)

\* A provider without an outcome is still to come; only a session that is writing
\* holds the lock or has rows that are not committed.
CleanInv ==
    \A p \in Procs :
        /\ \A a \in Accounts : results[p][a] = "pending" =>
              a \in todo[p] /\ (InRun(p) \/ pc[p] = "accounts")
        /\ pc[p] \notin {"write", "mark"} => writer # p /\ pend[p] = {}

LEMMA CleanStep == TypeOK /\ RunInv /\ CleanInv /\ [Next]_vars => CleanInv'
<1> SUFFICES ASSUME TypeOK, RunInv, CleanInv, [Next]_vars PROVE CleanInv'
  OBVIOUS
<1> USE NoProcAssumption DEF TypeOK, CleanInv, InRun, NoResults
<1>1. ASSUME NEW a \in Accounts, CloudChanges(a) PROVE CleanInv'
  BY <1>1 DEF CloudChanges
<1>2. ASSUME NEW p \in Procs, Start(p) PROVE CleanInv'
  BY <1>2 DEF Start
<1>3. ASSUME NEW p \in Procs, Crash(p) PROVE CleanInv'
  BY <1>3 DEF Crash, Released
<1>4. ASSUME NEW p \in Procs, SyncConfig(p) PROVE CleanInv'
  BY <1>4 DEF SyncConfig, ConfiguredAccounts
<1>5. ASSUME NEW p \in Procs, SyncConfigLocked(p) PROVE CleanInv'
  BY <1>5 DEF SyncConfigLocked
<1>6. ASSUME NEW p \in Procs, SkipConfig(p) PROVE CleanInv'
  BY <1>6 DEF SkipConfig
<1>7. ASSUME NEW p \in Procs, BuildProviders(p) PROVE CleanInv'
  BY <1>7 DEF BuildProviders, Eligible
<1>8. ASSUME NEW p \in Procs, EndCycle(p) PROVE CleanInv'
  BY <1>8 DEF EndCycle
<1>9. ASSUME NEW p \in Procs, NEW a \in Accounts, StartRun(p, a) PROVE CleanInv'
  BY <1>9 DEF StartRun
<1>10. ASSUME NEW p \in Procs, NEW a \in Accounts, StartRunLocked(p, a) PROVE CleanInv'
  BY <1>10 DEF StartRunLocked
<1>11. ASSUME NEW p \in Procs, Fetch(p) PROVE CleanInv'
  BY <1>11 DEF Fetch
<1>12. ASSUME NEW p \in Procs, FetchFails(p) PROVE CleanInv'
  BY <1>12 DEF FetchFails
<1>13. ASSUME NEW p \in Procs, NEW i \in Ids, UpsertVm(p, i) PROVE CleanInv'
  BY <1>13 DEF UpsertVm
<1>14. ASSUME NEW p \in Procs, WriteFails(p) PROVE CleanInv'
  BY <1>14 DEF WriteFails, Released
<1>15. ASSUME NEW p \in Procs, CommitRun(p) PROVE CleanInv'
  BY <1>15 DEF CommitRun, Outcome
<1>16. ASSUME NEW p \in Procs, RecordFailure(p) PROVE CleanInv'
  BY <1>16 DEF RecordFailure, Outcome
<1>17. ASSUME NEW p \in Procs, RecordFailureLocked(p) PROVE CleanInv'
  BY <1>17 DEF RecordFailureLocked, Outcome
<1>18. ASSUME NEW p \in Procs, NEW i \in Ids, LoadVm(p, i) PROVE CleanInv'
  BY <1>18 DEF LoadVm
<1>19. ASSUME NEW p \in Procs, LoadStale(p) PROVE CleanInv'
  BY <1>19 DEF LoadStale
<1>20. CASE UNCHANGED vars
  BY <1>20 DEF vars
<1>21. QED
  BY <1>1, <1>2, <1>3, <1>4, <1>5, <1>6, <1>7, <1>8, <1>9, <1>10, <1>11, <1>12,
     <1>13, <1>14, <1>15, <1>16, <1>17, <1>18, <1>19, <1>20 DEF Next, Step, Cycle, Run

LEMMA CleanInit == Init => CleanInv
BY NoProcAssumption DEF Init, CleanInv, NoResults

\* A provider that fails does not stop the others, and between cycles nothing is
\* pending, locked or left to commit (ingest_all: "Provider failures are isolated").
THEOREM CyclesAreClean == Spec => []FailuresAreIsolated
<1>1. CleanInv => FailuresAreIsolated
  BY DEF CleanInv, FailuresAreIsolated, InRun
<1>2. IInv => TypeOK /\ RunInv
  BY DEF IInv
<1>3. QED
  BY <1>1, <1>2, CleanInit, CleanStep, Invariance, PTL DEF Spec

-----------------------------------------------------------------------------
(* One process *)

\* Between sync_config_to_db and the choice of the providers the active accounts are
\* those of the configuration.
ConfInv ==
    \A p \in Procs :
        /\ pc[p] \in {"off", "idle", "build"} => todo[p] = {}
        /\ conf[p].mode = "file" =>
              /\ todo[p] \subseteq conf[p].accounts
              /\ pc[p] = "build" =>
                    \A a \in Accounts : acct[a] = "active" => a \in conf[p].accounts

LEMMA ConfStep ==
    ASSUME \A p, q \in Procs : p = q
    PROVE  TypeOK /\ ConfInv /\ [Next]_vars => ConfInv'
<1> SUFFICES ASSUME TypeOK, ConfInv, [Next]_vars PROVE ConfInv'
  OBVIOUS
<1> USE DEF TypeOK, ConfInv
<1>1. ASSUME NEW a \in Accounts, CloudChanges(a) PROVE ConfInv'
  BY <1>1 DEF CloudChanges
<1>2. ASSUME NEW p \in Procs, Start(p) PROVE ConfInv'
  BY <1>2 DEF Start
<1>3. ASSUME NEW p \in Procs, Crash(p) PROVE ConfInv'
  BY <1>3 DEF Crash, Released
<1>4. ASSUME NEW p \in Procs, SyncConfig(p) PROVE ConfInv'
  BY <1>4 DEF SyncConfig, ConfiguredAccounts
<1>5. ASSUME NEW p \in Procs, SyncConfigLocked(p) PROVE ConfInv'
  BY <1>5 DEF SyncConfigLocked
<1>6. ASSUME NEW p \in Procs, SkipConfig(p) PROVE ConfInv'
  BY <1>6 DEF SkipConfig
<1>7. ASSUME NEW p \in Procs, BuildProviders(p) PROVE ConfInv'
  BY <1>7 DEF BuildProviders, Eligible
<1>8. ASSUME NEW p \in Procs, EndCycle(p) PROVE ConfInv'
  BY <1>8 DEF EndCycle
<1>9. ASSUME NEW p \in Procs, NEW a \in Accounts, StartRun(p, a) PROVE ConfInv'
  BY <1>9 DEF StartRun
<1>10. ASSUME NEW p \in Procs, NEW a \in Accounts, StartRunLocked(p, a) PROVE ConfInv'
  BY <1>10 DEF StartRunLocked
<1>11. ASSUME NEW p \in Procs, Fetch(p) PROVE ConfInv'
  BY <1>11 DEF Fetch
<1>12. ASSUME NEW p \in Procs, FetchFails(p) PROVE ConfInv'
  BY <1>12 DEF FetchFails
<1>13. ASSUME NEW p \in Procs, NEW i \in Ids, UpsertVm(p, i) PROVE ConfInv'
  BY <1>13 DEF UpsertVm
<1>14. ASSUME NEW p \in Procs, WriteFails(p) PROVE ConfInv'
  BY <1>14 DEF WriteFails, Released
<1>15. ASSUME NEW p \in Procs, CommitRun(p) PROVE ConfInv'
  BY <1>15 DEF CommitRun, Outcome
<1>16. ASSUME NEW p \in Procs, RecordFailure(p) PROVE ConfInv'
  BY <1>16 DEF RecordFailure, Outcome
<1>17. ASSUME NEW p \in Procs, RecordFailureLocked(p) PROVE ConfInv'
  BY <1>17 DEF RecordFailureLocked, Outcome
<1>18. ASSUME NEW p \in Procs, NEW i \in Ids, LoadVm(p, i) PROVE ConfInv'
  BY <1>18 DEF LoadVm
<1>19. ASSUME NEW p \in Procs, LoadStale(p) PROVE ConfInv'
  BY <1>19 DEF LoadStale
<1>20. CASE UNCHANGED vars
  BY <1>20 DEF vars
<1>21. QED
  BY <1>1, <1>2, <1>3, <1>4, <1>5, <1>6, <1>7, <1>8, <1>9, <1>10, <1>11, <1>12,
     <1>13, <1>14, <1>15, <1>16, <1>17, <1>18, <1>19, <1>20 DEF Next, Step, Cycle, Run

\* When a single process ingests it never ingests an account that its configuration
\* file does not list (sync_config_to_db, _build_providers_for_ingestion).
THEOREM OnlyConfigured ==
    ASSUME \A p, q \in Procs : p = q
    PROVE  Spec => []OnlyConfiguredAccounts
<1>1. Init => ConfInv
  BY DEF Init, ConfInv
<1>2. ConfInv => OnlyConfiguredAccounts
  BY DEF ConfInv, OnlyConfiguredAccounts
<1>3. TypeOK /\ ConfInv /\ [Next]_vars => ConfInv'
  BY ConfStep
<1>4. QED
  BY <1>1, <1>2, <1>3, TypeCorrect, PTL DEF Spec

-----------------------------------------------------------------------------
(* Ingest implements Inventory: whatever its sessions, locks and failures  *)
(* do, an account's inventory changes only by taking over a listing.       *)
(*                                                                         *)
(* Only a commit changes the table.  That it takes over the listing rests  *)
(* on what the session read earlier, without the lock, still being true:   *)
(* a row read as active still exists (ReadInv), and, while no other        *)
(* process ingests, is still active and was seen before the run began      *)
(* (AloneInv).  With that the active VMs are exactly those of the listing. *)

\* There is one process at most ...
Solo == \A p, q \in Procs : p = q

\* ... or one at most that has not ended.
Alone == \A p, q \in Procs : pc[p] # "off" /\ pc[q] # "off" => p = q

ReadInv ==
    /\ \A a \in Accounts, i \in Ids : vms[a][i].seen <= nruns
    /\ \A r \in RunIds : runs[r].status = "success" => runs[r].ended <= nruns
    /\ \A p \in Procs : pc[p] \notin {"write", "mark"} => loaded[p] = Unread
    /\ \A p \in Procs : InRun(p) =>
          \A i \in Ids : loaded[p][i] = "active" => vms[Cur(p)][i].status # "absent"

\* Holds as long as no two processes have ever ingested at once.
AloneInv ==
    \A p \in Procs : InRun(p) =>
        /\ run[p] = nruns
        /\ \A a \in Accounts, i \in Ids : vms[a][i].seen < run[p]
        /\ \A r \in RunIds : runs[r].status = "success" => runs[r].ended < run[p]
        /\ \A i \in Ids : loaded[p][i] = "active" => vms[Cur(p)][i].status = "active"

-----------------------------------------------------------------------------
(* The rows of a commit *)

\* What a commit makes of the row of i.
NewRow(p, i) ==
    IF pc[p] = "mark" THEN MarkedLoaded(vms[Cur(p)][i], loaded[p][i])
    ELSE MarkedStale(Upserted(vms[Cur(p)][i], i \in listing[p], loaded[p][i], stamp[p]),
                     run[p])

LEMMA CommitTable ==
    ASSUME TypeOK, RunInv, NEW p \in Procs, CommitRun(p)
    PROVE  /\ InRun(p) /\ pc[p] \in {"write", "mark"}
           /\ Cur(p) \in Accounts
           /\ run[p] \in Nat /\ run[p] \in 0..nruns
           /\ vms' = [vms EXCEPT ![Cur(p)] = [i \in Ids |-> NewRow(p, i)]]
<1>1. InRun(p) /\ pc[p] \in {"write", "mark"}
  BY DEF CommitRun, InRun
<1>2. Cur(p) \in Accounts /\ run[p] \in Nat /\ run[p] \in 0..nruns
  BY <1>1, CurrentRun, MaxRunsAssumption DEF TypeOK
<1>3. pc[p] # "mark" => pend[p] = listing[p]
  BY DEF CommitRun
<1>4. vms' = [vms EXCEPT ![Cur(p)] =
                [i \in Ids |->
                    IF pc[p] = "mark" THEN MarkedLoaded(vms[Cur(p)][i], loaded[p][i])
                    ELSE MarkedStale(Upserted(vms[Cur(p)][i], i \in pend[p],
                                              loaded[p][i], stamp[p]), run[p])]]
  BY <1>2 DEF CommitRun, CommittedVms, Cur, TypeOK
<1>5. QED
  BY <1>1, <1>2, <1>3, <1>4 DEF NewRow

\* A row that exists is kept, and one that does not exist is never created offline.
LEMMA RowsAreKept ==
    ASSUME TypeOK, RunInv, StampInv, ReadInv, NEW p \in Procs, CommitRun(p), NEW i \in Ids
    PROVE  LET old == vms[Cur(p)][i]
               new == NewRow(p, i)
           IN  /\ new \in VmRow
               /\ new.seen <= nruns
               /\ new.status = "absent" => old.status = "absent"
               /\ old.status = "absent" => new.status # "offline"
<1> DEFINE old == vms[Cur(p)][i]
<1>1. /\ InRun(p) /\ Cur(p) \in Accounts
      /\ run[p] \in Nat /\ run[p] \in 0..nruns
  BY CommitTable
<1>2. /\ old \in VmRow
      /\ old.seen <= nruns
      /\ loaded[p][i] = "active" => old.status # "absent"
  BY <1>1 DEF TypeOK, ReadInv
<1>3. nruns \in 0..MaxRuns /\ nruns \in Nat
  BY MaxRunsAssumption DEF TypeOK
<1> HIDE DEF old
<1>4. CASE pc[p] = "mark"
  <2>1. NewRow(p, i) = MarkedLoaded(old, loaded[p][i])
    BY <1>4 DEF NewRow, old
  <2>2. QED
    BY <1>2, <2>1 DEF MarkedLoaded, VmRow, old
<1>5. CASE pc[p] # "mark" /\ i \in listing[p]
  <2>1. /\ NewRow(p, i) = MarkedStale(Written(old, loaded[p][i], stamp[p]), run[p])
        /\ loaded[p][i] = "unread" \/ stamp[p] \in run[p]..nruns
    BY <1>5 DEF NewRow, Upserted, Written, old, StampInv
  <2>2. /\ NewRow(p, i) \in VmRow
        /\ NewRow(p, i).seen \in run[p]..nruns
        /\ NewRow(p, i).status = IF loaded[p][i] = "active" THEN old.status ELSE "active"
    BY <1>1, <1>2, <2>1, SeenRow
  <2>3. QED
    BY <1>1, <1>2, <1>3, <2>2 DEF VmRow, old
<1>6. CASE pc[p] # "mark" /\ i \notin listing[p]
  <2>1. NewRow(p, i) = MarkedStale(old, run[p])
    BY <1>6 DEF NewRow, Upserted, old
  <2>2. QED
    BY <1>1, <1>2, <2>1 DEF MarkedStale, VmRow, old
<1>7. QED
  BY <1>4, <1>5, <1>6

\* Of a process that is alone, a commit takes over exactly its listing.
LEMMA RowsFollowListing ==
    ASSUME IInv, AloneInv,
           NEW p \in Procs, CommitRun(p), NEW i \in Ids
    PROVE  NewRow(p, i).status = IF i \in listing[p] THEN "active"
                                 ELSE IF vms[Cur(p)][i].status = "absent" THEN "absent"
                                 ELSE "offline"
<1> DEFINE old == vms[Cur(p)][i]
<1>0. TypeOK /\ RunInv /\ MarkInv /\ StampInv /\ SeenInv
  BY DEF IInv
<1>1. /\ InRun(p) /\ Cur(p) \in Accounts
      /\ run[p] \in Nat /\ run[p] \in 0..nruns
  BY <1>0, CommitTable
<1>2. /\ old \in VmRow
      /\ old.seen < run[p]
      /\ loaded[p][i] = "active" => old.status = "active"
  BY <1>1 DEF IInv, TypeOK, AloneInv
<1>3. old.seen \in Nat
  BY <1>2, MaxRunsAssumption DEF VmRow
<1> HIDE DEF old
<1>4. CASE pc[p] = "mark"
  <2>1. NewRow(p, i) = MarkedLoaded(old, loaded[p][i])
    BY <1>4 DEF NewRow, old
  <2>2. ~ListedSince(Cur(p), i, run[p])
    <3>1. ASSUME NEW r \in RunIds, runs[r].status = "success", runs[r].ended >= run[p]
          PROVE  FALSE
      <4>1. runs[r].ended < run[p]
        BY <1>1, <3>1 DEF AloneInv
      <4>2. runs[r].ended \in Nat
        <5>1. runs[r] \in RunRow
          BY <1>0, <3>1 DEF TypeOK, NoRun
        <5>2. QED
          BY <5>1, MaxRunsAssumption DEF RunRow
      <4>3. QED
        BY <1>1, <3>1, <4>1, <4>2
    <3>2. QED
      BY <3>1 DEF ListedSince
  <2>3. listing[p] = {} /\ (old.status = "active" => loaded[p][i] = "active")
    BY <1>0, <1>4, <2>2 DEF MarkInv, old
  <2>4. QED
    BY <1>2, <2>1, <2>3 DEF MarkedLoaded, VmRow, old
<1>5. CASE pc[p] # "mark" /\ i \in listing[p]
  <2>1. /\ NewRow(p, i) = MarkedStale(Written(old, loaded[p][i], stamp[p]), run[p])
        /\ loaded[p][i] = "unread" \/ stamp[p] \in run[p]..nruns
    BY <1>0, <1>5 DEF NewRow, Upserted, Written, old, StampInv
  <2>2. NewRow(p, i).status = IF loaded[p][i] = "active" THEN old.status ELSE "active"
    BY <1>0, <1>1, <1>2, <2>1, SeenRow
  <2>3. QED
    BY <1>2, <1>5, <2>2
<1>6. CASE pc[p] # "mark" /\ i \notin listing[p]
  <2>1. NewRow(p, i) = MarkedStale(old, run[p])
    BY <1>6 DEF NewRow, Upserted, old
  <2>2. QED
    BY <1>2, <1>6, <2>1 DEF MarkedStale, VmRow, old
<1>7. QED
  BY <1>4, <1>5, <1>6

-----------------------------------------------------------------------------
(* What was read without the lock *)

\* mark_vms_stale changes only rows that are active.
LEMMA StaleWasActive ==
    ASSUME NEW row \in VmRow, NEW start, MarkedStale(row, start) # row
    PROVE  row.status = "active"
<1>1. row.status # "absent" /\ MarkedStale(row, start) = [row EXCEPT !.status = "offline"]
  BY DEF MarkedStale
<1>2. row.status = "offline" => [row EXCEPT !.status = "offline"] = row
  BY DEF VmRow
<1>3. QED
  BY <1>1, <1>2 DEF VmRow

\* Leaving a run, or dying, leaves nothing that was read.
LEMMA LeavesRun ==
    ASSUME TypeOK, ReadInv, NEW p \in Procs, NEW line \in {"off", "accounts"},
           pc' = [pc EXCEPT ![p] = line],
           run' = [run EXCEPT ![p] = 0],
           UNCHANGED <<vms, nruns, runs>>,
           \A q \in Procs \ {p} : loaded'[q] = loaded[q],
           loaded'[p] = Unread
    PROVE  ReadInv'
<1>1. ~InRun(p)' /\ pc'[p] \notin {"write", "mark"}
  BY DEF TypeOK, InRun
<1>2. \A q \in Procs \ {p} : /\ pc'[q] = pc[q] /\ run'[q] = run[q] /\ InRun(q)' = InRun(q)
                             /\ Cur(q)' = Cur(q)
  BY DEF TypeOK, InRun, Cur
<1>3. ASSUME NEW q \in Procs, InRun(q)' PROVE q # p /\ InRun(q)
  BY <1>1, <1>2, <1>3
<1>4. QED
  BY <1>1, <1>2, <1>3 DEF ReadInv

\* A new run row is no success.
LEMMA SuccessesStay ==
    ASSUME TypeOK, RunInv, NEW p \in Procs, NEW a \in Accounts, StartRun(p, a),
           \A r \in RunIds : runs[r].status = "success" => runs[r].ended <= nruns
    PROVE  \A r \in RunIds : runs'[r].status = "success" =>
                                runs'[r].ended <= nruns' /\ runs'[r].ended < nruns'
<1>1. /\ nruns \in Nat /\ nruns' = nruns + 1 /\ nruns + 1 \in RunIds
      /\ runs' = [runs EXCEPT ![nruns + 1] =
                     [status |-> "running", account |-> a, found |-> {}, ended |-> 0]]
  BY MaxRunsAssumption DEF StartRun, TypeOK, RunIds
<1>2. /\ runs'[nruns + 1].status = "running"
      /\ \A r \in RunIds \ {nruns + 1} : runs'[r] = runs[r]
  BY <1>1 DEF TypeOK
<1>3. ASSUME NEW r \in RunIds, runs[r].status = "success" PROVE runs[r].ended \in Nat
  <2>1. runs[r] \in RunRow
    BY <1>3 DEF TypeOK, NoRun
  <2>2. QED
    BY <2>1, MaxRunsAssumption DEF RunRow
<1>4. QED
  BY <1>1, <1>2, <1>3

LEMMA ReadStep == IInv /\ ReadInv /\ [Next]_vars => ReadInv'
<1> SUFFICES ASSUME IInv, ReadInv, [Next]_vars PROVE ReadInv'
  OBVIOUS
<1>0. TypeOK /\ RunInv /\ MarkInv /\ StampInv
  BY DEF IInv
<1> USE <1>0, MaxRunsAssumption, NoProcAssumption
        DEF TypeOK, RunInv, ReadInv, InRun, RunIds, Unread, Cur, VmRow
<1>1. ASSUME NEW a \in Accounts, CloudChanges(a) PROVE ReadInv'
  BY <1>1 DEF CloudChanges
<1>2. ASSUME NEW p \in Procs, Start(p) PROVE ReadInv'
  BY <1>2 DEF Start
<1>3. ASSUME NEW p \in Procs, Crash(p) PROVE ReadInv'
  <2>1. /\ pc' = [pc EXCEPT ![p] = "off"]
        /\ run' = [run EXCEPT ![p] = 0]
        /\ UNCHANGED <<vms, nruns, runs>>
        /\ \A q \in Procs \ {p} : loaded'[q] = loaded[q]
        /\ loaded'[p] = Unread
    BY <1>3 DEF Crash
  <2>2. QED
    BY <2>1, LeavesRun
<1>4. ASSUME NEW p \in Procs, SyncConfig(p) PROVE ReadInv'
  BY <1>4 DEF SyncConfig, ConfiguredAccounts
<1>5. ASSUME NEW p \in Procs, SyncConfigLocked(p) PROVE ReadInv'
  BY <1>5 DEF SyncConfigLocked
<1>6. ASSUME NEW p \in Procs, SkipConfig(p) PROVE ReadInv'
  BY <1>6 DEF SkipConfig
<1>7. ASSUME NEW p \in Procs, BuildProviders(p) PROVE ReadInv'
  BY <1>7 DEF BuildProviders
<1>8. ASSUME NEW p \in Procs, EndCycle(p) PROVE ReadInv'
  BY <1>8 DEF EndCycle
<1>9. ASSUME NEW p \in Procs, NEW a \in Accounts, StartRun(p, a) PROVE ReadInv'
  <2>1. /\ pc[p] = "accounts" /\ loaded' = loaded /\ vms' = vms
        /\ nruns' = nruns + 1 /\ nruns \in Nat
        /\ run' = [run EXCEPT ![p] = nruns + 1]
        /\ pc' = [pc EXCEPT ![p] = "fetch"]
        /\ \A r \in 1..nruns : runs'[r] = runs[r]
    BY <1>9 DEF StartRun
  <2>2. loaded[p] = Unread
    BY <2>1
  <2>3. \A q \in Procs \ {p} : InRun(q)' = InRun(q) /\ run'[q] = run[q]
    BY <2>1
  <2>4. ASSUME NEW q \in Procs \ {p}, InRun(q) PROVE Cur(q)' = Cur(q)
    <3>1. run[q] \in 1..nruns /\ run'[q] = run[q]
      BY <2>3, <2>4
    <3>2. runs'[run'[q]] = runs[run[q]]
      BY <2>1, <3>1
    <3>3. QED
      BY <3>2 DEF Cur
  <2>5. \A q \in Procs : pc'[q] \notin {"write", "mark"} => loaded'[q] = Unread
    BY <2>1, <2>2
  <2>6. \A r \in RunIds : runs'[r].status = "success" => runs'[r].ended <= nruns'
    <3>1. \A r \in RunIds : runs[r].status = "success" => runs[r].ended <= nruns
      OBVIOUS
    <3> HIDE DEF TypeOK, RunInv, ReadInv, RunIds
    <3>2. QED
      BY <1>9, <3>1, SuccessesStay, Zenon
  <2>7. \A b \in Accounts, i \in Ids : vms'[b][i].seen <= nruns'
    BY <2>1
  <2>8. ASSUME NEW q \in Procs, InRun(q)', NEW i \in Ids, loaded'[q][i] = "active"
        PROVE  vms'[Cur(q)'][i].status # "absent"
    <3>1. q # p
      BY <2>1, <2>2, <2>8
    <3>2. InRun(q) /\ Cur(q)' = Cur(q) /\ loaded[q][i] = "active"
      BY <2>1, <2>3, <2>4, <2>8, <3>1
    <3>3. vms[Cur(q)][i].status # "absent"
      BY <3>2
    <3> HIDE DEF Cur, InRun
    <3>4. QED
      BY <2>1, <3>2, <3>3
  <2> HIDE DEF Cur, InRun, TypeOK, RunInv
  <2>9. QED
    BY <2>5, <2>6, <2>7, <2>8
<1>10. ASSUME NEW p \in Procs, NEW a \in Accounts, StartRunLocked(p, a) PROVE ReadInv'
  BY <1>10 DEF StartRunLocked
<1>11. ASSUME NEW p \in Procs, Fetch(p) PROVE ReadInv'
  BY <1>11 DEF Fetch
<1>12. ASSUME NEW p \in Procs, FetchFails(p) PROVE ReadInv'
  BY <1>12 DEF FetchFails
<1>13. ASSUME NEW p \in Procs, NEW i \in Ids, UpsertVm(p, i) PROVE ReadInv'
  BY <1>13 DEF UpsertVm
<1>14. ASSUME NEW p \in Procs, WriteFails(p) PROVE ReadInv'
  BY <1>14 DEF WriteFails
<1>15. ASSUME NEW p \in Procs, CommitRun(p) PROVE ReadInv'
  <2> HIDE DEF VmRow, RunInv
  <2>1. /\ Cur(p) \in Accounts
        /\ vms' = [vms EXCEPT ![Cur(p)] = [i \in Ids |-> NewRow(p, i)]]
        /\ InRun(p)
    BY <1>15, CommitTable
  <2>2. /\ loaded' = [loaded EXCEPT ![p] = Unread]
        /\ nruns' = nruns
        /\ run' = [run EXCEPT ![p] = 0]
        /\ pc' = [pc EXCEPT ![p] = "accounts"]
    BY <1>15 DEF CommitRun, Outcome
  <2>3. \A i \in Ids : /\ NewRow(p, i).seen <= nruns
                       /\ NewRow(p, i).status = "absent" => vms[Cur(p)][i].status = "absent"
    BY <1>15, RowsAreKept
  <2>4. ASSUME NEW q \in Procs \ {p}, InRun(q)
        PROVE  Cur(q)' = Cur(q) /\ Cur(q) \in Accounts
    <3>1. run[q] \in RunIds \ {run[p]}
      BY <2>1, <2>4, CurrentRun DEF RunInv
    <3>2. runs'[run[q]] = runs[run[q]]
      BY <1>15, <3>1, CommitEffect
    <3>3. QED
      BY <2>2, <2>4, <3>2, CurrentRun
  <2>5. \A a \in Accounts, i \in Ids :
           /\ vms'[a][i].seen <= nruns
           /\ vms'[a][i].status = "absent" => vms[a][i].status = "absent"
    BY <2>1, <2>3
  <2>6. \A q \in Procs : pc'[q] \notin {"write", "mark"} => loaded'[q] = Unread
    BY <2>2
  <2>7. ASSUME NEW q \in Procs, InRun(q)'
        PROVE  \A i \in Ids : loaded'[q][i] = "active" =>
                  vms'[Cur(q)'][i].status # "absent"
    <3>1. q # p /\ InRun(q) /\ loaded'[q] = loaded[q]
      BY <2>2, <2>7
    <3>2. Cur(q)' = Cur(q) /\ Cur(q) \in Accounts
      BY <2>4, <3>1
    <3>3. \A i \in Ids : loaded[q][i] = "active" => vms[Cur(q)][i].status # "absent"
      BY <3>1
    <3> HIDE DEF TypeOK, ReadInv, InRun, Cur
    <3>4. \A i \in Ids : loaded[q][i] = "active" => vms'[Cur(q)'][i].status # "absent"
      BY <2>5, <3>2, <3>3
    <3>5. QED
      BY <3>1, <3>2, <3>4
  <2>8. \A r \in RunIds : runs'[r].status = "success" => runs'[r].ended <= nruns'
    <3>1. runs'[run[p]].ended = nruns /\ \A r \in RunIds \ {run[p]} : runs'[r] = runs[r]
      BY <1>15, CommitEffect
    <3>2. nruns \in Nat /\ nruns' = nruns
      BY <2>2
    <3> HIDE DEF TypeOK, InRun, Cur
    <3>3. QED
      BY <3>1, <3>2
  <2> HIDE DEF Cur, InRun, TypeOK
  <2>9. QED
    BY <2>2, <2>5, <2>6, <2>7, <2>8
<1>16. ASSUME NEW p \in Procs, RecordFailure(p) PROVE ReadInv'
  <2>1. /\ InRun(p)
        /\ runs'[run[p]].status = "failed"
        /\ \A r \in RunIds \ {run[p]} : runs'[r] = runs[r]
    BY <1>16, FailureEffect
  <2>2. /\ run' = [run EXCEPT ![p] = 0]
        /\ pc' = [pc EXCEPT ![p] = "accounts"]
        /\ pc[p] = "except"
        /\ UNCHANGED <<vms, nruns, loaded>>
    BY <1>16 DEF RecordFailure, Outcome
  <2>3. \A r \in RunIds : runs'[r].status = "success" => runs'[r].ended <= nruns'
    <3>1. \A r \in RunIds : runs'[r].status = "success" => runs'[r] = runs[r]
      BY <2>1
    <3> HIDE DEF TypeOK, RunInv, InRun, Cur
    <3>2. QED
      BY <2>2, <3>1
  <2>4. ASSUME NEW q \in Procs, InRun(q)' PROVE q # p /\ InRun(q) /\ Cur(q)' = Cur(q)
    <3>1. q # p /\ InRun(q) /\ run'[q] = run[q]
      BY <2>2, <2>4
    <3>2. run[q] \in RunIds \ {run[p]}
      BY <2>1, <3>1
    <3>3. QED
      BY <2>1, <3>1, <3>2
  <2>5. \A q \in Procs : pc'[q] \notin {"write", "mark"} => loaded'[q] = Unread
    BY <2>2
  <2> HIDE DEF Cur, InRun, TypeOK, RunInv
  <2>6. QED
    BY <2>2, <2>3, <2>4, <2>5
<1>17. ASSUME NEW p \in Procs, RecordFailureLocked(p) PROVE ReadInv'
  <2>1. /\ pc[p] = "except"
        /\ run' = [run EXCEPT ![p] = 0]
        /\ pc' = [pc EXCEPT ![p] = "accounts"]
        /\ UNCHANGED <<vms, nruns, runs, loaded>>
    BY <1>17 DEF RecordFailureLocked, Outcome
  <2>2. loaded[p] = Unread
    BY <2>1
  <2>3. QED
    BY <2>1, <2>2, LeavesRun
<1>18. ASSUME NEW p \in Procs, NEW i \in Ids, LoadVm(p, i) PROVE ReadInv'
  <2>1. /\ pc[p] = "write"
        /\ loaded' = [loaded EXCEPT ![p][i] = vms[Cur(p)][i].status]
        /\ UNCHANGED <<vms, nruns, runs, run, pc>>
    BY <1>18 DEF LoadVm
  <2>2. \A q \in Procs, j \in Ids :
           loaded'[q][j] = "active" =>
              loaded[q][j] = "active" \/ (q = p /\ j = i /\ vms[Cur(q)][j].status = "active")
    BY <2>1
  <2>3. \A q \in Procs : InRun(q)' = InRun(q) /\ Cur(q)' = Cur(q) /\ run'[q] = run[q]
    BY <2>1
  <2>4. \A q \in Procs : pc'[q] \notin {"write", "mark"} => loaded'[q] = Unread
    BY <2>1
  <2> HIDE DEF InRun, Cur, TypeOK, RunInv, VmRow, Unread
  <2>5. QED
    BY <2>1, <2>2, <2>3, <2>4
<1>19. ASSUME NEW p \in Procs, LoadStale(p) PROVE ReadInv'
  <2>1. /\ pc[p] = "write"
        /\ pc' = [pc EXCEPT ![p] = "mark"]
        /\ UNCHANGED <<vms, nruns, runs, run>>
        /\ \A q \in Procs \ {p} : loaded'[q] = loaded[q]
    BY <1>19 DEF LoadStale
  <2>2. Cur(p) \in Accounts
    BY <2>1, CurrentRun
  <2>3. ASSUME NEW i \in Ids, loaded'[p][i] = "active"
        PROVE  vms[Cur(p)][i].status = "active"
    <3>1. MarkedStale(vms[Cur(p)][i], run[p]) # vms[Cur(p)][i]
      BY <1>19, <2>3 DEF LoadStale
    <3>2. vms[Cur(p)][i] \in VmRow
      BY <2>2
    <3> HIDE DEF TypeOK, RunInv, ReadInv, InRun, Cur, VmRow
    <3>3. QED
      BY <3>1, <3>2, StaleWasActive
  <2>4. QED
    BY <2>1, <2>3
<1>20. CASE UNCHANGED vars
  BY <1>20 DEF vars
<1>21. QED
  BY <1>1, <1>2, <1>3, <1>4, <1>5, <1>6, <1>7, <1>8, <1>9, <1>10, <1>11, <1>12,
     <1>13, <1>14, <1>15, <1>16, <1>17, <1>18, <1>19, <1>20 DEF Next, Step, Cycle, Run

LEMMA ReadInit == Init => ReadInv /\ AloneInv
<1> SUFFICES ASSUME Init PROVE ReadInv /\ AloneInv
  OBVIOUS
<1>1. \A p \in Procs : ~InRun(p) /\ loaded[p] = Unread
  BY DEF Init, InRun
<1>2. \A a \in Accounts, i \in Ids : vms[a][i].seen <= nruns
  BY DEF Init, NoVm
<1>3. \A r \in RunIds : runs[r].status # "success"
  BY DEF Init, NoRun
<1>4. QED
  BY <1>1, <1>2, <1>3 DEF ReadInv, AloneInv

-----------------------------------------------------------------------------
(* A process that is alone *)

\* Who takes a step is the only process that can be in a run.
LEMMA OthersAreOff ==
    ASSUME Alone, NEW p \in Procs, pc[p] # "off", NEW q \in Procs, InRun(q)
    PROVE  q = p
BY DEF Alone, InRun

\* A step of a process keeps AloneInv if the process reads nothing in it, and neither
\* begins a run nor commits one.
LEMMA AloneStays ==
    ASSUME AloneInv, UNCHANGED <<vms, nruns>>,
           \A q \in Procs : InRun(q)' =>
              /\ InRun(q)
              /\ run'[q] = run[q] /\ runs'[run[q]].account = runs[run[q]].account
              /\ \A i \in Ids : loaded'[q][i] = "active" => loaded[q][i] = "active",
           \A r \in RunIds : runs'[r].status = "success" => runs'[r] = runs[r]
    PROVE  AloneInv'
BY DEF AloneInv, Cur

LEMMA AloneStep == IInv /\ ReadInv /\ Alone /\ AloneInv /\ [Next]_vars => AloneInv'
<1> SUFFICES ASSUME IInv, ReadInv, Alone, AloneInv, [Next]_vars PROVE AloneInv'
  OBVIOUS
<1>0. TypeOK /\ RunInv /\ MarkInv /\ StampInv
  BY DEF IInv
<1> USE <1>0, AloneStays, MaxRunsAssumption, NoProcAssumption
<1>1. ASSUME NEW a \in Accounts, CloudChanges(a) PROVE AloneInv'
  BY <1>1 DEF CloudChanges, InRun
<1>2. ASSUME NEW p \in Procs, Start(p) PROVE AloneInv'
  BY <1>2 DEF Start, InRun, TypeOK
<1>3. ASSUME NEW p \in Procs, Crash(p) PROVE AloneInv'
  BY <1>3 DEF Crash, InRun, TypeOK
<1>4. ASSUME NEW p \in Procs, SyncConfig(p) PROVE AloneInv'
  BY <1>4 DEF SyncConfig, InRun, TypeOK
<1>5. ASSUME NEW p \in Procs, SyncConfigLocked(p) PROVE AloneInv'
  BY <1>5 DEF SyncConfigLocked, InRun
<1>6. ASSUME NEW p \in Procs, SkipConfig(p) PROVE AloneInv'
  BY <1>6 DEF SkipConfig, InRun, TypeOK
<1>7. ASSUME NEW p \in Procs, BuildProviders(p) PROVE AloneInv'
  BY <1>7 DEF BuildProviders, InRun, TypeOK
<1>8. ASSUME NEW p \in Procs, EndCycle(p) PROVE AloneInv'
  BY <1>8 DEF EndCycle, InRun, TypeOK
<1>9. ASSUME NEW p \in Procs, NEW a \in Accounts, StartRun(p, a) PROVE AloneInv'
  <2>1. /\ pc[p] = "accounts" /\ UNCHANGED <<vms, loaded>>
        /\ nruns' = nruns + 1 /\ nruns \in Nat
        /\ run'[p] = nruns + 1
        /\ \A q \in Procs \ {p} : InRun(q)' => InRun(q)
    BY <1>9 DEF StartRun, TypeOK, InRun
  <2>2. \A q \in Procs : InRun(q)' => q = p
    BY <2>1, OthersAreOff
  <2>3. \A i \in Ids : loaded'[p][i] # "active"
    BY <2>1 DEF ReadInv, Unread
  <2>4. \A b \in Accounts, i \in Ids : vms'[b][i].seen < nruns + 1
    BY <2>1 DEF ReadInv, TypeOK, VmRow
  <2>5. \A r \in RunIds : runs'[r].status = "success" => runs'[r].ended < nruns + 1
    BY <1>9, <2>1, SuccessesStay DEF ReadInv
  <2>6. QED
    BY <2>1, <2>2, <2>3, <2>4, <2>5 DEF AloneInv
<1>10. ASSUME NEW p \in Procs, NEW a \in Accounts, StartRunLocked(p, a) PROVE AloneInv'
  BY <1>10 DEF StartRunLocked, InRun
<1>11. ASSUME NEW p \in Procs, Fetch(p) PROVE AloneInv'
  BY <1>11 DEF Fetch, InRun, TypeOK
<1>12. ASSUME NEW p \in Procs, FetchFails(p) PROVE AloneInv'
  BY <1>12 DEF FetchFails, InRun, TypeOK
<1>13. ASSUME NEW p \in Procs, NEW i \in Ids, UpsertVm(p, i) PROVE AloneInv'
  BY <1>13 DEF UpsertVm, InRun
<1>14. ASSUME NEW p \in Procs, WriteFails(p) PROVE AloneInv'
  BY <1>14 DEF WriteFails, InRun, TypeOK, Unread
<1>15. ASSUME NEW p \in Procs, CommitRun(p) \/ RecordFailure(p) \/ RecordFailureLocked(p)
       PROVE  AloneInv'
  <2>1. /\ pc[p] # "off" /\ ~InRun(p)'
        /\ \A q \in Procs \ {p} : InRun(q)' => InRun(q)
    BY <1>15 DEF CommitRun, RecordFailure, RecordFailureLocked, Outcome, InRun, TypeOK
  <2>2. \A q \in Procs : ~InRun(q)'
    BY <2>1, OthersAreOff
  <2>3. QED
    BY <2>2 DEF AloneInv
<1>16. ASSUME NEW p \in Procs, NEW i \in Ids, LoadVm(p, i) PROVE AloneInv'
  <2>1. /\ pc[p] = "write"
        /\ loaded' = [loaded EXCEPT ![p][i] = vms[Cur(p)][i].status]
        /\ UNCHANGED <<vms, nruns, runs, run, pc>>
    BY <1>16 DEF LoadVm
  <2>2. \A q \in Procs, j \in Ids :
           loaded'[q][j] = "active" =>
              loaded[q][j] = "active" \/ (q = p /\ j = i /\ vms[Cur(q)][j].status = "active")
    BY <2>1 DEF TypeOK
  <2>3. \A q \in Procs : InRun(q)' = InRun(q) /\ Cur(q)' = Cur(q) /\ run'[q] = run[q]
    BY <2>1 DEF InRun, Cur
  <2>4. QED
    BY <2>1, <2>2, <2>3 DEF AloneInv
<1>17. ASSUME NEW p \in Procs, LoadStale(p) PROVE AloneInv'
  <2>1. /\ pc[p] = "write" /\ InRun(p)
        /\ UNCHANGED <<vms, nruns, runs, run>>
        /\ \A q \in Procs : InRun(q)' = InRun(q) /\ Cur(q)' = Cur(q)
    BY <1>17 DEF LoadStale, InRun, Cur, TypeOK
  <2>2. ASSUME NEW i \in Ids, loaded'[p][i] = "active"
        PROVE  vms[Cur(p)][i].status = "active"
    <3>1. MarkedStale(vms[Cur(p)][i], run[p]) # vms[Cur(p)][i]
      BY <1>17, <2>2 DEF LoadStale, TypeOK
    <3>2. vms[Cur(p)][i] \in VmRow
      BY <2>1, CurrentRun DEF TypeOK
    <3>3. QED
      BY <3>1, <3>2, StaleWasActive
  <2>3. \A q \in Procs : InRun(q) => q = p
    BY <2>1, OthersAreOff
  <2>4. QED
    BY <2>1, <2>2, <2>3 DEF AloneInv
<1>18. CASE UNCHANGED vars
  BY <1>18 DEF vars, InRun
<1>19. QED
  BY <1>1, <1>2, <1>3, <1>4, <1>5, <1>6, <1>7, <1>8, <1>9, <1>10, <1>11, <1>12,
     <1>13, <1>14, <1>15, <1>16, <1>17, <1>18 DEF Next, Step, Cycle, Run

\* The listing committed last stays the one that is shown: only a commit changes the
\* table or the run that is the last.
LEMMA ExactStep ==
    IInv /\ AloneInv /\ ExactInventory /\ [Next]_vars => ExactInventory'
<1> SUFFICES ASSUME IInv, AloneInv, ExactInventory, [Next]_vars,
                    NEW a \in Accounts, lastOk'[a] # 0
             PROVE  {i \in Ids : vms'[a][i].status = "active"} = runs'[lastOk'[a]].found
  BY DEF ExactInventory
<1>0. TypeOK /\ RunInv /\ MarkInv /\ LastOkInv
  BY DEF IInv
<1>1. CASE UNCHANGED <<vms, lastOk>>
  <2>1. lastOk[a] \in RunIds /\ runs[lastOk[a]].status = "success"
    BY <1>0, <1>1, MaxRunsAssumption DEF LastOkInv, TypeOK, RunIds
  <2>2. runs'[lastOk[a]] = runs[lastOk[a]]
    BY <2>1, <1>0, FinishedStay
  <2>3. QED
    BY <1>1, <2>2 DEF ExactInventory
<1>2. ASSUME NEW p \in Procs, CommitRun(p)
      PROVE  {i \in Ids : vms'[a][i].status = "active"} = runs'[lastOk'[a]].found
  <2>1. /\ Cur(p) \in Accounts
        /\ vms' = [vms EXCEPT ![Cur(p)] = [i \in Ids |-> NewRow(p, i)]]
        /\ lastOk' = [lastOk EXCEPT ![Cur(p)] = run[p]]
    BY <1>0, <1>2, CommitTable DEF CommitRun
  <2>2. CASE a = Cur(p)
    <3>1. /\ lastOk'[a] = run[p]
          /\ \A i \in Ids : vms'[a][i] = NewRow(p, i)
      BY <1>0, <2>1, <2>2 DEF TypeOK
    <3>2. \A i \in Ids : NewRow(p, i).status = "active" <=> i \in listing[p]
      BY <1>0, <1>2, RowsFollowListing
    <3>3. runs'[run[p]].found = listing[p] /\ listing[p] \subseteq Ids
      BY <1>0, <1>2, CommitEffect DEF TypeOK
    <3>4. QED
      BY <3>1, <3>2, <3>3
  <2>3. CASE a # Cur(p)
    <3>1. vms'[a] = vms[a] /\ lastOk'[a] = lastOk[a]
      BY <1>0, <2>1, <2>3 DEF TypeOK
    <3>2. lastOk[a] \in RunIds /\ runs[lastOk[a]].status = "success"
      BY <1>0, <3>1, MaxRunsAssumption DEF LastOkInv, TypeOK, RunIds
    <3>3. runs'[lastOk[a]] = runs[lastOk[a]]
      BY <3>2, <1>0, FinishedStay
    <3>4. QED
      BY <3>1, <3>3 DEF ExactInventory
  <2>4. QED
    BY <2>2, <2>3
<1>3. QED
  BY <1>1, <1>2, TableSteps

\* Listings are taken over in the order of their runs: the run of a process that is
\* alone is the newest.
LEMMA OrderStep ==
    IInv /\ AloneInv /\ [Next]_vars => \A a \in Accounts : lastOk'[a] >= lastOk[a]
<1> SUFFICES ASSUME IInv, AloneInv, [Next]_vars, NEW a \in Accounts
             PROVE  lastOk'[a] >= lastOk[a]
  OBVIOUS
<1>0. TypeOK /\ RunInv /\ LastOkInv
  BY DEF IInv
<1>1. lastOk[a] \in Nat /\ nruns \in Nat /\ lastOk[a] <= nruns
  BY <1>0, MaxRunsAssumption DEF TypeOK, LastOkInv
<1>2. ASSUME NEW p \in Procs, CommitRun(p) PROVE lastOk'[a] >= lastOk[a]
  <2>1. lastOk' = [lastOk EXCEPT ![Cur(p)] = run[p]] /\ InRun(p)
    BY <1>0, <1>2, CommitTable DEF CommitRun
  <2>2. run[p] = nruns
    BY <2>1 DEF AloneInv
  <2>3. QED
    BY <1>0, <1>1, <2>1, <2>2 DEF TypeOK
<1>3. QED
  BY <1>1, <1>2, TableSteps

\* Every row that says "running" is that of a process in a run.
RunningInv ==
    \A r \in RunIds : runs[r].status = "running" => \E p \in Procs : InRun(p) /\ run[p] = r

\* Processes that are alone find the database free, so they close their rows, unless
\* they die in a run.
LEMMA RunningStep ==
    ASSUME IInv, CleanInv, Alone, RunningInv, [Next]_vars,
           \A p \in Procs : InRun(p) => pc'[p] # "off"
    PROVE  RunningInv'
<1>0. TypeOK /\ RunInv
  BY DEF IInv
<1>1. ASSUME runs' = runs, \A p \in Procs : InRun(p) => InRun(p)' /\ run'[p] = run[p]
      PROVE  RunningInv'
  BY <1>1 DEF RunningInv
<1> USE <1>0, <1>1 DEF TypeOK, InRun
<1>2. ASSUME NEW a \in Accounts, CloudChanges(a) PROVE RunningInv'
  BY <1>2 DEF CloudChanges
<1>3. ASSUME NEW p \in Procs, Start(p) PROVE RunningInv'
  BY <1>3 DEF Start
<1>4. ASSUME NEW p \in Procs, Crash(p) PROVE RunningInv'
  <2>1. ~InRun(p)
    BY <1>4 DEF Crash
  <2>2. QED
    BY <1>4, <2>1 DEF Crash
<1>5. ASSUME NEW p \in Procs, Cycle(p) PROVE RunningInv'
  BY <1>5 DEF Cycle, SyncConfig, SyncConfigLocked, SkipConfig, BuildProviders, EndCycle
<1>6. ASSUME NEW p \in Procs, NEW a \in Accounts, StartRun(p, a) PROVE RunningInv'
  <2>1. /\ \A r \in RunIds \ {nruns + 1} : runs'[r] = runs[r]
        /\ run'[p] = nruns + 1 /\ InRun(p)'
        /\ \A q \in Procs : InRun(q) => InRun(q)' /\ run'[q] = run[q]
    BY <1>6 DEF StartRun
  <2> HIDE DEF InRun, TypeOK
  <2>2. QED
    BY <2>1 DEF RunningInv
<1>7. ASSUME NEW p \in Procs, NEW a \in Accounts, StartRunLocked(p, a) PROVE RunningInv'
  BY <1>7 DEF StartRunLocked
<1>8. ASSUME NEW p \in Procs, Fetch(p) \/ FetchFails(p) PROVE RunningInv'
  BY <1>8 DEF Fetch, FetchFails
<1>9. ASSUME NEW p \in Procs, NEW i \in Ids, LoadVm(p, i) \/ UpsertVm(p, i) PROVE RunningInv'
  BY <1>9 DEF LoadVm, UpsertVm
<1>10. ASSUME NEW p \in Procs, LoadStale(p) \/ WriteFails(p) PROVE RunningInv'
  BY <1>10 DEF LoadStale, WriteFails
<1>11. ASSUME NEW p \in Procs, CommitRun(p) \/ RecordFailure(p) PROVE RunningInv'
  <2>1. /\ InRun(p) /\ runs'[run[p]].status # "running"
        /\ \A r \in RunIds \ {run[p]} : runs'[r] = runs[r]
    BY <1>11, CommitEffect, FailureEffect
  <2>2. \A q \in Procs \ {p} : InRun(q) => InRun(q)' /\ run'[q] = run[q]
    BY <1>11 DEF CommitRun, RecordFailure, Outcome
  <2> HIDE DEF InRun, TypeOK
  <2>3. QED
    BY <2>1, <2>2 DEF RunningInv
<1>12. ASSUME NEW p \in Procs, RecordFailureLocked(p) PROVE RunningInv'
  <2>1. pc[p] = "except" /\ ~CanWrite(p)
    BY <1>12 DEF RecordFailureLocked
  <2>2. writer \in Procs \ {p} /\ pc[writer] \in {"write", "mark"}
    BY <2>1 DEF CanWrite, CleanInv
  <2>3. QED
    BY <2>1, <2>2, OthersAreOff
<1>13. CASE UNCHANGED vars
  BY <1>13 DEF vars
<1>14. QED
  BY <1>2, <1>3, <1>4, <1>5, <1>6, <1>7, <1>8, <1>9, <1>10, <1>11, <1>12, <1>13
     DEF Next, Step, Run

\* When a single process ingests, crashes and failures included, the active VMs are
\* exactly those of the listing committed last, and listings are committed in the
\* order of their runs (ingest_cloud_vms, mark_vms_stale).
THEOREM SoloIsExact ==
    ASSUME Solo
    PROVE  Spec => []ExactInventory /\ ListingsInOrder
<1>1. Init => ExactInventory
  BY DEF Init, ExactInventory
<1>2. Alone
  BY DEF Solo, Alone
<1>3. IInv /\ ReadInv /\ AloneInv /\ [Next]_vars => AloneInv'
  BY <1>2, AloneStep
<1>4. QED
  BY <1>1, <1>3, ReadInit, ReadStep, ExactStep, OrderStep, InitInv, InvStep, PTL
     DEF Spec, ListingsInOrder

-----------------------------------------------------------------------------
(* The refinement *)

\* A commit is a Refresh of the account of its run: with its listing, or, when
\* processes overlap, with the VMs that are active now.
LEMMA CommitRefreshes ==
    ASSUME IInv, ReadInv, Solo => AloneInv, NEW p \in Procs, CommitRun(p)
    PROVE  Promise!Next
<1> DEFINE c == Cur(p)
           old(i) == vms[c][i].status
           new(i) == NewRow(p, i).status
           Known == IF Solo THEN {} ELSE {i \in Ids : new(i) = old(i)}
           Seen == IF Solo THEN listing[p] ELSE {i \in Ids : new(i) = "active"}
<1>0. TypeOK /\ RunInv /\ MarkInv /\ StampInv
  BY DEF IInv
<1>1. /\ c \in Accounts
      /\ vms' = [vms EXCEPT ![c] = [i \in Ids |-> NewRow(p, i)]]
  BY <1>0, CommitTable
<1>2. ASSUME NEW i \in Ids
      PROVE  new(i) = IF i \in Seen THEN "active"
                      ELSE IF i \in Known THEN old(i)
                      ELSE IF old(i) = "absent" THEN "absent" ELSE "offline"
  <2>1. CASE Solo
    BY <1>0, <2>1, RowsFollowListing
  <2>2. CASE ~Solo
    <3>1. /\ new(i) \in {"absent", "active", "offline"}
          /\ new(i) = "absent" => old(i) = "absent"
          /\ old(i) = "absent" => new(i) # "offline"
      BY <1>0, RowsAreKept DEF VmRow
    <3> HIDE DEF new, old
    <3>2. QED
      BY <2>2, <3>1
  <2>3. QED
    BY <2>1, <2>2
<1>3. /\ Seen \in SUBSET Ids
      /\ Known \in SUBSET (IF \E x, y \in Procs : x # y THEN Ids ELSE {})
  BY <1>0 DEF Solo, TypeOK
<1>4. InventoryOf' = [InventoryOf EXCEPT ![c] = Promise!Refreshed(InventoryOf[c], Seen, Known)]
  <2> DEFINE inventory == [a \in Accounts |->
                 IF a = c THEN [i \in Ids |-> new(i)] ELSE InventoryOf[a]]
  <2> HIDE DEF c, new, Seen, Known
  <2>1. InventoryOf' = inventory
    BY <1>0, <1>1 DEF InventoryOf, TypeOK, new
  <2>2. Promise!Refreshed(InventoryOf[c], Seen, Known) = [i \in Ids |-> new(i)]
    BY <1>1, <1>2 DEF Promise!Refreshed, InventoryOf
  <2>3. QED
    BY <1>1, <2>1, <2>2 DEF InventoryOf
<1> HIDE DEF c, Seen, Known
<1>5. QED
  BY <1>1, <1>3, <1>4 DEF Promise!Next, Promise!Refresh

\* The database keeps its promise, for any number of processes: whatever sessions
\* overlap, fail or die, an account changes only by taking over a listing of its own
\* as a whole, and exactly that listing when a single process ingests
\* (ingest_cloud_vms, mark_vms_stale).
THEOREM PromiseIsKept == Spec => KeepsPromise
<1>1. Init => Promise!Init
  BY DEF Init, Promise!Init, InventoryOf, NoVm
<1>2. IInv /\ ReadInv /\ (Solo => AloneInv) /\ [Next]_vars => [Promise!Next]_InventoryOf
  <2> SUFFICES ASSUME IInv, ReadInv, Solo => AloneInv, [Next]_vars
               PROVE  [Promise!Next]_InventoryOf
    OBVIOUS
  <2>1. CASE UNCHANGED vms
    BY <2>1 DEF InventoryOf
  <2>2. ASSUME NEW p \in Procs, CommitRun(p) PROVE Promise!Next
    BY <2>2, CommitRefreshes
  <2>3. QED
    BY <2>1, <2>2, TableSteps
<1>3. IInv /\ ReadInv /\ (Solo => AloneInv) /\ [Next]_vars => (Solo => AloneInv)'
  BY AloneStep DEF Solo, Alone
<1>4. QED
  BY <1>1, <1>2, <1>3, ReadInit, ReadStep, Invariance, InitInv, PTL
     DEF Spec, KeepsPromise, Promise!Spec
==============================================================================
