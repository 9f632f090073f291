--------------------------- MODULE ComparisonProofs ---------------------------
(***************************************************************************)
(* Proofs about ComparisonPage, for all sets of names, addresses and       *)
(* accounts, all clouds and all NetBoxes.                                  *)
(*                                                                         *)
(* A row that has looked for its missing system and was not claimed has    *)
(* found nothing, and what it might have found stays claimed: Matching is  *)
(* the invariant of the loop.  Fresh says that the input is what the       *)
(* database holds as long as no import has ended.                          *)
(***************************************************************************)
EXTENDS ComparisonPage, TLAPS

Shares(s, m, n) == AddrsIn(input, s, m) \cap AddrsOf(input, n) # {}

\* Rows are in the systems of their name, and one at least.
Named ==
    \A r \in Rows(input) :
        /\ found[r] # {}
        /\ \A s \in Systems \ found[r] : r[1] \notin NamesIn(input, s)

\* The loop invariant of the fallback.
Visited ==
    \A r \in Rows(input) \ left : r[1] \notin Taken =>
        \A s \in Systems \ found[r] : \A m \in NamesIn(input, s) :
            Shares(s, m, r[1]) => m \in Taken

Matching ==
    /\ CompareTypeOK
    /\ left \subseteq Rows(input)
    /\ Named
    /\ Visited
    /\ SystemsAreBacked

\* What became of every name: a row that claimed it has another name, one of its
\* addresses, and by now both systems, and was not claimed in turn.
Claimed ==
    \A m \in Names :
        /\ owner[m] \in Rows(input) \cup {NoRow}
        /\ \A r \in Rows(input) : owner[m] = r =>
              /\ r[1] # m
              /\ found[r] = Systems
              /\ \E s \in Systems : m \in NamesIn(input, s) /\ Shares(s, m, r[1])
              /\ \A q \in Rows(input) : owner[r[1]] = q => q[1] # m

-----------------------------------------------------------------------------
(* Helpers                                                                 *)

LEMMA RowsAreRowIds ==
    ASSUME NEW in \in Inputs
    PROVE  Rows(in) \subseteq RowIds
BY DEF Rows, RowIds, Inputs, CloudNames

LEMMA NoRowIsNoRow == NoRow \notin RowIds
BY DEF NoRow, RowIds

LEMMA NamesOfSystems ==
    ASSUME NEW in \in Inputs, NEW s
    PROVE  NamesIn(in, s) \subseteq Names
BY DEF Inputs, NamesIn, CloudNames

-----------------------------------------------------------------------------
(* The comparison                                                          *)

\* A row is in the clouds by its name just if it stands for a VM of theirs.
LEMMA NamesOfRows ==
    ASSUME NEW in \in Inputs, NEW r \in Rows(in)
    PROVE  /\ r[1] \in Names
           /\ ByName(in, r) # {} /\ ByName(in, r) \subseteq Systems
           /\ \A s \in Systems : s \in ByName(in, r) <=> r[1] \in NamesIn(in, s)
<1>1. CASE r \in in.cloud
  <2>1. r \in Names \X Accounts
    BY <1>1 DEF Inputs
  <2>2. r[2] # NoAccount /\ r[1] \in CloudNames(in)
    BY <1>1, <2>1, NoAccountAssumption DEF CloudNames
  <2> QED
    BY <2>1, <2>2 DEF ByName, NamesIn, Systems
<1>2. CASE r \in (in.netbox \ CloudNames(in)) \X {NoAccount}
  <2>1. r[1] \in in.netbox \ CloudNames(in) /\ r[2] = NoAccount
    BY <1>2
  <2>2. r[1] \in Names
    BY <2>1 DEF Inputs
  <2> QED
    BY <2>1, <2>2 DEF ByName, NamesIn, Systems
<1> QED
  BY <1>1, <1>2 DEF Rows

LEMMA MatchingOfCompare ==
    ASSUME NEW in \in Inputs, Compare(in)
    PROVE  Matching'
<1>1. /\ input' = in /\ left' = Rows(in)
      /\ found' = [r \in RowIds |-> IF r \in Rows(in) THEN ByName(in, r) ELSE {}]
      /\ owner' = [n \in Names |-> NoRow]
  BY DEF Compare
<1>2. \A r \in Rows(in) : r \in RowIds /\ found'[r] = ByName(in, r)
  BY <1>1, RowsAreRowIds
<1>3. CompareTypeOK'
  <2>1. \A r \in RowIds : (IF r \in Rows(in) THEN ByName(in, r) ELSE {}) \subseteq Systems
    BY NamesOfRows
  <2> QED
    BY <1>1, <2>1, RowsAreRowIds DEF CompareTypeOK
<1>4. (left \subseteq Rows(input))' /\ Visited'
  BY <1>1 DEF Visited
<1>5. Named'
  BY <1>1, <1>2, NamesOfRows DEF Named
<1>6. SystemsAreBacked'
  BY <1>1, <1>2, NamesOfRows DEF SystemsAreBacked, Backed, NamesIn
<1> QED
  BY <1>3, <1>4, <1>5, <1>6 DEF Matching

LEMMA MatchingOfVisit ==
    ASSUME Matching, NEW r \in left, Visit(r)
    PROVE  Matching'
<1> DEFINE n == r[1]
           wanted == IF n \in Taken THEN {} ELSE Systems \ found[r]
<1>1. /\ input \in Inputs /\ r \in Rows(input) /\ r \in RowIds /\ n \in Names
      /\ input' = input /\ left' = left \ {r} /\ wanted \subseteq Systems
  BY RowsAreRowIds, NamesOfRows DEF Matching, CompareTypeOK, Visit
<1>2. CASE /\ \A s \in wanted : Claims(s, n) = {}
           /\ UNCHANGED <<found, owner>>
  <2>1. Taken' = Taken
    BY <1>2 DEF Taken
  <2>2. CompareTypeOK' /\ (left \subseteq Rows(input))' /\ Named' /\ SystemsAreBacked'
    BY <1>1, <1>2 DEF Matching, CompareTypeOK, Named, SystemsAreBacked, Backed
  <2>3. ASSUME n \notin Taken, NEW s \in Systems \ found[r], NEW m \in NamesIn(input, s),
               Shares(s, m, n)
        PROVE  m \in Taken
    <3>1. PICK x \in AddrsOf(input, n) : x \in AddrsIn(input, s, m)
      BY <2>3 DEF Shares
    <3>2. SUFFICES ASSUME m \notin Taken PROVE FALSE
      OBVIOUS
    <3>3. m # n
      BY <1>1, <2>3 DEF Matching, Named
    <3>4. m \in Candidates(s, n, x)
      BY <3>1, <3>2, <3>3 DEF Candidates
    <3>5. m \in Claims(s, n)
      BY <3>1, <3>4 DEF Claims
    <3> QED
      BY <1>2, <2>3, <3>5
  <2>4. Visited'
    BY <1>1, <1>2, <2>1, <2>3 DEF Matching, Visited, Shares
  <2> QED
    BY <2>2, <2>4 DEF Matching
<1>3. CASE \E s \in wanted : \E m \in Claims(s, n) :
              /\ found' = [found EXCEPT ![r] = @ \cup {s}]
              /\ owner' = [owner EXCEPT ![m] = r]
  <2>0. PICK s \in wanted : \E m \in Claims(s, n) :
              /\ found' = [found EXCEPT ![r] = @ \cup {s}]
              /\ owner' = [owner EXCEPT ![m] = r]
    BY <1>3
  <2>1. PICK m \in Claims(s, n) :
              /\ found' = [found EXCEPT ![r] = @ \cup {s}]
              /\ owner' = [owner EXCEPT ![m] = r]
    BY <2>0
  <2>2. /\ m \in Names /\ m \in NamesIn(input, s) \ (Taken \cup {n})
        /\ Shares(s, m, n) /\ n \notin Taken /\ s \in Systems \ found[r]
    <3>1. PICK x \in AddrsOf(input, n) : m \in Candidates(s, n, x)
      BY <2>1 DEF Claims
    <3> QED
      BY <2>1, <3>1, NamesOfSystems, <1>1 DEF Candidates, Shares
  <2>3. Taken' = Taken \cup {m}
    BY <1>1, <2>1, <2>2, NoRowIsNoRow DEF Taken, Matching, CompareTypeOK
  <2>4. CompareTypeOK'
    BY <1>1, <2>1, <2>2 DEF Matching, CompareTypeOK
  <2>5. found \in [RowIds -> SUBSET Systems] /\ owner \in [Names -> RowIds \cup {NoRow}]
    BY DEF Matching, CompareTypeOK
  <2>6. \A q \in Rows(input) : q \in RowIds /\ found'[q] = found[q] \cup (IF q = r THEN {s} ELSE {})
    BY <1>1, <2>1, <2>5, RowsAreRowIds
  <2>7. Named'
    BY <1>1, <2>6 DEF Matching, Named
  <2>8. Systems \ found'[r] = {}
    BY <1>1, <2>2, <2>5, <2>6 DEF Matching, Named, Systems
  <2>9. Visited'
    BY <1>1, <2>3, <2>6, <2>8 DEF Matching, Visited, Shares
  <2>10. SystemsAreBacked'
    <3>1. SUFFICES ASSUME NEW q \in Rows(input), NEW t \in found'[q] PROVE Backed(q, t)'
      BY <1>1 DEF SystemsAreBacked
    <3>2. CASE q = r /\ t = s
      BY <1>1, <2>1, <2>2, <2>5, <3>2 DEF Backed, Shares
    <3>3. CASE t \in found[q]
      <4>1. Backed(q, t)
        BY <3>3 DEF Matching, SystemsAreBacked
      <4>2. \A k \in Names : owner[k] = q => owner'[k] = q
        BY <2>1, <2>2, <2>5, <2>6, NoRowIsNoRow DEF Taken
      <4> QED
        BY <1>1, <4>1, <4>2, NamesOfSystems DEF Backed
    <3> QED
      BY <2>6, <3>2, <3>3
  <2> QED
    BY <1>1, <2>4, <2>7, <2>9, <2>10 DEF Matching
<1> QED
  BY <1>2, <1>3 DEF Visit

\* No name is claimed at first.
LEMMA ClaimedOfCompare ==
    ASSUME NEW in \in Inputs, Compare(in)
    PROVE  Claimed'
<1>1. input' = in /\ owner' = [n \in Names |-> NoRow]
  BY DEF Compare
<1>2. \A r \in Rows(in) : r # NoRow
  BY RowsAreRowIds, NoRowIsNoRow
<1> QED
  BY <1>1, <1>2 DEF Claimed

LEMMA ClaimedOfVisit ==
    ASSUME Matching, Claimed, NEW r \in left, Visit(r)
    PROVE  Claimed'
<1> DEFINE n == r[1]
           wanted == IF n \in Taken THEN {} ELSE Systems \ found[r]
<1>1. /\ input \in Inputs /\ r \in Rows(input) /\ r \in RowIds /\ n \in Names
      /\ input' = input /\ wanted \subseteq Systems
      /\ found \in [RowIds -> SUBSET Systems] /\ owner \in [Names -> RowIds \cup {NoRow}]
  BY RowsAreRowIds, NamesOfRows DEF Matching, CompareTypeOK, Visit
<1>2. CASE UNCHANGED <<found, owner>>
  BY <1>1, <1>2 DEF Claimed, Shares
<1>3. CASE \E s \in wanted : \E m \in Claims(s, n) :
              /\ found' = [found EXCEPT ![r] = @ \cup {s}]
              /\ owner' = [owner EXCEPT ![m] = r]
  <2>0. PICK s \in wanted : \E m \in Claims(s, n) :
              /\ found' = [found EXCEPT ![r] = @ \cup {s}]
              /\ owner' = [owner EXCEPT ![m] = r]
    BY <1>3
  <2>1. PICK m \in Claims(s, n) :
              /\ found' = [found EXCEPT ![r] = @ \cup {s}]
              /\ owner' = [owner EXCEPT ![m] = r]
    BY <2>0
  <2>2. /\ m \in Names /\ m \in NamesIn(input, s) \ (Taken \cup {n})
        /\ Shares(s, m, n) /\ n \notin Taken /\ s \in Systems \ found[r]
    <3>1. PICK x \in AddrsOf(input, n) : m \in Candidates(s, n, x)
      BY <2>1 DEF Claims
    <3> QED
      BY <2>1, <3>1, NamesOfSystems, <1>1 DEF Candidates, Shares
  <2>3. /\ owner'[m] = r /\ owner[m] = NoRow /\ owner'[n] = NoRow
        /\ \A k \in Names \ {m} : owner'[k] = owner[k]
    BY <1>1, <2>1, <2>2 DEF Taken
  <2>4. found'[r] = Systems
    <3>1. found'[r] = found[r] \cup {s} /\ found[r] \in SUBSET Systems /\ found[r] # {}
      BY <1>1, <2>1 DEF Matching, Named
    <3> QED
      BY <2>2, <3>1 DEF Systems
  <2>5. \A q \in Rows(input) : q \in RowIds /\ q # NoRow /\ q[1] \in Names
    BY <1>1, RowsAreRowIds, NoRowIsNoRow, NamesOfRows
  <2>6. \A q \in Rows(input) : found[q] = Systems => found'[q] = Systems
    BY <1>1, <2>1, <2>4, <2>5
  <2>7. SUFFICES ASSUME NEW k \in Names
                 PROVE  /\ owner'[k] \in Rows(input) \cup {NoRow}
                        /\ \A q \in Rows(input) : owner'[k] = q =>
                              /\ q[1] # k
                              /\ found'[q] = Systems
                              /\ \E t \in Systems : k \in NamesIn(input, t) /\ Shares(t, k, q[1])
                              /\ \A p \in Rows(input) : owner'[q[1]] = p => p[1] # k
    BY <1>1 DEF Claimed, Shares
  <2>8. CASE k = m
    BY <1>1, <2>2, <2>3, <2>4, <2>5, <2>8
  <2>9. CASE k # m
    <3>1. owner'[k] = owner[k]
      BY <2>3, <2>9
    <3>2. owner[k] \in Rows(input) \cup {NoRow}
      BY DEF Claimed
    <3>3. ASSUME NEW q \in Rows(input), owner[k] = q, NEW p \in Rows(input), owner'[q[1]] = p
          PROVE  p[1] # k
      <4>1. CASE q[1] = m
        <5>1. p = r /\ k # n
          BY <2>2, <2>3, <2>5, <3>3, <4>1 DEF Taken
        <5> QED
          BY <5>1
      <4>2. CASE q[1] # m
        BY <2>3, <2>5, <3>3, <4>2 DEF Claimed
      <4> QED
        BY <4>1, <4>2
    <3>4. ASSUME NEW q \in Rows(input), owner[k] = q
          PROVE  /\ q[1] # k
                 /\ found'[q] = Systems
                 /\ \E t \in Systems : k \in NamesIn(input, t) /\ Shares(t, k, q[1])
      BY <2>6, <3>4 DEF Claimed
    <3> QED
      BY <3>1, <3>2, <3>3, <3>4
  <2> QED
    BY <2>8, <2>9
<1> QED
  BY <1>2, <1>3 DEF Visit

-----------------------------------------------------------------------------
(* The page                                                                *)

\* While no import has ended, the input is still what the database holds.
Fresh ==
    /\ page \in {"compare", "shown"} /\ ~torn => input = InputOf(read, hosts)
    /\ page = "shown" => left = {}

IInv == TypeOK /\ Matching /\ Claimed /\ Fresh /\ HostsAreOfLatestRun

LEMMA NoVmIsNoAddrs ==
    ASSUME NEW S \in SUBSET Addrs
    PROVE  S # NoVm
BY NoAddrAssumption DEF NoVm

LEMMA InputsOfRows ==
    ASSUME TypeOK, NEW rows \in [Names \X Accounts -> VmRow], NEW listing \in NetBoxVms
    PROVE  InputOf(rows, listing) \in Inputs
<1>1. \A vm \in Names \X Accounts : rows[vm].addrs \in SUBSET Addrs
  BY DEF VmRow
<1>2. \A n \in Names : (IF listing[n] = NoVm THEN {} ELSE listing[n]) \in SUBSET Addrs
  BY DEF NetBoxVms
<1>3. setting.monitored \in SUBSET Names
  BY DEF TypeOK
<1> QED
  BY <1>1, <1>2, <1>3 DEF InputOf, Inputs

LEMMA NothingIsInput ==
    /\ NoRows \in [Names \X Accounts -> VmRow]
    /\ NoHosts \in NetBoxVms
BY DEF NoRows, NoHosts, VmRow, NetBoxVms

LEMMA InitIInv == Init => IInv
<1> SUFFICES ASSUME Init PROVE IInv
  OBVIOUS
<1>1. CompareTypeOK
  BY DEF Init, CompareInit, CompareTypeOK, Inputs
<1>2. TypeOK
  <2>1. world \in [cloud : CloudVms, netbox : NetBoxVms]
    BY WorldsAssumption DEF Init
  <2>2. setting \in [monitored : SUBSET Names, exempt : SUBSET Names, configured : BOOLEAN]
    BY SettingsAssumption DEF Init
  <2>3. run \in RunRow
    BY NothingIsInput DEF Init, RunRow
  <2>4. changes \in 0..MaxChanges
    <3>1. changes = 0
      BY DEF Init
    <3> QED
      BY <3>1, MaxChangesAssumption
  <2>5. /\ vms \in [Names \X Accounts -> VmRow] /\ read \in [Names \X Accounts -> VmRow]
        /\ hosts \in NetBoxVms /\ fetched \in NetBoxVms /\ stored \in NetBoxVms
    BY NothingIsInput DEF Init
  <2>6. torn \in BOOLEAN
    BY Zenon DEF Init
  <2>7. at = "idle" /\ page = "closed"
    BY DEF Init
  <2> QED
    BY <1>1, <2>1, <2>2, <2>3, <2>4, <2>5, <2>6, <2>7 DEF TypeOK
<1>3. Rows(input) = {}
  BY DEF Init, CompareInit, Rows, CloudNames
<1>4. Matching
  BY <1>1, <1>3 DEF Init, CompareInit, Matching, Named, Visited, SystemsAreBacked
<1>5. Fresh /\ HostsAreOfLatestRun
  BY DEF Init, Fresh, HostsAreOfLatestRun
<1>6. Claimed
  BY <1>3 DEF Init, CompareInit, Claimed
<1> QED
  BY <1>2, <1>4, <1>5, <1>6 DEF IInv

\* Steps of the database and of the world leave the comparison alone.
LEMMA MatchingStays ==
    ASSUME Matching, Claimed, UNCHANGED compared
    PROVE  Matching' /\ Claimed'
<1>1. Matching'
  BY DEF Matching, compared, CompareTypeOK, Named, Visited, SystemsAreBacked, Backed, Taken, Shares
<1>2. Claimed'
  BY DEF Claimed, compared, Shares
<1> QED
  BY <1>1, <1>2

LEMMA StoredIsFetched ==
    ASSUME NEW rows \in NetBoxVms, NEW listing \in NetBoxVms
    PROVE  DeleteStaleNetBoxHosts(UpsertNetBoxHost(rows, listing), listing) = listing
BY DEF DeleteStaleNetBoxHosts, UpsertNetBoxHost, NetBoxVms

LEMMA StepIInv == IInv /\ [Next]_vars => IInv'
<1> SUFFICES ASSUME IInv, [Next]_vars PROVE IInv'
  OBVIOUS
<1> USE DEF IInv
<1>1. CASE UNCHANGED vars
  <2>1. TypeOK'
    BY <1>1 DEF TypeOK, CompareTypeOK, vars, database, cycle, request, compared
  <2>2. Matching' /\ Claimed'
    BY <1>1, MatchingStays DEF vars
  <2> QED
    BY <1>1, <2>1, <2>2 DEF vars, database, cycle, request, compared, Fresh,
       HostsAreOfLatestRun, InputOf
<1>2. CASE left = {} /\ page # "shown" /\ Cycle
  <2>1. ASSUME NEW a \in Accounts, IngestAccount(a) PROVE IInv'
    <3>1. \A vm \in Names \X Accounts : Refreshed(vms[vm], world.cloud[vm]) \in VmRow
      <4> SUFFICES ASSUME NEW vm \in Names \X Accounts
                   PROVE  Refreshed(vms[vm], world.cloud[vm]) \in VmRow
        OBVIOUS
      <4>1. vms[vm] \in VmRow /\ world.cloud[vm] \in (SUBSET Addrs) \cup {NoVm}
        BY DEF TypeOK, CloudVms
      <4> QED
        BY <4>1 DEF Refreshed, VmRow
    <3>2. TypeOK'
      BY <2>1, <3>1 DEF IngestAccount, TypeOK, CompareTypeOK, cycle, request, compared
    <3>3. Matching' /\ Claimed'
      BY <2>1, MatchingStays DEF IngestAccount
    <3> QED
      BY <2>1, <3>2, <3>3 DEF IngestAccount, cycle, request, compared, Fresh,
         HostsAreOfLatestRun, InputOf
  <2>2. CASE ImportBegins
    <3>1. TypeOK'
      BY <2>2, NothingIsInput DEF ImportBegins, TypeOK, CompareTypeOK, RunRow, request, compared
    <3>2. Matching' /\ Claimed'
      BY <2>2, MatchingStays DEF ImportBegins
    <3> QED
      BY <2>2, <3>1, <3>2 DEF ImportBegins, request, compared, Fresh, HostsAreOfLatestRun, InputOf
  <2>3. CASE ImportFetches
    <3>1. TypeOK'
      BY <2>3 DEF ImportFetches, TypeOK, CompareTypeOK, database, request, compared
    <3>2. Matching' /\ Claimed'
      BY <2>3, MatchingStays DEF ImportFetches
    <3> QED
      BY <2>3, <3>1, <3>2 DEF ImportFetches, database, request, compared, Fresh,
         HostsAreOfLatestRun, InputOf
  <2>4. CASE ImportStores
    <3>1. hosts' = fetched /\ run' = [status |-> "success", listing |-> fetched]
      BY <2>4, StoredIsFetched DEF ImportStores, TypeOK
    <3>2. TypeOK'
      BY <2>4, <3>1, NothingIsInput
      DEF ImportStores, ImportEnds, TypeOK, CompareTypeOK, RunRow, compared
    <3>3. Matching' /\ Claimed'
      BY <2>4, MatchingStays DEF ImportStores, ImportEnds
    <3>4. Fresh'
      BY <1>2, <2>4 DEF ImportStores, ImportEnds, Fresh, TypeOK, compared
    <3> QED
      BY <2>4, <3>1, <3>2, <3>3, <3>4 DEF ImportStores, HostsAreOfLatestRun
  <2>5. CASE ImportFails
    <3>0. hosts' = hosts
      BY <2>5 DEF ImportFails, RolledBack
    <3>1. TypeOK'
      <4>1. run' \in RunRow
        BY <2>5 DEF ImportFails, TypeOK, RunRow
      <4> QED
        BY <2>5, <3>0, <4>1, NothingIsInput DEF ImportFails, ImportEnds, TypeOK, CompareTypeOK, compared
    <3>2. Matching' /\ Claimed'
      BY <2>5, MatchingStays DEF ImportFails, ImportEnds
    <3>3. Fresh'
      BY <1>2, <2>5 DEF ImportFails, ImportEnds, Fresh, TypeOK, compared
    <3>4. HostsAreOfLatestRun'
      BY <2>5, <3>0 DEF ImportFails, HostsAreOfLatestRun, TypeOK, RunRow
    <3> QED
      BY <3>1, <3>2, <3>3, <3>4
  <2>6. CASE ImportDies
    <3>1. TypeOK'
      BY <2>6, NothingIsInput DEF ImportDies, TypeOK, CompareTypeOK, database, request, compared
    <3>2. Matching' /\ Claimed'
      BY <2>6, MatchingStays DEF ImportDies
    <3> QED
      BY <2>6, <3>1, <3>2 DEF ImportDies, database, request, compared, Fresh,
         HostsAreOfLatestRun, InputOf
  <2> QED
    BY <1>2, <2>1, <2>2, <2>3, <2>4, <2>5, <2>6 DEF Cycle
<1>3. CASE page = "closed" /\ Change
  <2>1. world' \in Worlds /\ changes' \in 0..MaxChanges
    BY <1>3, MaxChangesAssumption DEF Change, TypeOK
  <2>2. TypeOK'
    BY <1>3, <2>1, WorldsAssumption DEF Change, TypeOK, CompareTypeOK, database, cycle, request, compared
  <2>3. Matching' /\ Claimed'
    BY <1>3, MatchingStays DEF Change
  <2> QED
    BY <1>3, <2>2, <2>3 DEF Change, database, cycle, request, compared, Fresh,
       HostsAreOfLatestRun, InputOf
<1>4. CASE ReadVms
  <2>1. TypeOK'
    BY <1>4 DEF ReadVms, TypeOK, CompareTypeOK, database, cycle, compared
  <2>2. Matching' /\ Claimed'
    BY <1>4, MatchingStays DEF ReadVms
  <2> QED
    BY <1>4, <2>1, <2>2 DEF ReadVms, database, Fresh, HostsAreOfLatestRun
<1>5. CASE ReadHosts
  <2>1. InputOf(read, hosts) \in Inputs
    BY InputsOfRows DEF TypeOK
  <2>2. Matching' /\ Claimed'
    BY <1>5, <2>1, MatchingOfCompare, ClaimedOfCompare DEF ReadHosts
  <2>3. TypeOK'
    BY <1>5, <2>2 DEF ReadHosts, TypeOK, Matching, database, cycle
  <2>4. input' = InputOf(read, hosts)
    BY <1>5 DEF ReadHosts, Compare
  <2> QED
    BY <1>5, <2>2, <2>3, <2>4 DEF ReadHosts, database, Fresh, HostsAreOfLatestRun, InputOf
<1>6. CASE VisitRow
  <2>1. PICK r \in left : Visit(r)
    BY <1>6 DEF VisitRow
  <2>2. Matching' /\ Claimed'
    BY <2>1, MatchingOfVisit, ClaimedOfVisit
  <2>3. TypeOK'
    BY <1>6, <2>2 DEF VisitRow, TypeOK, Matching, database, cycle, request
  <2> QED
    BY <1>6, <2>1, <2>2, <2>3 DEF VisitRow, Visit, database, request, Fresh,
       HostsAreOfLatestRun, InputOf
<1>7. CASE ReadRun
  <2>1. TypeOK'
    BY <1>7 DEF ReadRun, TypeOK, CompareTypeOK, database, cycle, compared
  <2>2. Matching' /\ Claimed'
    BY <1>7, MatchingStays DEF ReadRun
  <2> QED
    BY <1>7, <2>1, <2>2 DEF ReadRun, database, compared, Fresh, HostsAreOfLatestRun, InputOf
<1>8. CASE Close
  <2>1. InputOf(NoRows, NoHosts) \in Inputs
    BY InputsOfRows, NothingIsInput
  <2>2. Matching' /\ Claimed'
    BY <1>8, <2>1, MatchingOfCompare, ClaimedOfCompare DEF Close
  <2>3. TypeOK'
    BY <1>8, <2>2, NothingIsInput DEF Close, TypeOK, Matching, database, cycle
  <2> QED
    BY <1>8, <2>2, <2>3 DEF Close, database, Fresh, HostsAreOfLatestRun
<1> QED
  BY <1>1, <1>2, <1>3, <1>4, <1>5, <1>6, <1>7, <1>8 DEF Next

THEOREM Invariance == Spec => []IInv
BY InitIInv, StepIInv, PTL DEF Spec

-----------------------------------------------------------------------------
(* Theorems                                                                *)

\* All variables keep their types.
THEOREM TypeCorrect == Spec => []TypeOK
<1>1. IInv => TypeOK
  BY DEF IInv
<1>2. QED
  BY <1>1, Invariance, PTL

\* No VM stands behind two rows, and none behind a row that it does not share a name
\* or an address with (ip_merged_names, engine.py:98-155).
THEOREM SystemsBacked == Spec => []SystemsAreBacked
<1>1. IInv => SystemsAreBacked
  BY DEF IInv, Matching
<1>2. QED
  BY <1>1, Invariance, PTL

\* A row that lacks a system has no VM there that is not in another row.
THEOREM RealGaps == Spec => []GapsAreReal
<1>1. IInv => GapsAreReal
  BY DEF IInv, Matching, Named, Visited, GapsAreReal, Shown, Shares
<1>2. QED
  BY <1>1, Invariance, PTL

\* The NetBoxHost rows are those of the latest import that succeeded, whatever failed
\* or died since, and of the latest run, if it says that it succeeded
\* (ingest_netbox_hosts, ingest.py:224-302).
THEOREM HostsOfRun == Spec => []HostsAreOfLatestRun
<1>1. IInv => HostsAreOfLatestRun
  BY DEF IInv
<1>2. QED
  BY <1>1, Invariance, PTL

\* What the page says is missing in NetBox is missing in the listing of the import it
\* names, unless another import ended while the page was read.
THEOREM ReasonsFit == Spec => []ReasonsFitRows
<1>1. ASSUME IInv PROVE ReasonsFitRows
  <2> SUFFICES ASSUME page = "shown", run.status = "success", ~torn, NEW r \in Shown,
                      <<"cloud", "netbox">> \in Discrepancies(r)
               PROVE  /\ run.listing[r[1]] = NoVm
                      /\ \A m \in Names :
                            run.listing[m] \cap AddrsOf(input, r[1]) # {} => m \in Taken
    BY DEF ReasonsFitRows
  <2>1. input = InputOf(read, hosts) /\ left = {} /\ hosts = run.listing
    BY <1>1 DEF IInv, Fresh, HostsAreOfLatestRun
  <2>2. r \in Rows(input) /\ r[1] \in Names /\ "netbox" \in Systems \ found[r]
    BY <1>1, NamesOfRows DEF IInv, Matching, CompareTypeOK, Shown, Discrepancies, Missing, Systems
  <2>3. /\ r[1] \notin NamesIn(input, "netbox")
        /\ \A m \in NamesIn(input, "netbox") : Shares("netbox", m, r[1]) => m \in Taken
    BY <1>1, <2>1, <2>2 DEF IInv, Matching, Named, Visited, Shown
  <2>4. \A m \in Names : hosts[m] # NoVm => /\ m \in NamesIn(input, "netbox")
                                            /\ AddrsIn(input, "netbox", m) = hosts[m]
    BY <2>1 DEF InputOf, NamesIn, AddrsIn
  <2>5. AddrsOf(input, r[1]) \subseteq Addrs
    BY <1>1 DEF IInv, Matching, CompareTypeOK, AddrsOf, AddrsIn, Inputs
  <2>6. NoVm \cap AddrsOf(input, r[1]) = {}
    BY <2>5, NoAddrAssumption DEF NoVm
  <2> QED
    BY <2>1, <2>2, <2>3, <2>4, <2>6 DEF Shares
<1>2. QED
  BY <1>1, Invariance, PTL

\* The addresses of a name in a system are among all of its addresses.
LEMMA AddrsOfSystem ==
    ASSUME NEW s, NEW n
    PROVE  AddrsIn(input, s, n) \subseteq AddrsOf(input, n)
BY DEF AddrsOf, AddrsIn

\* The table of a row is the one for the systems that the row is in.
LEMMA TableOf ==
    ASSUME NEW r, NEW F \in SUBSET Systems, found[r] = F, F # {},
           "netbox" \in F => NetBoxConfigured,
           NEW S, S = F \cup (IF r[1] \in input.monitored THEN {"monitoring"} ELSE {})
    PROVE  Discrepancies(r) = Reference(r[1], S)
<1> DEFINE watched == setting.configured /\ r[1] \notin setting.exempt
           L == LookedAt(r[1])
<1>1. F = {"cloud"} \/ F = {"netbox"} \/ F = {"cloud", "netbox"}
  BY DEF Systems
<1>2. \A d \in Discrepancies(r) : d \in (S \cap L) \X L /\ d[2] \notin S
  BY <1>1 DEF Discrepancies, Missing, LookedAt, Systems
<1>3. \A d \in (S \cap L) \X L : d[2] \notin S => d \in Discrepancies(r)
  BY <1>1 DEF Discrepancies, Missing, LookedAt, Systems
<1> QED
  BY <1>2, <1>3 DEF Reference

\* Who claims a name shares an address with it.
LEMMA OwnersArePartners ==
    ASSUME IInv, NEW n \in Names, n \in Taken
    PROVE  \E q \in Rows(input) : owner[n] = q /\ q[1] \in Partners(n) /\ found[q] = Systems
<1>1. owner[n] \in Rows(input) /\ owner[n][1] \in Names
  BY NamesOfRows DEF IInv, Matching, CompareTypeOK, Claimed, Taken
<1> DEFINE q == owner[n]
<1>2. /\ q[1] # n /\ found[q] = Systems
      /\ \E s \in Systems : Shares(s, n, q[1])
  BY <1>1 DEF IInv, Claimed
<1>3. AddrsOf(input, q[1]) \cap AddrsOf(input, n) # {}
  BY <1>2, AddrsOfSystem DEF Shares
<1> QED
  BY <1>1, <1>2, <1>3 DEF Partners

\* What a row has claimed shares an address with it.
LEMMA OwnedArePartners ==
    ASSUME IInv, NEW r \in Rows(input), NEW m \in Names, owner[m] = r
    PROVE  m \in Partners(r[1])
<1>1. r[1] # m /\ \E s \in Systems : Shares(s, m, r[1])
  BY DEF IInv, Claimed
<1> QED
  BY <1>1, AddrsOfSystem DEF Partners, Shares

\* A row whose addresses no other name has is in the systems of its name.
LEMMA AloneIsExact ==
    ASSUME IInv, NEW r \in Rows(input), Partners(r[1]) = {}
    PROVE  r \in Shown /\ Discrepancies(r) = Reference(r[1], Where(r[1], {}))
<1>1. input \in Inputs /\ r[1] \in Names /\ r \in RowIds /\ found[r] \in SUBSET Systems
  BY RowsAreRowIds, NamesOfRows DEF IInv, Matching, CompareTypeOK
<1>2. r \in Shown
  BY <1>1, OwnersArePartners DEF Shown
<1>3. found[r] # {} /\ \A s \in Systems \ found[r] : r[1] \notin NamesIn(input, s)
  BY DEF IInv, Matching, Named
<1>4. ASSUME NEW s \in found[r] PROVE r[1] \in NamesIn(input, s)
  <2>1. Backed(r, s)
    BY DEF IInv, Matching, SystemsAreBacked
  <2> QED
    BY <1>1, <2>1, NamesOfSystems, OwnedArePartners DEF Backed
<1>5. found[r] = {s \in Systems : r[1] \in NamesIn(input, s)}
  BY <1>1, <1>3, <1>4
<1>6. "netbox" \in found[r] => NetBoxConfigured
  BY <1>4 DEF NetBoxConfigured, NamesIn
<1>7. Discrepancies(r) = Reference(r[1], Where(r[1], {}))
  BY <1>1, <1>3, <1>5, <1>6, TableOf DEF Where
<1> QED
  BY <1>2, <1>7

\* Of a VM of a cloud and one of NetBox that have only each other, one row claims the
\* other, and not both.
LEMMA PairIsOne ==
    ASSUME IInv, page = "shown", NEW n \in Names, NEW m \in Names,
           Partners(n) = {m}, Partners(m) = {n}, OnlyIn("cloud", n), OnlyIn("netbox", m)
    PROVE  \E r \in Shown :
              /\ {q \in Shown : q[1] \in {n, m}} = {r}
              /\ Discrepancies(r) = Reference(r[1], Where(r[1], Systems))
<1>1. input \in Inputs /\ left = {}
  BY DEF IInv, Matching, CompareTypeOK, Fresh
<1>2. n \notin input.netbox /\ m \in input.netbox /\ m \notin CloudNames(input) /\ n # m
  BY DEF OnlyIn, Partners
<1>3. PICK rn \in input.cloud : {x \in input.cloud : x[1] = n} = {rn}
  BY DEF OnlyIn
<1> DEFINE rm == <<m, NoAccount>>
<1>4. rn[1] = n /\ rn \in Rows(input) /\ rm \in Rows(input) /\ rm[1] = m
  BY <1>2, <1>3 DEF Rows
<1>5. \A q \in Rows(input) : (q[1] = n => q = rn) /\ (q[1] = m => q = rm)
  BY <1>2, <1>3 DEF Rows, CloudNames
<1>6. n \in Taken => owner[n] = rm /\ found[rm] = Systems
  BY <1>5, OwnersArePartners
<1>7. m \in Taken => owner[m] = rn /\ found[rn] = Systems
  BY <1>5, OwnersArePartners
<1>8. ~ (n \in Taken /\ m \in Taken)
  BY <1>4, <1>6, <1>7 DEF IInv, Claimed
<1>9. n \in Taken \/ m \in Taken
  <2> SUFFICES ASSUME n \notin Taken, m \notin Taken PROVE FALSE
    OBVIOUS
  <2>1. CASE "netbox" \in found[rn]
    <3>1. Backed(rn, "netbox")
      BY <1>4, <2>1 DEF IInv, Matching, SystemsAreBacked
    <3>2. n \notin NamesIn(input, "netbox")
      BY <1>2 DEF NamesIn
    <3>3. PICK k \in NamesIn(input, "netbox") : owner[k] = rn
      BY <1>4, <3>1, <3>2 DEF Backed
    <3>4. k \in Names /\ k = m
      BY <1>1, <1>4, <3>3, NamesOfSystems, OwnedArePartners
    <3>5. rn # NoRow
      BY <1>1, <1>4, RowsAreRowIds, NoRowIsNoRow
    <3> QED
      BY <3>3, <3>4, <3>5 DEF Taken
  <2>2. CASE "netbox" \notin found[rn]
    <3>1. AddrsOf(input, m) = AddrsIn(input, "netbox", m)
      BY <1>2 DEF AddrsOf, AddrsIn, CloudNames
    <3>2. Shares("netbox", m, n)
      BY <3>1 DEF Partners, Shares
    <3>3. m \in NamesIn(input, "netbox")
      BY <1>2 DEF NamesIn
    <3> QED
      BY <1>1, <1>4, <2>2, <3>2, <3>3 DEF IInv, Matching, Visited, Systems
  <2> QED
    BY <2>1, <2>2
<1>10. PICK r \in {rn, rm} :
           /\ found[r] = Systems /\ r[1] \notin Taken
           /\ \A q \in {rn, rm} : q # r => q[1] \in Taken
  BY <1>4, <1>6, <1>7, <1>8, <1>9
<1>11. r \in Shown /\ {q \in Shown : q[1] \in {n, m}} = {r}
  BY <1>4, <1>5, <1>10 DEF Shown
<1>12. Discrepancies(r) = Reference(r[1], Where(r[1], Systems))
  <2>1. NetBoxConfigured
    BY <1>2 DEF NetBoxConfigured
  <2>2. Systems # {} /\ Systems \in SUBSET Systems
    BY DEF Systems
  <2>3. Where(r[1], Systems) = Systems \cup (IF r[1] \in input.monitored THEN {"monitoring"} ELSE {})
    BY DEF Where
  <2> QED
    BY <1>10, <2>1, <2>2, <2>3, TableOf
<1> QED
  BY <1>11, <1>12

\* Where addresses are unambiguous the table is exact: what has no address in common
\* with others is shown as it is, and a VM that a cloud and NetBox know by two names
\* is shown once (engine.py:59 "Secondary: shared IP address when names differ").
THEOREM UnambiguousExact == Spec => []UnambiguousVmsAreExact
<1>1. IInv => UnambiguousVmsAreExact
  BY AloneIsExact, PairIsOne DEF UnambiguousVmsAreExact
<1>2. QED
  BY <1>1, Invariance, PTL
=============================================================================
