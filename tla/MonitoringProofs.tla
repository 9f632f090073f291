---------------------------- MODULE MonitoringProofs ----------------------------
(***************************************************************************)
(* Safety of Monitoring for any VMs, hosts, page size and number of pages. *)
(*                                                                         *)
(* That everything monitored is shown rests on the pages: when the last    *)
(* one is short, the hosts fetched are all there are (CoverInv), because   *)
(* the hosts before the page fill the pages before it (PageIsFull).        *)
(***************************************************************************)
EXTENDS Monitoring, FiniteSetTheorems, WellFoundedInduction, TLAPS

-----------------------------------------------------------------------------
(* Finite orders *)

\* A finite set has a minimal element in every strict order.
LEMMA Minimal ==
    ASSUME NEW S, IsFiniteSet(S), S # {}, NEW R,
           \A x \in S : <<x, x>> \notin R,
           \A x, y, z \in S : <<x, y>> \in R /\ <<y, z>> \in R => <<x, z>> \in R
    PROVE  \E x \in S : \A y \in S : <<y, x>> \notin R
<1> DEFINE Below(x) == {y \in S : <<y, x>> \in R}
           Belows == {Below(x) : x \in S}
<1>1. IsWellFoundedOn(StrictSubsetOrdering(S), FiniteSubsetsOf(S))
  BY FS_StrictSubsetOrderingWellFounded
<1>2. Belows \subseteq FiniteSubsetsOf(S) /\ Belows # {}
  <2>1. FiniteSubsetsOf(S) = SUBSET S
    BY FS_FiniteSubsetsOfFinite
  <2>2. \A x \in S : Below(x) \in SUBSET S
    OBVIOUS
  <2> HIDE DEF Below
  <2>3. QED
    BY <2>1, <2>2
<1>3. PICK B \in Belows : \A C \in Belows : <<C, B>> \notin StrictSubsetOrdering(S)
  <2> HIDE DEF Belows
  <2>1. QED
    BY <1>1, <1>2, WFMin
<1>4. PICK x \in S : B = Below(x)
  BY <1>3
<1>5. ASSUME NEW y \in S, <<y, x>> \in R PROVE FALSE
  <2>1. Below(y) \subseteq Below(x)
    BY <1>5
  <2>2. y \in Below(x) /\ y \notin Below(y)
    BY <1>5
  <2>3. <<Below(y), Below(x)>> \in StrictSubsetOrdering(S)
    BY <2>1, <2>2 DEF StrictSubsetOrdering
  <2>4. QED
    BY <1>3, <1>4, <2>3
<1>6. QED
  BY <1>5

\* A finite set of numbers has a greatest element.
LEMMA MaxIsGreatest ==
    ASSUME NEW S \in SUBSET Nat, IsFiniteSet(S), S # {}
    PROVE  Max(S) \in S /\ \A y \in S : Max(S) >= y
<1> DEFINE R == {r \in S \X S : r[1] > r[2]}
<1>1. \E x \in S : \A y \in S : <<y, x>> \notin R
  <2>1. \A x \in S : <<x, x>> \notin R
    OBVIOUS
  <2>2. \A x, y, z \in S : <<x, y>> \in R /\ <<y, z>> \in R => <<x, z>> \in R
    OBVIOUS
  <2> HIDE DEF R
  <2>3. QED
    BY <2>1, <2>2, Minimal
<1>2. PICK x \in S : \A y \in S : <<y, x>> \notin R
  BY <1>1
<1>3. ASSUME NEW y \in S PROVE x >= y
  <2>1. <<y, x>> \in S \X S /\ <<y, x>> \notin R
    BY <1>2
  <2>2. ~(y > x)
    BY <2>1
  <2>3. QED
    BY <2>2
<1> DEFINE Tops(z) == \A y \in S : z >= y
<1>4. Max(S) = CHOOSE z \in S : Tops(z)
  BY DEF Max
<1>5. Tops(x)
  BY <1>3
<1> HIDE DEF Tops
<1>6. Max(S) \in S /\ Tops(Max(S))
  BY <1>4, <1>5
<1>7. QED
  BY <1>6 DEF Tops

-----------------------------------------------------------------------------
(* Pages *)

\* What Zabbix is: a finite set of hosts with ids of their own.
WorldInv ==
    /\ zabbix \subseteq Host /\ IsFiniteSet(zabbix)
    /\ \A g, h \in zabbix : g.id = h.id => g = h

Rank(h) == Cardinality(Before(h))

LEMMA RankType ==
    ASSUME WorldInv, NEW h
    PROVE  IsFiniteSet(Before(h)) /\ Rank(h) \in Nat
BY FS_Subset, FS_CardinalityType DEF WorldInv, Before, Rank

\* The host before g has the rank before that of g.
LEMMA Predecessor ==
    ASSUME WorldInv, NEW g \in zabbix, Rank(g) # 0
    PROVE  \E m \in zabbix : m.id < g.id /\ Rank(g) = Rank(m) + 1
<1> USE DEF WorldInv
<1>1. \A h \in zabbix : h.id \in Nat
  BY VmsAssumption DEF Host
<1>2. IsFiniteSet(Before(g)) /\ Before(g) # {} /\ Before(g) \subseteq zabbix
  BY RankType, FS_EmptySet DEF Rank, Before
<1> DEFINE R == {r \in zabbix \X zabbix : r[1].id > r[2].id}
<1>3. PICK m \in Before(g) : \A x \in Before(g) : <<x, m>> \notin R
  <2>1. \A x \in Before(g) : <<x, x>> \notin R
    BY <1>1
  <2>2. \A x, y, z \in Before(g) : <<x, y>> \in R /\ <<y, z>> \in R => <<x, z>> \in R
    BY <1>1
  <2> HIDE DEF R
  <2>3. QED
    BY <1>2, <2>1, <2>2, Minimal
<1>4. m \in zabbix /\ m.id < g.id
  BY <1>3 DEF Before
<1>5. Before(g) = Before(m) \cup {m}
  <2>1. ASSUME NEW x \in Before(g) PROVE x \in Before(m) \cup {m}
    <3>1. x \in zabbix /\ ~(x.id > m.id)
      BY <1>3, <1>4, <2>1 DEF Before
    <3>2. x.id < m.id \/ x.id = m.id
      BY <1>1, <1>4, <3>1
    <3>3. QED
      BY <1>4, <3>1, <3>2 DEF Before
  <2>2. Before(m) \cup {m} \subseteq Before(g)
    BY <1>1, <1>4 DEF Before
  <2>3. QED
    BY <2>1, <2>2
<1>6. m \notin Before(m)
  BY <1>1, <1>4 DEF Before
<1>7. Rank(g) = Rank(m) + 1
  BY <1>5, <1>6, RankType, FS_AddElement DEF Rank
<1>8. QED
  BY <1>4, <1>7

\* No rank is left out.
LEMMA EveryRank ==
    ASSUME WorldInv, NEW h \in zabbix, NEW k \in Nat, k <= Rank(h)
    PROVE  \E g \in zabbix : Rank(g) = k
<1> DEFINE Late == {g \in zabbix : Rank(g) >= k}
           R == {r \in zabbix \X zabbix : r[1].id < r[2].id}
<1>1. \A g \in zabbix : g.id \in Nat /\ Rank(g) \in Nat
  BY VmsAssumption, RankType DEF WorldInv, Host
<1>2. IsFiniteSet(Late) /\ h \in Late
  BY <1>1, FS_Subset DEF WorldInv
<1>3. PICK g \in Late : \A x \in Late : <<x, g>> \notin R
  <2>1. \A x \in Late : <<x, x>> \notin R
    BY <1>1
  <2>2. \A x, y, z \in Late : <<x, y>> \in R /\ <<y, z>> \in R => <<x, z>> \in R
    BY <1>1
  <2> HIDE DEF R, Late
  <2>3. QED
    BY <1>2, <2>1, <2>2, Minimal
<1>4. CASE Rank(g) = k
  BY <1>4
<1>5. CASE Rank(g) > k
  <2>1. PICK m \in zabbix : m.id < g.id /\ Rank(g) = Rank(m) + 1
    BY <1>1, <1>5, Predecessor
  <2>2. m \notin Late
    BY <1>3, <2>1
  <2>3. QED
    BY <1>1, <1>5, <2>1, <2>2
<1>6. QED
  BY <1>1, <1>3, <1>4, <1>5

Window(first) == {h \in zabbix : Rank(h) \in first .. first + PageSize - 1}

\* A page is full if there are hosts behind it.
LEMMA PageIsFull ==
    ASSUME WorldInv, NEW first \in Nat, NEW h \in zabbix, Rank(h) >= first + PageSize
    PROVE  ~(Cardinality(Window(first)) < PageSize)
<1> DEFINE Ranks == first .. first + PageSize - 1
           f == [k \in Ranks |-> CHOOSE g \in zabbix : Rank(g) = k]
<1> USE BoundsAssumption
<1>1. \A k \in Ranks : f[k] \in zabbix /\ Rank(f[k]) = k
  <2> SUFFICES ASSUME NEW k \in Ranks PROVE \E g \in zabbix : Rank(g) = k
    OBVIOUS
  <2>1. k \in Nat /\ k <= Rank(h)
    BY RankType
  <2>2. QED
    BY <2>1, EveryRank
<1>2. f \in Injection(Ranks, Window(first))
  <2>1. \A k \in Ranks : f[k] \in Window(first)
    BY <1>1 DEF Window
  <2>2. \A j, k \in Ranks : f[j] = f[k] => j = k
    <3> HIDE DEF f
    <3>1. QED
      BY <1>1
  <2>3. f \in [Ranks -> Window(first)]
    BY <2>1
  <2> HIDE DEF f
  <2>4. QED
    BY <2>2, <2>3 DEF Injection, IsInjective
<1>3. IsFiniteSet(Window(first))
  BY FS_Subset DEF Window, WorldInv
<1>4. Cardinality(Ranks) <= Cardinality(Window(first))
  BY <1>2, <1>3, FS_Injection
<1>5. Cardinality(Ranks) = PageSize
  BY FS_Interval
<1>6. QED
  BY <1>3, <1>4, <1>5, FS_CardinalityType

-----------------------------------------------------------------------------
(* Types and phases *)

\* Where a check is: while it runs nothing is up to date, and what it has found
\* so far is of the VMs it set out to check.
PhaseInv ==
    /\ phase = "idle" => got = {} /\ todo = {} /\ result = Nothing /\ page = 0
    /\ phase = "pages" => /\ todo = Due /\ result = Nothing
                          /\ missed = {} /\ bulk = "none"
    /\ phase = "check" => bulk \in {"whole", "truncated", "failed"}
    /\ todo \subseteq Due
    /\ IsFiniteSet(got)

IInv == TypeOK /\ WorldInv /\ PhaseInv

\* The hosts found, and among them the one stored last for a row.
LEMMA LastStored ==
    ASSUME TypeOK, NEW i \in HostIds, StoredFor(i) # {}
    PROVE  /\ Max(StoredFor(i)) \in StoredFor(i)
           /\ Max(StoredFor(i)) \in Vms
           /\ \A v \in StoredFor(i) : Max(StoredFor(i)) >= v
<1>1. StoredFor(i) \subseteq Vms
  BY DEF StoredFor, Found, Due
<1>2. StoredFor(i) \in SUBSET Nat /\ IsFiniteSet(StoredFor(i))
  BY <1>1, VmsAssumption, FS_Subset
<1>3. QED
  BY <1>1, <1>2, MaxIsGreatest

LEMMA StoredType ==
    ASSUME TypeOK, NEW i \in HostIds
    PROVE  /\ Stored(i) \in Row \cup {Absent}
           /\ StoredFor(i) # {} =>
                LET v == Max(StoredFor(i)) IN
                /\ v \in StoredFor(i) /\ v \in Due /\ result[v] \in Host
                /\ result[v].id = i
                /\ Stored(i) = [vm |-> v, status |-> result[v].status]
<1>1. CASE StoredFor(i) # {}
  <2> DEFINE v == Max(StoredFor(i))
  <2>1. v \in StoredFor(i) /\ v \in Vms
    BY <1>1, LastStored
  <2> HIDE DEF v
  <2>2. v \in Due /\ result[v] \in Host /\ result[v].id = i
    BY <2>1 DEF StoredFor, Found, TypeOK
  <2>3. Stored(i) = [vm |-> v, status |-> result[v].status]
    BY <1>1 DEF Stored, v
  <2>4. Stored(i) \in Row
    BY <2>1, <2>2, <2>3 DEF Row, Host
  <2>5. QED
    BY <2>1, <2>2, <2>3, <2>4 DEF v
<1>2. CASE StoredFor(i) = {}
  BY <1>2 DEF Stored, Stale, TypeOK, Row, Statuses
<1>3. QED
  BY <1>1, <1>2

\* The two halves of TypeOK: what is true or false, and the data.
FlagsOK == honest \in BOOLEAN /\ retried \in BOOLEAN /\ steady \in BOOLEAN /\ fresh \in BOOLEAN
DataOK ==
    /\ zabbix \subseteq Host /\ table \in Table
    /\ rows \in [HostIds -> Row \cup {Absent}]
    /\ run \in {"none", "running", "success", "failed"}
    /\ phase \in {"idle", "pages", "check"}
    /\ page \in 0 .. MaxPages - 1
    /\ got \subseteq Fetched /\ bulk \in {"none", "whole", "truncated", "failed"}
    /\ todo \subseteq Vms /\ missed \subseteq Vms
    /\ result \in [Vms -> Host \cup {Absent}]
    /\ failures \in 0 .. MaxFailures /\ changes \in 0 .. MaxChanges

LEMMA Halves == TypeOK <=> FlagsOK /\ DataOK
BY Zenon DEF TypeOK, FlagsOK, DataOK

LEMMA FlagStep == FlagsOK /\ [Next]_vars => FlagsOK'
<1> SUFFICES ASSUME FlagsOK, [Next]_vars PROVE FlagsOK'
  OBVIOUS
<1> USE DEF FlagsOK
<1>1. CASE ZabbixChanges
  BY <1>1, Zenon DEF ZabbixChanges
<1>2. CASE TableChanges
  BY <1>2, Zenon DEF TableChanges
<1>3. CASE Begin
  BY <1>3, Zenon DEF Begin, world, Over
<1>4. CASE FetchPage
  BY <1>4, Zenon DEF FetchPage, world
<1>5. CASE Reauthenticate
  BY <1>5, Zenon DEF Reauthenticate, world, Over
<1>6. CASE BulkFails
  BY <1>6, Zenon DEF BulkFails, world, Over
<1>7. ASSUME NEW v \in Vms, CheckVm(v) PROVE FlagsOK'
  BY <1>7, Zenon DEF CheckVm, world, Over
<1>8. ASSUME NEW v \in Vms, CheckVmFails(v) PROVE FlagsOK'
  BY <1>8, Zenon DEF CheckVmFails, world, Over
<1>9. CASE Store
  BY <1>9, Zenon DEF Store, world, Over
<1>10. CASE StoreFails
  BY <1>10, Zenon DEF StoreFails, world, Over
<1>11. CASE Crash
  BY <1>11, Zenon DEF Crash, world, Over
<1>12. CASE UNCHANGED vars
  BY <1>12, Zenon DEF vars, world
<1>13. QED
  BY <1>1, <1>2, <1>3, <1>4, <1>5, <1>6, <1>7, <1>8, <1>9, <1>10, <1>11, <1>12
     DEF Next, Check

LEMMA DataStep == IInv /\ [Next]_vars => DataOK'
<1> SUFFICES ASSUME IInv, [Next]_vars PROVE DataOK'
  OBVIOUS
<1>0. TypeOK /\ DataOK /\ WorldInv
  BY Halves DEF IInv
<1> USE <1>0, VmsAssumption, WorldsAssumption, BoundsAssumption
        DEF DataOK, WorldInv, Fetched, Nothing, Due
<1>1. CASE ZabbixChanges
  BY <1>1 DEF ZabbixChanges
<1>2. CASE TableChanges
  BY <1>2 DEF TableChanges
<1>3. CASE Begin
  BY <1>3 DEF Begin, world
<1>4. CASE FetchPage
  BY <1>4 DEF FetchPage, world, FetchEnds, Extended, Page, IsLast
<1>5. CASE Reauthenticate
  BY <1>5 DEF Reauthenticate, world, Fails
<1>6. CASE BulkFails
  BY <1>6 DEF BulkFails, world, Fails, FetchEnds
<1>7. ASSUME NEW v \in Vms, CheckVm(v) PROVE DataOK'
  <2>1. result' \in [Vms -> Host \cup {Absent}]
    <3>1. CASE UNCHANGED result
      BY <3>1
    <3>2. CASE \E h \in Host : result' = [result EXCEPT ![v] = h]
      BY <3>2
    <3>3. QueryMatches(v) \subseteq Host /\ BulkMatches(v) \subseteq Host
      BY DEF QueryMatches, Named, Reached, BulkMatches, Firsts
    <3>4. QED
      BY <1>7, <3>1, <3>2, <3>3 DEF CheckVm
  <2>2. QED
    BY <1>7, <2>1 DEF CheckVm, world
<1>8. ASSUME NEW v \in Vms, CheckVmFails(v) PROVE DataOK'
  BY <1>8 DEF CheckVmFails, world, Fails
<1>9. CASE Store
  <2>1. rows' \in [HostIds -> Row \cup {Absent}]
    BY <1>9, StoredType DEF Store
  <2>2. QED
    BY <1>9, <2>1 DEF Store, world, Over
<1>10. CASE StoreFails
  BY <1>10 DEF StoreFails, world, Over, Fails
<1>11. CASE Crash
  BY <1>11 DEF Crash, world, Over, Fails
<1>12. CASE UNCHANGED vars
  BY <1>12 DEF vars, world
<1>13. QED
  BY <1>1, <1>2, <1>3, <1>4, <1>5, <1>6, <1>7, <1>8, <1>9, <1>10, <1>11, <1>12
     DEF Next, Check

LEMMA TypeStep == IInv /\ [Next]_vars => TypeOK'
<1>1. IInv => FlagsOK
  BY Halves DEF IInv
<1>2. FlagsOK' /\ DataOK' => TypeOK'
  BY Halves, PTL
<1>3. QED
  BY <1>1, <1>2, FlagStep, DataStep

LEMMA WorldStep == WorldInv /\ [Next]_vars => WorldInv'
<1> SUFFICES ASSUME WorldInv, [Next]_vars PROVE WorldInv'
  OBVIOUS
<1> USE WorldsAssumption DEF WorldInv
<1>1. CASE ZabbixChanges
  BY <1>1 DEF ZabbixChanges, world
<1>2. CASE TableChanges
  BY <1>2 DEF TableChanges, world
<1>3. CASE Begin
  BY <1>3 DEF Begin, world
<1>4. CASE FetchPage
  BY <1>4 DEF FetchPage, world
<1>5. CASE Reauthenticate
  BY <1>5 DEF Reauthenticate, world
<1>6. CASE BulkFails
  BY <1>6 DEF BulkFails, world
<1>7. ASSUME NEW v \in Vms, CheckVm(v) PROVE WorldInv'
  BY <1>7 DEF CheckVm, world
<1>8. ASSUME NEW v \in Vms, CheckVmFails(v) PROVE WorldInv'
  BY <1>8 DEF CheckVmFails, world
<1>9. CASE Store
  BY <1>9 DEF Store, world
<1>10. CASE StoreFails
  BY <1>10 DEF StoreFails, world
<1>11. CASE Crash
  BY <1>11 DEF Crash, world
<1>12. CASE UNCHANGED vars
  BY <1>12 DEF vars, world
<1>13. QED
  BY <1>1, <1>2, <1>3, <1>4, <1>5, <1>6, <1>7, <1>8, <1>9, <1>10, <1>11, <1>12
     DEF Next, Check

\* The hosts of another page are added to a finite set.
LEMMA ExtendedIsFinite ==
    ASSUME WorldInv, IsFiniteSet(got), NEW answer \in SUBSET zabbix
    PROVE  IsFiniteSet(Extended(answer))
<1> DEFINE new == {[page |-> page, host |-> h] : h \in answer \ {e.host : e \in got}}
           f == [e \in new |-> e.host]
<1>1. f \in Injection(new, zabbix)
  <2>1. f \in [new -> zabbix]
    OBVIOUS
  <2>2. \A d, e \in new : d.host = e.host => d = e
    OBVIOUS
  <2>3. \A d, e \in new : f[d] = f[e] => d = e
    BY <2>2
  <2> HIDE DEF f, new
  <2>4. QED
    BY <2>1, <2>3 DEF Injection, IsInjective
<1>2. IsFiniteSet(new)
  <2> HIDE DEF f, new
  <2>1. QED
    BY <1>1, FS_Injection DEF WorldInv
<1>3. QED
  BY <1>2, FS_Union DEF Extended

LEMMA PhaseStep == IInv /\ [Next]_vars => PhaseInv'
<1> SUFFICES ASSUME IInv, [Next]_vars PROVE PhaseInv'
  OBVIOUS
<1> USE FS_EmptySet DEF IInv, PhaseInv, Due
<1>1. CASE ZabbixChanges
  BY <1>1 DEF ZabbixChanges
<1>2. CASE TableChanges
  BY <1>2 DEF TableChanges
<1>3. CASE Begin
  BY <1>3 DEF Begin, world
<1>4. CASE FetchPage
  <2>1. IsFiniteSet(got')
    BY <1>4, ExtendedIsFinite DEF FetchPage, Page
  <2>2. QED
    BY <1>4, <2>1 DEF FetchPage, world, FetchEnds
<1>5. CASE Reauthenticate
  BY <1>5 DEF Reauthenticate, world, Fails
<1>6. CASE BulkFails
  BY <1>6 DEF BulkFails, world, Fails, FetchEnds
<1>7. ASSUME NEW v \in Vms, CheckVm(v) PROVE PhaseInv'
  BY <1>7 DEF CheckVm, world, NextVm
<1>8. ASSUME NEW v \in Vms, CheckVmFails(v) PROVE PhaseInv'
  BY <1>8 DEF CheckVmFails, world, NextVm
<1>9. CASE Store
  BY <1>9 DEF Store, world, Over
<1>10. CASE StoreFails
  BY <1>10 DEF StoreFails, world, Over, Fails
<1>11. CASE Crash
  BY <1>11 DEF Crash, world, Over, Fails
<1>12. CASE UNCHANGED vars
  BY <1>12 DEF vars, world
<1>13. QED
  BY <1>1, <1>2, <1>3, <1>4, <1>5, <1>6, <1>7, <1>8, <1>9, <1>10, <1>11, <1>12
     DEF Next, Check

LEMMA InitInv == Init => IInv
<1> SUFFICES ASSUME Init PROVE IInv
  OBVIOUS
<1> USE DEF Init
<1>1. FlagsOK
  BY Zenon DEF FlagsOK
<1>2. DataOK
  BY WorldsAssumption, BoundsAssumption DEF DataOK, Nothing
<1>3. WorldInv
  BY WorldsAssumption DEF WorldInv
<1>4. PhaseInv
  BY FS_EmptySet DEF PhaseInv
<1>5. QED
  BY <1>1, <1>2, <1>3, <1>4, Halves DEF IInv

LEMMA Invariance == Spec => []IInv
<1>1. IInv /\ [Next]_vars => IInv'
  BY TypeStep, WorldStep, PhaseStep DEF IInv
<1>2. QED
  BY InitInv, <1>1, PTL DEF Spec

\* Every variable keeps its type.
THEOREM TypeCorrect == Spec => []TypeOK
<1>1. IInv => TypeOK
  BY DEF IInv
<1>2. QED
  BY <1>1, Invariance, PTL

-----------------------------------------------------------------------------
(* What has been fetched and found, while Zabbix does not change *)

GotHosts == {e.host : e \in got}

TrueInv == GotHosts \subseteq zabbix

\* Nothing is left out: before a page all pages before it were fetched, and after a
\* whole fetch everything was.
PagesCovered == \A h \in zabbix : Rank(h) < page * PageSize => h \in GotHosts

CoverInv ==
    /\ phase = "pages" /\ honest => PagesCovered
    /\ phase = "check" /\ bulk = "whole" => zabbix \subseteq GotHosts

\* What is found stands for the VM, and what can be found is found.
ResultInv ==
    phase = "check" => \A v \in Due :
        /\ result[v] # Absent => result[v] \in Matches(v)
        /\ v \notin todo /\ v \notin missed /\ Matches(v) # {} => result[v] # Absent

SteadyInv == steady /\ phase # "idle" => TrueInv /\ CoverInv /\ ResultInv

LEMMA ExtendedHosts ==
    ASSUME NEW answer, got' = Extended(answer)
    PROVE  GotHosts' = GotHosts \cup answer
<1> DEFINE new == {[page |-> page, host |-> h] : h \in answer \ GotHosts}
<1>1. got' = got \cup new
  BY DEF Extended, GotHosts
<1>2. \A e \in new : e.host \in answer
  OBVIOUS
<1>3. ASSUME NEW h \in answer \ GotHosts PROVE \E e \in new : e.host = h
  <2>1. [page |-> page, host |-> h] \in new
    BY <1>3
  <2> HIDE DEF new
  <2>2. QED
    BY <2>1
<1> HIDE DEF new
<1>4. \A h \in answer : h \in GotHosts \/ \E e \in new : e.host = h
  BY <1>3
<1>5. QED
  BY <1>1, <1>2, <1>4 DEF GotHosts

\* When all VMs are still to come and none was found, there is nothing to be wrong.
LEMMA NothingFound ==
    ASSUME VmsAssumption, todo' = Due', result' = Nothing
    PROVE  ResultInv'
BY DEF ResultInv, Nothing, Due

\* The hosts of a page.
LEMMA PageHosts ==
    ASSUME IInv, NEW first \in Nat, Page(page) = Window(first), NEW h \in zabbix
    PROVE  /\ first <= Rank(h) /\ Rank(h) < first + PageSize => h \in Page(page)
           /\ Cardinality(Page(page)) < PageSize => Rank(h) < first + PageSize
<1>1. WorldInv /\ Rank(h) \in Nat
  BY RankType DEF IInv
<1>2. first <= Rank(h) /\ Rank(h) < first + PageSize => h \in Window(first)
  BY <1>1, BoundsAssumption DEF Window
<1>3. Cardinality(Window(first)) < PageSize => ~(Rank(h) >= first + PageSize)
  BY <1>1, PageIsFull
<1>4. QED
  BY <1>1, <1>2, <1>3, BoundsAssumption

LEMMA FetchPageSteady ==
    ASSUME IInv, TrueInv, CoverInv, FetchPage
    PROVE  TrueInv' /\ CoverInv' /\ ResultInv'
<1> USE BoundsAssumption
<1>1. /\ phase = "pages" /\ page \in Nat
      /\ zabbix' = zabbix /\ table' = table /\ result' = result /\ todo' = todo
      /\ got' = Extended(Page(page))
      /\ result = Nothing /\ todo = Due
  BY DEF FetchPage, world, IInv, TypeOK, PhaseInv
<1>2. honest' = honest
  BY Zenon DEF FetchPage, world
<1>3. GotHosts' = GotHosts \cup Page(page)
  BY <1>1, ExtendedHosts
<1>4. TrueInv'
  BY <1>1, <1>3 DEF TrueInv, Page
<1>5. ResultInv'
  BY <1>1, NothingFound, VmsAssumption DEF Due
<1>6. \A h \in zabbix : Rank(h)' = Rank(h) /\ Rank(h) \in Nat
  BY <1>1, RankType DEF Rank, Before, IInv
<1>7. CASE honest
  <2> DEFINE first == page * PageSize
  <2>1. first \in Nat /\ (page + 1) * PageSize = first + PageSize
    BY <1>1
  <2>2. Page(page) = Window(first)
    BY <1>7, Zenon DEF Page, Window, Rank
  <2>3. \A h \in zabbix : Rank(h) < first => h \in GotHosts
    <3>1. PagesCovered
      BY <1>1, <1>7, Zenon DEF CoverInv
    <3>2. QED
      BY <3>1 DEF PagesCovered
  <2> HIDE DEF first
  <2>4. \A h \in zabbix : Rank(h) < first + PageSize => h \in GotHosts'
    BY <1>3, <1>6, <2>1, <2>2, <2>3, PageHosts
  <2>5. CASE Cardinality(Page(page)) < PageSize /\ phase' = "check"
    <3>1. zabbix' \subseteq GotHosts'
      BY <1>1, <2>1, <2>2, <2>4, <2>5, PageHosts
    <3>2. phase' # "pages"
      BY <2>5
    <3>3. QED
      BY <1>4, <1>5, <3>1, <3>2, Zenon DEF CoverInv
  <2>6. CASE phase' = "check" /\ bulk' = "truncated"
    <3>1. phase' # "pages" /\ bulk' # "whole"
      BY <2>6
    <3>2. QED
      BY <1>4, <1>5, <3>1, Zenon DEF CoverInv
  <2>7. CASE page' = page + 1 /\ phase' = "pages"
    <3>1. PagesCovered' /\ phase' # "check"
      BY <1>1, <1>6, <2>1, <2>4, <2>7 DEF PagesCovered
    <3>2. QED
      BY <1>4, <1>5, <3>1, Zenon DEF CoverInv
  <2>8. QED
    BY <1>1, <2>5, <2>6, <2>7 DEF FetchPage, FetchEnds
<1>8. CASE ~honest
  <2>1. Page(page) = Window(0)
    BY <1>8, Zenon DEF Page, Window, Rank
  <2>2. CASE Cardinality(Page(page)) < PageSize
    <3>1. zabbix' \subseteq GotHosts'
      BY <1>1, <1>3, <1>6, <2>1, <2>2, PageHosts
    <3>2. phase' # "pages"
      BY <1>1, <2>2 DEF FetchPage, FetchEnds
    <3>3. QED
      BY <1>4, <1>5, <3>1, <3>2, Zenon DEF CoverInv
  <2>3. CASE Cardinality(Page(page)) = PageSize
    <3>1. ~honest' /\ bulk' # "whole"
      BY <1>1, <1>2, <1>8, <2>3 DEF FetchPage, FetchEnds, IInv, PhaseInv
    <3>2. QED
      BY <1>4, <1>5, <3>1, Zenon DEF CoverInv
  <2>4. QED
    BY <2>2, <2>3 DEF FetchPage
<1>9. QED
  BY <1>4, <1>5, <1>7, <1>8

\* Some host is the first of any that were fetched.
LEMMA FirstsExist ==
    ASSUME IInv, NEW E \in SUBSET got, E # {}
    PROVE  Firsts(E) # {}
<1> DEFINE R == {r \in E \X E : Precedes(r[1], r[2])}
<1>1. ASSUME NEW e \in E PROVE e.page \in Nat /\ e.host.id \in Nat
  <2>1. e \in Fetched
    BY DEF IInv, TypeOK
  <2>2. e.page \in Nat /\ e.host \in Host
    BY <2>1, BoundsAssumption DEF Fetched
  <2>3. e.host.id \in HostIds
    BY <2>2 DEF Host
  <2>4. QED
    BY <2>2, <2>3, VmsAssumption
<1>2. IsFiniteSet(E)
  BY FS_Subset DEF IInv, PhaseInv
<1>3. PICK e \in E : \A f \in E : <<f, e>> \notin R
  <2>1. \A x \in E : <<x, x>> \notin R
    BY <1>1 DEF Precedes
  <2>2. \A x, y, z \in E : <<x, y>> \in R /\ <<y, z>> \in R => <<x, z>> \in R
    BY <1>1 DEF Precedes
  <2> HIDE DEF R
  <2>3. QED
    BY <1>2, <2>1, <2>2, Minimal
<1>4. \A f \in E : ~Precedes(f, e)
  <2> SUFFICES ASSUME NEW f \in E PROVE ~Precedes(f, e)
    OBVIOUS
  <2>1. <<f, e>> \in E \X E /\ <<f, e>> \notin R
    BY <1>3
  <2>2. QED
    BY <2>1
<1>5. e.host \in Firsts(E)
  BY <1>4 DEF Firsts
<1>6. QED
  BY <1>5

\* The lookups find a host with the name, or else with an address, if one was fetched.
LEMMA LookupFinds ==
    ASSUME IInv, NEW v
    PROVE  LET named == Named(v, GotHosts)
               found == BulkMatches(v)
           IN  /\ named # {} => found \subseteq named
               /\ named = {} => found \subseteq Reached(v, GotHosts)
               /\ found = {} => named = {} /\ Reached(v, GotHosts) = {}
<1> DEFINE E == {e \in got : e.host.name = NameOf[v]}
           At(ip) == {e \in got : ip \in e.host.ips}
<1>1. Named(v, GotHosts) = {e.host : e \in E}
  BY DEF Named, GotHosts
<1>2. \A F \in SUBSET got : Firsts(F) \subseteq {e.host : e \in F}
  BY DEF Firsts
<1>3. CASE E # {}
  <2>1. BulkMatches(v) = Firsts(E)
    BY <1>3 DEF BulkMatches
  <2>2. Firsts(E) # {} /\ Firsts(E) \subseteq {e.host : e \in E}
    <3>1. E \in SUBSET got
      OBVIOUS
    <3> HIDE DEF E
    <3>2. QED
      BY <1>2, <1>3, <3>1, FirstsExist
  <2>3. {e.host : e \in E} # {}
    BY <1>3
  <2> HIDE DEF E
  <2>4. QED
    BY <1>1, <2>1, <2>2, <2>3
<1>4. CASE E = {}
  <2>1. BulkMatches(v) = UNION {Firsts(At(ip)) : ip \in table.ips[v]}
    BY <1>4 DEF BulkMatches
  <2>2. Named(v, GotHosts) = {}
    BY <1>1, <1>4
  <2>3. ASSUME NEW ip \in table.ips[v], NEW h \in Firsts(At(ip))
        PROVE  h \in Reached(v, GotHosts)
    <3>1. PICK e \in At(ip) : h = e.host
      BY <1>2, <2>3
    <3>2. QED
      BY <3>1 DEF Reached, GotHosts
  <2>4. ASSUME NEW h \in Reached(v, GotHosts) PROVE BulkMatches(v) # {}
    <3>1. PICK e \in got : e.host = h
      BY DEF Reached, GotHosts
    <3>2. PICK ip \in table.ips[v] : ip \in h.ips
      BY DEF Reached
    <3>3. At(ip) \in SUBSET got /\ At(ip) # {}
      BY <3>1, <3>2
    <3> HIDE DEF At
    <3>4. Firsts(At(ip)) # {}
      BY <3>3, FirstsExist
    <3>5. QED
      BY <2>1, <3>4
  <2>5. BulkMatches(v) \subseteq Reached(v, GotHosts)
    <3> HIDE DEF At
    <3>1. QED
      BY <2>1, <2>3
  <2>6. QED
    BY <2>2, <2>4, <2>5
<1>5. QED
  BY <1>3, <1>4

FoundFor(v) == IF Queried(v) THEN QueryMatches(v) ELSE BulkMatches(v)

\* What is found for a VM stands for it, and is missing only if nothing stands for it.
LEMMA FoundMatches ==
    ASSUME IInv, TrueInv, CoverInv, phase = "check", NEW v
    PROVE  /\ FoundFor(v) \subseteq Matches(v)
           /\ FoundFor(v) = {} => Matches(v) = {}
<1> DEFINE named == Named(v, zabbix)
           reached == Reached(v, zabbix)
<1>0. Matches(v) = IF named # {} /\ bulk # "truncated" THEN named ELSE named \cup reached
  BY DEF Matches
<1>1. Named(v, GotHosts) \subseteq named /\ Reached(v, GotHosts) \subseteq reached
  BY DEF TrueInv, Named, Reached
<1>2. QueryMatches(v) = IF named # {} THEN named ELSE reached
  BY DEF QueryMatches
<1>3. CASE bulk = "failed"
  <2>1. FoundFor(v) = QueryMatches(v)
    BY <1>3 DEF FoundFor, Queried
  <2> HIDE DEF named, reached
  <2>2. QED
    BY <1>0, <1>2, <1>3, <2>1
<1>4. CASE bulk = "whole"
  <2>1. FoundFor(v) = BulkMatches(v)
    BY <1>4 DEF FoundFor, Queried
  <2>2. GotHosts = zabbix
    <3>1. zabbix \subseteq GotHosts
      BY <1>4, Zenon DEF CoverInv
    <3>2. QED
      BY <3>1 DEF TrueInv
  <2>3. /\ named # {} => BulkMatches(v) \subseteq named
        /\ named = {} => BulkMatches(v) \subseteq reached
        /\ BulkMatches(v) = {} => named = {} /\ reached = {}
    BY <2>2, LookupFinds
  <2> HIDE DEF named, reached
  <2>4. QED
    BY <1>0, <1>4, <2>1, <2>3
<1>5. CASE bulk = "truncated"
  <2>1. BulkMatches(v) \subseteq named \cup reached
    BY <1>1, LookupFinds
  <2>2. FoundFor(v) = IF BulkMatches(v) = {} THEN QueryMatches(v) ELSE BulkMatches(v)
    BY <1>5 DEF FoundFor, Queried
  <2> HIDE DEF named, reached
  <2>3. QED
    BY <1>0, <1>2, <1>5, <2>1, <2>2
<1>6. QED
  BY <1>3, <1>4, <1>5 DEF IInv, PhaseInv

LEMMA SteadyStep == IInv /\ SteadyInv /\ [Next]_vars => SteadyInv'
<1> SUFFICES ASSUME IInv, SteadyInv, [Next]_vars PROVE SteadyInv'
  OBVIOUS
<1> DEFINE Inside == TrueInv /\ CoverInv /\ ResultInv
<1>0. SteadyInv <=> (steady /\ phase # "idle" => Inside)
  BY DEF SteadyInv
<1>1. CASE ZabbixChanges
  BY <1>1, Zenon DEF ZabbixChanges, SteadyInv
<1>2. CASE TableChanges
  BY <1>2, Zenon DEF TableChanges, SteadyInv
<1>3. CASE Begin
  <2>1. /\ got' = {} /\ page' = 0 /\ phase' = "pages"
        /\ zabbix' = zabbix
    BY <1>3 DEF Begin, IInv, PhaseInv, world
  <2>2. TrueInv' /\ ResultInv' /\ PagesCovered' /\ phase' # "check"
    <3>1. \A h \in zabbix : Rank(h)' \in Nat
      BY <2>1, RankType DEF IInv, Rank, Before
    <3>2. QED
      BY <2>1, <3>1, BoundsAssumption DEF TrueInv, GotHosts, ResultInv, PagesCovered
  <2>3. QED
    BY <2>2, Zenon DEF SteadyInv, CoverInv
<1>4. CASE FetchPage
  <2>1. (steady' => steady) /\ phase # "idle"
    <3>1. phase # "idle"
      BY <1>4 DEF FetchPage
    <3>2. QED
      BY <1>4, <3>1, Zenon DEF FetchPage
  <2>2. Inside => Inside'
    BY <1>4, FetchPageSteady
  <2> HIDE DEF Inside
  <2>3. QED
    BY <1>0, <2>1, <2>2, Zenon DEF SteadyInv, Inside
<1>5. CASE Reauthenticate
  <2>1. /\ got' = {} /\ page' = 0 /\ phase' = "pages"
        /\ zabbix' = zabbix
    BY <1>5 DEF Reauthenticate, world
  <2>2. TrueInv' /\ ResultInv' /\ PagesCovered' /\ phase' # "check"
    <3>1. \A h \in zabbix : Rank(h)' \in Nat
      BY <2>1, RankType DEF IInv, Rank, Before
    <3>2. QED
      BY <2>1, <3>1, BoundsAssumption DEF TrueInv, GotHosts, ResultInv, PagesCovered
  <2>3. QED
    BY <2>2, Zenon DEF SteadyInv, CoverInv
<1>6. CASE BulkFails
  <2>1. /\ got' = {} /\ phase' # "pages" /\ bulk' # "whole"
        /\ todo' = Due' /\ result' = Nothing
    BY <1>6 DEF BulkFails, FetchEnds, IInv, PhaseInv, world, Due
  <2>2. TrueInv' /\ ResultInv'
    BY <2>1, NothingFound, VmsAssumption DEF TrueInv, GotHosts
  <2>3. QED
    BY <2>1, <2>2, Zenon DEF SteadyInv, CoverInv
<1>7. ASSUME NEW v \in Vms, CheckVm(v) PROVE SteadyInv'
  <2>1. /\ phase = "check" /\ phase' = "check" /\ phase' # "pages" /\ phase # "idle"
        /\ v \in todo /\ todo' = todo \ {v}
        /\ UNCHANGED <<zabbix, table, got, bulk, missed>>
    BY <1>7 DEF CheckVm, NextVm, world
  <2>2. steady' => steady
    BY <1>7, Zenon DEF CheckVm
  <2>3. Inside => TrueInv'
    BY <2>1 DEF TrueInv, GotHosts
  <2>4. Inside => CoverInv'
    <3>1. CoverInv => (bulk' = "whole" => zabbix' \subseteq GotHosts')
      <4>1. CoverInv => (bulk = "whole" => zabbix \subseteq GotHosts)
        BY <2>1, Zenon DEF CoverInv
      <4>2. QED
        BY <2>1, <4>1 DEF GotHosts
    <3>2. QED
      BY <2>1, <3>1, Zenon DEF CoverInv
  <2>5. Inside => ResultInv'
    <3> SUFFICES ASSUME Inside, NEW w \in Due'
                 PROVE  /\ result'[w] # Absent => result'[w] \in Matches(w)'
                        /\ w \notin todo' /\ w \notin missed' /\ Matches(w)' # {} =>
                              result'[w] # Absent
      BY Zenon DEF ResultInv
    <3>1. Matches(w)' = Matches(w) /\ w \in Due
      BY <2>1 DEF Matches, Named, Reached, Due
    <3>2. /\ result[w] # Absent => result[w] \in Matches(w)
          /\ w \notin todo /\ w \notin missed /\ Matches(w) # {} => result[w] # Absent
      BY <2>1, <3>1 DEF ResultInv
    <3>3. w # v => result'[w] = result[w]
      BY <1>7, <3>1 DEF CheckVm, IInv, TypeOK, Due
    <3>4. /\ FoundFor(v) \subseteq Matches(v)
          /\ FoundFor(v) = {} => Matches(v) = {}
      BY <2>1, FoundMatches
    <3>5. CASE w = v
      <4>1. CASE FoundFor(v) = {} /\ result' = result
        BY <3>1, <3>2, <3>4, <3>5, <4>1
      <4>2. ASSUME NEW h \in FoundFor(v), result' = [result EXCEPT ![v] = h]
            PROVE  result'[v] \in Matches(v) /\ result'[v] # Absent
        <5>1. result'[v] = h /\ h \in Matches(v)
          BY <3>4, <4>2 DEF IInv, TypeOK
        <5>2. h \in Host
          BY <5>1 DEF Matches, Named, Reached, IInv, WorldInv
        <5>3. QED
          BY <5>1, <5>2, VmsAssumption
      <4>3. QED
        BY <1>7, <3>1, <3>5, <4>1, <4>2 DEF CheckVm, FoundFor
    <3>6. CASE w # v
      BY <2>1, <3>1, <3>2, <3>3, <3>6
    <3>7. QED
      BY <3>5, <3>6
  <2> HIDE DEF Inside
  <2>6. QED
    BY <1>0, <2>1, <2>2, <2>3, <2>4, <2>5, Zenon DEF SteadyInv
<1>8. ASSUME NEW v \in Vms, CheckVmFails(v) PROVE SteadyInv'
  <2>1. /\ phase = "check" /\ phase' = "check" /\ phase' # "pages" /\ phase # "idle"
        /\ todo' = todo \ {v} /\ missed' = missed \cup {v}
        /\ UNCHANGED <<zabbix, table, got, bulk, result>>
    BY <1>8 DEF CheckVmFails, NextVm, world
  <2>2. steady' => steady
    BY <1>8, Zenon DEF CheckVmFails
  <2>3. Inside => TrueInv'
    BY <2>1 DEF TrueInv, GotHosts
  <2>4. Inside => CoverInv'
    <3>1. CoverInv => (bulk' = "whole" => zabbix' \subseteq GotHosts')
      <4>1. CoverInv => (bulk = "whole" => zabbix \subseteq GotHosts)
        BY <2>1, Zenon DEF CoverInv
      <4>2. QED
        BY <2>1, <4>1 DEF GotHosts
    <3>2. QED
      BY <2>1, <3>1, Zenon DEF CoverInv
  <2>5. Inside => ResultInv'
    <3>1. \A w : Matches(w)' = Matches(w)
      BY <2>1 DEF Matches, Named, Reached
    <3>2. Due' = Due
      BY <2>1 DEF Due
    <3>3. QED
      BY <2>1, <3>1, <3>2 DEF ResultInv
  <2> HIDE DEF Inside
  <2>6. QED
    BY <1>0, <2>1, <2>2, <2>3, <2>4, <2>5, Zenon DEF SteadyInv
<1>9. CASE Store
  BY <1>9, Zenon DEF Store, Over, SteadyInv
<1>10. CASE StoreFails
  BY <1>10, Zenon DEF StoreFails, Over, SteadyInv
<1>11. CASE Crash
  BY <1>11, Zenon DEF Crash, Over, SteadyInv
<1>12. CASE UNCHANGED vars
  <2>1. UNCHANGED <<zabbix, table, got, bulk, todo, missed, result, phase, page>>
    BY <1>12 DEF vars, world
  <2>2. (steady' => steady) /\ (honest' => honest)
    BY <1>12, Zenon DEF vars, world
  <2>3. TrueInv => TrueInv'
    BY <2>1 DEF TrueInv, GotHosts
  <2>4. ResultInv => ResultInv'
    BY <2>1 DEF ResultInv, Matches, Named, Reached, Due
  <2>5. PagesCovered => PagesCovered'
    BY <2>1 DEF PagesCovered, GotHosts, Rank, Before
  <2>6. zabbix \subseteq GotHosts => zabbix' \subseteq GotHosts'
    BY <2>1 DEF GotHosts
  <2>7. phase' = phase /\ bulk' = bulk
    BY <2>1
  <2>8. CoverInv => CoverInv'
    BY <2>2, <2>5, <2>6, <2>7, Zenon DEF CoverInv
  <2>9. QED
    BY <2>2, <2>3, <2>4, <2>7, <2>8, Zenon DEF SteadyInv
<1>13. QED
  BY <1>1, <1>2, <1>3, <1>4, <1>5, <1>6, <1>7, <1>8, <1>9, <1>10, <1>11, <1>12
     DEF Next, Check

-----------------------------------------------------------------------------
(* What is shown *)

ShownInv == /\ phase # "idle" => ~fresh
            /\ MonitoredVmsAreShown /\ NothingElseIsActive

\* The hosts that stand for a VM are hosts of Zabbix.
LEMMA MatchesAreHosts == ASSUME NEW v PROVE Matches(v) \subseteq zabbix
BY DEF Matches, Named, Reached

\* Every VM for which there is a host gets a row with its status.
LEMMA StoreShows ==
    ASSUME IInv, ResultInv, Store, NEW v \in Due \ missed, Matches(v) # {}
    PROVE  \E h \in Matches(v) :
              /\ rows'[h.id] # Absent /\ rows'[h.id].status = h.status
              /\ rows'[h.id].vm \in {w \in Due : w >= v /\ h \in Matches(w)}
<1> DEFINE h == result[v]
           i == h.id
           w == Max(StoredFor(i))
<1>1. phase = "check" /\ todo = {} /\ rows' = [j \in HostIds |-> Stored(j)]
  BY DEF Store
<1>2. h # Absent /\ h \in Matches(v) /\ h \in zabbix
  BY <1>1, MatchesAreHosts DEF ResultInv
<1>3. h \in Host /\ i \in HostIds
  BY <1>2 DEF IInv, WorldInv, Host
<1>4. v \in StoredFor(i)
  BY <1>2 DEF StoredFor, Found
<1>5. /\ w \in StoredFor(i) /\ w \in Vms /\ w >= v
      /\ w \in Due /\ result[w] \in Host /\ result[w].id = i
      /\ Stored(i) = [vm |-> w, status |-> result[w].status]
      /\ Stored(i) \in Row \cup {Absent}
  <2> HIDE DEF h, i, w
  <2>1. QED
    BY <1>3, <1>4, LastStored, StoredType DEF IInv, w
<1>6. result[w] \in Matches(w) /\ result[w] \in zabbix
  BY <1>1, <1>5, VmsAssumption, MatchesAreHosts DEF ResultInv
<1>7. result[w] = h
  BY <1>2, <1>5, <1>6 DEF IInv, WorldInv
<1> HIDE DEF h, i, w
<1>8. rows'[i] = [vm |-> w, status |-> h.status]
  BY <1>1, <1>3, <1>5, <1>7
<1>9. rows'[i] # Absent
  <2>1. [vm |-> w, status |-> h.status] \in Row
    BY <1>3, <1>5 DEF Row, Host
  <2>2. QED
    BY <1>8, <2>1, VmsAssumption
<1>10. QED
  BY <1>2, <1>5, <1>6, <1>7, <1>8, <1>9 DEF i

\* Every other row of the accounts checked goes offline.
LEMMA StoreHides ==
    ASSUME IInv, ResultInv, Store, NEW i \in HostIds,
           rows'[i] # Absent, rows'[i].status = "active",
           AccountOf[rows'[i].vm] \in Checked
    PROVE  \E v \in Due : \E h \in Matches(v) : h.id = i /\ h.status = "active"
<1>1. phase = "check" /\ rows'[i] = Stored(i)
  BY DEF Store
<1>2. CASE StoredFor(i) # {}
  <2> DEFINE w == Max(StoredFor(i))
  <2>1. /\ w \in Due /\ result[w] \in Host /\ result[w].id = i
        /\ Stored(i) = [vm |-> w, status |-> result[w].status]
    BY <1>2, StoredType DEF IInv
  <2> HIDE DEF w
  <2>2. result[w] \in Matches(w)
    BY <1>1, <2>1, VmsAssumption DEF ResultInv
  <2>3. result[w].status = "active"
    BY <1>1, <2>1
  <2>4. QED
    BY <2>1, <2>2, <2>3
<1>3. CASE StoredFor(i) = {}
  <2>1. CASE Stale(rows[i])
    <3>1. rows'[i] = [rows[i] EXCEPT !.status = "offline"] /\ rows[i] \in Row
      BY <1>1, <1>3, <2>1 DEF Stored, Stale, IInv, TypeOK
    <3>2. rows'[i].status = "offline"
      BY <3>1 DEF Row
    <3>3. QED
      BY <3>2
  <2>2. CASE ~Stale(rows[i])
    <3>1. rows'[i] = rows[i]
      BY <1>1, <1>3, <2>2 DEF Stored
    <3>2. QED
      BY <2>2, <3>1 DEF Stale
  <2>3. QED
    BY <2>1, <2>2
<1>4. QED
  BY <1>2, <1>3

\* As long as nothing changes, what is shown stays right.
LEMMA ShownStays ==
    ASSUME ShownInv, UNCHANGED <<zabbix, table, rows, bulk, missed>>, fresh' => fresh
    PROVE  MonitoredVmsAreShown' /\ NothingElseIsActive'
<1> DEFINE Shown ==
        \A v \in Due \ missed : Matches(v) # {} =>
            \E h \in Matches(v) :
                /\ rows[h.id] # Absent /\ rows[h.id].status = h.status
                /\ rows[h.id].vm \in {w \in Due : w >= v /\ h \in Matches(w)}
           Hidden ==
        \A i \in HostIds :
            (rows[i] # Absent /\ rows[i].status = "active" /\ AccountOf[rows[i].vm] \in Checked) =>
                \E v \in Due : \E h \in Matches(v) : h.id = i /\ h.status = "active"
<1>1. fresh => Shown /\ Hidden
  BY Zenon DEF ShownInv, MonitoredVmsAreShown, NothingElseIsActive
<1>2. Shown => Shown'
  BY DEF Matches, Named, Reached, Due
<1>3. Hidden => Hidden'
  BY DEF Matches, Named, Reached, Due, Checked
<1>4. fresh' => Shown' /\ Hidden'
  <2> HIDE DEF Shown, Hidden
  <2>1. QED
    BY <1>1, <1>2, <1>3, Zenon
<1>5. QED
  BY <1>4, Zenon DEF MonitoredVmsAreShown, NothingElseIsActive

LEMMA ShownStep == IInv /\ SteadyInv /\ ShownInv /\ [Next]_vars => ShownInv'
<1> SUFFICES ASSUME IInv, SteadyInv, ShownInv, [Next]_vars PROVE ShownInv'
  OBVIOUS
<1>0. phase # "idle" => ~fresh
  BY Zenon DEF ShownInv
<1>a. ~fresh' => ShownInv'
  BY Zenon DEF ShownInv, MonitoredVmsAreShown, NothingElseIsActive
<1>1. CASE ZabbixChanges
  BY <1>a, <1>1, Zenon DEF ZabbixChanges
<1>2. CASE TableChanges
  BY <1>a, <1>2, Zenon DEF TableChanges
<1>3. CASE Begin
  BY <1>a, <1>3, Zenon DEF Begin
<1>4. CASE FetchPage
  <2>1. phase # "idle"
    BY <1>4 DEF FetchPage
  <2>2. QED
    BY <1>0, <1>a, <1>4, <2>1, Zenon DEF FetchPage
<1>5. CASE Reauthenticate
  <2>1. phase # "idle"
    BY <1>5 DEF Reauthenticate
  <2>2. QED
    BY <1>0, <1>a, <1>5, <2>1, Zenon DEF Reauthenticate
<1>6. CASE BulkFails
  <2>1. phase # "idle"
    BY <1>6 DEF BulkFails
  <2>2. QED
    BY <1>0, <1>a, <1>6, <2>1, Zenon DEF BulkFails
<1>7. ASSUME NEW v \in Vms, CheckVm(v) PROVE ShownInv'
  <2>1. phase # "idle"
    BY <1>7 DEF CheckVm, NextVm
  <2>2. QED
    BY <1>0, <1>a, <1>7, <2>1, Zenon DEF CheckVm
<1>8. ASSUME NEW v \in Vms, CheckVmFails(v) PROVE ShownInv'
  <2>1. phase # "idle"
    BY <1>8 DEF CheckVmFails, NextVm
  <2>2. QED
    BY <1>0, <1>a, <1>8, <2>1, Zenon DEF CheckVmFails
<1>9. CASE Store
  <2>1. phase = "check" /\ phase # "idle" /\ phase' = "idle"
    BY <1>9 DEF Store, Over
  <2>2. steady => ResultInv
    BY <2>1, Zenon DEF SteadyInv
  <2>3. /\ Due' = Due /\ missed' = missed /\ Checked' = Checked
        /\ \A v : Matches(v)' = Matches(v)
    BY <1>9 DEF Store, world, Due, Checked, Matches, Named, Reached
  <2>4. ResultInv => MonitoredVmsAreShown'
    <3> SUFFICES ASSUME ResultInv, NEW v \in Due' \ missed', Matches(v)' # {}
                 PROVE  \E h \in Matches(v)' :
                           /\ rows'[h.id] # Absent /\ rows'[h.id].status = h.status
                           /\ rows'[h.id].vm \in {w \in Due' : w >= v /\ h \in Matches(w)'}
      BY Zenon DEF MonitoredVmsAreShown
    <3>1. QED
      BY <1>9, <2>3, StoreShows
  <2>5. ResultInv => NothingElseIsActive'
    <3> SUFFICES ASSUME ResultInv, NEW i \in HostIds,
                        rows'[i] # Absent, rows'[i].status = "active",
                        AccountOf[rows'[i].vm] \in Checked'
                 PROVE  \E v \in Due' : \E h \in Matches(v)' : h.id = i /\ h.status = "active"
      BY Zenon DEF NothingElseIsActive
    <3>1. QED
      BY <1>9, <2>3, StoreHides
  <2>6. fresh' => steady
    BY <1>9, Zenon DEF Store
  <2>7. phase' = "idle"
    BY <2>1
  <2>8. QED
    BY <1>a, <2>2, <2>4, <2>5, <2>6, <2>7, Zenon DEF ShownInv
<1>10. CASE StoreFails
  <2>1. phase # "idle"
    BY <1>10 DEF StoreFails
  <2>2. QED
    BY <1>0, <1>a, <1>10, <2>1, Zenon DEF StoreFails
<1>11. CASE Crash
  <2>1. phase # "idle"
    BY <1>11 DEF Crash
  <2>2. QED
    BY <1>0, <1>a, <1>11, <2>1, Zenon DEF Crash
<1>12. CASE UNCHANGED vars
  <2>1. UNCHANGED <<zabbix, table, rows, bulk, missed, phase>>
    BY <1>12 DEF vars, world
  <2>2. fresh' => fresh
    BY <1>12, Zenon DEF vars
  <2>3. MonitoredVmsAreShown' /\ NothingElseIsActive'
    BY <2>1, <2>2, ShownStays
  <2>4. QED
    BY <1>0, <2>1, <2>2, <2>3, Zenon DEF ShownInv
<1>13. QED
  BY <1>1, <1>2, <1>3, <1>4, <1>5, <1>6, <1>7, <1>8, <1>9, <1>10, <1>11, <1>12
     DEF Next, Check

LEMMA ShownInvariance == Spec => [](SteadyInv /\ ShownInv)
<1>1. Init => SteadyInv /\ ShownInv
  BY Zenon DEF Init, SteadyInv, ShownInv, MonitoredVmsAreShown, NothingElseIsActive
<1>2. QED
  BY <1>1, SteadyStep, ShownStep, Invariance, PTL DEF Spec

\* Every VM that Zabbix knows is shown with the status of its host when a check is
\* stored, unless a query of its own failed or Zabbix has changed since the check began,
\* however many pages there are and whatever became of them (check_all_vms_monitoring,
\* upsert_monitoring_host).
THEOREM MonitoredAreShown == Spec => []MonitoredVmsAreShown
<1>1. ShownInv => MonitoredVmsAreShown
  BY Zenon DEF ShownInv
<1>2. QED
  BY <1>1, ShownInvariance, PTL

\* Once a check is stored, rows of its accounts are active only for hosts that stand
\* for a VM that was checked; all others are offline (mark_monitoring_hosts_stale).
THEOREM NothingElseIsShown == Spec => []NothingElseIsActive
<1>1. ShownInv => NothingElseIsActive
  BY Zenon DEF ShownInv
<1>2. QED
  BY <1>1, ShownInvariance, PTL

-----------------------------------------------------------------------------
(* Action properties *)

LEMMA RowSteps == [Next]_vars => UNCHANGED rows \/ Store
<1> SUFFICES ASSUME [Next]_vars PROVE UNCHANGED rows \/ Store
  OBVIOUS
<1>1. CASE ZabbixChanges
  BY <1>1 DEF ZabbixChanges
<1>2. CASE TableChanges
  BY <1>2 DEF TableChanges
<1>3. CASE Begin
  BY <1>3 DEF Begin
<1>4. CASE FetchPage
  BY <1>4 DEF FetchPage
<1>5. CASE Reauthenticate
  BY <1>5 DEF Reauthenticate
<1>6. CASE BulkFails
  BY <1>6 DEF BulkFails
<1>7. ASSUME NEW v \in Vms, CheckVm(v) PROVE UNCHANGED rows
  BY <1>7 DEF CheckVm
<1>8. ASSUME NEW v \in Vms, CheckVmFails(v) PROVE UNCHANGED rows
  BY <1>8 DEF CheckVmFails
<1>9. CASE Store
  BY <1>9
<1>10. CASE StoreFails
  BY <1>10 DEF StoreFails
<1>11. CASE Crash
  BY <1>11 DEF Crash
<1>12. CASE UNCHANGED vars
  BY <1>12 DEF vars
<1>13. QED
  BY <1>1, <1>2, <1>3, <1>4, <1>5, <1>6, <1>7, <1>8, <1>9, <1>10, <1>11, <1>12
     DEF Next, Check

\* A check that is cut off or fails leaves no trace in the rows
\* (ingest_monitoring_hosts: session.rollback).
THEOREM RowsBySuccess == Spec => RowsChangeOnlyBySuccess
<1>1. [Next]_vars => [rows' # rows => todo = {} /\ run' = "success"]_vars
  <2> SUFFICES ASSUME [Next]_vars, rows' # rows PROVE todo = {} /\ run' = "success"
    OBVIOUS
  <2>1. QED
    BY RowSteps DEF Store
<1>2. QED
  BY <1>1, PTL DEF Spec, RowsChangeOnlyBySuccess

\* Rows of accounts that are not checked are not touched, unless the host turns out
\* to be that of a VM of another account (mark_monitoring_hosts_stale).
THEOREM OtherAccountsKeepRows == Spec => UncheckedAccountsKeepTheirRows
<1> DEFINE Kept ==
        \A i \in HostIds :
            (rows[i] # Absent /\ AccountOf[rows[i].vm] \notin Checked /\ rows'[i] # rows[i]) =>
                rows'[i].vm \in Due /\ result[rows'[i].vm].id = i
<1>1. IInv /\ [Next]_vars => Kept
  <2> SUFFICES ASSUME IInv, [Next]_vars, NEW i \in HostIds,
                      rows[i] # Absent, AccountOf[rows[i].vm] \notin Checked, rows'[i] # rows[i]
               PROVE  rows'[i].vm \in Due /\ result[rows'[i].vm].id = i
    OBVIOUS
  <2>1. rows'[i] = Stored(i)
    BY RowSteps DEF Store
  <2>2. StoredFor(i) # {}
    BY <2>1 DEF Stored, Stale
  <2>3. QED
    BY <2>1, <2>2, StoredType DEF IInv
<1>2. QED
  BY <1>1, Invariance, PTL DEF Spec, UncheckedAccountsKeepTheirRows
=============================================================================
