------------------------------ MODULE Comparison ------------------------------
(***************************************************************************)
(* ComparisonEngine.compare (comparison/engine.py) with monitored names,   *)
(* as the comparison page calls it: which VM of the clouds and which VM of *)
(* NetBox share a row of the table, and what the table says is missing.    *)
(*                                                                         *)
(* Rows are made by name.  Then, in the order of names, a row that lacks a *)
(* system looks for a VM of that system that has one of its addresses and  *)
(* claims the name of that VM, whose own rows are dropped at the end.      *)
(* The addresses of a row are a Python set, so which is tried first is     *)
(* arbitrary; the VMs that have an address come as the database sorts them,*)
(* by names with capitals, and any of them may be the first here.          *)
(*                                                                         *)
(* A name stands for what remains of it after lower(), and is a number:    *)
(* its place in the order.  An account has one VM of a name, NetBox too.   *)
(* The table of Zabbix hosts (compare without monitored names) is used by  *)
(* tests only and left out.                                                *)
(***************************************************************************)
EXTENDS Naturals, FiniteSets

CONSTANTS Names,      \* names of VMs: numbers
          Addrs,      \* addresses
          Accounts,   \* cloud accounts
          NoAccount   \* the account of a row for a VM that NetBox alone knows

ASSUME NamesAssumption == Names \subseteq Nat
ASSUME NoAccountAssumption == NoAccount \notin Accounts

\* What is compared.  A VM of a cloud is named by its name and its account.
Inputs == [cloud : SUBSET (Names \X Accounts), cloudAddrs : [Names \X Accounts -> SUBSET Addrs],
           netbox : SUBSET Names, netboxAddrs : [Names -> SUBSET Addrs],
           monitored : SUBSET Names]

Systems == {"cloud", "netbox"}
RowIds  == Names \X (Accounts \cup {NoAccount})
NoRow   == <<>>

VARIABLES
    input,   \* the VMs that are compared
    left,    \* rows that have not looked for their missing system yet
    found,   \* found[r]: the systems that row r is in
    owner    \* owner[n]: the row that claimed name n, or NoRow

compared == <<input, left, found, owner>>

\* ip_merged_names.
Taken == {n \in Names : owner[n] # NoRow}

CompareTypeOK ==
    /\ input \in Inputs
    /\ left \subseteq RowIds
    /\ found \in [RowIds -> SUBSET Systems]
    /\ owner \in [Names -> RowIds \cup {NoRow}]

-----------------------------------------------------------------------------
(* Lookup tables: cloud_by_name, netbox_by_name, cloud_by_ip, netbox_by_ip. *)

CloudNames(in) == {vm[1] : vm \in in.cloud}

\* The names of a system's VMs.
NamesIn(in, s) == IF s = "cloud" THEN CloudNames(in) ELSE in.netbox

\* The addresses of the VMs named n of a system.
AddrsIn(in, s, n) ==
    IF s = "cloud" THEN UNION {in.cloudAddrs[vm] : vm \in {x \in in.cloud : x[1] = n}}
    ELSE IF n \in in.netbox THEN in.netboxAddrs[n] ELSE {}

\* state_ips: the addresses of all VMs that have the name of a row.
AddrsOf(in, n) == AddrsIn(in, "cloud", n) \cup AddrsIn(in, "netbox", n)

\* The rows made by name: one for each VM of a cloud, and one for each name
\* that NetBox alone has.
Rows(in) == in.cloud \cup ((in.netbox \ CloudNames(in)) \X {NoAccount})

\* The systems of a row by its name.
ByName(in, r) ==
    (IF r[2] # NoAccount THEN {"cloud"} ELSE {})
    \cup (IF r[1] \in in.netbox THEN {"netbox"} ELSE {})

-----------------------------------------------------------------------------
(* The engine.                                                             *)

CompareInit ==
    /\ input = [cloud |-> {}, cloudAddrs |-> [vm \in Names \X Accounts |-> {}],
                netbox |-> {}, netboxAddrs |-> [n \in Names |-> {}], monitored |-> {}]
    /\ left = {}
    /\ found = [r \in RowIds |-> {}]
    /\ owner = [n \in Names |-> NoRow]

\* Name-based matching.
Compare(in) ==
    /\ left = {}
    /\ input' = in
    /\ left' = Rows(in)
    /\ found' = [r \in RowIds |-> IF r \in Rows(in) THEN ByName(in, r) ELSE {}]
    /\ owner' = [n \in Names |-> NoRow]

\* Mutant: a name may be claimed twice.
MutantCandidates(s, n, x) ==
    {m \in NamesIn(input, s) \ {n} : x \in AddrsIn(input, s, m)}

\* Names of system s that row n may claim for address x.
Candidates(s, n, x) ==
    {m \in NamesIn(input, s) \ (Taken \cup {n}) : x \in AddrsIn(input, s, m)}

\* Mutant: only the first VM of an address is looked at.
MutantClaims(s, n) ==
    {m \in Names \ Taken : \E x \in AddrsOf(input, n) :
        LET all == {k \in NamesIn(input, s) \ {n} : x \in AddrsIn(input, s, k)}
        IN  m \in all /\ \A k \in all : m <= k}

\* What row n may claim in system s: a VM of one of its addresses.
Claims(s, n) == UNION {Candidates(s, n, x) : x \in AddrsOf(input, n)}

\* Address-based fallback for one row; a name that is claimed is passed over.
Visit(r) ==
    /\ r \in left /\ \A q \in left : r[1] <= q[1]
    /\ left' = left \ {r}
    /\ LET wanted == IF r[1] \in Taken THEN {} ELSE Systems \ found[r] IN
       \/ /\ \A s \in wanted : Claims(s, r[1]) = {}
          /\ UNCHANGED <<found, owner>>
       \/ \E s \in wanted : \E m \in Claims(s, r[1]) :
             /\ found' = [found EXCEPT ![r] = @ \cup {s}]
             /\ owner' = [owner EXCEPT ![m] = r]
    /\ UNCHANGED input

\* Mutant: rows whose name was claimed are not dropped.
MutantShown == Rows(input)

\* The rows of the table, once the comparison is over.
Shown == {r \in Rows(input) : r[1] \notin Taken}

\* _compute_discrepancies: pairs of a system that a row is in and one it lacks.
Missing(r, netboxConfigured, monitoringConfigured, exempt) ==
    LET monitored == r[1] \in input.monitored
        nb(s) == s = "netbox" => netboxConfigured
    IN  (IF netboxConfigured THEN found[r] \X (Systems \ found[r]) ELSE {})
        \cup
        (IF ~monitoringConfigured \/ r[1] \in exempt THEN {}
         ELSE IF monitored
              THEN {<<"monitoring", s>> : s \in {t \in Systems \ found[r] : nb(t)}}
              ELSE {<<s, "monitoring">> : s \in {t \in found[r] : nb(t)}})

-----------------------------------------------------------------------------
(* Properties                                                              *)

\* s has a VM that stands behind row r: one of its name, or one that the row, and
\* no other, has claimed for an address of its own.
Backed(r, s) ==
    \/ r[1] \in NamesIn(input, s)
    \/ \E m \in NamesIn(input, s) :
          /\ owner[m] = r
          /\ AddrsIn(input, s, m) \cap AddrsOf(input, r[1]) # {}

\* A row is shown in a system only because of a VM of that system, and no VM that
\* was claimed for its address stands behind two rows: no discrepancy is hidden by
\* a VM that belongs elsewhere (ip_merged_names, engine.py:150).
SystemsAreBacked ==
    \A r \in Rows(input) : \A s \in found[r] : Backed(r, s)

\* When the comparison is over, a row of the table that lacks a system really has no
\* VM there: none of its name, and every VM with one of its addresses has been
\* claimed by a row.
GapsAreReal ==
    left = {} => \A r \in Shown : \A s \in Systems \ found[r] :
        /\ r[1] \notin NamesIn(input, s)
        /\ \A m \in NamesIn(input, s) :
              AddrsIn(input, s, m) \cap AddrsOf(input, r[1]) # {} => m \in Taken
=============================================================================
