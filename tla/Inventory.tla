------------------------------ MODULE Inventory ------------------------------
(***************************************************************************)
(* What the database promises about the VMs of the cloud accounts, without *)
(* sessions, transactions, runs or clocks: the inventory of an account     *)
(* changes only by taking over a listing of that account as a whole.       *)
(*                                                                         *)
(* The promise is the one of DataIngestor and of mark_vms_stale: a VM of   *)
(* the listing is active, a known VM that the listing lacks goes offline,  *)
(* nothing is forgotten and no other account is touched.  When ingestion   *)
(* runs may overlap (Overlap), a VM that an overlapping run has just seen  *)
(* may stay active although this listing lacks it.                         *)
(***************************************************************************)
CONSTANTS Accounts,   \* cloud accounts
          Ids,        \* external ids of VMs
          Overlap     \* may two runs on one account overlap?

VARIABLE inv          \* inv[a][i]: "absent", "active" or "offline"

InvStatus == {"absent", "active", "offline"}

TypeOK == inv \in [Accounts -> [Ids -> InvStatus]]

Init == inv = [a \in Accounts |-> [i \in Ids |-> "absent"]]

\* The inventory of an account after a listing S, where the VMs of K were seen
\* by a run that overlaps.
Refreshed(old, S, K) ==
    [i \in Ids |-> IF i \in S THEN "active"
                   ELSE IF i \in K THEN old[i]
                   ELSE IF old[i] = "absent" THEN "absent" ELSE "offline"]

Refresh(a) ==
    \E S \in SUBSET Ids, K \in SUBSET (IF Overlap THEN Ids ELSE {}) :
        inv' = [inv EXCEPT ![a] = Refreshed(inv[a], S, K)]

Next == \E a \in Accounts : Refresh(a)

Spec == Init /\ [][Next]_inv
==============================================================================
