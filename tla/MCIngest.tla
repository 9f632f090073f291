------------------------------ MODULE MCIngest ------------------------------
(* Instances of Ingest for TLC. *)
EXTENDS Ingest, TLC

\* The configuration file lists any set of accounts, differently at every start.
AnyFile == SUBSET Accounts

\* One file, which lists all accounts.
FullFile == {Accounts}

\* Accounts and ids are interchangeable in every definition of Ingest.
Symmetry == Permutations(Accounts) \cup Permutations(Ids)
=============================================================================
