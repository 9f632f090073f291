------------------------------ MODULE MCService ------------------------------
(* Instances of Service for TLC. *)
EXTENDS Service, TLC

\* One file, which lists all accounts.
FullFile == {Accounts}

Symmetry == Permutations(Ids)
==============================================================================
