--------------------------- MODULE MCCommitDetails ---------------------------
(* A small instance of CommitDetails: two branches list both commits. *)
EXTENDS CommitDetails, TLC

MCReach == [b \in Branch |-> Commit]

\* Nothing tells the branches apart.
Symmetry == Permutations(Branch)
=============================================================================
