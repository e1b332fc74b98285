--------------------------- MODULE MCSyncPipeline ---------------------------
(***************************************************************************)
(* Instances of SyncPipeline for TLC.                                      *)
(*                                                                         *)
(*      1 --- 2 --- 3       2 is backdated below every window              *)
(*       \                                                                 *)
(*        4                 on diverged history                            *)
(*       \                                                                 *)
(*        5                 the PR-branch commit of the squash commit 3    *)
(***************************************************************************)
EXTENDS SyncPipeline

MCReach == [c \in Commit |-> CASE c = 3 -> {1, 2, 3} [] OTHER -> {1, c}]
MCDate == [c \in Commit |-> CASE c = 2 -> 1 [] OTHER -> c + 3]
MCPRCommit == [c \in Commit |-> IF c = 3 THEN {5} ELSE {}]

\* The PR's head ref: a feature branch, or a fork's branch with an audited name.
FeatureHead == [c \in Commit |-> None]
ForkOfMain == [c \in Commit |-> IF c = 3 THEN CHOOSE b \in Branch : TRUE ELSE None]

NoFlags == [since |-> 0, until |-> 0]
Unflagged == {NoFlags}
Flagged == {NoFlags, [since |-> 7, until |-> 0], [since |-> 0, until |-> 4]}

OneBehind == [b \in Branch |-> 1]
=============================================================================
