------------------------------ MODULE BackfillPR ------------------------------
(***************************************************************************)
(* The command backfill-missing-prs (cmd/backfill.go) beside the sync of   *)
(* MergedPRFreeze: it finds the merged pull request of a commit that was   *)
(* judged to have none, stores it, and re-audits that commit offline.      *)
(*                                                                         *)
(* The database file admits one process, so a sync runs or a backfill      *)
(* does.  The candidate commit is not one of the Batch commits, but it     *)
(* belongs to the same pull request.                                       *)
(***************************************************************************)
EXTENDS MergedPRFreeze

VARIABLES
  bf,        \* the next step of persistBackfilledPR, "off" between commands
  torn,      \* history: the last backfill stopped half-way
  recovered  \* audit_results of the candidate: what its new verdict was based on

backfill == <<bf, torn, recovered>>
bvars == <<vars, backfill>>

BInit == Init /\ bf = "off" /\ torn = FALSE /\ recovered = None

\* The order persistBackfilledPR stores the kinds in.
AfterBackfill(k) == IF k = "commits" THEN "link" ELSE After(k)

\* The PR row goes FIRST.
BackfillPullRequest ==
  /\ run = {} /\ bf = "off"
  /\ prRow' = TRUE
  /\ bf' = "reviews"
  /\ UNCHANGED <<ci, rows, verdict, run, caches, batches, writer, budget, torn, recovered>>

\* Mutant: a failed listing is taken for an empty one.
BackfillRows_IgnoresErrors ==
  /\ bf \in {"reviews", "checks"}
  /\ \/ /\ rows' = [rows EXCEPT ![bf] = IF OnGitHub(bf) = "absent" THEN @ ELSE OnGitHub(bf)]
        /\ UNCHANGED budget
     \/ Fault /\ UNCHANGED rows
  /\ bf' = AfterBackfill(bf)
  /\ UNCHANGED <<ci, prRow, verdict, run, caches, batches, writer, torn, recovered>>

\* List one kind and store it.
BackfillRows ==
  /\ bf \in {"reviews", "checks"}
  /\ rows' = [rows EXCEPT ![bf] = IF OnGitHub(bf) = "absent" THEN @ ELSE OnGitHub(bf)]
  /\ bf' = AfterBackfill(bf)
  /\ UNCHANGED <<ci, prRow, verdict, run, caches, batches, writer, budget, torn, recovered>>

\* The PR's branch commits go into commits, but not into commit_prs, through
\* which every reader finds them.
BackfillCommits ==
  /\ bf = "commits"
  /\ bf' = AfterBackfill(bf)
  /\ UNCHANGED <<vars, torn, recovered>>

\* The candidate, and only it, is linked to the PR and re-audited from the tables.
BackfillLink ==
  /\ bf = "link"
  /\ recovered' = rows
  /\ bf' = "off"
  /\ torn' = FALSE
  /\ UNCHANGED vars

\* A call or a statement fails, or the process dies.
BackfillFails ==
  /\ bf # "off"
  /\ Fault
  /\ bf' = "off"
  /\ torn' = TRUE
  /\ UNCHANGED <<ci, tables, run, caches, batches, writer, recovered>>

BackfillStep ==
  BackfillPullRequest \/ BackfillRows \/ BackfillCommits \/ BackfillLink \/ BackfillFails

BNext ==
  \/ CIDone /\ UNCHANGED backfill
  \/ bf = "off" /\ Next /\ UNCHANGED backfill
  \/ BackfillStep

BSpec == BInit /\ [][BNext]_bvars

-----------------------------------------------------------------------------
(* Properties *)

\* backfill.go persistBackfilledPR: a backfill that completes leaves no hole in
\* the reviews and check runs behind its PR row, not even the one an earlier
\* torn backfill left; and the candidate's new verdict rests on such rows.
BackfillRepairs ==
  /\ bf = "off" /\ ~torn => \A k \in Truth \ {"commits"} : prRow => rows[k] # "absent"
  /\ recovered # None => \A k \in Truth \ {"commits"} : recovered[k] # "absent"
=============================================================================
