----------------------------- MODULE AuditLedger -----------------------------
(***************************************************************************)
(* What the sync pipeline promises about one repository, with no           *)
(* goroutines, fetch paths, tables or crashes: verdicts are only ever      *)
(* added, and the tip a branch's cursor names moves only to a commit whose *)
(* whole ancestry has been audited, or was left out by the dates of a      *)
(* listing.  SyncPipeline implements it.                                   *)
(***************************************************************************)
CONSTANTS Commit, Branch, None, Reach

VARIABLES
  audited,  \* commits with a verdict
  tip,      \* the commit each branch is known to be audited up to
  excused   \* per branch, commits left out by the dates of a listing

ledger == <<audited, tip, excused>>

Init ==
  /\ audited = {}
  /\ tip = [b \in Branch |-> None]
  /\ excused = [b \in Branch |-> {}]

\* A sweep records verdicts for any set of commits.
Audit ==
  /\ \E S \in SUBSET Commit : audited' = audited \cup S
  /\ UNCHANGED <<tip, excused>>

\* A listing by date leaves commits of one branch out.
Excuse(b) ==
  /\ \E S \in SUBSET Commit : excused' = [excused EXCEPT ![b] = @ \cup S]
  /\ UNCHANGED <<audited, tip>>

\* The cursor moves to t only when everything reachable from t is settled.
Advance(b, t) ==
  /\ Reach[t] \subseteq audited \cup excused[b]
  /\ tip' = [tip EXCEPT ![b] = t]
  /\ UNCHANGED <<audited, excused>>

Next ==
  \/ Audit
  \/ \E b \in Branch : Excuse(b)
  \/ \E b \in Branch, t \in Commit : Advance(b, t)

Spec == Init /\ [][Next]_ledger
==============================================================================
