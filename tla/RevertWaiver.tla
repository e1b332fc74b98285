---------------------------- MODULE RevertWaiver ----------------------------
(***************************************************************************)
(* The life of a revert's row in audit_results: sync classifies the revert *)
(* against GitHub and stores the waiver it may earn; re-audit, backfill    *)
(* and annotate-commits rewrite the row offline and must carry over what   *)
(* they cannot compute; reclassify and verify-reverts fill it in later.    *)
(*                                                                         *)
(* Every verdict has reasons, so a stored row always holds a list, DuckDB  *)
(* cannot replace it, and bulkUpsert falls back to a DELETE and an INSERT  *)
(* in transactions of their own (internal/db/appender.go).  A commit here  *)
(* is one commit of a repository of its own: re-audit takes repositories   *)
(* in parallel, writes under writeMu, and one failure cancels them all.    *)
(* A command has the database file to itself.                              *)
(***************************************************************************)
EXTENDS Naturals, FiniteSets

CONSTANTS
  Commit,    \* one commit in each repository
  None,
  Kinds,     \* what commit messages may say
  MaxFault   \* bound on failed calls, failed statements and process deaths

AllKinds == {"plain", "again", "auto", "trailer", "button"}
Verification == {"", "none", "message-only", "diff-verified", "diff-mismatch"}
\* RevertMergeClassification; sha and merge: reverted_sha and merge_verification are set.
Class == [clean : BOOLEAN, ver : Verification, sha : BOOLEAN, merge : BOOLEAN]
Row == [class : Class, compliant : BOOLEAN]

ASSUME WaiverAssumption ==
  Kinds \subseteq AllKinds /\ MaxFault \in Nat /\ None \notin Row

VARIABLES
  kind,      \* what ParseRevert reads in the message; "button" has no SHA in it
  diff,      \* the patch beside the reverted one: "inverse", "other", "unshown"
  reviewed,  \* the commits that the stored evidence clears without any waiver
  row,       \* audit_results
  command,   \* the running command that writes more than one statement
  pc, work,  \* its goroutine for a commit's repository, and the result to store
  cancelled, \* gctx of re-audit
  proved,    \* history: commits a "diff-verified" was stored for
  shaken,    \* history: commits whose row or classification was lost since
  faults

facts   == <<kind, diff>>
history == <<proved, shaken>>
vars    == <<facts, reviewed, row, command, pc, work, cancelled, history, faults>>

Stages == {"idle", "todo", "single", "evaluated", "staged", "deleted", "done", "failed"}
Commands == {"none", "all", "failures", "single"}

TypeOK ==
  /\ kind \in [Commit -> Kinds] /\ diff \in [Commit -> {"inverse", "other", "unshown"}]
  /\ reviewed \in SUBSET Commit
  /\ row \in [Commit -> Row \cup {None}]
  /\ command \in Commands
  /\ pc \in [Commit -> Stages] /\ work \in [Commit -> Row \cup {None}]
  /\ cancelled \in BOOLEAN
  /\ proved \in SUBSET Commit /\ shaken \in SUBSET Commit
  /\ faults \in 0..MaxFault

-----------------------------------------------------------------------------
(* Classification and verdict *)

Manual(c) == kind[c] \in {"trailer", "button"}
IsRevert(c) == Manual(c) \/ kind[c] = "auto"
ParsedSHA(c) == kind[c] \in {"auto", "trailer"}

\* A patch that GitHub does not show verifies nothing.
IsCleanRevertDiff(c) == diff[c] = "inverse"

NoClass == [clean |-> FALSE, ver |-> "", sha |-> FALSE, merge |-> FALSE]

\* Mutant: a revert whose diffs could not be fetched is taken to be clean.
RevertClass_FailsOpen(c, sha, fetched) ==
  [clean |-> IsRevert(c) /\ (~fetched \/ IsCleanRevertDiff(c)), sha |-> sha, merge |-> TRUE,
   ver |-> IF IsRevert(c) THEN "diff-verified" ELSE "none"]

\* verifyRevertDiff: sha, the reverted commit is known; fetched, both diffs were.
RevertClass(c, sha, fetched) ==
  LET compared == sha /\ fetched
      ver == IF ~IsRevert(c) THEN "none"
             ELSE IF ~compared THEN "message-only"
             ELSE IF IsCleanRevertDiff(c) THEN "diff-verified" ELSE "diff-mismatch"
  IN [clean |-> ver = "diff-verified", ver |-> ver, sha |-> sha, merge |-> TRUE]

\* A failed look-up of the reverted PR, or one without a merge commit, gives no SHA.
classifyRevertAndMerge(c, found, fetched) ==
  RevertClass(c, ParsedSHA(c) \/ (kind[c] = "button" /\ found), fetched)

\* reviewed stands for the other rules; the waiver comes before the PR rules.
EvaluateCommit(c, class) == [class |-> class, compliant |-> class.clean \/ c \in reviewed]

StoredClass(c) == IF row[c] = None THEN NoClass ELSE row[c].class

Init ==
  /\ kind \in [Commit -> Kinds] /\ diff \in [Commit -> {"inverse", "other", "unshown"}]
  /\ reviewed \in SUBSET Commit
  \* A database may hold rows from before the merge columns existed.
  /\ \E old \in SUBSET Commit, fetched \in BOOLEAN :
       row = [c \in Commit |-> IF c \notin old THEN None ELSE
                EvaluateCommit(c, [classifyRevertAndMerge(c, TRUE, fetched) EXCEPT !.merge = FALSE])]
  /\ command = "none" /\ pc = [c \in Commit |-> "idle"] /\ work = [c \in Commit |-> None]
  /\ cancelled = FALSE
  /\ proved = {c \in Commit : StoredClass(c).ver = "diff-verified"} /\ shaken = {}
  /\ faults = 0

-----------------------------------------------------------------------------
(* Steps shared by the commands *)

Goto(c, stage) == pc' = [pc EXCEPT ![c] = stage]

Store(c, result) ==
  /\ row' = [row EXCEPT ![c] = result]
  /\ IF result.class.ver = "diff-verified"
     THEN proved' = proved \cup {c} /\ shaken' = shaken \ {c}
     ELSE UNCHANGED history

Fault(n) == faults' = faults + n /\ faults' <= MaxFault

\* bulkUpsert makes and fills the staging table; of re-audit's, one at a time (writeMu).
Stage(c) ==
  /\ pc[c] = "evaluated" /\ ~cancelled
  /\ \A d \in Commit : pc[d] \notin {"staged", "deleted"}
  /\ Goto(c, "staged")
  /\ UNCHANGED <<facts, reviewed, row, command, work, cancelled, history, faults>>

\* INSERT OR REPLACE succeeds when there is no row to replace.
Merge(c) ==
  /\ pc[c] = "staged" /\ ~cancelled /\ row[c] = None
  /\ Store(c, work[c])
  /\ Goto(c, "done") /\ work' = [work EXCEPT ![c] = None]
  /\ UNCHANGED <<facts, reviewed, command, cancelled, faults>>

\* "List Update is not supported": the fallback's first statement ...
DeleteColliding(c) ==
  /\ pc[c] = "staged" /\ ~cancelled /\ row[c] # None
  /\ row' = [row EXCEPT ![c] = None]
  /\ Goto(c, "deleted")
  /\ UNCHANGED <<facts, reviewed, command, work, cancelled, history, faults>>

\* ... and its second.
InsertStaged(c) ==
  /\ pc[c] = "deleted" /\ ~cancelled
  /\ Store(c, work[c])
  /\ Goto(c, "done") /\ work' = [work EXCEPT ![c] = None]
  /\ UNCHANGED <<facts, reviewed, command, cancelled, faults>>

Running == {"todo", "single", "evaluated", "staged", "deleted"}
Torn == {c \in Commit : pc[c] = "deleted"}

\* A statement fails, or finds the context cancelled by another repository's failure.
Fail(c) ==
  /\ pc[c] \in Running
  /\ IF cancelled THEN UNCHANGED faults ELSE Fault(1)
  /\ Goto(c, "failed") /\ work' = [work EXCEPT ![c] = None]
  /\ cancelled' = (command # "single")
  /\ shaken' = shaken \cup (Torn \cap {c})
  /\ UNCHANGED <<facts, reviewed, row, command, proved>>

Stop ==
  /\ command' = "none" /\ cancelled' = FALSE
  /\ pc' = [c \in Commit |-> "idle"] /\ work' = [c \in Commit |-> None]
  /\ UNCHANGED <<facts, reviewed, row, proved>>

Finish ==
  /\ command # "none" /\ \A c \in Commit : pc[c] \notin Running
  /\ Stop /\ UNCHANGED <<shaken, faults>>

Crash ==
  /\ command # "none" /\ Fault(1)
  /\ shaken' = shaken \cup Torn
  /\ Stop

-----------------------------------------------------------------------------
(* Commands *)

\* sync audits a commit without a row; the row is stored by one statement.
Sync(c) ==
  /\ command = "none" /\ row[c] = None
  /\ \E found, fetched \in BOOLEAN :
       /\ Fault(IF found /\ fetched THEN 0 ELSE 1)
       /\ Store(c, EvaluateCommit(c, classifyRevertAndMerge(c, found, fetched)))
  /\ UNCHANGED <<facts, reviewed, command, pc, work, cancelled>>

\* re-audit of the repositories in filter, of every row or of the failing ones.
ReAudit ==
  /\ command = "none"
  /\ \E which \in {"all", "failures"}, filter \in SUBSET Commit \ {{}} :
       /\ command' = which
       /\ pc' = [c \in Commit |-> IF c \in filter THEN "todo" ELSE "idle"]
  /\ UNCHANGED <<facts, reviewed, row, work, cancelled, history, faults>>

\* Mutant: --only-failures leaves out what carries a waiver already.
Candidate_NoWaiver(c) == command = "all" \/ (row[c] # None /\ ~row[c].compliant /\ ~row[c].class.clean)

\* loadCandidateCommits: all commits, audited or not, or those that fail.
Candidate(c) == command = "all" \/ (row[c] # None /\ ~row[c].compliant)

Evaluate(c) ==
  /\ pc[c] = "todo" /\ ~cancelled /\ Candidate(c)
  /\ work' = [work EXCEPT ![c] = EvaluateCommit(c, StoredClass(c))]
  /\ Goto(c, "evaluated")
  /\ UNCHANGED <<facts, reviewed, row, command, cancelled, history, faults>>

Skip(c) ==
  /\ pc[c] = "todo" /\ ~cancelled /\ ~Candidate(c)
  /\ Goto(c, "done")
  /\ UNCHANGED <<facts, reviewed, row, command, work, cancelled, history, faults>>

\* backfill-missing-prs finds the pull request of a failing commit and re-audits it.
\* pr_count is not kept: any failing row may be a candidate.
Backfill(c) ==
  /\ command = "none" /\ row[c] # None /\ ~row[c].compliant
  /\ reviewed' \in {reviewed, reviewed \cup {c}}
  /\ command' = "single" /\ Goto(c, "single")
  /\ UNCHANGED <<facts, row, work, cancelled, history, faults>>

\* reauditSingleCommit; an error of GetRevertMergeClassification is dropped.
reauditSingleCommit(c) ==
  /\ pc[c] = "single"
  /\ \/ /\ work' = [work EXCEPT ![c] = EvaluateCommit(c, StoredClass(c))]
        /\ UNCHANGED <<shaken, faults>>
     \/ /\ work' = [work EXCEPT ![c] = EvaluateCommit(c, NoClass)]
        /\ shaken' = shaken \cup {c} /\ Fault(1)
  /\ Goto(c, "evaluated")
  /\ UNCHANGED <<facts, reviewed, row, command, cancelled, proved>>

\* annotate-commits writes the row back as it read it, with other annotations.
Annotate(c) ==
  /\ command = "none" /\ row[c] # None
  /\ work' = [work EXCEPT ![c] = row[c]]
  /\ command' = "single" /\ Goto(c, "evaluated")
  /\ UNCHANGED <<facts, reviewed, row, cancelled, history, faults>>

\* Mutant: a row with one empty family has both filled.
Refilled_Both(c, class) ==
  [clean |-> kind[c] = "auto", ver |-> IF IsRevert(c) THEN "message-only" ELSE "none",
   sha |-> ParsedSHA(c), merge |-> TRUE]

\* reclassify fills the families of columns that are empty, from the message alone.
Refilled(c, class) ==
  IF class.ver # "" THEN [class EXCEPT !.merge = TRUE]
  ELSE [clean |-> kind[c] = "auto", ver |-> IF IsRevert(c) THEN "message-only" ELSE "none",
        sha |-> ParsedSHA(c), merge |-> TRUE]

Reclassify(c) ==
  /\ command = "none" /\ row[c] # None
  /\ row[c].class.ver = "" \/ ~row[c].class.merge
  /\ Store(c, [row[c] EXCEPT !.class = Refilled(c, @)])
  /\ UNCHANGED <<facts, reviewed, command, pc, work, cancelled, faults>>

\* verify-reverts compares the diffs of manual reverts that sync could not compare,
\* and re-audits those that turn out clean.
VerifyRevert(c) ==
  /\ command = "none" /\ row[c] # None
  /\ row[c].class.ver = "message-only" /\ row[c].class.sha /\ Manual(c)
  /\ LET clean == IsCleanRevertDiff(c)
     IN /\ Store(c, [row[c] EXCEPT !.class.clean = clean,
                       !.class.ver = IF clean THEN "diff-verified" ELSE "diff-mismatch"])
        /\ command' = IF clean THEN "single" ELSE "none"
        /\ Goto(c, IF clean THEN "single" ELSE "idle")
  /\ UNCHANGED <<facts, reviewed, work, cancelled, faults>>

Next ==
  \/ \E c \in Commit :
       \/ Sync(c) \/ Evaluate(c) \/ Skip(c) \/ Stage(c) \/ Merge(c) \/ DeleteColliding(c)
       \/ InsertStaged(c) \/ Fail(c) \/ Backfill(c) \/ reauditSingleCommit(c) \/ Annotate(c)
       \/ Reclassify(c) \/ VerifyRevert(c)
  \/ ReAudit \/ Finish \/ Crash

Spec == Init /\ [][Next]_vars

-----------------------------------------------------------------------------
(* Properties *)

Waived(c) == row[c] # None /\ row[c].compliant /\ c \notin reviewed

\* A commit that no review clears is compliant only when its diff was found to undo
\* the reverted commit; the one exception, a bot's revert that reclassify marked
\* clean, says message-only.  No failed call, lost row or partial rewrite waives.
UnreviewedIsProven ==
  \A c \in Commit : Waived(c) =>
    \/ IsCleanRevertDiff(c) /\ row[c].class.ver = "diff-verified"
    \/ kind[c] = "auto" /\ row[c].class.ver = "message-only"

\* What sync or verify-reverts has verified survives every offline rewrite of the row,
\* except one that is cut between DELETE and INSERT or cannot read the old row: no
\* re-audit recomputes it from nothing, no reclassify downgrades it.
VerifiedKept ==
  \A c \in proved \ shaken :
    \/ pc[c] = "deleted" /\ work[c].class.ver = "diff-verified"
    \/ row[c] # None /\ row[c].class.ver = "diff-verified" /\ row[c].class.clean

\* A repository that re-audit has done holds the verdict of its own classification,
\* also where verify-reverts stopped between the two or --only-failures ran.
ReauditReconciles ==
  \A c \in Commit : pc[c] = "done" /\ command \in {"all", "failures"} =>
    /\ command = "all" => row[c] # None
    /\ row[c] # None => row[c].compliant = (row[c].class.clean \/ c \in reviewed)

\* internal/sync/audit.go:400: only a diff-verified revert is waived, a forgeable
\* revert message never waives on its own.
NoForgedWaiver == \A c \in Commit : Waived(c) => IsCleanRevertDiff(c)
=============================================================================
