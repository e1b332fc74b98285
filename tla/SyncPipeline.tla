---------------------------- MODULE SyncPipeline ----------------------------
(***************************************************************************)
(* The sync pipeline of one repository: internal/sync/pipeline.go          *)
(* (syncRepo, syncRepoBranch, fetchBranchCommits, sinceFor) with           *)
(* internal/sync/history.go and the tables it reads and writes             *)
(* (sync_cursors, commits, commit_branches, audit_results,                 *)
(* history_rewrites, audit_runs).                                          *)
(*                                                                         *)
(* One goroutine per audited branch runs syncRepoBranch; the goroutines    *)
(* share the repository's tables and the mutex auditMu.  The branch heads  *)
(* move underneath, by fast-forward or by force-push.  Every SQL statement *)
(* commits on its own, so the process may die between any two of them; the *)
(* tables survive, everything else is lost, and a later run starts over.   *)
(*                                                                         *)
(* The commit graph is a constant: Reach[c] is what GitHub computes as     *)
(* reachability.  Dates are committer dates, chosen by whoever made the    *)
(* commit; 0 is the zero time.                                             *)
(***************************************************************************)
EXTENDS Integers, FiniteSets

CONSTANTS
  Commit,        \* every commit that may ever be pushed
  Branch,        \* the audited branches of the repository
  None,          \* the empty SHA, the free mutex, no run
  Reach,         \* Reach[c]: the commits reachable from c, c included
  Date,          \* Date[c]: the committer date of c
  PRCommit,      \* PRCommit[c]: PR-branch commits that enriching c brings in
  PRHead,        \* PRHead[c]: the head ref of that PR, None when no audited branch has its name
  Bounds,        \* the [since, until] flags a run may be given; 0 is "not given"
  FirstHead,     \* FirstHead[b]: where the branch stands before the first run
  InitialSince,  \* now - initial_lookback_days
  Now,           \* the upper end of an unbounded listing
  Overlap,       \* cursorOverlap
  Ceiling,       \* compareCommitsCeiling
  MaxPush,       \* bound: pushes
  MaxFault,      \* bound: API, statement and cancellation failures
  MaxCrash       \* bound: process deaths

ASSUME CommitAssumption ==
  /\ None \notin Commit
  /\ IsFiniteSet(Commit)
  /\ Reach \in [Commit -> SUBSET Commit]
  /\ \A c \in Commit : c \in Reach[c]
  /\ \A c, d \in Commit : d \in Reach[c] => Reach[d] \subseteq Reach[c]
  /\ Date \in [Commit -> Nat \ {0}]
  /\ PRCommit \in [Commit -> SUBSET Commit]

ASSUME BranchAssumption ==
  /\ None \notin Branch
  /\ FirstHead \in [Branch -> Commit]
  /\ PRHead \in [Commit -> Branch \cup {None}]

ASSUME BoundAssumption ==
  /\ Bounds \subseteq [since : Nat, until : Nat]
  /\ None \notin Bounds
  /\ {InitialSince, Now, Overlap, Ceiling, MaxPush, MaxFault, MaxCrash} \subseteq Nat

VARIABLES
  head,            \* GitHub: the tip of every branch
  cursor,          \* sync_cursors, [sha |-> None, date |-> 0] for no row
  commits,         \* commits
  commitBranches,  \* commit_branches, per audited branch
  auditResults,    \* audit_results, the commits that have a row
  historyRewrites, \* history_rewrites, <<branch, prior, new>>
  cleanSweep,      \* the last finished run was unbounded and stamped audit_runs
  run,             \* the flags of the run in progress, None between runs
  pc,              \* where each branch goroutine stands
  snap,            \* the cursor it read
  fetched, tip, via, \* the commits, head SHA and label fetchBranchCommits returned
  work, todo,      \* its unaudited set, and the part not enriched yet
  auditMu,         \* the branch in the enrich+audit phase
  excused,         \* history: per branch, commits a listing's dates left out
  linked,          \* history: per branch, commits its own fetches linked to it
  unrecorded,      \* history: rewrites whose insert failed
  pushes, faults, crashes

github == <<head, pushes>>
tables == <<cursor, commits, commitBranches, auditResults, historyRewrites, cleanSweep>>
local  == <<pc, snap, fetched, tip, via, work, todo, auditMu>>
ghosts == <<excused, linked, unrecorded>>
budget == <<faults, crashes>>
vars   == <<github, tables, run, local, ghosts, budget>>

NoCursor == [sha |-> None, date |-> 0]
Step == {"idle", "cursor", "head", "compare", "list", "commits", "branches",
         "lock", "enrich", "advance", "done", "failed"}

TypeOK ==
  /\ head \in [Branch -> Commit]
  /\ cursor \in [Branch -> [sha : Commit \cup {None}, date : Nat]]
  /\ commits \subseteq Commit
  /\ commitBranches \in [Branch -> SUBSET Commit]
  /\ auditResults \subseteq Commit
  /\ historyRewrites \subseteq Branch \X Commit \X Commit
  /\ cleanSweep \in BOOLEAN
  /\ run \in Bounds \cup {None}
  /\ pc \in [Branch -> Step]
  /\ snap \in [Branch -> [sha : Commit \cup {None}, date : Nat]]
  /\ fetched \in [Branch -> SUBSET Commit]
  /\ tip \in [Branch -> Commit \cup {None}]
  /\ via \in [Branch -> {"graph-unchanged", "graph", "date-window", None}]
  /\ work \in [Branch -> SUBSET Commit]
  /\ todo \in [Branch -> SUBSET Commit]
  /\ auditMu \in Branch \cup {None}
  /\ excused \in [Branch -> SUBSET Commit]
  /\ linked \in [Branch -> SUBSET Commit]
  /\ unrecorded \subseteq Branch \X Commit \X Commit
  /\ pushes \in Nat /\ faults \in Nat /\ crashes \in Nat

Init ==
  /\ head = FirstHead
  /\ cursor = [b \in Branch |-> NoCursor]
  /\ commits = {} /\ auditResults = {} /\ historyRewrites = {}
  /\ commitBranches = [b \in Branch |-> {}]
  /\ cleanSweep = FALSE
  /\ run = None
  /\ pc = [b \in Branch |-> "idle"]
  /\ snap = [b \in Branch |-> NoCursor]
  /\ fetched = [b \in Branch |-> {}]
  /\ tip = [b \in Branch |-> None]
  /\ via = [b \in Branch |-> None]
  /\ work = [b \in Branch |-> {}]
  /\ todo = [b \in Branch |-> {}]
  /\ auditMu = None
  /\ excused = [b \in Branch |-> {}]
  /\ linked = [b \in Branch |-> {}]
  /\ unrecorded = {}
  /\ pushes = 0 /\ faults = 0 /\ crashes = 0

-----------------------------------------------------------------------------
(* Helpers *)

Goto(b, step) == pc' = [pc EXCEPT ![b] = step]

\* One of the bounded number of failures happens in this step.
Fault == faults < MaxFault /\ faults' = faults + 1 /\ UNCHANGED crashes

\* Neither --since nor --until was given.
Unbounded == run.since = 0 /\ run.until = 0

\* --since, else the watermark minus the overlap, else the initial lookback.
SinceFor(c) ==
  CASE run.since # 0 -> run.since
    [] run.since = 0 /\ c.date # 0 -> c.date - Overlap
    [] OTHER -> InitialSince

UntilFor == IF run.until = 0 THEN Now ELSE run.until

\* What GET /commits?sha=branch&since=&until= returns.
Listed(b) ==
  {c \in Reach[head[b]] : Date[c] >= SinceFor(snap[b]) /\ Date[c] <= UntilFor}

\* base...head of the compare API: reachable from the head, not from the base.
Range(base, h) == Reach[h] \ Reach[base]

\* classifyHeadMove: the compare status is behind or diverged exactly when the
\* prior head is not an ancestor of the new one.
Rewritten(prior, new) == prior # new /\ prior \notin Reach[new]

\* commits still to audit, inside the run's explicit flags.
Unaudited ==
  {c \in commits \ auditResults :
     /\ run.since # 0 => Date[c] >= run.since
     /\ run.until # 0 => Date[c] < run.until}

\* The dates the new watermark is the newest of; with the old one among them
\* it never regresses.
Dates(b) == {Date[c] : c \in fetched[b]} \cup {snap[b].date}

\* Mutant: the tip of an --until run is recorded.
NewLastSHA_UntilMovesTip(b) == IF tip[b] = None THEN snap[b].sha ELSE tip[b]

\* Mutant: an empty listing blanks the tip.
NewLastSHA_Blanked(b) == IF run.until # 0 THEN snap[b].sha ELSE tip[b]

\* The tip SHA to record: kept under --until and after an empty listing.
NewLastSHA(b) ==
  IF run.until # 0 \/ tip[b] = None THEN snap[b].sha ELSE tip[b]

-----------------------------------------------------------------------------
(* GitHub *)

\* A fast-forward when the old head is reachable from the new one, otherwise
\* a force-push.
Push(b, c) ==
  /\ pushes < MaxPush
  /\ c # head[b]
  /\ head' = [head EXCEPT ![b] = c]
  /\ pushes' = pushes + 1
  /\ UNCHANGED <<tables, run, local, ghosts, budget>>
-----------------------------------------------------------------------------
(* fetchBranchCommits *)

StartRun(w) ==
  /\ run = None
  /\ run' = w
  /\ pc' = [b \in Branch |-> "cursor"]
  /\ cleanSweep' = FALSE
  /\ UNCHANGED <<github, cursor, commits, commitBranches, auditResults, historyRewrites,
                 snap, fetched, tip, via, work, todo, auditMu, ghosts, budget>>

\* GetSyncCursor, then the choice between graph compare and date window.
ReadCursor(b) ==
  /\ pc[b] = "cursor"
  /\ snap' = [snap EXCEPT ![b] = cursor[b]]
  /\ Goto(b, IF Unbounded /\ cursor[b].sha # None THEN "head" ELSE "list")
  /\ UNCHANGED <<github, tables, run, fetched, tip, via, work, todo, auditMu, ghosts, budget>>

HeadUnchanged(b) ==
  /\ pc[b] = "head"
  /\ head[b] = snap[b].sha
  /\ tip' = [tip EXCEPT ![b] = head[b]]
  /\ via' = [via EXCEPT ![b] = "graph-unchanged"]
  /\ Goto(b, "lock")
  /\ UNCHANGED <<github, tables, run, snap, fetched, work, todo, auditMu, ghosts, budget>>

HeadMoved(b) ==
  /\ pc[b] = "head"
  /\ head[b] # snap[b].sha
  /\ tip' = [tip EXCEPT ![b] = head[b]]
  /\ Goto(b, "compare")
  /\ UNCHANGED <<github, tables, run, snap, fetched, via, work, todo, auditMu, ghosts, budget>>

\* GetBranchHead failed: warn and list by date.
HeadFails(b) ==
  /\ pc[b] = "head"
  /\ Fault
  /\ Goto(b, "list")
  /\ UNCHANGED <<github, tables, run, snap, fetched, tip, via, work, todo, auditMu, ghosts>>

\* Mutant: a branch reset to an ancestor adds no commits, so nothing is recorded.
Compare_SkipsRewind(b) ==
  /\ pc[b] = "compare"
  /\ Cardinality(Range(snap[b].sha, tip[b])) <= Ceiling
  /\ fetched' = [fetched EXCEPT ![b] = Range(snap[b].sha, tip[b])]
  /\ via' = [via EXCEPT ![b] = "graph"]
  /\ Goto(b, IF Range(snap[b].sha, tip[b]) = {} THEN "lock" ELSE "commits")
  /\ historyRewrites' =
       IF Rewritten(snap[b].sha, tip[b]) /\ Range(snap[b].sha, tip[b]) # {}
       THEN historyRewrites \cup {<<b, snap[b].sha, tip[b]>>} ELSE historyRewrites
  /\ UNCHANGED <<github, cursor, commits, commitBranches, auditResults, cleanSweep,
                 run, snap, tip, work, todo, auditMu, ghosts, budget>>

\* CompareCommits answered; a rewrite is recorded straight to the store, and a
\* failed insert is logged and forgotten.
Compare(b) ==
  /\ pc[b] = "compare"
  /\ Cardinality(Range(snap[b].sha, tip[b])) <= Ceiling
  /\ fetched' = [fetched EXCEPT ![b] = Range(snap[b].sha, tip[b])]
  /\ via' = [via EXCEPT ![b] = "graph"]
  /\ Goto(b, IF Range(snap[b].sha, tip[b]) = {} THEN "lock" ELSE "commits")
  /\ LET rewrite == {<<b, snap[b].sha, tip[b]>>} IN
     IF Rewritten(snap[b].sha, tip[b])
     THEN \/ /\ historyRewrites' = historyRewrites \cup rewrite
             /\ UNCHANGED <<unrecorded, budget>>
          \/ /\ Fault
             /\ unrecorded' = unrecorded \cup rewrite
             /\ UNCHANGED historyRewrites
     ELSE UNCHANGED <<historyRewrites, unrecorded, budget>>
  /\ UNCHANGED <<github, cursor, commits, commitBranches, auditResults, cleanSweep,
                 run, snap, tip, work, todo, auditMu, excused, linked>>

\* Mutant: an unavailable compare fails the branch instead of listing by date.
CompareUnavailable_Fatal(b) ==
  /\ pc[b] = "compare"
  /\ \/ Cardinality(Range(snap[b].sha, tip[b])) > Ceiling
     \/ \A other \in Branch : snap[b].sha \notin Reach[head[other]]
  /\ Goto(b, "failed")
  /\ UNCHANGED <<github, tables, run, snap, fetched, tip, via, work, todo, auditMu, ghosts, budget>>

\* ErrCompareUnavailable: the range is above the ceiling, or the base is no
\* longer reachable from any branch and GitHub has dropped it.
CompareUnavailable(b) ==
  /\ pc[b] = "compare"
  /\ \/ Cardinality(Range(snap[b].sha, tip[b])) > Ceiling
     \/ \A other \in Branch : snap[b].sha \notin Reach[head[other]]
  /\ tip' = [tip EXCEPT ![b] = None]
  /\ Goto(b, "list")
  /\ UNCHANGED <<github, tables, run, snap, fetched, via, work, todo, auditMu, ghosts, budget>>

\* ListCommits: the returned tip is the first listed commit, the branch head
\* whenever the head itself passes the date filter.
List(b) ==
  /\ pc[b] = "list"
  /\ fetched' = [fetched EXCEPT ![b] = Listed(b)]
  /\ via' = [via EXCEPT ![b] = "date-window"]
  /\ \/ /\ Listed(b) = {}
        /\ tip' = [tip EXCEPT ![b] = None]
        /\ Goto(b, "lock")
     \/ /\ Listed(b) # {}
        /\ \E h \in Listed(b) :
             /\ head[b] \in Listed(b) => h = head[b]
             /\ tip' = [tip EXCEPT ![b] = h]
        /\ Goto(b, "commits")
  /\ excused' = [excused EXCEPT ![b] = @ \cup (Reach[head[b]] \ Listed(b))]
  /\ UNCHANGED <<github, tables, run, snap, work, todo, auditMu, linked, unrecorded, budget>>

-----------------------------------------------------------------------------
(* The rest of syncRepoBranch *)

UpsertCommits(b) ==
  /\ pc[b] = "commits"
  /\ commits' = commits \cup fetched[b]
  /\ Goto(b, "branches")
  /\ UNCHANGED <<github, cursor, commitBranches, auditResults, historyRewrites, cleanSweep,
                 run, snap, fetched, tip, via, work, todo, auditMu, ghosts, budget>>

UpsertCommitBranches(b) ==
  /\ pc[b] = "branches"
  /\ commitBranches' = [commitBranches EXCEPT ![b] = @ \cup fetched[b]]
  /\ linked' = [linked EXCEPT ![b] = @ \cup fetched[b]]
  /\ Goto(b, "lock")
  /\ UNCHANGED <<github, cursor, commits, auditResults, historyRewrites, cleanSweep,
                 run, snap, fetched, tip, via, work, todo, auditMu, excused, unrecorded, budget>>

\* Mutant: branches enrich and audit in parallel.
LoadUnaudited_NoMutex(b) ==
  /\ pc[b] = "lock"
  /\ auditMu' = b
  /\ work' = [work EXCEPT ![b] = Unaudited]
  /\ todo' = [todo EXCEPT ![b] = Unaudited]
  /\ Goto(b, "enrich")
  /\ UNCHANGED <<github, tables, run, snap, fetched, tip, via, ghosts, budget>>

\* auditMu.Lock, then GetUnauditedCommits: repository-wide, whoever fetched them.
LoadUnaudited(b) ==
  /\ pc[b] = "lock"
  /\ auditMu = None
  /\ auditMu' = b
  /\ work' = [work EXCEPT ![b] = Unaudited]
  /\ todo' = [todo EXCEPT ![b] = Unaudited]
  /\ Goto(b, "enrich")
  /\ UNCHANGED <<github, tables, run, snap, fetched, tip, via, ghosts, budget>>

\* One enrichment batch is written; the branch commits of its PRs are inserted
\* into commits if they are absent, and linked to the PR's head ref, which may
\* have the name of an audited branch.
EnrichBatch(b, c) ==
  /\ pc[b] = "enrich"
  /\ c \in todo[b]
  /\ todo' = [todo EXCEPT ![b] = @ \ {c}]
  /\ commits' = commits \cup PRCommit[c]
  /\ commitBranches' =
       [other \in Branch |->
          IF PRHead[c] = other THEN commitBranches[other] \cup PRCommit[c]
                               ELSE commitBranches[other]]
  /\ UNCHANGED <<github, cursor, auditResults, historyRewrites, cleanSweep,
                 run, pc, snap, fetched, tip, via, work, auditMu, ghosts, budget>>

\* Mutant: the new verdicts replace the table.
UpsertAuditResults_Replaces(b) ==
  /\ pc[b] = "enrich"
  /\ todo[b] = {}
  /\ auditResults' = work[b]
  /\ Goto(b, "advance")
  /\ UNCHANGED <<github, cursor, commits, commitBranches, historyRewrites, cleanSweep,
                 run, snap, fetched, tip, via, work, todo, auditMu, ghosts, budget>>

UpsertAuditResults(b) ==
  /\ pc[b] = "enrich"
  /\ todo[b] = {}
  /\ auditResults' = auditResults \cup work[b]
  /\ Goto(b, "advance")
  /\ UNCHANGED <<github, cursor, commits, commitBranches, historyRewrites, cleanSweep,
                 run, snap, fetched, tip, via, work, todo, auditMu, ghosts, budget>>

UpsertSyncCursor(b) ==
  /\ pc[b] = "advance"
  /\ \E latest \in Dates(b) :
       /\ \A d \in Dates(b) : d <= latest
       /\ cursor' = [cursor EXCEPT ![b] = [sha |-> NewLastSHA(b), date |-> latest]]
  /\ auditMu' = None
  /\ Goto(b, "done")
  /\ UNCHANGED <<github, commits, commitBranches, auditResults, historyRewrites, cleanSweep,
                 run, snap, fetched, tip, via, work, todo, ghosts, budget>>

\* Mutant: an error return skips the unlock.
BranchFails_KeepsMutex(b) ==
  /\ pc[b] \notin {"idle", "done", "failed"}
  /\ Fault
  /\ Goto(b, "failed")
  /\ UNCHANGED <<github, tables, run, snap, fetched, tip, via, work, todo, auditMu, ghosts>>

\* An API call or a statement fails, or the sweep is cancelled because another
\* repository failed.  The mutex is released on every return.
BranchFails(b) ==
  /\ pc[b] \notin {"idle", "done", "failed"}
  /\ Fault
  /\ Goto(b, "failed")
  /\ auditMu' = IF auditMu = b THEN None ELSE auditMu
  /\ UNCHANGED <<github, tables, run, snap, fetched, tip, via, work, todo, ghosts>>

-----------------------------------------------------------------------------
(* syncRepo, Run and the process around them *)

\* The goroutines are gone, and with them everything that is not in a table.
Reset ==
  /\ run' = None
  /\ pc' = [b \in Branch |-> "idle"]
  /\ snap' = [b \in Branch |-> NoCursor]
  /\ fetched' = [b \in Branch |-> {}]
  /\ tip' = [b \in Branch |-> None]
  /\ via' = [b \in Branch |-> None]
  /\ work' = [b \in Branch |-> {}]
  /\ todo' = [b \in Branch |-> {}]
  /\ auditMu' = None

\* Mutant: the stamp does not look at the branches' errors.
FinishRun_StampsAnyway ==
  /\ run # None
  /\ \A b \in Branch : pc[b] \in {"done", "failed"}
  /\ cleanSweep' = Unbounded
  /\ Reset
  /\ UNCHANGED <<github, cursor, commits, commitBranches, auditResults, historyRewrites,
                 ghosts, budget>>

\* branchEG.Wait: a failed branch cancels no sibling, and audit_runs is
\* stamped only when none failed; a stamp that fails is logged, never fatal.
FinishRun ==
  /\ run # None
  /\ \A b \in Branch : pc[b] \in {"done", "failed"}
  /\ \/ /\ cleanSweep' = (Unbounded /\ \A b \in Branch : pc[b] = "done")
        /\ UNCHANGED budget
     \/ /\ Fault
        /\ UNCHANGED cleanSweep
  /\ Reset
  /\ UNCHANGED <<github, cursor, commits, commitBranches, auditResults, historyRewrites,
                 ghosts>>

Crash ==
  /\ run # None
  /\ crashes < MaxCrash
  /\ crashes' = crashes + 1
  /\ Reset
  /\ UNCHANGED <<github, tables, ghosts, faults>>

BranchStep(b) ==
  \/ ReadCursor(b)
  \/ HeadUnchanged(b)
  \/ HeadMoved(b)
  \/ Compare(b)
  \/ CompareUnavailable(b)
  \/ List(b)
  \/ UpsertCommits(b)
  \/ UpsertCommitBranches(b)
  \/ LoadUnaudited(b)
  \/ \E c \in Commit : EnrichBatch(b, c)
  \/ UpsertAuditResults(b)
  \/ UpsertSyncCursor(b)

Next ==
  \/ \E b \in Branch, c \in Commit : Push(b, c)
  \/ \E w \in Bounds : StartRun(w)
  \/ \E b \in Branch : BranchStep(b) \/ HeadFails(b) \/ BranchFails(b)
  \/ FinishRun
  \/ Crash

Spec == Init /\ [][Next]_vars

\* Goroutines run, a finished run ends, and somebody starts the next one.  Pushes,
\* failures and crashes are never forced.  A branch waiting for auditMu may be
\* overtaken, but each sibling takes the mutex once per run, so weak fairness
\* of every branch is enough.
Fairness ==
  /\ \A b \in Branch : WF_vars(BranchStep(b))
  /\ WF_vars(FinishRun)
  /\ WF_vars(\E w \in Bounds : StartRun(w))

FairSpec == Spec /\ Fairness

-----------------------------------------------------------------------------
(* Properties *)

\* pipeline.go "the SHA-based graph compare": once a cursor names a tip, every
\* commit reachable from that tip has an audit row, across crashes, failures,
\* force-pushes and sibling branches, unless a date-window listing of this
\* branch left it out by its committer date.
CursorCovers ==
  \A b \in Branch :
    cursor[b].sha # None =>
      Reach[cursor[b].sha] \subseteq auditResults \cup excused[b]

\* The pipeline implements its promise: verdicts are only added, and a tip moves
\* only when everything behind it is settled.
Ledger ==
  INSTANCE AuditLedger WITH audited <- auditResults, tip <- [b \in Branch |-> cursor[b].sha]
ImplementsLedger == Ledger!Spec

\* pipeline.go "A zero-commit fetch window does NOT return early": when an
\* unbounded run ended cleanly and stamped audit_runs, no commit ever fetched
\* from an audited branch is left without a verdict, backlog of earlier failed
\* runs included.
StampMeansDrained ==
  cleanSweep => \A b \in Branch : linked[b] \subseteq auditResults

\* pipeline.go auditMu: inside the enrich+audit phase no commit of the loaded
\* set gets a verdict from a sibling, so no commit is enriched and audited twice.
NoDoubleAudit ==
  \A b \in Branch : pc[b] = "enrich" => work[b] \cap auditResults = {}

\* history.go recordIfRewritten: a cursor that moves by the graph path to a tip
\* that does not descend from the old one leaves a row in history_rewrites, also
\* when a process died between the record and the cursor.  Only a failed insert,
\* which the code logs and forgets, can hide the move.
RewriteLeavesEvidence ==
  [][\A b \in Branch :
       LET s == cursor[b].sha  t == cursor'[b].sha IN
       (via[b] = "graph" /\ s # None /\ Rewritten(s, t))
         => <<b, s, t>> \in historyRewrites \cup unrecorded]_cursor

\* pipeline.go "LastDate never regresses" and "blanking the stored tip": neither
\* half of a persisted cursor is ever lost.
CursorNeverRegresses ==
  [][\A b \in Branch :
       /\ cursor'[b].date >= cursor[b].date
       /\ cursor[b].sha # None => cursor'[b].sha # None]_cursor

\* syncRepoBranch "unaudited backlog that only the mop-up below can clear": as
\* long as unbounded runs keep being started, whatever reached the commits
\* table is audited in the end, PR-branch commits included.
BacklogDrains == \A c \in Commit : c \in commits ~> c \in auditResults

\* Architecture.md "the next sync picks up where this one left off": once pushes
\* stop, every branch is covered up to what the date filters left out.
HeadsCovered ==
  <>[](\A b \in Branch : Reach[head[b]] \subseteq auditResults \cup excused[b])

-----------------------------------------------------------------------------
(* The inductive invariant behind the safety properties *)

\* Past the cursor read, past the fetch, and inside the phase auditMu guards.
Active(b) == pc[b] \notin {"idle", "cursor", "done", "failed"}
HasFetched(b) == pc[b] \in {"commits", "branches", "lock", "enrich", "advance"}
InAudit(b) == pc[b] \in {"enrich", "advance"}

\* A goroutine is at work only during a run; only it writes its cursor.
RunInv ==
  /\ cleanSweep => run = None
  /\ \A b \in Branch :
       /\ run = None => pc[b] = "idle"
       /\ Active(b) => snap[b] = cursor[b]
       /\ pc[b] \in {"head", "compare"} => Unbounded /\ snap[b].sha # None
       /\ pc[b] = "compare" => tip[b] # None
       /\ pc[b] \in {"idle", "cursor", "head", "compare", "list"} => fetched[b] = {}

\* auditMu is held exactly by the branch in the enrich+audit phase.
MutexInv == \A b \in Branch : InAudit(b) <=> auditMu = b

\* Whatever a branch fetched or linked is in commits before it takes the mutex.
IngestInv ==
  \A b \in Branch :
    /\ linked[b] \subseteq commitBranches[b]
    /\ commitBranches[b] \subseteq commits
    /\ pc[b] \in {"branches", "lock", "enrich", "advance"} => fetched[b] \subseteq commits

\* The tip on offer is covered by the fetch together with what was covered before.
FetchInv ==
  \A b \in Branch :
    HasFetched(b) =>
      /\ tip[b] # None => Reach[tip[b]] \subseteq fetched[b] \cup auditResults \cup excused[b]
      /\ run.since # 0 => \A c \in fetched[b] : Date[c] >= run.since

\* Without --until, the loaded set holds everything fetched that has no verdict
\* yet; without any flag, everything linked to the branch as well.
LoadInv ==
  \A b \in Branch :
    /\ pc[b] = "enrich" /\ run.until = 0 => fetched[b] \subseteq auditResults \cup work[b]
    /\ pc[b] = "enrich" /\ Unbounded => linked[b] \subseteq auditResults \cup work[b]
    /\ pc[b] = "advance" /\ run.until = 0 => fetched[b] \subseteq auditResults
    /\ pc[b] \in {"advance", "done"} /\ Unbounded => linked[b] \subseteq auditResults

\* A rewrite seen by the compare is on record before anything else happens.
EvidenceInv ==
  \A b \in Branch :
    HasFetched(b) /\ via[b] = "graph" /\ tip[b] # None /\ Rewritten(snap[b].sha, tip[b])
      => <<b, snap[b].sha, tip[b]>> \in historyRewrites \cup unrecorded

IInv ==
  /\ TypeOK
  /\ RunInv
  /\ MutexInv
  /\ IngestInv
  /\ FetchInv
  /\ LoadInv
  /\ EvidenceInv
  /\ CursorCovers
  /\ StampMeansDrained
  /\ NoDoubleAudit

=============================================================================
