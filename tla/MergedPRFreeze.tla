--------------------------- MODULE MergedPRFreeze ---------------------------
(***************************************************************************)
(* The merged-PR freeze: internal/github/caching.go (getPR, getReviews,    *)
(* getCheckRuns, getPRCommits, isPRMerged) together with the statements of *)
(* pipeline.go writeEnrichmentBatch that fill the tables it trusts.        *)
(*                                                                         *)
(* One merged pull request, shared by several commits that are enriched in *)
(* concurrent batches of one process.  Reviews, check runs and branch      *)
(* commits of the PR are looked up in memory, then in the database, then   *)
(* on GitHub; a row in pull_requests is taken as proof that the other      *)
(* tables are complete, an empty read included.  Batches write through the *)
(* single writer goroutine, statement by statement, every statement        *)
(* committing on its own.                                                  *)
(*                                                                         *)
(* All rows of one kind arrive in one response and one statement, so a     *)
(* kind is absent, or in flight (check runs stored before they completed), *)
(* or full.                                                                *)
(***************************************************************************)
EXTENDS Naturals

CONSTANTS
  Batch,    \* the batches, one commit of the PR each
  None,     \* no batch
  Truth,    \* the kinds that have rows on GitHub
  MaxFault, \* bound: failed API calls, reads and statements
  MaxCrash  \* bound: process deaths

Kind == {"reviews", "checks", "commits"}

ASSUME FreezeAssumption ==
  /\ None \notin Batch
  /\ Truth \subseteq Kind
  /\ MaxFault \in Nat /\ MaxCrash \in Nat

VARIABLES
  ciDone,   \* GitHub: every check run of the PR's head has completed
  ciBefore, \* history: they had when the run in progress began
  prRow,    \* pull_requests has the PR, merged
  rows,     \* reviews, check_runs, and commits linked by commit_prs
  verdict,  \* audit_results: what each commit's verdict was based on
  run,      \* the batches of the run in progress
  mem,      \* reviewCache, checkRunCache, prCommitCache
  prMem,    \* prCache has the PR
  pc, at,   \* where each batch stands, and the kind it is resolving
  read,     \* the rows it read and has not decided about
  got,      \* its enrichment result
  jobs,     \* batches whose write waits in the writer's channel
  writing,  \* the batch whose write the writer executes
  stmt,     \* the next statement of that write
  faults, crashes

ci == <<ciDone, ciBefore>>
tables == <<prRow, rows, verdict>>
caches == <<mem, prMem>>
batches == <<pc, at, read, got>>
writer == <<jobs, writing, stmt>>
budget == <<faults, crashes>>
vars == <<ci, tables, run, caches, batches, writer, budget>>

Snapshot == {"absent", "inflight", "full"}
Cached == Snapshot \cup {"miss"}
Nothing == [k \in Kind |-> "miss"]

TypeOK ==
  /\ ciDone \in BOOLEAN /\ ciBefore \in BOOLEAN /\ prRow \in BOOLEAN /\ prMem \in BOOLEAN
  /\ rows \in [Kind -> Snapshot]
  /\ verdict \in [Batch -> [Kind -> Cached] \cup {None}]
  /\ run \subseteq Batch
  /\ mem \in [Kind -> Cached]
  /\ pc \in [Batch -> {"idle", "pr", "mem", "rows", "row", "api", "queued", "done", "failed"}]
  /\ at \in [Batch -> Kind]
  /\ read \in [Batch -> Snapshot]
  /\ got \in [Batch -> [Kind -> Cached]]
  /\ jobs \subseteq Batch
  /\ writing \in Batch \cup {None}
  /\ stmt \in Kind \cup {"pr"}
  /\ faults \in Nat /\ crashes \in Nat

Init ==
  /\ ciDone = FALSE /\ ciBefore = FALSE /\ prRow = FALSE /\ prMem = FALSE
  /\ rows = [k \in Kind |-> "absent"]
  /\ verdict = [b \in Batch |-> None]
  /\ run = {}
  /\ mem = Nothing
  /\ pc = [b \in Batch |-> "idle"]
  /\ at = [b \in Batch |-> "reviews"]
  /\ read = [b \in Batch |-> "absent"]
  /\ got = [b \in Batch |-> Nothing]
  /\ jobs = {} /\ writing = None /\ stmt = "reviews"
  /\ faults = 0 /\ crashes = 0

-----------------------------------------------------------------------------
(* Helpers *)

Goto(b, step) == pc' = [pc EXCEPT ![b] = step]

\* One of the bounded number of failures happens in this step.
Fault == faults < MaxFault /\ faults' = faults + 1 /\ UNCHANGED crashes

\* What GitHub answers about one kind.
OnGitHub(k) ==
  CASE k \notin Truth -> "absent"
    [] k = "checks" /\ k \in Truth /\ ~ciDone -> "inflight"
    [] OTHER -> "full"

\* The order enrichOneCommit resolves the kinds in, which is also the order
\* their statements are executed in.
After(k) == IF k = "reviews" THEN "checks" ELSE "commits"

\* b has the kind it was resolving; the last one completes the enrichment.
Resolve(b, snapshot) ==
  /\ got' = [got EXCEPT ![b][at[b]] = snapshot]
  /\ at' = [at EXCEPT ![b] = After(at[b])]
  /\ IF at[b] = "commits"
     THEN Goto(b, "queued") /\ jobs' = jobs \cup {b}
     ELSE Goto(b, "mem") /\ UNCHANGED jobs

\* Mutant: the PR in memory counts as previously synced.
IsPRMerged_FromMemory == prRow \/ prMem

\* A merged row in the database, never the PR in memory.
IsPRMerged == prRow

-----------------------------------------------------------------------------
(* A run over some of the commits without a verdict *)

CIDone ==
  /\ ~ciDone
  /\ ciDone' = TRUE
  /\ UNCHANGED <<ciBefore, tables, run, caches, batches, writer, budget>>

StartRun(S) ==
  /\ run = {} /\ S # {}
  /\ \A b \in S : verdict[b] = None
  /\ run' = S /\ ciBefore' = ciDone
  /\ pc' = [b \in Batch |-> IF b \in S THEN "pr" ELSE "idle"]
  /\ UNCHANGED <<ciDone, tables, caches, at, read, got, writer, budget>>

\* getPR: from memory, from a merged row, or from GitHub.
GetPR(b) ==
  /\ pc[b] = "pr"
  /\ prMem' = TRUE
  /\ Goto(b, "mem")
  /\ UNCHANGED <<ci, tables, run, mem, at, read, got, writer, budget>>

HitMemory(b) ==
  /\ pc[b] = "mem"
  /\ mem[at[b]] # "miss"
  /\ Resolve(b, mem[at[b]])
  /\ UNCHANGED <<ci, tables, run, caches, read, writing, stmt, budget>>

MissMemory(b) ==
  /\ pc[b] = "mem"
  /\ mem[at[b]] = "miss"
  /\ Goto(b, "rows")
  /\ UNCHANGED <<ci, tables, run, caches, at, read, got, writer, budget>>

ReadRows(b) ==
  /\ pc[b] = "rows"
  /\ \/ /\ read' = [read EXCEPT ![b] = rows[at[b]]]
        /\ Goto(b, "row")
        /\ UNCHANGED budget
     \/ /\ Fault
        /\ Goto(b, "api")
        /\ UNCHANGED read
  /\ UNCHANGED <<ci, tables, run, caches, at, got, writer>>

\* Mutant: a merged PR's rows are trusted whatever they are.
TrustRows_InFlightToo(b) ==
  /\ pc[b] = "row"
  /\ IsPRMerged
  /\ mem' = [mem EXCEPT ![at[b]] = read[b]]
  /\ Resolve(b, read[b])
  /\ UNCHANGED <<ci, tables, run, prMem, read, writing, stmt, budget>>

\* The PR row is looked up after the rows were read; check runs stored in
\* flight are not trusted.
TrustRows(b) ==
  /\ pc[b] = "row"
  /\ IsPRMerged
  /\ read[b] # "inflight"
  /\ mem' = [mem EXCEPT ![at[b]] = read[b]]
  /\ Resolve(b, read[b])
  /\ UNCHANGED <<ci, tables, run, prMem, read, writing, stmt, budget>>

DistrustRows(b) ==
  /\ pc[b] = "row"
  /\ \/ (~IsPRMerged \/ read[b] = "inflight") /\ UNCHANGED budget
     \/ Fault
  /\ Goto(b, "api")
  /\ UNCHANGED <<ci, tables, run, caches, at, read, got, writer>>

Fetch(b) ==
  /\ pc[b] = "api"
  /\ mem' = [mem EXCEPT ![at[b]] = OnGitHub(at[b])]
  /\ Resolve(b, OnGitHub(at[b]))
  /\ UNCHANGED <<ci, tables, run, prMem, read, writing, stmt, budget>>

\* An API call fails, or the batch is cancelled because another one failed; the
\* writer still calls a queued write, whose first statement then fails.
BatchFails(b) ==
  /\ pc[b] \in {"pr", "mem", "rows", "row", "api"} \/ b \in jobs
  /\ Fault
  /\ Goto(b, "failed")
  /\ jobs' = jobs \ {b}
  /\ UNCHANGED <<ci, tables, run, caches, at, read, got, writing, stmt>>

-----------------------------------------------------------------------------
(* The writer goroutine *)

TakeJob(b) ==
  /\ writing = None
  /\ b \in jobs
  /\ writing' = b /\ jobs' = jobs \ {b} /\ stmt' = "reviews"
  /\ UNCHANGED <<ci, tables, run, caches, batches, budget>>

UpsertRows ==
  /\ writing # None /\ stmt \in Kind
  /\ rows' = [rows EXCEPT ![stmt] =
                IF got[writing][stmt] = "absent" THEN @ ELSE got[writing][stmt]]
  /\ stmt' = IF stmt = "commits" THEN "pr" ELSE After(stmt)
  /\ UNCHANGED <<ci, prRow, verdict, run, caches, batches, jobs, writing, budget>>

\* PR rows go LAST.
UpsertPullRequests ==
  /\ writing # None /\ stmt = "pr"
  /\ prRow' = TRUE
  /\ writing' = None
  /\ Goto(writing, "done")
  /\ UNCHANGED <<ci, rows, verdict, run, caches, at, read, got, jobs, stmt, budget>>

\* Mutant: the error of a failed statement never reaches its caller.
StatementFails_TellsNobody ==
  /\ writing # None
  /\ Fault
  /\ writing' = None
  /\ UNCHANGED <<ci, tables, run, caches, batches, jobs, stmt>>

\* Mutant: the PR row is written on the error path too.
StatementFails_WritesPR ==
  /\ writing # None
  /\ Fault
  /\ prRow' = TRUE
  /\ writing' = None
  /\ Goto(writing, "failed")
  /\ UNCHANGED <<ci, rows, verdict, run, caches, at, read, got, jobs, stmt>>

\* A statement fails: the rest of the write is skipped, its caller told.
StatementFails ==
  /\ writing # None
  /\ Fault
  /\ writing' = None
  /\ Goto(writing, "failed")
  /\ UNCHANGED <<ci, tables, run, caches, at, read, got, jobs, stmt>>

-----------------------------------------------------------------------------
(* The end of a run *)

\* Everything that is not in a table is gone.
Exit ==
  /\ run' = {} /\ mem' = Nothing /\ prMem' = FALSE
  /\ pc' = [b \in Batch |-> "idle"]
  /\ at' = [b \in Batch |-> "reviews"]
  /\ read' = [b \in Batch |-> "absent"]
  /\ got' = [b \in Batch |-> Nothing]
  /\ jobs' = {} /\ writing' = None /\ stmt' = "reviews"

\* Every batch is in: evaluate and store the verdicts.
UpsertAuditResults ==
  /\ run # {}
  /\ \A b \in run : pc[b] = "done"
  /\ verdict' = [b \in Batch |-> IF b \in run THEN got[b] ELSE verdict[b]]
  /\ Exit
  /\ UNCHANGED <<ci, prRow, rows, budget>>

\* One batch failed, so the run does; Close drains the writer first.
RunFails ==
  /\ run # {}
  /\ \A b \in run : pc[b] \in {"done", "failed"}
  /\ \E b \in run : pc[b] = "failed"
  /\ jobs = {} /\ writing = None
  /\ Exit
  /\ UNCHANGED <<ci, tables, budget>>

Crash ==
  /\ run # {}
  /\ crashes < MaxCrash
  /\ crashes' = crashes + 1
  /\ Exit
  /\ UNCHANGED <<ci, tables, faults>>

BatchStep(b) ==
  GetPR(b) \/ HitMemory(b) \/ MissMemory(b) \/ ReadRows(b) \/ TrustRows(b)
    \/ DistrustRows(b) \/ Fetch(b)

WriterStep == (\E b \in Batch : TakeJob(b)) \/ UpsertRows \/ UpsertPullRequests

Next ==
  \/ CIDone
  \/ \E S \in SUBSET Batch : StartRun(S)
  \/ \E b \in Batch : BatchStep(b) \/ BatchFails(b)
  \/ WriterStep \/ StatementFails
  \/ UpsertAuditResults \/ RunFails \/ Crash

Spec == Init /\ [][Next]_vars

\* Goroutines run, runs end and the next one takes all that is left.
Fairness ==
  /\ \A b \in Batch : WF_vars(BatchStep(b))
  /\ WF_vars(WriterStep)
  /\ WF_vars(UpsertAuditResults \/ RunFails)
  /\ WF_vars(\E S \in SUBSET Batch : StartRun(S))

FairSpec == Spec /\ Fairness

-----------------------------------------------------------------------------
(* Properties *)

\* pipeline.go "PR rows go LAST": whatever crashes, fails or is cancelled, a
\* merged PR row proves that every kind of sub-row was stored before it.
FreezeSound == prRow => \A k \in Truth : rows[k] # "absent"

\* A verdict on missing rows has one cause only: the rows were read before a
\* concurrent batch stored them, so by now they are stored and the offline
\* re-audit, which reads the tables, sees them.
ReauditCanRepair ==
  \A b \in Batch :
    verdict[b] # None =>
      \A k \in Truth : verdict[b][k] = "absent" => rows[k] # "absent"

\* caching.go getCheckRuns: check runs that an earlier run stored while CI was
\* still going are never final, though the PR row freezes the rest.  A run that
\* begins after CI is over judges no commit on them, whatever earlier runs,
\* batches beside it and failures left in memory and in the tables.
ChecksFollowCI ==
  [][\A b \in Batch :
       ciBefore /\ verdict'[b] # verdict[b] => verdict'[b]["checks"] # "inflight"]_verdict

\* pipeline.go "a crash leaves orphan sub-rows that the next run simply
\* re-fetches": no failure leaves the tables in a state from which a commit is
\* never audited.
EveryCommitAudited == \A b \in Batch : <>(verdict[b] # None)

-----------------------------------------------------------------------------
(* The inductive invariant behind FreezeSound and ReauditCanRepair *)

\* The empty answer about a kind that has rows was trusted under a PR row.
AbsentInv ==
  \A k \in Truth :
    /\ mem[k] = "absent" => prRow
    /\ \A b \in Batch :
         /\ got[b][k] = "absent" => prRow
         /\ verdict[b] # None => (verdict[b][k] = "absent" => prRow)

\* Only complete enrichments are written, and only during a run.
CompleteInv ==
  /\ writing \notin jobs
  /\ run = {} => jobs = {} /\ writing = None /\ \A b \in Batch : pc[b] = "idle"
  /\ \A b \in Batch :
       /\ at[b] # "reviews" => got[b]["reviews"] # "miss"
       /\ at[b] = "commits" => got[b]["checks"] # "miss"
       /\ b \in jobs \/ b = writing => pc[b] = "queued"
       /\ pc[b] = "queued" => at[b] = "commits" /\ got[b]["commits"] # "miss"

\* The kinds whose statement comes before the next one.
Written == CASE stmt = "reviews" -> {}
             [] stmt = "checks"  -> {"reviews"}
             [] stmt = "commits" -> {"reviews", "checks"}
             [] OTHER            -> Kind

\* What the write in progress has passed is stored, or was already.
WriteInv ==
  writing # None => \A k \in Truth \cap Written : prRow \/ rows[k] # "absent"

\* Nothing in flight is in hand between runs, nor in a run that began after CI was
\* over; what the tables hold may be.
FreshInv ==
  /\ ciBefore => ciDone
  /\ ciBefore \/ run = {} =>
       /\ mem["checks"] # "inflight"
       /\ \A b \in Batch : got[b]["checks"] # "inflight"

\* What holds of the batches and the writer whether or not the PR row was sound
\* when the run began.
ProgressInv == TypeOK /\ AbsentInv /\ CompleteInv /\ WriteInv /\ FreshInv

FreezeInv == ProgressInv /\ FreezeSound
=============================================================================
