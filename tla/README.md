# gh-audit in TLA+

gh-audit decides, commit by commit, whether the audited branches of GitHub
repositories were reviewed and checked before they landed, and keeps the answer
as evidence for auditors. Its value rests on two statements: **no commit is
skipped**, and **no commit is called compliant that is not**. This directory
models the code those statements depend on, checks the models with TLC and
proves the most important statements with TLAPS. Paths and line numbers refer to
the repository (`internal/`, `cmd/`), and `PROJECT.json` names the lines behind
every definition.

Contents: 1 the system, 2 the modules, 3 the runs, 4 bounds, 5 fairness,
6 proofs, 7 disagreements between code and documentation, 8 what is left out,
9 plan.

## 1. The system

### Components

| Component | Where | State it keeps | Operations |
|---|---|---|---|
| Sync pipeline | `internal/sync/pipeline.go` | per branch: position in `syncRepoBranch`; per repository: `auditMu`; tables `sync_cursors`, `commits`, `commit_branches`, `audit_results`, `audit_runs` | discover repositories, fan out over repositories and branches, fetch by graph or by date, enrich, audit, move the cursor |
| Rewrite detection | `internal/sync/history.go` | table `history_rewrites` | compare the old tip with the new head, record force-pushes |
| Database writer | `internal/sync/dbwriter.go` | channel, the running statement, replies, `done` | `Write`, `run`, `Close` |
| Caching enricher | `internal/github/caching.go`, `writeEnrichmentBatch` | memory maps of one process; tables `pull_requests`, `reviews`, `check_runs`, `commit_prs` | look up in memory, in the database, at GitHub; store a batch |
| Token pool, transport | `internal/github/tokenpool.go` | per token: count, reset, cooldown, requests in flight; the global semaphore | pick, reserve, send, retry, pause, re-pick, cool down |
| GitHub client | `internal/github/client.go`, `git_objects.go`, `diff.go` | none | list commits, compare, heads, per-PR listings, patches |
| Audit kernel | `internal/sync/audit.go` | none (a function) | `EvaluateCommit`: eight rules over one commit's evidence |
| Merge and revert classification | `internal/github/merge*.go`, `revert*.go`, `diff.go` | none | classify a message, compare two patches |
| Annotations | `internal/sync/annotate.go`, `cmd/annotate_commits.go` | columns of `audit_results` | tag messages |
| Database layer | `internal/db` | DuckDB file | upserts through staging tables, queries |
| Re-audit | `cmd/reaudit.go` | in-memory bundle per repository | evaluate again, offline, in bulk, for failures, for one commit |
| Backfill, reclassify, verify-reverts | `cmd/backfill.go` | none | recover missing PRs; fill in and verify classifications |
| Repository cache | `internal/db/org_repos.go`, `Pipeline.Run` | table `org_repos_cache`, each row with its `fetched_at` | replace (DELETE, INSERT), read while fresh |
| Report, workbook, manifest, verify | `internal/report`, `cmd/report.go`, `cmd/verify.go` | none | query, render, digest |
| Configuration, fingerprint | `internal/config` | none | parse, validate, hash |
| Telemetry, progress, version | several | counters | display |

### How they interact

`sync` starts a pipeline. It takes repositories in parallel, and the audited
branches of a repository in parallel. Branches share the repository's set of
unaudited commits under `auditMu`; batches of one branch share the enricher's
memory; all goroutines share the writer's channel, one `context` that the first
error cancels, and the token pool behind the HTTP client. Rows written by one
step are what a later step, a sibling branch, a later run, or another command
(`re-audit`, `backfill-missing-prs`, `annotate-commits`, `reclassify`,
`verify-reverts`) reads as evidence. DuckDB locks its file, so two commands
never run at once; but **every statement commits on its own**, so whatever a
command does in several statements can stop in the middle and be found like that
by any other command.

### What is hard here

* *A row as a proof.* The cursor proves that history was audited, the merged-PR
  row that reviews and checks are stored, `detail_fetched_at` that a commit's zeros
  are GitHub's, `diff-verified` that two patches were compared, the stamp on a run
  that every branch finished under one configuration. Each is written at
  another time than what it vouches for.
* *Copies.* The cursor, the head, the unaudited set, the enricher's reads, a batch
  in its staging table, the list of an organisation's repositories and a
  re-audit's bundle are read before long waits and used after them.
* *Several accounts of one row.* SQL, Go and the kernel each decide what was waived,
  what failed and why.
* *Interleaving.* Branches, batches, repository workers, the writer, and
  API calls over atomics under a read lock.
* *Failure.* API, statement, cancellation, process death, between any two steps.
* *GitHub's own life.* Force-pushes, reviews dismissed in place, reviews after
  the merge, throttling in four shapes, throttled neighbours on one token.

### What would make each part correct

* Pipeline: a cursor never claims more than was audited; nothing fetched stays
  without a verdict for ever; no commit is audited by two branches at once; a
  rewritten history is on record.
* Writer: every accepted request runs once, in order; `nil` means committed;
  nobody waits for ever.
* Enricher: a final answer is a complete one.
* Token pool: reservations balance, stale answers do no harm, every call ends.
* Kernel: no human change passes without a review by somebody else that stood at
  the merge; missing evidence never helps; a re-audit agrees with the sync.
* Reverts: only a comparison of patches waives a review, and stored comparisons
  outlive offline rewrites.
* Commit details: only an empty commit is waived for being empty, and what was
  fetched outlives the next listing, which knows nothing of it.
* Sweep: a stamp speaks for the organisation and names the rules it was computed under.
* Reports: the sheets agree with each other, and send nobody after a wrong reason.

The hazards, with their lines and the properties that watch them, are listed in
`PROJECT.json`.

## 2. The modules

| Module | Models | State → code |
|---|---|---|
| `SyncPipeline` | one repository's `syncRepo`, `syncRepoBranch`, `fetchBranchCommits`, `sinceFor`, `recordIfRewritten` | `pc` is the place of each branch goroutine, `snap` the cursor it read, `tip` the head it resolved; `cursor`, `commits`, `commitBranches`, `auditResults` and `historyRewrites` are tables; `auditMu` the mutex; `head` is GitHub's |
| `AuditLedger` | what the pipeline promises, without goroutines, fetch paths or crashes | `audited`, `tip`, `excused` |
| `MCSyncPipeline` | the commit graph and flags for TLC | |
| `MergedPRFreeze` | one merged PR's evidence: memory map, rows, `isPRMerged`, API, `writeEnrichmentBatch` and the writer between them | `prRow`, `rows` are tables, `mem` and `prMem` are the process's maps, `read` and `got` what a batch holds, `jobs`, `writing` and `stmt` the writer |
| `BackfillPR` | extends the above with `persistBackfilledPR` and the re-audit of its candidate | `bf` is the statement it stands at |
| `CommitDetails`, `MCCommitDetails` | the stats of one repository's commits: `bulkUpsert`'s statements, the lazy `StatsFetcher`, `MarkCommitDetail`, what re-audits make of the rows | `row` is `commits`, `staging` the staging table of the batch the writer runs, `todo` the unaudited copies a branch holds, `answer` the fetcher's memory |
| `Sweep`, `MCSweep` | `Pipeline.Run` over an organisation: cached, live and explicit discovery, the fan-out, the stamp, the configuration behind it | `cache` and `age` are `org_repos_cache`, `todo` the goroutines still out, `rules` the configuration a run was built with, `stamp` its `audit_runs` row |
| `DBWriter` | the channel, its goroutine, `Write`'s two selects, `Close` and who calls it | `requests` is the channel, `current` the running `fn`, `reply` each `errc` |
| `TokenPool`, `MCTokenPool` | choice of token, reservation, semaphore, the transport's handling of answers | `known`, `abuseUntil` and `inFlight` are the token's atomics; `scan` and `call` are a request's stack frames in `tryPick` and `RoundTrip`; `Matching` gives each request the tokens whose scope fits; `ends` and `left` are GitHub's window |
| `AuditKernel` | the rule list as operators, named as in `audit.go`, down to the signals of the row that reports read | no state |
| `PullRequests` | the environment of the kernel: pushes, reviews, dismissals, merges | as the REST API shows them |
| `AuditVerdict`, `MCAuditVerdict` | one commit whose pull requests `sync` looks up and judges; then the three ways of re-auditing, `backfill-missing-prs` and `annotate-commits` | `row` is its `audit_results` row with what `commit_prs`, `check_runs` and the classification keep for it, `detail` the SHAs whose stats are stored |
| `Report` | what the Summary's SQL, the Decision Matrix, By Rule, the Action Queue and the Waivers Log say of that row | no state |
| `RevertWaiver` | the life of a revert's row under sync, re-audit, backfill, annotate, reclassify and verify-reverts | `row`, `command`, and each repository's goroutine in `pc` and `work` |
| `SyncPipelineProofs`, `CommitDetailsProofs`, `SweepProofs`, `DBWriterProofs`, `TokenPoolProofs`, `RevertWaiverProofs` | theorems about the module of that name | |
| `MergedPRFreezeProofs` | theorems about `MergedPRFreeze`, and on top of them about `BackfillPR` | |
| `AuditVerdictProofs` | theorems about `AuditKernel`, `PullRequests`, `AuditVerdict` and `Report` | |

Composition: `BackfillPR` extends `MergedPRFreeze` (two commands on the same
tables); `AuditVerdict` extends `PullRequests`, which extends `AuditKernel`
(the kernel evaluated on what an environment can produce), and `Report` extends
both (the accounts of every row those can produce); `SyncPipeline`
instantiates `AuditLedger` under a refinement mapping.

Conventions. Actions bear the names of the functions or statements they stand
for. An action is everything between two points where another goroutine, GitHub
or a process death can be noticed, so a handler with several statements is a
chain of actions over `pc`. Failures are actions with a budget (`MaxFault`,
`MaxCrash`). A definition named `Operator_Something` next to an operator is a
plausible bug in it; it is used by no specification and documents which property
would notice.

Abstractions that a reader should know:

* *SyncPipeline*: reachability is a constant function over a finite graph;
  `BranchFails` covers an error anywhere in a branch and drops what that branch
  had in flight; a commit is a row without its stats; one repository, as
  repositories share only the writer, the context and the token pool; a run's
  flags are chosen when it starts.
* *MergedPRFreeze*: all rows of one kind come in one response and one statement,
  so a kind is absent, stored while checks were in flight, or full. `co_authors`
  is left out.
* *CommitDetails*: additions and deletions are one flag, the file count another; what
  the other rules say of a commit is whether it is in `standing`; a fetch lists any
  part of what the branch reaches.
* *Sweep*: a repository's own sync is one step, since `SyncPipeline` is about it;
  time is a unit, long against the enumeration of an organisation, and ages stop
  counting where nothing tells them apart.
* *DBWriter*: the 30 s timer fires only while a statement hangs; queue length
  and time do not otherwise matter to it.
* *TokenPool*: time in units; GitHub stops metering after `MaxTime`, so that
  every wait ends within the model; headers are complete or missing;
  `Retry-After` only decides the length of a wait.
* *AuditKernel, AuditVerdict*: globs are set membership; the pull requests of a commit
  come in one order, fixed but unknown (`SetToSeq`), as nothing in GitHub's listing or the
  queries promises one; after a forced push the branch is what the last push left; a lookup of a commit's pull
  requests, from memory, tables or GitHub, may leave out any of them, and a commit
  pushed past all of them may carry the number of one; the batch that looks up two commits
  at once is in `MergedPRFreeze`; a backfill's requests all succeed (`BackfillPR` has
  their failures);
  a stats answer for a branch commit is as GitHub has it or failed;
  `postMergeConcern` is advisory, as in the code; the commit of a PR branch gets
  no row of its own; reasons are tags, one for each wording the code has.
* *Report*: one row; what a query selects by branch, date and repository, sums,
  order and layout are left out.
* *RevertWaiver*: `reviewed` stands for all rules other than the waiver; the
  outcome of a comparison is one of three values fixed per commit; one revert
  per repository.

## 3. The runs

| Run | Question | Answer |
|---|---|---|
| `SyncPipeline_flags` | One branch under plain, `--since` and `--until` runs, pushes, force-pushes, one failure, one death: can a cursor claim history that was not audited, go back, or cross a rewrite in silence? Does the pipeline implement `AuditLedger`? | `CursorCovers`, `CursorNeverRegresses`, `RewriteLeavesEvidence`, `ImplementsLedger` hold. What a listing by date leaves out is tracked in `excused`, so the only way past a commit is its date. |
| `SyncPipeline_siblings` | Two branches in parallel: does `auditMu` keep them apart, is a stamped run complete, does a backlog drain? | `NoDoubleAudit`, `StampMeansDrained`, `BacklogDrains`, `HeadsCovered` hold. |
| `CommitDetails` | Two branches list the same commits while stats are fetched; fetches and marks fail, runs die, the other rules change their mind, re-audits of every kind follow: is a commit ever waived as empty that is not, and is a fetched detail lost? | `SyncWaivesTheEmpty` holds; `DetailKept` and `RefusalsKeepTheirProof` hold but for a detail that lands between the two statements of a batch (`late`); hence `ReauditAgrees`. Section 7 has what re-audits do to rows no sync judged. |
| `Sweep` | Repositories come, are archived and go, the configuration is edited, the cached list is stale, half-written or unread, re-audits run between: what does a stamp vouch for? | `StampCoversTheOrg` (but for repositories younger than the list may be old) and `StampNamesItsRules` hold; a vanished repository delays nobody for ever (`BacklogSwept`). |
| `MergedPRFreeze` | Two batches race to fill in one PR: can a frozen PR lack its reviews, and are check runs of a CI that was still going ever taken for final? | `FreezeSound` holds. A verdict may miss rows by the race; `ReauditCanRepair` says that they are then in the tables. A run that begins after CI is over judges on nothing older (`ChecksFollowCI`). `EveryCommitAudited` under fairness. |
| `BackfillPR_repairs` | A backfill fails half-way: does a complete one later leave no hole? | `BackfillRepairs`, for reviews and checks and for what the re-audit saw. |
| `DBWriter` | Cancellation, failing and hanging statements, shutdown: is a request lost, reordered, repeated or unanswered? | `NilMeansCommitted`, `DrainedMeansAnswered`, `NoSendOnClosed`, and, fairly scheduled, `WriteReturns` and `CloseReturns` hold. |
| `TokenPool` | A call that one token may serve, one that both may, one that none may, over two slots, with every kind of answer, a redirect to where other tokens serve and another client that drains the quota: do counters balance, can an old answer refill a token, does each call end? | `InFlightExact` (with the redirect exception of section 7), `ArrivalOrderIrrelevant`, `OutMeansRest` and `EveryCallEnds` hold, and throttling reaches a caller on one path only (`OnlyServerRetriesLeak`). |
| `AuditVerdict` | Scenario *reviews*: one reviewer approves, requests changes, comments; reviews are dismissed in place, with and without a date; the PR merges at any instant: does the fold over reviews recover who approved *at the merge*? *verdicts*: squash, merge commit, local merge, direct push; human and exempt authors; an unavailable stats fetch, an unlisted pull request, a commit that only claims one; then re-audits and a backfill: is human work waived unseen, does a message or a failure help, is a refusal forgiven offline? *reports*: rows of every verdict, with missing checks, clean reverts, a review dismissed before or after a backfill copies it, and branches pushed to land (fast-forward): do the sheets agree, and does the prescribed remedy match a reason of the verdict? | `StoodAtMerge`, `LossesNoticed`; `CompliantMeansReviewed`, `ErrorsFailClosed`, `ReauditNeverForgives`; `AccountsAgree`, `ActionNamesAReason` hold, within what they state; for the exceptions see the next run and section 7. |
| `AuditVerdict_scope` | Does the audited-branch setting survive a re-audit, as Architecture.md 682–683 says? | No: section 7. |
| `RevertWaiver` | Two repositories whose reverts go through any order of commands, with one failure or death: who can waive, what keeps the verification? | `UnreviewedIsProven`, `VerifiedKept`, `ReauditReconciles` hold. |
| `RevertWaiver_forged` | Does a forged message alone ever waive, against `audit.go` 401–403? | Yes, through reclassify: section 7. |

Deadlock is checked in the `SyncPipeline`, `CommitDetails`, `Sweep` and `RevertWaiver`
runs, where a next run or command can always start. It is off where the modelled
world really stops: every batch has its verdict (`MergedPRFreeze`, `BackfillPR`),
every call has ended (`TokenPool`), the process has closed its database
(`DBWriter`), or the verdict is written and re-audited (`AuditVerdict`).

The type invariants and the inductive invariants of section 6 are proved and
not repeated in the runs; TLC checked them while the proofs were written (of
`RevertWaiver` its properties only).
The largest spaces are `AuditVerdict` (2.1 million distinct states), `Sweep`
(0.8 million) and `TokenPool` (0.3 million).

## 4. Bounds, and why they are enough

Every bound is a constant of its module and is given its value in the `.cfg`.

* **SyncPipeline**: five commits (drawn in `MCSyncPipeline`): a main line of
  three, one of them backdated below every window; one on diverged history, for
  force-pushes; one that reaches the tables only through its pull request. Each
  role matters to some property, and a second commit in a role adds no new case,
  because the code treats a range as a set. `Ceiling = 1` sends some ranges to the
  graph and some to the window. Three pushes allow forward, rewind and forward
  again; one failure and one death, anywhere, are the code's unit of recovery: after
  either a new run starts from the tables alone. In the two-branch run the PR's
  head ref has the name of an audited branch, as a fork's may.
* **CommitDetails**: two commits, one of which a PR's listing brings too, and two
  branches, so that one branch's batch overwrites what the other's audit fetched; one
  fetch or mark fails; one change of what the other rules say, so that a re-audit may
  fall through to the empty-commit rule. A third branch could only be another lister. Branches are
  symmetric; the run checks no liveness.
* **Sweep**: two repositories, one that runs and one that fails; `Freshness = 1`
  separates a usable list from one that is too old; one change, push, edit and
  failure, each at any instant. Two configurations are one edit.
* **MergedPRFreeze / BackfillPR**: two batches are the race; a third reads what one
  of two wrote. Backfill has one batch and two failures, so that a repair may fail
  as well.
* **DBWriter**: three workers over a channel of two, so that one is blocked in
  `Submit`, others wait for a reply, and the channel is full; one failing and one
  hanging statement. What a worker's second `Write` would do is what another
  worker's first does.
* **TokenPool**: two tokens (one to leave, one to go to), one of them out of a
  request's scope until a redirect moves the request (`Moved`), or takes it where no token serves; three requests over two slots, so that two compete for a token
  while one is refused; `Quota = 2` and `Threshold = 1` make a token run out;
  two faults reach a retry that is answered by another kind of throttle; three
  instants hold a whole window and a cooldown beyond it.
* **AuditVerdict**: in *reviews* the fold treats reviewers separately, so one is
  enough; three reviews and two dismissals within three instants give every order,
  ties included (`MaxAtOnce`: two reviews in one instant; section 7 has what three
  would do); nobody audits there, so who merges and what then landed is irrelevant. In *verdicts* and *reports*, two commits and two
  approvals are needed for an approval of an older commit; the opener, a reviewer who may also be an author, and an exempt
  bot are the roles the rules tell apart; one failing fetch at any place; one pull request, listed or
  not, is what a message can name and a backfill find. *reports*
  varies what only reports tell apart: whether the required check ran, whether
  what merged is a clean revert, and has the fast-forward, whose commits *verdicts* knows
  from the local merge and whose merge commit is the branch's own head. The proofs remove
  all of these bounds.
* **RevertWaiver**: two repositories are what a cancelled sibling needs; messages
  of each class; one failure or death in each behaviour. The proofs remove these bounds.

## 5. Fairness

Fairness is weak, but for two conditions in `Sweep`, and on whole goroutines rather than
on single outcomes, so no property relies on an operation *succeeding*: a fair step may be its failure
or a cancellation, and only the fault budget ends these.

* A branch, batch, worker or request goroutine that can go on does (Go's
  scheduler), and a statement or API call returns. A statement that hangs in
  `DBWriter` is not assumed to return: `Close`'s timer is what `CloseReturns` rests on.
* `StartRun`: somebody runs the tool again when no run is in progress, which is what
  Architecture.md 950–952 relies on ("the next sync picks up where this one left
  off"). `BacklogDrains` and `HeadsCovered` are about unflagged runs; runs that always
  carry `--until` promise neither.
* `Tick` in `TokenPool`: time passes when no call has anything to do before it.
* `Sweep`: strong fairness of `Tick`, which only the enumeration of an organisation
  holds up, and of starting a run over the whole organisation: somebody (the "cron runs"
  of `config.go` 217) does so again and again, whatever else is run between. A run that
  can go on does (weak).
* Not assumed: pushes, cancellations, interrupts, failures or deaths; nothing
  depends on GitHub doing anything but answer or break the connection.

No run that checks liveness uses symmetry.

## 6. What is proved

The theorems hold for every value of the constants that satisfies the modules'
named assumptions, so for any number of branches, batches, repositories,
calls, tokens, failures and deaths. Each component with state has a type-correctness
theorem (`TypeCorrect`, or a conjunct of its invariant's).

**SyncPipelineProofs** assumes only that reachability is reflexive and
transitive, that dates are positive and that the constants have their types.
`CursorCovers` is not inductive: a cursor is written from what was computed many
steps before. `IInv` carries the facts along the way of a branch: only the branch
itself writes the cursor it has read (`RunInv`), who is in the audit phase holds the
mutex (`MutexInv`), what was fetched or linked is stored (`IngestInv`), the tip
on offer is covered by what was fetched, settled or excused (`FetchInv`), the
unaudited set contains all of that which has no verdict (`LoadInv`), and a rewrite is on
record before the cursor moves (`EvidenceInv`). One lemma per conjunct, one step per
action. From it: `TypeCorrect`, `CursorIsCovered`, `StampIsDrained`,
`AuditedOnce`, `EvidenceOnRecord`, `CursorKept`, and
`PipelineImplementsLedger`: the cursor's statement maps to `Advance`, whose guard
is what `FetchInv` and `LoadInv` give, the verdicts' to `Audit`, the listing's to `Excuse`,
everything else stutters.

**MergedPRFreezeProofs** proves `FreezeInv`, `FreezeIsSound`, `RepairIsPossible` and
`ChecksAreFollowed` for any number of concurrent batches. The strengthening says
that an empty answer was believed only under a stored PR row (`AbsentInv`), that
only complete enrichments reach the writer (`CompleteInv`), that nothing in flight is in
hand between runs or in a run that began after CI was over (`FreshInv`; what the tables hold may
be, `ciBefore` remembers when the run began), and that the statements
before the writer's position are stored (`WriteInv`), which is what "PR rows go last"
buys. For the backfill it proves `Repairs`, on top of those lemmas that do
not rely on the order of statements a backfill breaks (`ProgressInv`); `BackfillInv` says
what a backfill has stored on its way.

**RevertWaiverProofs** proves `TypeCorrect`, `WaiversAreProven`,
`VerificationsAreKept` and `ReauditsReconcile`. A row between its DELETE and its
INSERT exists only in a goroutine's memory, and a result is stored long after it was
computed, so the invariant speaks about `work` as well as `row`: rows and results
are sound (`RowsSound`, `WorkSound`), a result's verdict is the one of its own
classification (`WorkExact`), a verified row in transit is still verified (`VerifiedHeld`),
and nothing is in transit between commands (`Quiet`).

**CommitDetailsProofs** proves `TypeCorrect`, `SyncWaivers`, `Details`, `Refusals` and
`Agreement` from `DInv`: every copy of a commit's stats, be it a row, a staged row,
the copy a branch audits or the fetcher's answer, claims no more than GitHub and
claims it only on a stored detail or a seen failure (`RowsTruthful`, `StagingTruthful`,
`TodoTruthful`, `AnswersTruthful`); what sync concluded rests on such a copy
(`VerdictsGrounded`); a batch past its first statement has the details stored until
then (`StagedKept`), which is why only a late one is lost.

**SweepProofs** proves `TypeCorrect`, `StampCovers` and `StampNames` from `SInv`: the
cached list may lag only for repositories that changed since it was fetched
(`CacheTrue`), what a run owes existed when it began (`OwedWasPushed`), a repository
whose goroutine has returned owes nothing (`SweptIsPaid`), and what the run judged it
judged under the rules it was built with (`FreshUnderRules`).

**DBWriterProofs** proves `RequestsAccounted` (accepted requests are at all times the
executed ones, the running one and the queue, in that order), `NilIsCommitted`,
`DrainedIsAnswered` and `NeverSendsOnClosed`, from `WInv`: a `nil` is for committed
statements (`RepliesTrue`) and the channel is closed after the last worker has left
(`ClosedInOrder`).

**TokenPoolProofs** proves `CountersExact`, `OrderIrrelevant`, `LeaksAreRetries` and
`OutRests` from `PInv`. The counters follow the calls because every step changes one
call and the counters by what that call holds before and after (the `Effect` lemmas);
a header that names a coming reset names the end of the token's current window
(`Dated`), so within a window what is known of a token only falls; and what a scan takes for out
stays out until the time it noted (`Resting`), though count and reset time are
loaded one after the other.

**AuditVerdictProofs** proves all that the `AuditVerdict` run checks, for any accounts, policy,
pull requests, reviewers, histories, failed fetches and bounds: `Compliance`, `FailClosed`,
`NeverForgives`, `ReportsAgree`, `ActionsNameReasons`, `ApprovalsStood` and `LossesSeen`. It
assumes what the constants mean: accounts and contents of the right kind, finitely many
pull requests, GitHub's committer account not exempt, an unknown base that is no
audited branch, and stand-ins for "failed", "no review" and "no commit" that are not
stats, reviews or SHAs.

* The rule list is unfolded once: `Judgement` says which rule decided and what it found in the
  evidence. Everything later speaks of its conclusion.
* `WorldOK` says what pushes and merges leave behind (the branch is a chain as its SHAs
  number it, a landing belongs to its pull request); the evidence that sync and the
  re-audits gather is faithful to it (`SyncFaithful`, `OfflineFaithful`): stats are right or
  absent, and a branch's commits are all there or none are. The tables' reviews may lack the
  times of dismissals (`StoredReviewsTell`), which only makes an approval harder to find.
* So a grant is justified by the world alone, whoever found it (`Justified`), and a refusal
  leaves nothing that the database alone could find (`Unforgiven`). The properties are not
  inductive, since a re-audit computes its row from what an earlier audit linked and stored;
  `RowOK`, which is about every row with the evidence it was computed from, is kept by each of the
  four commands (`RowsWellFounded`). The reports rest on the shape that the rules give a
  row (`RowShape`).
* `StoodAtMerge` compares a fold over rows that GitHub rewrites with what happened.
  `ReviewsTell` is its invariant: a row shows its reviewer's last word or, if dismissed, what it
  was and when it fell, and an approval stands if and only if the last row that
  counts says so (`ReviewsFollowed`). The fold is then followed row by row (`Entry`, `Folded`) in any order
  that sorts the rows by time: a comment never displaces an approval, and of two verdicts
  the later one stays. This needs `MaxAtOnce <= 2`, which `ReviewsFollowed`, `ApprovalsStood` and
  `LossesSeen` assume: with three reviews of one reviewer in one instant the fold's answer is
  the order of the rows (section 7).
* Two orders that nobody promises are shown harmless, for any number of pull requests and check runs.
  `LatestRunsDecide`: of the runs of a required check on the head only the latest
  counts, and there is only one latest, though the code compares times and then ids.
  `OrderDecidesCreditOnly`: the order in which a commit's pull requests are listed (GitHub's, or
  that of a query) decides which of several passing ones is credited, and never
  whether the commit is compliant; the model takes one such order (`SetToSeq` in `Evidence`).

The fold of the reviews and the walk of the carve-out are recursive functions. `Recursion`
shows that a function built step by step exists, so that its equations may be used, and `NatInd` is
induction for a set in the place of a predicate, derived from the library's well-founded
order of the naturals.

This tlapm's encoding of sequences for SMT takes `DOMAIN s = 1..Len(s)` for every value `s`, not
only for sequences. The proofs of this module state membership in `Seq` where they need it, and
were also found valid with that axiom limited to sequences.

Only model-checked: liveness (`BacklogDrains`, `HeadsCovered`, `BacklogSwept`,
`EveryCommitAudited`, `WriteReturns`, `CloseReturns`, `EveryCallEnds`), which is out of the
prover's reach, as is ENABLED. Every invariant and every action property of a passing run
is a theorem.

## 7. Where code and documentation disagree

Two are runs that must find a counterexample:

1. **Landing scope is lost in a bulk re-audit** (`AuditVerdict_scope`).
   `loadRepoEnrichmentBundle` (`cmd/reaudit.go` 323) selects pull requests without
   `base_branch`, under a comment that says "same column shape as
   db.GetPullRequest"; an unknown base is credited. A commit that sync
   refused because its PR merged elsewhere turns compliant. Architecture.md 682–683:
   "`sync` and `re-audit` honour the same setting, so the two never disagree".
2. **A message can waive** (`RevertWaiver_forged`). `re-audit` audits commits that sync has not,
   without classification; `reclassify` marks an automatic-revert *message* as a clean revert
   with "message-only"; the next re-audit reads `is_clean_revert` alone and waives it.
   `audit.go` 401–403: "A forgeable revert message never waives on its own".

Others were met while modelling. They are modelled or noted at the definitions
concerned, and no run states them:

* `--since` later than the cursor's date still moves the tip, over commits that
  the listing left out (`pipeline.go` 980); `excused` is how the model keeps count. The same gap opens
  when a head lookup fails (1259) or a compare is unavailable (1276), and then a
  rewrite is not looked for either.
* `re-audit` judges every row of `commits` (`reaudit.go` 256), also those that a sync
  stored and died before judging; their zeros read as empty, and as the row then has a
  verdict no sync looks again (`ReauditRejudges` in `CommitDetails`, against "Re-runs
  EvaluateCommit on every audit_results row").
* A detail stored between the UPDATE that preserves a batch's details and the merge
  of the batch is lost (`db/commits.go` 51; `NeverClobbered`).
* Re-audits leave no stamp and a failed run leaves the previous one, so verdicts of
  other rules stand under a stamp without drift (`DriftIsFlagged` in `Sweep`, against
  Architecture.md 1242–1246).
* `org_repos_cache_freshness: "0s"` does not disable the cache, as README.md 172 says:
  the default turns 0 into 24 h (`config.go` 219). `--org-repos-cache=0s` does, but
  neither reads nor writes it, so the next plain run may use the list from before.
* `report.go` 294 says that Summary, By Rule and Decision Matrix agree. A weakly
  waived commit fails rule 3 in the matrix (`rules.go` 112–121 tests for the full waiver
  only, and such a row has no PR even when it came by one), and the Summary does not
  count it (`AccountsAgree` states the rest).
* `SynthesizeAction` "picks a primary failing rule" (`rules.go` 267), but landing scope has no
  cell: a commit refused for it alone gets the remedy of another rule or none
  (`ActionNamesAReason` leaves it out).
* `annotate-commits` rewrites a row without the tag of a forgeable exemption, so a
  weak waiver then reads as a full one (`AnnotateCommits`).
* What counts as a landing branch is read from two places (`pipeline.go` 741–745 and
  930–938, `reaudit.go` 79–80), and a manifest's digests ignore the dates the report was limited
  to (`manifest.go` 218–252).
* A PR's branch commits are linked by the *name* of its head ref, which a fork chooses (`pipeline.go` 1193).
* `persistBackfilledPR` stores the PR row first (`backfill.go` 389), against the order
  sync relies on, and does not link branch commits (425, comment 375–377). The audit that
  follows takes an approver who wrote part of the branch for independent
  (`BackfillKnowsTheBranch` in `AuditVerdict`, against Architecture.md 529–536).
* It also asks for no dismissal times (392; sync does, `caching.go` 449–474), and
  its rows replace those that had one (`StoredReviews` in `AuditVerdict`): an approval dismissed after
  the merge then never stood, so the re-audit refuses what a sync grants, with the concern of an undated dismissal.
* A backfill takes its candidates from a fixed list of branch names (`backfill.go` 159)
  and its pull requests from the configured ones, or from `master` and `main` when
  these are all patterns (231–239): commits of an audited branch with another name have no repair.
* "The carve-out never weakens compliance when real human code shipped after the approval"
  (Architecture.md 526–527): `isApprovalRefreshable` (`audit.go` 1060–1063) passes over
  the commit that the pull request names as its merge commit, meaning GitHub's own. When a
  branch is pushed to land, that commit is the branch's head, and somebody's; an
  approval of the commit before it then covers it (`CompliantMeansReviewed` allows a
  refreshed approval this one commit).
* An exemption is voided by human work on a pull request only if that pull request was
  listed (`ErrorsFailClosed` leaves it out).
* `Write` may return the context's error after its statement completed
  (`dbwriter.go` 58); `recordIfRewritten` writes beside the writer (`history.go` 26).
* A throttle that answers the retry of a 5xx goes to the caller without a
  cooldown (`tokenpool.go` 704); a redirect reuses a reservation and gives it
  back twice (591); peers can choose the same token before any of them has reserved (427);
  a token's count and reset time are loaded one after the other (388), so a scan may pair
  the two of different answers (`Load`, `Weigh`).
* DELETE and INSERT of a row with list columns commit separately (`appender.go`
  117–141): a death, or another repository's error through the shared context,
  loses the row; a re-audit then stores it without classification, as it also does when
  `reauditSingleCommit` cannot read the old one (`reaudit.go` 553).
* `verify-reverts` logs a failed re-audit and leaves the verdict stale
  (`backfill.go` 709), until the next full re-audit (`ReauditReconciles`).
* `re-audit --only-failures` does not load a commit's file count (`reaudit.go` 259),
  so a pure rename counts as empty.
* The carve-out for approvals of an older commit stops at the first that cannot be
  refreshed (`audit.go` 511), and a later dismissal can turn it over; an undated dismissal followed by a comment
  hides a lost approval. Of an approval, a refusal and a comment that one reviewer
  submitted in that order within one second, the order in which the rows are read decides
  (`GetReviewsForPR` sorts by time alone, `db/prs.go` 230): read last, the approval displaces the
  comment that displaced the refusal, while `audit.go` 746–750 wants the verdict free of
  row order. Of several passing pull requests of one commit the first listed is credited, so whether a row
  reads "approved" or "refreshed", and its concern, may hang on the order of a listing
  (`OrderDecidesCreditOnly` is what remains certain). A re-audit has no way to fetch stats, so
  `hasNonEmptyContribution` (`audit.go` 1113) counts an approver who pushed only empty commits as
  a contributor, and a re-audit can refuse what sync granted; `Architecture.md` 555–562 excludes
  empty commits for good. A check run that is running again and has no time of
  completion is never the latest.

Some properties step around a loss listed above, because the code really has it, and so
say nothing of that loss itself: `DetailKept` and what follows from it leave out a detail
that lands between a batch's two statements, or whose mark failed (`cmd/sync.go` 179);
`VerifiedKept` leaves out the row whose own rewrite was cut and the classification that
could not be read, and says that nothing else loses one; `BackfillRepairs` speaks after a
complete backfill, and not of what a sync concludes from a torn one; `StampNamesItsRules`
speaks of the run that is stamped, and not of the verdicts that re-audits and failed
runs leave under the stamp; and no property promises that peers choose tokens
evenly: `InFlightExact` is about the counts they choose by. The hazards concerned carry a note in
`PROJECT.json`.

## 8. What is left out

* **Manifest and verify**: not modelled yet (see the plan), but for the drift of a stamp.
* **Report and workbook**: the scope of the queries, sums, order, formats.
* **Telemetry, progress, configuration, version**: counters,
  parsing and validation; nothing else depends on their state.
* **GitHub client**: pagination (a paged listing is not one instant of GitHub) and field conversion; what its calls return is the
  environment of the other modules.
* **Matching of messages and patches** (`ParseRevert`, `IsCleanRevertDiff`,
  annotations' tags): text. Only their verdicts appear.
* **Tokens added on SIGHUP, `MarkDisabled`**: the latter has no caller outside tests.
* **Several pull requests of one commit**: `AuditVerdict` is stated for any number and
  checked with one; `MergedPRFreeze` is about one.
* **Several organisations** in one run, and `--since` and `--until` outside
  `SyncPipeline`; reviews that reach an old PR after its
  commits were judged (`pipeline.go` 882: such a commit is not enriched again, and a
  re-audit reads what is stored).
* **Future-dated commits**, and clocks that go back.

## 9. Plan

Order followed so far: the cursor and the audit phase (`SyncPipeline`,
`AuditLedger`), the frozen PR (`MergedPRFreeze`, `BackfillPR`), the writer, the token
pool, the kernel, its environment, the lookup of pull requests, the waiver, commit details, the sweep, the reports;
proofs of everything that has state, and last of the kernel and the verdicts.

Next:

1. *Two pull requests of one commit*: the theorems cover them, the run does not. With several,
   a bulk re-audit, which has lost the base branches, may take another one than sync did;
   and the enricher's memory keeps the first answer for the rest of a run.
2. *Manifest and verify*: what may change between the two without being noticed.
3. *The clean-revert comparison* over small patches against a reference definition.
4. *Rows of commits on no audited branch*, and the deletion of orphaned ones, in `re-audit`.
