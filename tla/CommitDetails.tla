---------------------------- MODULE CommitDetails ----------------------------
(***************************************************************************)
(* The diff stats of one repository's commits: who stores them, who        *)
(* overwrites them, and what the empty-commit rule makes of a row that has *)
(* none.                                                                   *)
(*                                                                         *)
(* List and compare endpoints carry no stats, so the row they leave says   *)
(* zero lines and no detail.  sync's StatsFetcher asks GitHub for one      *)
(* commit when the other rules would refuse it, and stores the answer      *)
(* beside the writer goroutine; meanwhile another branch of the repository *)
(* may list the same commit again, and its batch replaces the row in two   *)
(* statements.  Re-audits decide later from the rows alone.                *)
(*                                                                         *)
(* Additions and deletions are one flag (lines), the file count another;   *)
(* whatever the other rules say of a commit is its standing.  Commands     *)
(* hold the database alone, so a re-audit runs between syncs.              *)
(***************************************************************************)
EXTENDS Naturals, FiniteSets

CONSTANTS
    Commit, Branch,
    Reach,      \* the commits a branch's fetch may list
    PRCommit,   \* commits that GET /pulls/{n}/commits may bring
    MaxFault,   \* bound on the commits of which a fetch or a mark fails
    MaxPolicy,  \* bound on the changes of what the other rules say
    None,       \* no row; a call not made
    Calling, Failed

Stat == [lines : BOOLEAN, files : BOOLEAN]

\* Nothing changed, a pure rename or mode change, changed lines.
Contents == {s \in Stat : s.lines => s.files}

Row == [lines : BOOLEAN, files : BOOLEAN, marked : BOOLEAN]

Verdict == [says : {"granted", "empty", "refused"}, by : {"sync", "all", "failures", "single"}]

ASSUME CommitDetailsAssumption ==
    /\ Reach \in [Branch -> SUBSET Commit]
    /\ PRCommit \subseteq Commit
    /\ MaxFault \in Nat /\ MaxPolicy \in Nat
    /\ None \notin Row \cup Verdict \cup Stat
    /\ Calling \notin Stat \cup {None}
    /\ Failed \notin Stat \cup {None, Calling}

VARIABLES
    content,   \* what each commit really changes
    standing,  \* the commits that the other rules grant
    row,       \* commits table
    verdict,   \* audit_results table
    pc,        \* each branch's goroutine in syncBranch
    staging,   \* staging_commits, inside one writer closure
    todo,      \* the unaudited copies held by the branch that has auditMu
    answer,    \* the fetcher's calls: not made, at GitHub, or what they returned
    told,      \* history: commits whose detail was stored
    late,      \* history: stored between a batch's two statements
    faulted,   \* history: a fetch or the storing of its answer failed
    policies   \* standings changed so far

dbVars      == <<row, verdict>>
runVars     == <<pc, staging, todo, answer>>
historyVars == <<told, late, faulted>>
vars == <<content, standing, dbVars, runVars, historyVars, policies>>

ZeroRow == [lines |-> FALSE, files |-> FALSE, marked |-> FALSE]

StatOf(r) == [lines |-> r.lines, files |-> r.files]

Detailed(stat) == [lines |-> stat.lines, files |-> stat.files, marked |-> TRUE]

Blank(stat) == ~stat.lines /\ ~stat.files

Stored == {c \in Commit : row[c] # None}

Steps == {"idle", "list", "staged", "preserved", "wait", "enrich", "audit", "done"}

InWriter(b) == pc[b] \in {"staged", "preserved"}
HoldsAuditMu(b) == pc[b] \in {"enrich", "audit"}
Idle == \A b \in Branch : pc[b] = "idle"

TypeOK ==
    /\ content \in [Commit -> Contents]
    /\ standing \in SUBSET Commit
    /\ row \in [Commit -> Row \cup {None}]
    /\ verdict \in [Commit -> Verdict \cup {None}]
    /\ pc \in [Branch -> Steps]
    /\ DOMAIN staging \in SUBSET Commit /\ staging \in [DOMAIN staging -> Row]
    /\ DOMAIN todo \in SUBSET Commit /\ todo \in [DOMAIN todo -> Row]
    /\ answer \in [Commit -> Stat \cup {None, Calling, Failed}]
    /\ told \in SUBSET Commit /\ late \in SUBSET Commit /\ faulted \in SUBSET Commit
    /\ policies \in 0..MaxPolicy

Nothing == [c \in {} |-> ZeroRow]
Unasked == [c \in Commit |-> None]

Init ==
    /\ content \in [Commit -> Contents]
    /\ standing \in SUBSET Commit
    /\ row = [c \in Commit |-> None] /\ verdict = [c \in Commit |-> None]
    /\ pc = [b \in Branch |-> "idle"]
    /\ staging = Nothing /\ todo = Nothing /\ answer = Unasked
    /\ told = {} /\ late = {} /\ faulted = {}
    /\ policies = 0

-----------------------------------------------------------------------------
(* sync: one goroutine per branch. *)

StartRun ==
    /\ Idle
    /\ pc' = [b \in Branch |-> "list"]
    /\ UNCHANGED <<content, standing, dbVars, staging, todo, answer, historyVars, policies>>

\* A fetch that lists nothing new writes nothing.
ListNothing(b) ==
    /\ pc[b] = "list"
    /\ pc' = [pc EXCEPT ![b] = "wait"]
    /\ UNCHANGED <<content, standing, dbVars, staging, todo, answer, historyVars, policies>>

\* UpsertCommits, in one closure of the writer: the batch is staged without stats,
Stage(b) ==
    /\ pc[b] = "list"
    /\ \A x \in Branch : ~InWriter(x)
    /\ \E batch \in (SUBSET Reach[b]) \ {{}} : staging' = [c \in batch |-> ZeroRow]
    /\ pc' = [pc EXCEPT ![b] = "staged"]
    /\ UNCHANGED <<content, standing, dbVars, todo, answer, historyVars, policies>>

\* Mutant: the file count is not among the columns preserved.
Preserved_NoFiles(s, r) ==
    IF ~s.marked /\ r # None /\ r.marked THEN [r EXCEPT !.files = FALSE] ELSE s

\* Mutant: the batch is not reconciled with the table.
Preserved_Never(s, r) == s

Preserved(s, r) == IF ~s.marked /\ r # None /\ r.marked THEN r ELSE s

\* takes over the details already stored,
Preserve(b) ==
    /\ pc[b] = "staged"
    /\ staging' = [c \in DOMAIN staging |-> Preserved(staging[c], row[c])]
    /\ pc' = [pc EXCEPT ![b] = "preserved"]
    /\ UNCHANGED <<content, standing, dbVars, todo, answer, historyVars, policies>>

\* and replaces the rows.
Merge(b) ==
    /\ pc[b] = "preserved"
    /\ row' = [c \in Commit |-> IF c \in DOMAIN staging THEN staging[c] ELSE row[c]]
    /\ staging' = Nothing
    /\ pc' = [pc EXCEPT ![b] = "wait"]
    /\ UNCHANGED <<content, standing, verdict, todo, answer, historyVars, policies>>

\* auditMu taken, GetUnauditedCommits.
LoadUnaudited(b) ==
    /\ pc[b] = "wait"
    /\ \A x \in Branch : ~HoldsAuditMu(x)
    /\ todo' = [c \in {c \in Stored : verdict[c] = None} |-> row[c]]
    /\ pc' = [pc EXCEPT ![b] = "enrich"]
    /\ UNCHANGED <<content, standing, dbVars, staging, answer, historyVars, policies>>

\* InsertCommitsIfAbsent.
Inserted(c, r) == IF r = None THEN ZeroRow ELSE r

\* writeEnrichmentBatch: the copies' lines go back (UpdateCommitStats), and the
\* commits of the pull requests' branches come in.
Enrich(b) ==
    /\ pc[b] = "enrich"
    /\ \A x \in Branch : ~InWriter(x)
    /\ \E brought \in SUBSET PRCommit :
          row' = [c \in Commit |->
                    LET r == IF c \in DOMAIN todo /\ todo[c].lines
                             THEN [row[c] EXCEPT !.lines = TRUE] ELSE row[c]
                    IN  IF c \in brought THEN Inserted(c, r) ELSE r]
    /\ pc' = [pc EXCEPT ![b] = "audit"]
    /\ UNCHANGED <<content, standing, verdict, staging, todo, answer, historyVars, policies>>

\* The empty-commit rule asks for a commit the other rules refuse and whose
\* copy shows no lines; other rules ask for commits of a PR's branch.
MustAsk(c) == c \in DOMAIN todo /\ c \notin standing /\ ~todo[c].lines
MayAsk(c) == MustAsk(c) \/ (c \in PRCommit /\ c \in Stored)

\* What the database can answer: a marked row, and one with lines.
Known(r) == r # None /\ (r.marked \/ r.lines)

\* The fetcher's first step, GetCommitsBySHA.
Ask(c) ==
    /\ \E b \in Branch : pc[b] = "audit"
    /\ answer[c] = None /\ MayAsk(c)
    /\ answer' = [answer EXCEPT ![c] = IF Known(row[c]) THEN StatOf(row[c]) ELSE Calling]
    /\ UNCHANGED <<content, standing, dbVars, pc, staging, todo, historyVars, policies>>

\* GetCommitDetail answers and MarkCommitDetail stores it, beside the writer.
Mark(c) ==
    /\ answer[c] = Calling
    /\ row' = [row EXCEPT ![c] = Detailed(content[c])]
    /\ answer' = [answer EXCEPT ![c] = content[c]]
    /\ told' = told \cup {c}
    /\ late' = IF c \in DOMAIN staging /\ \E b \in Branch : pc[b] = "preserved"
               THEN late \cup {c} ELSE late
    /\ UNCHANGED <<content, standing, verdict, pc, staging, todo, faulted, policies>>

\* Its failure is not looked at: the answer still counts.
MarkFails(c) ==
    /\ answer[c] = Calling
    /\ Cardinality(faulted) < MaxFault
    /\ answer' = [answer EXCEPT ![c] = content[c]]
    /\ faulted' = faulted \cup {c}
    /\ UNCHANGED <<content, standing, dbVars, pc, staging, todo, told, late, policies>>

FetchFails(c) ==
    /\ answer[c] = Calling
    /\ Cardinality(faulted) < MaxFault
    /\ answer' = [answer EXCEPT ![c] = Failed]
    /\ faulted' = faulted \cup {c}
    /\ UNCHANGED <<content, standing, dbVars, pc, staging, todo, told, late, policies>>

\* Mutant: what could not be fetched counts as empty.
EmptyHolds_OnError(a) == a = Failed \/ Blank(a)

\* applyEmptyCommitFallback, online: an error fails closed.
EmptyHolds(a) == a # Failed /\ Blank(a)

Online(c) ==
    IF c \in standing THEN "granted"
    ELSE IF MustAsk(c) /\ EmptyHolds(answer[c]) THEN "empty" ELSE "refused"

\* The audit fan-out has returned; UpsertAuditResults.
WriteResults(b) ==
    /\ pc[b] = "audit"
    /\ \A x \in Branch : ~InWriter(x)
    /\ \A c \in Commit : answer[c] # Calling /\ (MustAsk(c) => answer[c] # None)
    /\ verdict' = [c \in Commit |->
                     IF c \in DOMAIN todo THEN [says |-> Online(c), by |-> "sync"]
                     ELSE verdict[c]]
    /\ todo' = Nothing /\ answer' = Unasked
    /\ pc' = [pc EXCEPT ![b] = "done"]
    /\ UNCHANGED <<content, standing, row, staging, historyVars, policies>>

EndRun ==
    /\ \A b \in Branch : pc[b] = "done"
    /\ pc' = [b \in Branch |-> "idle"]
    /\ UNCHANGED <<content, standing, dbVars, staging, todo, answer, historyVars, policies>>

\* A statement, a call or the process fails: the whole run ends, what is
\* stored stays.
RunFails ==
    /\ ~Idle
    /\ pc' = [b \in Branch |-> "idle"]
    /\ staging' = Nothing /\ todo' = Nothing /\ answer' = Unasked
    /\ UNCHANGED <<content, standing, dbVars, historyVars, policies>>

-----------------------------------------------------------------------------
(* Re-audits: no fetcher, stored zeros count as empty. *)

\* Mutant: the file count is not selected.
Loaded_NoFiles(r, kind) == [lines |-> r.lines, files |-> FALSE]

\* --only-failures does not select the file count.
Loaded(r, kind) == IF kind = "failures" THEN [lines |-> r.lines, files |-> FALSE] ELSE StatOf(r)

Offline(c, kind) ==
    IF c \in standing THEN "granted"
    ELSE IF Blank(Loaded(row[c], kind)) THEN "empty" ELSE "refused"

\* The rows a pass judges: every commit of the repository, audited or not; the
\* refused ones; the one a backfill repairs.
Candidates(kind) ==
    LET refused == {c \in Stored : verdict[c] # None /\ verdict[c].says = "refused"}
    IN  CASE kind = "all"      -> {Stored}
          [] kind = "failures" -> {refused}
          [] kind = "single"   -> {{c} : c \in refused}

ReAudit(kind) ==
    /\ Idle
    /\ \E judged \in Candidates(kind) :
          verdict' = [c \in Commit |->
                        IF c \in judged THEN [says |-> Offline(c, kind), by |-> kind]
                        ELSE verdict[c]]
    /\ UNCHANGED <<content, standing, row, runVars, historyVars, policies>>

\* The configuration or the evidence changes what the other rules say.
Reconsider(c) ==
    /\ Idle
    /\ policies < MaxPolicy
    /\ policies' = policies + 1
    /\ standing' = IF c \in standing THEN standing \ {c} ELSE standing \cup {c}
    /\ UNCHANGED <<content, dbVars, runVars, historyVars>>

-----------------------------------------------------------------------------
SyncStep(b) ==
    \/ ListNothing(b) \/ Stage(b) \/ Preserve(b) \/ Merge(b)
    \/ LoadUnaudited(b) \/ Enrich(b) \/ WriteResults(b)

FetchStep(c) == Ask(c) \/ Mark(c) \/ MarkFails(c) \/ FetchFails(c)

Next ==
    \/ StartRun \/ EndRun \/ RunFails
    \/ \E b \in Branch : SyncStep(b)
    \/ \E c \in Commit : FetchStep(c) \/ Reconsider(c)
    \/ \E kind \in {"all", "failures", "single"} : ReAudit(kind)

Spec == Init /\ [][Next]_vars

-----------------------------------------------------------------------------
(* Properties. *)

\* What the table says of a commit is what GitHub says: a marked row in full,
\* and lines are never made up.  (commitRow, preserveCommitDetailSQL,
\* MarkCommitDetail, UpdateCommitStats, InsertCommitsIfAbsent.)
StoredIsTrue ==
    \A c \in Stored :
        /\ row[c].marked => StatOf(row[c]) = content[c]
        /\ row[c].lines => content[c].lines

\* A waiver sync gives for emptiness is for a commit that changes nothing,
\* whatever failed and whoever listed the commit again meanwhile.
SyncWaivesTheEmpty ==
    \A c \in Commit :
        verdict[c] = [says |-> "empty", by |-> "sync"] => Blank(content[c])

\* A detail that was stored stays stored, and as GitHub gave it: batches and branches that bring the
\* commit again notwithstanding, unless it landed between the two statements
\* of such a batch.
DetailKept ==
    \A c \in told \ late : row[c] = Detailed(content[c])

\* sync refuses a commit without leaving its detail behind only after a
\* failure, or when the detail fell between those statements; so a full
\* re-audit takes a refused commit for an empty one only then.
RefusalsKeepTheirProof ==
    \A c \in Commit \ (faulted \cup late) :
        verdict[c] = [says |-> "refused", by |-> "sync"] => row[c].marked

\* "sync-time verdicts and offline re-audits then agree": a full re-audit says
\* of a commit whose detail was stored what sync said, while the other rules
\* still refuse it; what it corrects is a refusal of an empty commit after a
\* failed fetch.
ReauditAgrees ==
    [][\A c \in told \ late :
          /\ verdict[c] # None /\ verdict[c].by = "sync" /\ verdict[c].says # "granted"
          /\ verdict'[c].by \in {"all", "single"} /\ c \notin standing
          => \/ verdict'[c].says = verdict[c].says
             \/ c \in faulted /\ Blank(content[c])]_vars

-----------------------------------------------------------------------------
(* Statements of the repository that the code does not keep. *)

\* re-evaluate-commits: "Re-runs EvaluateCommit on every audit_results row",
\* so a commit without a verdict waits for sync.
ReauditRejudges ==
    [][\A c \in Commit : verdict[c] = None /\ verdict'[c] # None => verdict'[c].by = "sync"]_vars

\* preserveCommitDetailSQL "guards lazily-fetched commit detail from being
\* clobbered by stat-less re-ingestion".
NeverClobbered ==
    [][\A c \in Stored : row[c].marked => row'[c].marked]_vars
=============================================================================
