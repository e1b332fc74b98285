---------------------------- MODULE AuditVerdict ----------------------------
(***************************************************************************)
(* One commit of the audited branch, judged by sync with the stats GitHub  *)
(* answers (cmd/sync.go's StatsFetcher) and judged again later from the    *)
(* database alone (cmd/reaudit.go, and backfill's reauditSingleCommit).    *)
(*                                                                         *)
(* The database's copy of reviews, checks, commits and links is the one    *)
(* sync's enrichment wrote just before it judged, or a backfill's;         *)
(* MergedPRFreeze.tla and BackfillPR.tla are about that copy.  What the    *)
(* API shows after the audit never reaches it, so the world stops here     *)
(* when the row is written.                                                *)
(***************************************************************************)
EXTENDS PullRequests

CONSTANTS
    NoRow,          \* the commit is not audited yet
    CheckHistories, \* sets of check runs the API may list
    CleanReverts,   \* what the diff check of a revert may say
    MaxErrors,      \* bound on the stats fetches that fail during one audit
    AuditAt,        \* the instant from which sync audits
    Kinds           \* ways to re-audit, among "bulk", "failures", "single"

ASSUME AuditAssumption ==
    /\ Kinds \subseteq {"bulk", "failures", "single"}
    /\ CleanReverts \subseteq BOOLEAN

VARIABLES
    detail,   \* SHAs whose detail_fetched_at is set, their stats stored
    row       \* the commit's audit_results row

vars == <<world, detail, row>>

\* Somebody's own commit, whose message names a pull request.
Claiming(p) == [NewCommit(Landed(0), Opener, <<0>>, "rename") EXCEPT !.ref = p]

\* Commits of Main: one somebody pushed there directly (whatever else goes on,
\* so it is offered before anything does), a merged branch's last commit pushed
\* there, and what pull requests into Main landed or were named by.
OnMain ==
    {NewCommit(Landed(0), a, <<0>>, content) :
        a \in {a \in Authors : branch = <<>>}, content \in Contents} \cup
    {branch[pr[p].head] : p \in {p \in Numbers : Merged(p) /\ pr[p].base # Main}} \cup
    UNION {{landing[p].commit, Claiming(p)} \cup
           (IF landing[p].how = "squash" THEN {} ELSE ChainOf(p)) :
              p \in {p \in Numbers : Merged(p) /\ pr[p].base = Main}}

\* The merged pull requests that contain the commit.
PRsOf(c) ==
    {p \in Numbers : Merged(p) /\ c \in ChainOf(p) \cup {landing[p].commit}}

\* Mutant: the number in the message is believed.
recoverPRFromMergeMessage_Unverified(c) == {p \in Numbers : p = c.ref /\ Merged(p)}

\* The message's number is a hint: the pull request must name the commit back.
recoverPRFromMergeMessage(c) ==
    {p \in Numbers : p = c.ref /\ Merged(p) /\ pr[p].mergeCommit = c.sha}

\* listed is what the memory's index of merge commits, stored links or GET
\* /commits/{sha}/pulls gave, of which each may leave out pull requests.
getPRsForCommit(c, listed) ==
    IF listed # {} THEN listed ELSE recoverPRFromMergeMessage(c)

BranchShas(prs) == UNION {{x.sha : x \in ChainOf(p)} : p \in prs}
Shas(c, prs) == BranchShas(prs) \cup {c.sha}

Truth(c) == [lines |-> Lines(c.content), files |-> Files(c.content)]

\* The database holds the stats that a detail fetch stored.
Stored(c) ==
    IF c.sha \in detail
    THEN [c EXCEPT !.lines = Lines(c.content), !.files = Files(c.content), !.verified = TRUE]
    ELSE c

\* sync's fetcher: stored detail first, then the API, which answers for some.
Fetcher(c, prs, answered) ==
    [online |-> TRUE,
     stat   |-> [s \in Shas(c, prs) |->
                   IF s \in detail \cup answered
                   THEN Truth(IF s = c.sha THEN c ELSE branch[s]) ELSE Failed]]

NoFetcher(c, prs) == [online |-> FALSE, stat |-> [s \in Shas(c, prs) |-> Failed]]

\* What the tables hold of a pull request's reviews.  A backfill asks for no
\* dismissal times, and writes its rows over those that had one.
WithoutDates(rows) == [i \in DOMAIN rows |-> [rows[i] EXCEPT !.dismissedAt = 0]]
StoredReviews(p, known) == IF known.linked THEN reviews[p] ELSE WithoutDates(reviews[p])

\* The evidence known of a commit, its pull requests being as records has them and
\* in an order that neither GitHub nor the tables promise.
Evidence(known, records, commits) ==
    LET numbers == SetToSeq(known.prs)
    IN  [prs         |-> [i \in DOMAIN numbers |-> records[numbers[i]]],
         reviews     |-> [p \in known.prs |-> StoredReviews(p, known)],
         commits     |-> commits,
         checks      |-> known.checks,
         cleanRevert |-> known.clean]

SyncEvidence(known) ==
    Evidence(known, pr, [p \in known.prs |-> ChainOf(p)])

\* Mutant: the re-audit loads no branch commits.
StoredCommits_None(c, known) == [p \in known.prs |-> {}]

\* commit_prs links the audited commit to its pull requests, and their branch
\* commits if a sync stored them.
StoredCommits(c, known) ==
    [p \in known.prs |->
        {Stored(x) : x \in {c} \cup (IF known.linked THEN ChainOf(p) ELSE {})}]

\* The bulk query leaves base_branch out.
WithoutBase == [p \in Numbers |-> [pr[p] EXCEPT !.base = NoBranch]]

buildEnrichmentFromBundle(c, known) == Evidence(known, WithoutBase, StoredCommits(c, known))
buildEnrichmentFromDB(c, known)     == Evidence(known, pr, StoredCommits(c, known))

\* --only-failures selects the commit's lines but not its file count.
loadCandidateCommit(kind) ==
    IF kind = "failures"
    THEN [Stored(row.commit) EXCEPT !.files = 0, !.verified = FALSE]
    ELSE Stored(row.commit)

-----------------------------------------------------------------------------
\* Judging reads no clock: audits before AuditAt show nothing more.
UnauditedCommits == IF row = NoRow /\ now >= AuditAt THEN OnMain ELSE {}

\* known: the tables keep, beside the row, which pull requests the commit is linked
\* to, and whether a sync stored their branch commits and reviews, the check runs and the diff check.
AuditRow(c, v, kind, known) ==
    [commit |-> c, by |-> kind, known |-> known,
     compliant |-> v.compliant, why |-> v.why, pr |-> v.pr, reasons |-> v.reasons,
     signals |-> v.signals, exemptAuthor |-> v.exemptAuthor, forgeable |-> v.forgeable]

\* The audit loop of syncBranch for one unaudited commit.  Rules that ran out
\* of other grounds asked for the commit itself; of the branch commits, those
\* that answered are taken to have been asked for.
SyncAudit(c, listed, answered, checks, clean) ==
    LET prs     == getPRsForCommit(c, listed)
        known   == [prs |-> prs, linked |-> TRUE, checks |-> checks, clean |-> clean]
        verdict == EvaluateCommit(Stored(c), SyncEvidence(known), Fetcher(c, prs, answered))
        late    == verdict.why \notin {"exempt", "approved", "refreshed"}
    IN  /\ c \in UnauditedCommits
        /\ row' = AuditRow(c, verdict, "sync", known)
        /\ detail' = answered \cap (BranchShas(prs) \cup (IF late THEN {c.sha} ELSE {}))
        /\ UNCHANGED world

Offline(kind, ev, prs) ==
    EvaluateCommit(loadCandidateCommit(kind), ev, NoFetcher(row.commit, prs))

ReAudit(kind) ==
    LET ev == IF kind = "single" THEN buildEnrichmentFromDB(row.commit, row.known)
              ELSE buildEnrichmentFromBundle(row.commit, row.known)
    IN  /\ row # NoRow
        /\ kind = "failures" => ~row.compliant
        /\ row' = AuditRow(row.commit, Offline(kind, ev, row.known.prs), kind, row.known)
        /\ UNCHANGED <<world, detail>>

\* findNoPRCandidates: refused for want of a pull request.
Candidate == row # NoRow /\ row.known.prs = {} /\ ~row.compliant

\* buildRepoPRIndex: the merged pull requests of the audited branches, by the
\* commit they name as theirs.
PRIndex(sha) ==
    {p \in Numbers : Merged(p) /\ pr[p].base \in AuditedBranches /\ pr[p].mergeCommit = sha}

\* backfill-missing-prs, when nothing fails: it links the commit alone, stores the
\* reviews without dismissal times and audits the commit again.
Backfill ==
    /\ Candidate
    /\ \E p \in PRIndex(row.commit.sha) :
          LET known == [row.known EXCEPT !.prs = {p}, !.linked = FALSE]
              ev    == buildEnrichmentFromDB(row.commit, known)
          IN  row' = AuditRow(row.commit, Offline("single", ev, {p}), "backfill", known)
    /\ UNCHANGED <<world, detail>>

\* annotate-commits writes the row back with the tags of the commit's message
\* alone; the exemption's tag is not among them.
AnnotateCommits ==
    /\ row # NoRow /\ row.forgeable
    /\ row' = [row EXCEPT !.forgeable = FALSE]
    /\ UNCHANGED <<world, detail>>

AuditInit == Init /\ detail = {} /\ row = NoRow

AuditNext ==
    \/ \E c \in UnauditedCommits, checks \in CheckHistories, clean \in CleanReverts :
          \E listed \in SUBSET PRsOf(c) :
              LET shas == Shas(c, getPRsForCommit(c, listed))
              IN  \E answered \in SUBSET shas :
                      /\ Cardinality(shas \ answered) <= MaxErrors
                      /\ SyncAudit(c, listed, answered, checks, clean)
    \/ \E kind \in Kinds : ReAudit(kind)
    \/ Backfill
    \/ AnnotateCommits

Next ==
    \/ row = NoRow /\ WorldNext /\ UNCHANGED <<detail, row>>
    \/ AuditNext

AuditSpec == AuditInit /\ [][Next]_vars

-----------------------------------------------------------------------------
(* Properties. *)

\* What people wrote on a pull request's branch, empty commits aside.
HumanWork(p) == {c \in ChainOf(p) : ~isExemptCommit(c) /\ c.content # "empty"}

\* Somebody who wrote nothing on the branch approved a commit that already had
\* all of it, but for what is unseen.
Reviewed(p, unseen) ==
    \E i \in DOMAIN reviews[p] :
        LET rv == reviews[p][i]
        IN  /\ rv.state = "APPROVED" \/ rv.was = "APPROVED"
            /\ rv.reviewer # Opener
            /\ \A c \in HumanWork(p) :
                  /\ c.author # rv.reviewer
                  /\ c.sha \in Ancestors(rv.sha) \cup unseen

\* A compliant row covers no human work that nobody else has seen.  An exempt
\* waiver covers none that the audit knew of.  An approval's pull request contains
\* the commit, whatever the message claims, and was reviewed in full (a backfill
\* leaves the branch unlinked and cannot tell; a refreshed approval is not asked
\* to cover the commit that the pull request names as its merge commit, which is
\* the head itself if the branch was pushed to land).  An empty commit is empty,
\* unless a re-audit had to believe zeros: the detail was never fetched, or
\* --only-failures did not read the file count.
CompliantMeansReviewed ==
    row # NoRow /\ row.compliant =>
        CASE row.why = "exempt" ->
                /\ isExemptCommit(row.commit)
                /\ \A p \in row.known.prs : row.known.linked => HumanWork(p) = {}
          [] row.why = "approved" ->
                /\ row.pr \in PRsOf(row.commit)
                /\ row.known.linked => Reviewed(row.pr, {})
          [] row.why = "refreshed" ->
                /\ row.pr \in PRsOf(row.commit)
                /\ row.known.linked => Reviewed(row.pr, {pr[row.pr].mergeCommit})
          [] row.why = "empty" ->
                \/ row.commit.content = "empty"
                \/ row.by = "failures"
                \/ row.by # "sync" /\ row.commit.sha \notin detail
          [] OTHER -> row.known.clean

\* Missing evidence never helps: what sync grants while some stats fetches fail
\* and pull requests are not listed, it would grant with every answer at hand.
\* (An exemption is not voided by a pull request that is not listed, and the scan
\* for approvals to refresh stops early.)
ErrorsFailClosed ==
    row # NoRow /\ row.by = "sync" /\ row.compliant /\ row.why # "refreshed" =>
        LET c     == row.commit
            prs   == IF row.why = "exempt" THEN row.known.prs ELSE PRsOf(c)
            known == [row.known EXCEPT !.prs = prs]
        IN  EvaluateCommit(Stored(c), SyncEvidence(known), Fetcher(c, prs, Shas(c, prs))).compliant

\* A refusal survives a full re-audit: from the database alone no new ground
\* for compliance appears, if the commit's own stats are stored.  Refreshed
\* approvals and those that landed on another branch are apart.
ReauditNeverForgives ==
    [][/\ row # NoRow /\ row' # row /\ ~row.compliant
       /\ row'.by \in {"bulk", "single"} /\ row.commit.sha \in detail
       => \/ ~row'.compliant
          \/ row'.why = "refreshed"
          \/ row'.why = "approved" /\ ~prDelivers(pr[row'.pr])]_vars

-----------------------------------------------------------------------------
(* Statements of the repository that the code does not keep. *)

\* Architecture.md, landing scope: "`sync` and `re-audit` honour the same
\* setting, so the two never disagree".  An approval sync refused because its
\* pull request merged into another branch stays refused.
ScopeSurvivesReaudit ==
    [][row # NoRow /\ row' # row /\ row.reasons = {"not delivered"} => ~row'.compliant]_vars

\* Architecture.md, rule 5: self-approval is a reviewer who is "any PR-branch
\* commit author"; persistBackfilledPR says that it writes the branch commits,
\* but it links none of them to the pull request.
BackfillKnowsTheBranch ==
    row # NoRow /\ row.by = "backfill" /\ row.why = "approved" => Reviewed(row.pr, {})
=============================================================================
