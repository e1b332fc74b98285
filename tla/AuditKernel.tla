---------------------------- MODULE AuditKernel ----------------------------
(***************************************************************************)
(* The rule list of internal/sync/audit.go: what one commit's evidence     *)
(* says about its compliance.  Everything here is a function of its        *)
(* arguments, as EvaluateCommit is; AuditVerdict.tla supplies the          *)
(* arguments from a pull request's life.                                   *)
(*                                                                         *)
(* A commit is a record                                                    *)
(*   [sha, author, committer, webFlow, signed, prMessage, ref, parents,    *)
(*    lines, files, verified]                                              *)
(* where lines stands for additions and deletions together and verified    *)
(* says that the stats come from a commit-detail fetch.  A review is       *)
(*   [id, reviewer, state, sha, at, dismissedAt, was]                      *)
(* with 0 for an unknown time, a pull request                              *)
(*   [number, author, head, mergeCommit, mergedAt, base]                   *)
(* and a check run [id, name, sha, conclusion, at].  Evidence ev holds     *)
(*   [prs, reviews, commits, checks, cleanRevert]                          *)
(* a sequence of pull requests, each one's review rows and branch commits, *)
(* the check runs, and the enricher's diff verdict.  A stats source q is   *)
(*   [online, stat]                                                        *)
(* a StatsFetcher: stat maps a SHA to [lines, files] or to Failed.  The    *)
(* nil fetcher of an offline run is online = FALSE with every answer       *)
(* Failed: rules 1 and 5 treat both alike, rule 2 tells them apart.        *)
(***************************************************************************)
EXTENDS Naturals, Sequences, FiniteSets, SequencesExt

CONSTANTS
    Accounts,         \* account ids that identify somebody (model.TrustedID)
    Exempt,           \* the configured exempt accounts
    Required,         \* names of the required checks; each must end in "success"
    RequireSigning,   \* signing_policy: required
    AuditedBranches,  \* landing scope; {} is content scope
    NoBranch,         \* a pull request row without its base branch
    NoCommit,         \* the empty SHA
    Failed,           \* a stats fetch that returned an error
    NoReview          \* no review of that reviewer yet

ASSUME KernelAssumption ==
    /\ Exempt \subseteq Accounts
    /\ RequireSigning \in BOOLEAN
    /\ NoBranch \notin AuditedBranches
    /\ Failed \notin [lines : Nat, files : Nat]

Trusted(id) == id \in Accounts

-----------------------------------------------------------------------------
(* Rule 1: exempt authors. *)

idExempt(id) == Trusted(id) /\ id \in Exempt

verifiedExemptSigner(c) ==
    /\ c.signed
    /\ idExempt(c.committer) \/ (c.webFlow /\ idExempt(c.author))

isExemptCommit(c) ==
    verifiedExemptSigner(c) \/ (~RequireSigning /\ idExempt(c.author))

\* Mutant: an error counts as an empty commit.
IsEmpty_OnError(stat) == stat = Failed \/ (stat.lines = 0 /\ stat.files = 0)

IsEmpty(stat) == stat # Failed /\ stat.lines = 0 /\ stat.files = 0

\* Mutant: the list endpoint's missing stats pass for zeros.
KnownStat_TrustsZeros(c, q) == [lines |-> c.lines, files |-> c.files]

\* A zero-line row whose detail was never fetched proves nothing: it is looked up.
KnownStat(c, q) ==
    IF c.lines = 0 /\ ~c.verified
    THEN q.stat[c.sha]
    ELSE [lines |-> c.lines, files |-> c.files]

hasNonExemptPRContributors(ev, q) ==
    \E p \in DOMAIN ev.commits : \E c \in ev.commits[p] :
        ~isExemptCommit(c) /\ ~IsEmpty(KnownStat(c, q))

ExemptionHolds(c, ev, q) ==
    isExemptCommit(c) /\ ~hasNonExemptPRContributors(ev, q)

(* Rule 2: a commit that changes nothing. *)

EmptyHolds(c, q) ==
    /\ c.lines = 0
    /\ IF q.online THEN IsEmpty(q.stat[c.sha]) ELSE c.files = 0

-----------------------------------------------------------------------------
(* Rule 5: approving one's own code. *)

hasNonEmptyContribution(cs, q) ==
    \/ \E c \in cs : c.lines > 0 \/ c.files > 0
    \/ \E c \in cs : ~IsEmpty(q.stat[c.sha])

\* The authors whose commits on the branch are not all empty.
Contributors(commits, q) ==
    {a \in {c.author : c \in commits} :
        hasNonEmptyContribution({c \in commits : c.author = a}, q)}

\* github.ClassifyMerge: only GitHub's merge button makes a clean merge.
CleanMerge(c) == Len(c.parents) = 2 /\ c.prMessage /\ c.webFlow /\ c.signed

isSelfApproval(reviewer, c, pr, contributors) ==
    /\ Trusted(reviewer)
    /\ \/ reviewer = pr.author
       \/ ~CleanMerge(c) /\ reviewer = c.author
       \/ reviewer \in contributors

-----------------------------------------------------------------------------
(* Rule 4: each reviewer's latest state on the final commit, as it stood   *)
(* when the pull request merged.                                           *)

AfterMerge(t, pr) == pr.mergedAt # 0 /\ t > pr.mergedAt

OnFinal(rv, pr) == rv.sha = pr.head /\ Trusted(rv.reviewer)

DismissedAfterMerge(rv, pr) ==
    rv.state = "DISMISSED" /\ AfterMerge(rv.dismissedAt, pr)

\* GitHub dismisses in place; a dismissal after the merge is undone.
AsOfMerge(rv, pr) ==
    IF DismissedAfterMerge(rv, pr) THEN [rv EXCEPT !.state = rv.was] ELSE rv

\* Mutant: the later row wins whatever it says.
Displaces_LaterWins(rv, old) == rv.at > old.at \/ (rv.at = old.at /\ rv.id > old.id)

\* A comment never takes an approval's place, in either arrival order.
Displaces(rv, old) ==
    /\ rv.at >= old.at
    /\ ~(rv.state = "COMMENTED" /\ old.state = "APPROVED")
    /\ \/ rv.state = "APPROVED" /\ old.state = "COMMENTED"
       \/ rv.at > old.at
       \/ rv.id > old.id

Considered(rv, pr) == OnFinal(rv, pr) /\ ~AfterMerge(rv.at, pr)

Take(states, row, pr) ==
    LET rv  == AsOfMerge(row, pr)
        old == states[row.reviewer]
    IN  IF Considered(row, pr) /\ (old = NoReview \/ Displaces(rv, old))
        THEN [states EXCEPT ![row.reviewer] = rv]
        ELSE states

latestReviewStatesOnFinal(rows, pr) ==
    LET latest[n \in 0..Len(rows)] ==
            IF n = 0 THEN [a \in Accounts |-> NoReview] ELSE Take(latest[n - 1], rows[n], pr)
    IN  latest[Len(rows)]

\* Mutant: only a dismissal after the merge counts.
postMergeConcern_DismissalsOnly(rows, pr) ==
    \E i \in DOMAIN rows : OnFinal(rows[i], pr) /\ DismissedAfterMerge(rows[i], pr)

postMergeConcern(rows, pr) ==
    \/ \E i \in DOMAIN rows :
          /\ OnFinal(rows[i], pr)
          /\ IF AfterMerge(rows[i].at, pr)
             THEN rows[i].state \in {"CHANGES_REQUESTED", "DISMISSED"}
             ELSE DismissedAfterMerge(rows[i], pr)
    \/ /\ pr.mergedAt # 0
       /\ \E i \in DOMAIN rows :
             /\ OnFinal(rows[i], pr)
             /\ rows[i].state = "DISMISSED" /\ rows[i].dismissedAt = 0
             /\ rows[i] = latestReviewStatesOnFinal(rows, pr)[rows[i].reviewer]

ApprovedOnFinal(rows, pr) ==
    LET latest == latestReviewStatesOnFinal(rows, pr)
    IN  {a \in Accounts : latest[a] # NoReview /\ latest[a].state = "APPROVED"}

(* The carve-out: an approval of an older commit still covers the head     *)
(* when only exempt accounts committed in between.                         *)

\* The commits strictly after the approved one on the first-parent walk from
\* the head; NoCommit marks a walk that left the known commits first.
postApprovalByGraph(approved, head, commits) ==
    LET Row(s)  == CHOOSE c \in commits : c.sha = s
        Known(s) == \E c \in commits : c.sha = s /\ c.parents # <<>>
        cur[n \in 0..Cardinality(commits)] ==
            IF n = 0 THEN head
            ELSE IF Known(cur[n - 1]) THEN Row(cur[n - 1]).parents[1] ELSE NoCommit
        hits == {n \in DOMAIN cur : cur[n] = approved}
    IN  IF approved = NoCommit \/ head = NoCommit \/ hits = {} THEN {NoCommit}
        ELSE {Row(cur[i]) : i \in {i \in DOMAIN cur : \A n \in hits : i < n}}

isApprovalRefreshable(rv, commits, pr) ==
    LET post == postApprovalByGraph(rv.sha, pr.head, commits)
    IN  /\ post \notin {{}, {NoCommit}}
        /\ \A c \in post :
              (pr.mergeCommit # NoCommit /\ c.sha = pr.mergeCommit) \/ isExemptCommit(c)

-----------------------------------------------------------------------------
(* Rule 6: the latest run of every required check. *)

LaterRun(r, s) == r.at > s.at \/ (r.at = s.at /\ r.id > s.id)

evaluateRequiredChecks(checks, head) ==
    LET Runs(n) == {r \in checks : r.sha = head /\ r.name = n}
        LastRun(n) == CHOOSE r \in Runs(n) : \A s \in Runs(n) \ {r} : LaterRun(r, s)
        Missing(n) == Runs(n) = {} \/ LastRun(n).conclusion = ""
        Passed(n)  == ~Missing(n) /\ LastRun(n).conclusion = "success"
    IN  IF Required = {} THEN ""
        ELSE IF \A n \in Required : Passed(n) THEN "success"
        ELSE IF \E n \in Required : ~Missing(n) /\ ~Passed(n) THEN "failure"
        ELSE "missing"

(* Rule 7, landing scope: an unknown base branch is credited. *)

prDelivers(pr) ==
    AuditedBranches = {} \/ pr.base = NoBranch \/ pr.base \in AuditedBranches

-----------------------------------------------------------------------------
(* One pull request's verdict, rules 4 to 7, and what it found on the way.  *)
(* postMergeConcern is among that and decides nothing.                     *)

VerdictReasons(approved, self, stale, checksOK, delivers) ==
    {r \in {"self-approved", "stale", "no approval"} :
        ~approved /\ (r = "self-approved" => self) /\ (r = "stale" => stale)
                  /\ (r = "no approval" => ~self /\ ~stale)}
    \cup (IF checksOK THEN {} ELSE {"checks"})
    \cup (IF approved /\ ~delivers THEN {"not delivered"} ELSE {})

\* own: the accounts whose approval is a self-approval; older: the places of the
\* approvals of other commits; refreshable: those where isApprovalRefreshable holds.
PRVerdict(pr, final, older, refreshable, own, check, concern) ==
    LET fresh    == final \ own
        \* The scan stops at the first older approval that cannot be refreshed.
        promoted == {i \in older : fresh = {} /\ \A j \in older : j <= i => j \in refreshable}
        approved == fresh # {} \/ promoted # {}
        self     == final \cap own # {}
        stale    == fresh = {} /\ refreshable # older
        checksOK == check \in {"", "success"}
    IN  [number    |-> pr.number,
         approved  |-> approved,
         refreshed |-> promoted # {},
         passes    |-> approved /\ checksOK /\ prDelivers(pr),
         reasons   |-> VerdictReasons(approved, self, stale, checksOK, prDelivers(pr)),
         fresh     |-> fresh # {},
         self      |-> self,
         stale     |-> stale,
         check     |-> check,
         concern   |-> concern]

\* Approvals of other commits by somebody who did not work on this one.
OlderApprovals(rows, pr, own) ==
    {i \in DOMAIN rows :
        /\ rows[i].sha # pr.head
        /\ rows[i].state = "APPROVED"
        /\ rows[i].reviewer \in Accounts \ own}

evaluateApprovals(rows, commits, pr, own, check) ==
    LET older == OlderApprovals(rows, pr, own)
    IN  PRVerdict(pr, ApprovedOnFinal(rows, pr), older,
                  {i \in older : isApprovalRefreshable(rows[i], commits, pr)},
                  own, check, postMergeConcern(rows, pr))

evaluatePR(c, ev, pr, q) ==
    LET commits == ev.commits[pr.number]
        authors == Contributors(commits, q)
    IN  evaluateApprovals(ev.reviews[pr.number], commits, pr,
                          {a \in Accounts : isSelfApproval(a, c, pr, authors)},
                          evaluateRequiredChecks(ev.checks, pr.head))

betterVerdict(v, best) ==
    \/ Cardinality(v.reasons) < Cardinality(best.reasons)
    \/ /\ Cardinality(v.reasons) = Cardinality(best.reasons)
       /\ v.number > best.number

(* The signals a row keeps beside the verdict, for the reports. *)

NoSignals == [hasPR |-> FALSE, finalApproval |-> FALSE, selfApproved |-> FALSE,
              stale |-> FALSE, concern |-> FALSE, ownerCheck |-> ""]

\* An empty commit's row and a waived revert's say only that there was one.
Associated == [NoSignals EXCEPT !.hasPR = TRUE]

finalizeCompliantPR(v) ==
    [Associated EXCEPT !.finalApproval = TRUE, !.concern = v.concern, !.ownerCheck = v.check]

\* A refreshed approval counts as one in the reasons and not in finalApproval.
finalizeNonCompliant(v) ==
    [Associated EXCEPT !.finalApproval = v.fresh,
                       !.selfApproved  = v.self /\ ~v.approved,
                       !.stale         = v.stale,
                       !.concern       = v.concern,
                       !.ownerCheck    = v.check]

(* The rule list, top to bottom. *)

\* The verdicts are in the order of the pull requests: the first that passes wins.
CommitVerdict(exempt, empty, cleanRevert, verdicts) ==
    LET passing == {i \in DOMAIN verdicts : verdicts[i].passes}
        winner  == verdicts[Min(passing)]
        best    == verdicts[CHOOSE i \in DOMAIN verdicts :
                               \A j \in DOMAIN verdicts \ {i} : betterVerdict(verdicts[i], verdicts[j])]
        noPR    == verdicts = <<>>
        Row(ok, why, number, reasons, signals) ==
            [compliant |-> ok, why |-> why, pr |-> number, reasons |-> reasons, signals |-> signals,
             exemptAuthor |-> exempt, forgeable |-> FALSE]
        Noted   == IF noPR THEN NoSignals ELSE Associated
    IN  IF exempt THEN Row(TRUE, "exempt", 0, {}, NoSignals)
        ELSE IF passing # {}
             THEN Row(TRUE, IF winner.refreshed THEN "refreshed" ELSE "approved",
                      winner.number, {}, finalizeCompliantPR(winner))
        ELSE IF empty THEN Row(TRUE, "empty", 0, {}, Noted)
        ELSE IF cleanRevert
             THEN Row(TRUE, "clean revert", IF noPR THEN 0 ELSE best.number, {}, Noted)
        ELSE IF noPR THEN Row(FALSE, "no pull request", 0, {"no pull request"}, NoSignals)
        ELSE Row(FALSE, "refused", best.number, best.reasons, finalizeNonCompliant(best))

\* exemptAuthor: somebody exempt wrote it, waived or not; forgeable: the waiver
\* rests on an unsigned author id, tagged so in the row's annotations.
EvaluateCommit(c, ev, q) ==
    LET exempt == ExemptionHolds(c, ev, q)
    IN  [CommitVerdict(exempt, EmptyHolds(c, q), ev.cleanRevert,
                       [i \in DOMAIN ev.prs |-> evaluatePR(c, ev, ev.prs[i], q)])
         EXCEPT !.exemptAuthor = isExemptCommit(c),
                !.forgeable    = exempt /\ ~verifiedExemptSigner(c)]
=============================================================================
