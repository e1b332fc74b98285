--------------------------- MODULE MCAuditVerdict ---------------------------
(* Instances of AuditVerdict. *)
EXTENDS Report

OnePR  == {1}

\* The required check passed on commit 1, and on commit 2 when it was run again.
Reruns == {{[id |-> 1, name |-> "ci", sha |-> 1, conclusion |-> "success", at |-> 1],
            [id |-> 2, name |-> "ci", sha |-> 2, conclusion |-> "failure", at |-> 1],
            [id |-> 3, name |-> "ci", sha |-> 2, conclusion |-> "success", at |-> 2]}}

(* Two scenarios in one state space.  "reviews" is a long history of one     *)
(* reviewer's reviews of one author's squashed pull request, which nobody    *)
(* audits; "verdicts" has everybody at work, a few approvals, and the audits; *)
(* "reports" is short, with every answer of the checks.                      *)
VARIABLE scenario

MCInit ==
    /\ AuditInit
    /\ scenario \in {"reviews", "verdicts", "reports"}
    /\ scenario # "verdicts" => \A p \in Numbers : pr[p].base = Main

ReviewsNext ==
    \/ Tick
    \/ \E forced \in BOOLEAN : Push(Opener, "rename", forced)
    \/ \E p \in Numbers, a \in Reviewers, s \in Submissions :
          \E sha \in 1..pr[p].head : Submit(p, a, sha, s)
    \/ \E p \in Numbers : \E i \in DOMAIN reviews[p] :
          \E dated \in BOOLEAN : Dismiss(p, i, dated)
    \/ \E p \in Numbers : Merge(p, "squash", Opener, "rename")

VerdictsNext ==
    \/ now < AuditAt /\ Tick
    \/ \E a \in Authors, content \in Contents, forced \in BOOLEAN : Push(a, content, forced)
    \/ \E p \in Numbers, a \in Reviewers :
          ReviewCount < 2 /\ \E sha \in 1..pr[p].head : Submit(p, a, sha, "APPROVED")
    \/ \E p \in Numbers, how \in Merges \ {"fast-forward"}, by \in Reviewers \cup {Opener} :
          \E content \in NetContents(p) : Merge(p, how, by, content)

\* One short life of a pull request into Main, and every audit of it with all
\* stats at hand: the required check may have failed to run, what merged may be a
\* clean revert.
ReportsNext ==
    \/ now < AuditAt /\ Tick
    \/ \E a \in Authors : Push(a, "rename", FALSE)
    \/ \E p \in Numbers, a \in Reviewers, s \in {"APPROVED", "CHANGES_REQUESTED"} :
          ReviewCount < 2 /\ \E sha \in 1..pr[p].head : Submit(p, a, sha, s)
    \/ Dismissals = {} /\ \E p \in Numbers : \E i \in DOMAIN reviews[p] : Dismiss(p, i, TRUE)
    \/ \E p \in Numbers, how \in Merges \ {"merge"} : Merge(p, how, Opener, "rename")

ReportsAudit ==
    \/ \E c \in UnauditedCommits, checks \in {{}} \cup CheckHistories, clean \in BOOLEAN :
          \E listed \in SUBSET PRsOf(c) :
              SyncAudit(c, listed, Shas(c, getPRsForCommit(c, listed)), checks, clean)
    \/ ReAudit("single") \/ Backfill
    \/ AnnotateCommits

MCNext ==
    /\ UNCHANGED scenario
    /\ \/ scenario = "reviews" /\ ReviewsNext /\ UNCHANGED <<detail, row>>
       \/ scenario = "verdicts" /\ row = NoRow /\ VerdictsNext /\ UNCHANGED <<detail, row>>
       \/ scenario = "verdicts" /\ AuditNext
       \/ scenario = "reports" /\ row = NoRow /\ ReportsNext /\ UNCHANGED <<detail, row>>
       \/ scenario = "reports" /\ ReportsAudit

MCSpec == MCInit /\ [][MCNext]_<<vars, scenario>>

=============================================================================
