---------------------------- MODULE PullRequests ----------------------------
(***************************************************************************)
(* The life of the pull requests of one head branch, as GitHub records it  *)
(* and its REST API shows it: commits are pushed, reviews submitted and    *)
(* dismissed, and the pull requests merge.  This is the                    *)
(* program's environment; it knows nothing of the audit.                   *)
(*                                                                         *)
(* Commits on the branch are numbered in push order and 0 is the fork      *)
(* point; the commit a merge creates for pull request p is Landed(p).      *)
(* Time is in the API's unit, so several events share an instant.          *)
(***************************************************************************)
EXTENDS AuditKernel

CONSTANTS
    Numbers,      \* the pull requests of the branch
    Opener,       \* the account that opened them
    Bases,        \* the branches they may target
    Authors,      \* who pushes
    Contents,     \* what a pushed commit may hold, among "edit", "rename", "empty"
    Reviewers,    \* who reviews
    Submissions,  \* with what, among "APPROVED", "CHANGES_REQUESTED", "COMMENTED"
    Main,         \* the audited branch a sync lists
    WebFlow,      \* the account GitHub's own commits carry as committer
    Merges,       \* ways to land, among "squash", "merge", "local", "fast-forward"
    MaxCommits, MaxReviews, MaxDismissals, MaxTime,   \* bounds
    MaxAtOnce     \* bound on one reviewer's reviews of a pull request in one instant

ASSUME PullRequestsAssumption ==
    /\ Numbers \subseteq Nat \ {0} /\ IsFiniteSet(Numbers)
    /\ {MaxCommits, MaxAtOnce} \subseteq Nat /\ NoCommit \notin Nat
    /\ NoReview \notin [id : Nat, reviewer : Accounts, sha : Nat, at : Nat, dismissedAt : Nat,
                        state : {"APPROVED", "CHANGES_REQUESTED", "COMMENTED", "DISMISSED"},
                        was : {"APPROVED", "CHANGES_REQUESTED", "COMMENTED"}]
    /\ {Opener} \cup Authors \cup Reviewers \subseteq Accounts
    /\ WebFlow \notin Exempt
    /\ Contents \subseteq {"edit", "rename", "empty"}
    /\ Submissions \subseteq {"APPROVED", "CHANGES_REQUESTED", "COMMENTED"}
    /\ Merges \subseteq {"squash", "merge", "local", "fast-forward"}

VARIABLES
    now,       \* the current instant
    branch,    \* every commit ever pushed, in push order
    reviews,   \* each pull request's reviews, in submission order
    pr,        \* each pull request's record
    landing,   \* the commit through which each pull request landed
    standing   \* whose approval of which commit GitHub shows, up to the merge

world == <<now, branch, reviews, pr, landing, standing>>

Landed(p) == MaxCommits + 1 + p
Never == [how |-> "no", commit |-> [sha |-> 0]]

Open(p)   == pr[p].mergedAt = 0
Merged(p) == ~Open(p)
\* The instant of the merge is over.
Settled(p) == Merged(p) /\ now > pr[p].mergedAt

\* Stats as a commit-detail fetch reports them.
Lines(content) == IF content = "edit" THEN 1 ELSE 0
Files(content) == IF content = "empty" THEN 0 ELSE 1

\* ref is the pull request that the message's first line ends with, if any.  List
\* endpoints carry no stats.
NewCommit(sha, author, parents, content) ==
    [sha |-> sha, author |-> author, committer |-> author, webFlow |-> FALSE,
     signed |-> FALSE, prMessage |-> FALSE, ref |-> 0, parents |-> parents, content |-> content,
     lines |-> 0, files |-> 0, verified |-> FALSE]

\* The commits a head's first-parent chain reaches above the fork point: back to
\* the last forced push, as any other push is onto the commit before it.
Ancestors(sha) ==
    {s \in 1..sha : \A t \in (s + 1)..sha : branch[t].parents[1] = t - 1}

ChainOf(p) == {branch[s] : s \in Ancestors(pr[p].head)}

Init ==
    /\ now = 1
    /\ branch = <<>>
    /\ reviews = [p \in Numbers |-> <<>>]
    /\ \E base \in [Numbers -> Bases] :
          pr = [p \in Numbers |->
                   [number |-> p, author |-> Opener, head |-> 0,
                    mergeCommit |-> NoCommit, mergedAt |-> 0, base |-> base[p]]]
    /\ landing = [p \in Numbers |-> Never]
    /\ standing = [p \in Numbers |-> {}]

Tick ==
    /\ now < MaxTime
    /\ now' = now + 1
    /\ UNCHANGED <<branch, reviews, pr, landing, standing>>

\* A push moves the head of every open pull request; a forced one drops the
\* commits before it.
Push(a, content, forced) ==
    /\ Len(branch) < MaxCommits
    /\ \E p \in Numbers : Open(p)
    /\ forced => branch # <<>>
    /\ LET sha    == Len(branch) + 1
           parent == IF forced THEN 0 ELSE Len(branch)
       IN  /\ branch' = Append(branch, NewCommit(sha, a, <<parent>>, content))
           /\ pr' = [p \in Numbers |-> IF Open(p) THEN [pr[p] EXCEPT !.head = sha] ELSE pr[p]]
    /\ UNCHANGED <<now, reviews, landing, standing>>

ReviewCount == Cardinality(UNION {{p} \X DOMAIN reviews[p] : p \in Numbers})

\* A review of any pushed commit of the branch, before or after the merge.
\* An approval and a comment may share an instant.  Among three reviews of one
\* reviewer that do, the fold's answer is the order in which rows are read: a
\* comment displaces a refusal, and any approval the comment.
Submit(p, a, sha, state) ==
    /\ ReviewCount < MaxReviews
    /\ sha \in 1..pr[p].head
    /\ Cardinality({i \in DOMAIN reviews[p] :
          reviews[p][i].reviewer = a /\ reviews[p][i].at = now}) < MaxAtOnce
    /\ reviews' = [reviews EXCEPT ![p] = Append(@,
          [id |-> Len(@) + 1, reviewer |-> a, state |-> state, sha |-> sha,
           at |-> now, dismissedAt |-> 0, was |-> state])]
    /\ standing' = IF Settled(p) \/ state = "COMMENTED" THEN standing
                   ELSE [standing EXCEPT ![p] =
                            IF state = "APPROVED" THEN @ \cup {<<a, sha>>} ELSE @ \ {<<a, sha>>}]
    /\ UNCHANGED <<now, branch, pr, landing>>

Latest(p, a, sha) ==
    {i \in DOMAIN reviews[p] :
        /\ reviews[p][i].reviewer = a /\ reviews[p][i].sha = sha
        /\ reviews[p][i].was # "COMMENTED"
        /\ \A j \in (i + 1)..Len(reviews[p]) :
              reviews[p][j].reviewer = a /\ reviews[p][j].sha = sha
                  => reviews[p][j].was = "COMMENTED"}

Dismissals == {d \in UNION {{p} \X DOMAIN reviews[p] : p \in Numbers} :
                  reviews[d[1]][d[2]].state = "DISMISSED"}

\* Dismissing changes the row in place; the timeline event that would date it
\* may be missing.
Dismiss(p, i, dated) ==
    /\ Cardinality(Dismissals) < MaxDismissals
    /\ reviews[p][i].state \in {"APPROVED", "CHANGES_REQUESTED"}
    /\ reviews' = [reviews EXCEPT ![p][i].state = "DISMISSED",
                                  ![p][i].dismissedAt = IF dated THEN now ELSE 0]
    /\ LET rv == reviews[p][i]
       IN  standing' = IF Settled(p) \/ i \notin Latest(p, rv.reviewer, rv.sha) THEN standing
                       ELSE [standing EXCEPT ![p] = @ \ {<<rv.reviewer, rv.sha>>}]
    /\ UNCHANGED <<now, branch, pr, landing>>

\* What a merge may change in all: nothing only if no commit changed anything,
\* or if later commits undid earlier ones.
NetContents(p) ==
    LET held == {c.content : c \in ChainOf(p)}
    IN  IF Cardinality(ChainOf(p)) > 1 THEN held \cup {"empty"} ELSE held

LandingCommit(p, how, by, content) ==
    LET head == pr[p].head
        base == NewCommit(Landed(p), by, <<0, head>>, content)
    IN  CASE how = "squash"       -> [base EXCEPT !.author = Opener, !.parents = <<0>>,
                                                  !.committer = WebFlow, !.webFlow = TRUE, !.signed = TRUE,
                                                  !.ref = p]
          [] how = "merge"        -> [base EXCEPT !.committer = WebFlow, !.webFlow = TRUE, !.signed = TRUE,
                                                  !.prMessage = TRUE]
          [] how = "local"        -> base
          [] how = "fast-forward" -> branch[head]

Merge(p, how, by, content) ==
    /\ Open(p) /\ pr[p].head # 0
    /\ content \in NetContents(p)
    /\ LET c == LandingCommit(p, how, by, content)
       IN  /\ pr' = [pr EXCEPT ![p].mergedAt = now, ![p].mergeCommit = c.sha]
           /\ landing' = [landing EXCEPT ![p] = [how |-> how, commit |-> c]]
    /\ UNCHANGED <<now, branch, reviews, standing>>

WorldNext ==
    \/ Tick
    \/ \E a \in Authors, content \in Contents, forced \in BOOLEAN : Push(a, content, forced)
    \/ \E p \in Numbers, a \in Reviewers, s \in Submissions :
          \E sha \in 1..pr[p].head : Submit(p, a, sha, s)
    \/ \E p \in Numbers : \E i \in DOMAIN reviews[p] :
          \E dated \in BOOLEAN : Dismiss(p, i, dated)
    \/ \E p \in Numbers, how \in Merges, by \in Reviewers \cup {Opener} :
          \E content \in NetContents(p) : Merge(p, how, by, content)

Spec == Init /\ [][WorldNext]_world

-----------------------------------------------------------------------------
(* Properties. *)

\* Orders in which ORDER BY submitted_at may return the rows.
ReadOrders(rows) ==
    LET Sorted(f) == \A i \in 2..Len(rows) : rows[f[i - 1]].at <= rows[f[i]].at
    IN  {[i \in DOMAIN rows |-> rows[f[i]]] :
            f \in {f \in [DOMAIN rows -> DOMAIN rows] : Sorted(f) /\ IsInjective(f)}}

\* The review rows show GitHub's present state, dismissals written over the
\* approvals they end.  Folded up to the merge they must give back exactly the
\* approvals of the final commit that stood at that instant, whatever order
\* rows of one instant come in; an approval may be lost only to a dismissal
\* whose date the timeline did not give.
StoodAtMerge ==
    \A p \in Numbers : Merged(p) => \A rows \in ReadOrders(reviews[p]) :
        LET stood    == {a \in Accounts : <<a, pr[p].head>> \in standing[p]}
            approved == ApprovedOnFinal(rows, pr[p])
            undated  == {rows[i].reviewer : i \in {i \in DOMAIN rows :
                            rows[i].state = "DISMISSED" /\ rows[i].dismissedAt = 0}}
        IN  /\ approved \subseteq stood
            /\ stood \ approved \subseteq undated

\* HasPostMergeConcern: an approval of the final commit that stood at the merge
\* and no longer stands is pointed out, whether its reviewer took it back or
\* somebody dismissed it; only a dismissal without a date may go unnoticed.
LossesNoticed ==
    \A p \in Numbers : Merged(p) => \A rows \in ReadOrders(reviews[p]) : \A a \in Reviewers :
        LET last == Latest(p, a, pr[p].head)
        IN  /\ <<a, pr[p].head>> \in standing[p]
            /\ \A i \in last : reviews[p][i].state # "APPROVED"
            => \/ postMergeConcern(rows, pr[p])
               \/ \E i \in DOMAIN rows : rows[i].state = "DISMISSED" /\ rows[i].dismissedAt = 0
=============================================================================
