------------------------- MODULE AuditVerdictProofs -------------------------
(***************************************************************************)
(* Proofs about the verdict: for any accounts, pull requests, answers of   *)
(* the API and bounds,                                                     *)
(*  - a compliant row covers no work that nobody else has seen, missing    *)
(*    evidence never helps, and no re-audit from the database forgives;    *)
(*  - the report's accounts of a row agree;                                *)
(*  - the review rows, folded up to the merge, give the approvals that     *)
(*    stood then, and the loss of one is pointed out.                      *)
(*                                                                         *)
(* The argument, bottom up.  The rule list is unfolded once: Judgement     *)
(* says which rule decided and what it found in the evidence.  The world   *)
(* is well formed (WorldOK), and the evidence of an audit is faithful to   *)
(* it (SyncFaithful, OfflineFaithful).  So a grant is Justified by the     *)
(* world alone, and a refusal leaves nothing that the database alone could *)
(* find (Unforgiven).  Both are kept by every later audit: they are the    *)
(* invariant of the row (RowOK), with the shape that the reports rely on.  *)
(* ReviewsTell is the second invariant, of the review rows; the fold is    *)
(* followed row by row, its entry saying what the last verdict was         *)
(* (Entry), whatever order the rows come in.                               *)
(*                                                                         *)
(* The fold and the walk of AuditKernel are recursive functions: Recursion *)
(* gives their partial results, and NatInd is induction over a set.        *)
(***************************************************************************)
EXTENDS Report, FiniteSetTheorems, TLAPS

-----------------------------------------------------------------------------
(* Induction on the naturals, from the well-founded order that the library proves. *)

\* A set of naturals that is not empty has a least element.
LEMMA LeastNat ==
    ASSUME NEW T \in SUBSET Nat, T # {}
    PROVE  \E n \in T : \A m \in T : n <= m
<1> DEFINE R == OpToRel(<, Nat)
<1>1. IsWellFoundedOn(R, Nat)
  BY NatLessThanWellFounded
<1>2. \A x, y \in Nat : y < x => <<y, x>> \in R
  BY DEF OpToRel
<1> HIDE DEF R
<1>3. PICK x \in T : \A y \in T : ~ (<<y, x>> \in R)
  BY <1>1, WFMin
<1>4. \A y \in T : ~(y < x)
  BY <1>2, <1>3
<1> QED
  BY <1>4

\* Induction on the naturals, for a set in the place of the library's
\* predicate, which no installed prover can instantiate.
LEMMA NatInd ==
    ASSUME NEW S, 0 \in S, \A n \in Nat : n \in S => n + 1 \in S
    PROVE  Nat \subseteq S
<1> DEFINE T == Nat \ S
<1> SUFFICES ASSUME T # {} PROVE FALSE
  OBVIOUS
<1>1. PICK n \in T : \A m \in T : n <= m
  BY LeastNat
<1>2. n # 0 /\ n - 1 \in Nat
  BY <1>1
<1>3. n - 1 \in S
  BY <1>1, <1>2
<1> QED
  BY <1>1, <1>2, <1>3

\* A function on 0..K is built step by step; what the recursive functions of
\* AuditKernel, the fold of the review rows and the carve-out's walk, are shown
\* to be.
LEMMA Recursion ==
    ASSUME NEW V, NEW x0 \in V, NEW K \in Nat, NEW step \in [1..K -> [V -> V]]
    PROVE  \E f \in [0..K -> V] : f[0] = x0 /\ \A n \in 1..K : f[n] = step[n][f[n - 1]]
<1> DEFINE Up(k) == \E f \in [0..k -> V] :
                     f[0] = x0 /\ \A n \in 1..k : f[n] = step[n][f[n - 1]]
           S == {k \in Nat : k <= K => Up(k)}
<1>1. 0 \in S
  <2> DEFINE f == [n \in 0..0 |-> x0]
  <2>1. f \in [0..0 -> V] /\ f[0] = x0 /\ 1..0 = {}
    OBVIOUS
  <2>2. Up(0)
    <3> HIDE DEF f
    <3> QED
      BY <2>1
  <2> QED
    BY <2>2
<1>2. ASSUME NEW k \in Nat, k \in S PROVE k + 1 \in S
  <2> SUFFICES ASSUME k + 1 <= K PROVE Up(k + 1)
    <3> HIDE DEF Up
    <3> QED
      OBVIOUS
  <2>1. k \in 0..K /\ k + 1 \in 1..K
    OBVIOUS
  <2>2. Up(k)
    <3> HIDE DEF Up
    <3> QED
      BY <1>2
  <2>3. PICK f \in [0..k -> V] : f[0] = x0 /\ \A n \in 1..k : f[n] = step[n][f[n - 1]]
    BY <2>2
  <2> DEFINE g == [n \in 0..(k + 1) |-> IF n = k + 1 THEN step[k + 1][f[k]] ELSE f[n]]
  <2>4. f[k] \in V
    OBVIOUS
  <2>5. step[k + 1][f[k]] \in V
    BY <2>1, <2>4
  <2>6. g \in [0..(k + 1) -> V]
    BY <2>5
  <2>7. g[0] = x0 /\ g[k] = f[k] /\ g[k + 1] = step[k + 1][f[k]]
    BY <2>3
  <2>8. ASSUME NEW n \in 1..(k + 1) PROVE g[n] = step[n][g[n - 1]]
    <3>1. CASE n = k + 1
      <4>1. n - 1 = k
        BY <3>1
      <4> HIDE DEF g
      <4> QED
        BY <3>1, <4>1, <2>7
    <3>2. CASE n # k + 1
      <4>1. n \in 1..k /\ n - 1 \in 0..k
        BY <3>2
      <4>2. g[n] = f[n] /\ g[n - 1] = f[n - 1]
        BY <4>1
      <4> HIDE DEF g
      <4> QED
        BY <4>1, <4>2, <2>3
    <3> QED
      BY <3>1, <3>2
  <2> HIDE DEF g
  <2> QED
    BY <2>6, <2>7, <2>8
<1>3. Up(K)
  <2> HIDE DEF Up
  <2>1. Nat \subseteq S
    <3> HIDE DEF S
    <3> QED
      BY <1>1, <1>2, NatInd
  <2> QED
    BY <2>1
<1> QED
  BY <1>3

-----------------------------------------------------------------------------
(* The fold of a pull request's review rows. *)

\* What a reviewer's entry may hold: the row is his, of the final commit and of
\* before the merge.
From(state, a, rows, pull) ==
    \E i \in 1..Len(rows) :
        Considered(rows[i], pull) /\ rows[i].reviewer = a /\ state = AsOfMerge(rows[i], pull)

LatestStates(rows, pull) ==
    {s \in [Accounts -> {NoReview} \cup {AsOfMerge(rows[i], pull) : i \in 1..Len(rows)}] :
        \A a \in Accounts : s[a] = NoReview \/ From(s[a], a, rows, pull)}

\* One row more leaves every reviewer's entry a row of his own, as
\* latestReviewStatesOnFinal has it.
LEMMA TakeKeeps ==
    ASSUME NEW rows, NEW pull, NEW s \in LatestStates(rows, pull), NEW n \in 1..Len(rows)
    PROVE  Take(s, rows[n], pull) \in LatestStates(rows, pull)
<1> DEFINE rv == AsOfMerge(rows[n], pull)
           a  == rows[n].reviewer
<1>1. CASE Take(s, rows[n], pull) = s
  BY <1>1
<1>2. CASE Considered(rows[n], pull) /\ Take(s, rows[n], pull) = [s EXCEPT ![a] = rv]
  <2>1. a \in Accounts
    BY <1>2 DEF Considered, OnFinal, Trusted
  <2>2. From(rv, a, rows, pull)
    BY <1>2 DEF From
  <2>3. rv \in {AsOfMerge(rows[i], pull) : i \in 1..Len(rows)}
    OBVIOUS
  <2> HIDE DEF rv, a
  <2> QED
    BY <1>2, <2>1, <2>2, <2>3 DEF LatestStates
<1> QED
  BY <1>1, <1>2 DEF Take

\* The fold of latestReviewStatesOnFinal has partial results, the first empty
\* and each next one that of Take.
LEMMA LatestUnfolds ==
    ASSUME NEW pull, NEW rows, Len(rows) \in Nat
    PROVE  \E f \in [0..Len(rows) -> LatestStates(rows, pull)] :
              /\ f[0] = [a \in Accounts |-> NoReview]
              /\ \A n \in 1..Len(rows) : f[n] = Take(f[n - 1], rows[n], pull)
              /\ latestReviewStatesOnFinal(rows, pull) = f[Len(rows)]
<1> DEFINE V == LatestStates(rows, pull)
           K == Len(rows)
           x0 == [a \in Accounts |-> NoReview]
           step == [n \in 1..K |-> [s \in V |-> Take(s, rows[n], pull)]]
<1>0. K \in Nat
  OBVIOUS
<1>1. x0 \in V
  BY DEF LatestStates
<1>2. step \in [1..K -> [V -> V]]
  <2>1. \A n \in 1..K : \A s \in V : Take(s, rows[n], pull) \in V
    BY TakeKeeps
  <2> HIDE DEF V, K
  <2> QED
    BY <2>1
<1>3. \E f \in [0..K -> V] : f[0] = x0 /\ \A n \in 1..K : f[n] = step[n][f[n - 1]]
  <2> HIDE DEF V, K, x0, step
  <2> QED
    BY <1>0, <1>1, <1>2, Recursion
<1>4. PICK g \in [0..K -> V] : g[0] = x0 /\ \A n \in 1..K : g[n] = step[n][g[n - 1]]
  BY <1>3
<1>5. \A n \in 0..K : g[n] = IF n = 0 THEN x0 ELSE Take(g[n - 1], rows[n], pull)
  <2> HIDE DEF V, K, x0
  <2> SUFFICES ASSUME NEW n \in 0..K, n # 0 PROVE g[n] = Take(g[n - 1], rows[n], pull)
    BY <1>4
  <2>1. n \in 1..K /\ n - 1 \in 0..K
    BY <1>0
  <2>2. g[n] = step[n][g[n - 1]]
    BY <1>4, <2>1
  <2>3. g[n - 1] \in V
    BY <2>1
  <2>4. step[n][g[n - 1]] = Take(g[n - 1], rows[n], pull)
    BY <2>1, <2>3
  <2> QED
    BY <2>2, <2>4
<1> DEFINE Eq(latest) == latest = [n \in 0..K |-> IF n = 0 THEN x0 ELSE Take(latest[n - 1], rows[n], pull)]
           L == CHOOSE latest : Eq(latest)
<1>6. Eq(g)
  <2> HIDE DEF V, K, x0, step
  <2> QED
    BY <1>5
<1>7. Eq(L)
  <2> HIDE DEF Eq
  <2> QED
    BY <1>6
<1>8. latestReviewStatesOnFinal(rows, pull) = L[K]
  BY DEF latestReviewStatesOnFinal
<1> HIDE DEF L
<1>9. L[0] = x0 /\ \A n \in 1..K : L[n] = Take(L[n - 1], rows[n], pull)
  <2> HIDE DEF V, K, x0, step
  <2> QED
    BY <1>0, <1>7
<1>10. L \in [0..K -> V]
  <2>1. \A n \in Nat : n <= K => L[n] \in V
    <3> DEFINE S == {n \in Nat : n <= K => L[n] \in V}
    <3>1. 0 \in S
      <4> HIDE DEF V, K, x0
      <4> QED
        BY <1>1, <1>9
    <3>2. ASSUME NEW n \in Nat, n \in S PROVE n + 1 \in S
      <4> SUFFICES ASSUME n + 1 <= K PROVE L[n + 1] \in V
        OBVIOUS
      <4>1. n + 1 \in 1..K /\ (n + 1) - 1 = n /\ n <= K
        BY <1>0
      <4>2. L[n] \in V
        BY <3>2, <4>1
      <4>3. L[n + 1] = Take(L[n], rows[n + 1], pull)
        <5> HIDE DEF K
        <5> QED
          BY <1>9, <4>1
      <4>4. Take(L[n], rows[n + 1], pull) \in V
        BY <4>1, <4>2, TakeKeeps
      <4> QED
        BY <4>3, <4>4
    <3> HIDE DEF S
    <3>3. Nat \subseteq S
      BY <3>1, <3>2, NatInd
    <3> QED
      BY <3>3 DEF S
  <2>2. L = [n \in 0..K |-> L[n]]
    <3> HIDE DEF V, K, x0
    <3> QED
      BY <1>7
  <2> HIDE DEF V, K, x0
  <2> QED
    BY <1>0, <2>1, <2>2
<1> QED
  BY <1>8, <1>9, <1>10

(* One pull request's verdict. *)

\* The reasons evaluatePR may give.
Grounds == {"self-approved", "stale", "no approval", "checks", "not delivered"}
\* What evaluateRequiredChecks answers; the empty string stands for no checks
\* to pass.
CheckStates == {"", "success", "failure", "missing"}

\* What the rules after it rely on: each reason is there when its signal is.
Verdicts ==
    {v \in [number : Nat, approved : BOOLEAN, refreshed : BOOLEAN, passes : BOOLEAN,
            reasons : SUBSET Grounds, fresh : BOOLEAN, self : BOOLEAN, stale : BOOLEAN,
            check : CheckStates, concern : BOOLEAN] :
        /\ v.approved <=> v.fresh \/ v.refreshed
        /\ v.passes => v.approved /\ v.check \in {"", "success"}
        /\ v.approved /\ ~v.passes /\ v.check \in {"", "success"} => "not delivered" \in v.reasons
        /\ v.check \in {"failure", "missing"} => "checks" \in v.reasons
        /\ ~v.approved /\ v.self => "self-approved" \in v.reasons
        /\ ~v.approved /\ v.stale => "stale" \in v.reasons
        /\ ~v.approved /\ ~v.self /\ ~v.stale => "no approval" \in v.reasons}

\* PRVerdict gives such a verdict, whatever it is asked.
LEMMA PRVerdictType ==
    ASSUME NEW pull, pull.number \in Nat, NEW final, NEW older, NEW refreshable, NEW own,
           NEW check \in CheckStates, NEW concern \in BOOLEAN
    PROVE  PRVerdict(pull, final, older, refreshable, own, check, concern) \in Verdicts
<1> DEFINE v == PRVerdict(pull, final, older, refreshable, own, check, concern)
<1>1. /\ v.number = pull.number /\ v.check = check /\ v.concern = concern
      /\ v.approved \in BOOLEAN /\ v.refreshed \in BOOLEAN /\ v.passes \in BOOLEAN
      /\ v.fresh \in BOOLEAN /\ v.self \in BOOLEAN /\ v.stale \in BOOLEAN
      /\ v.approved = (v.fresh \/ v.refreshed)
      /\ v.passes = (v.approved /\ check \in {"", "success"} /\ prDelivers(pull))
      /\ v.reasons = VerdictReasons(v.approved, v.self, v.stale, check \in {"", "success"}, prDelivers(pull))
  BY DEF PRVerdict
<1> HIDE DEF v
<1> USE DEF CheckStates
<1>2. v.reasons \in SUBSET Grounds
  BY <1>1 DEF VerdictReasons, Grounds
<1>3. v.approved /\ ~v.passes /\ check \in {"", "success"} => "not delivered" \in v.reasons
  BY <1>1 DEF VerdictReasons
<1>4. check \in {"failure", "missing"} => "checks" \in v.reasons
  BY <1>1 DEF VerdictReasons
<1>5. /\ ~v.approved /\ v.self => "self-approved" \in v.reasons
      /\ ~v.approved /\ v.stale => "stale" \in v.reasons
      /\ ~v.approved /\ ~v.self /\ ~v.stale => "no approval" \in v.reasons
  BY <1>1 DEF VerdictReasons
<1>6. v \in [number : Nat, approved : BOOLEAN, refreshed : BOOLEAN, passes : BOOLEAN,
            reasons : SUBSET Grounds, fresh : BOOLEAN, self : BOOLEAN, stale : BOOLEAN,
            check : CheckStates, concern : BOOLEAN]
  <2>1. v = [number |-> v.number, approved |-> v.approved, refreshed |-> v.refreshed,
             passes |-> v.passes, reasons |-> v.reasons, fresh |-> v.fresh, self |-> v.self,
             stale |-> v.stale, check |-> v.check, concern |-> v.concern]
    BY DEF v, PRVerdict
  <2> QED
    BY <1>1, <1>2, <2>1
<1>7. v.passes => v.approved /\ v.check \in {"", "success"}
  BY <1>1
<1>8. /\ v.approved /\ ~v.passes /\ v.check \in {"", "success"} => "not delivered" \in v.reasons
      /\ v.check \in {"failure", "missing"} => "checks" \in v.reasons
  BY <1>1, <1>3, <1>4
<1>9. v.approved <=> v.fresh \/ v.refreshed
  BY <1>1
<1>10. v \in Verdicts
  BY <1>5, <1>6, <1>7, <1>8, <1>9 DEF Verdicts
<1> QED
  BY <1>10 DEF v

(* The refused commit's best verdict. *)

\* Finitely many naturals have a bound.
LEMMA BoundedAbove ==
    ASSUME NEW n \in Nat, NEW f \in [1..n -> Nat]
    PROVE  \E b \in Nat : \A i \in 1..n : f[i] <= b
<1> DEFINE S == {k \in Nat : k <= n => \E b \in Nat : \A i \in 1..k : f[i] <= b}
<1>1. 0 \in S
  OBVIOUS
<1>2. ASSUME NEW k \in Nat, k \in S PROVE k + 1 \in S
  <2> SUFFICES ASSUME k + 1 <= n PROVE \E b \in Nat : \A i \in 1..(k + 1) : f[i] <= b
    OBVIOUS
  <2>1. PICK b \in Nat : \A i \in 1..k : f[i] <= b
    BY <1>2
  <2>2. f[k + 1] \in Nat
    OBVIOUS
  <2>3. \A i \in 1..(k + 1) : f[i] <= b + f[k + 1]
    BY <2>1, <2>2
  <2> QED
    BY <2>2, <2>3
<1> HIDE DEF S
<1>3. Nat \subseteq S
  BY <1>1, <1>2, NatInd
<1>4. n \in S
  BY <1>3
<1> QED
  BY <1>4 DEF S

\* So have the values of a function on a finite set.
LEMMA FiniteBounded ==
    ASSUME NEW S, IsFiniteSet(S), NEW f \in [S -> Nat]
    PROVE  \E b \in Nat : \A x \in S : f[x] <= b
<1>1. PICK n \in Nat : ExistsBijection(1..n, S)
  BY FS_NatBijection
<1>2. PICK g \in Bijection(1..n, S) : TRUE
  BY <1>1 DEF ExistsBijection
<1>3. g \in [1..n -> S] /\ \A x \in S : \E i \in 1..n : g[i] = x
  BY <1>2 DEF Bijection, Injection, Surjection, IsInjective
<1> DEFINE h == [i \in 1..n |-> f[g[i]]]
<1>4. h \in [1..n -> Nat]
  BY <1>3
<1>5. PICK b \in Nat : \A i \in 1..n : h[i] <= b
  <2> HIDE DEF h
  <2> QED
    BY <1>4, BoundedAbove
<1>6. ASSUME NEW x \in S PROVE f[x] <= b
  <2>1. PICK i \in 1..n : g[i] = x
    BY <1>3
  <2> QED
    BY <1>5, <2>1
<1> QED
  BY <1>6

\* A verdict's reasons can be counted.
LEMMA ReasonsCounted ==
    ASSUME NEW v \in Verdicts
    PROVE  Cardinality(v.reasons) \in Nat
<1>1. IsFiniteSet(Grounds)
  <2>1. IsFiniteSet({"self-approved"})
    BY FS_Singleton
  <2>2. IsFiniteSet({"self-approved"} \cup {"stale"})
    BY <2>1, FS_AddElement
  <2>3. IsFiniteSet(({"self-approved"} \cup {"stale"}) \cup {"no approval"})
    BY <2>2, FS_AddElement
  <2>4. IsFiniteSet((({"self-approved"} \cup {"stale"}) \cup {"no approval"}) \cup {"checks"})
    BY <2>3, FS_AddElement
  <2>5. IsFiniteSet(((({"self-approved"} \cup {"stale"}) \cup {"no approval"}) \cup {"checks"}) \cup {"not delivered"})
    BY <2>4, FS_AddElement
  <2>6. Grounds = ((({"self-approved"} \cup {"stale"}) \cup {"no approval"}) \cup {"checks"}) \cup {"not delivered"}
    BY DEF Grounds
  <2> QED
    BY <2>5, <2>6
<1>2. v.reasons \in SUBSET Grounds
  BY DEF Verdicts
<1>3. IsFiniteSet(v.reasons)
  BY <1>1, <1>2, FS_Subset
<1> QED
  BY <1>3, FS_CardinalityType

\* betterVerdict, fewest reasons and then the highest number, has a first among
\* the verdicts of distinct pull requests.
LEMMA BestExists ==
    ASSUME NEW n \in Nat, n # 0, NEW verdicts \in [1..n -> Verdicts],
           \A i, j \in 1..n : verdicts[i].number = verdicts[j].number => i = j
    PROVE  \E i \in 1..n : \A j \in (1..n) \ {i} : betterVerdict(verdicts[i], verdicts[j])
<1> DEFINE cost == [i \in 1..n |-> Cardinality(verdicts[i].reasons)]
           number == [i \in 1..n |-> verdicts[i].number]
<1>1. cost \in [1..n -> Nat]
  BY ReasonsCounted
<1>2. number \in [1..n -> Nat]
  BY DEF Verdicts
<1>3. \A i, j \in 1..n : betterVerdict(verdicts[i], verdicts[j]) <=>
          cost[i] < cost[j] \/ (cost[i] = cost[j] /\ number[i] > number[j])
  BY DEF betterVerdict
<1>4. \A i, j \in 1..n : number[i] = number[j] => i = j
  OBVIOUS
<1> HIDE DEF cost, number
<1>5. PICK low \in {cost[i] : i \in 1..n} : \A m \in {cost[i] : i \in 1..n} : low <= m
  <2>1. {cost[i] : i \in 1..n} \in SUBSET Nat
    BY <1>1
  <2>2. cost[1] \in {cost[i] : i \in 1..n}
    OBVIOUS
  <2> DEFINE T == {cost[i] : i \in 1..n}
  <2> HIDE DEF T
  <2> QED
    BY <2>1, <2>2, LeastNat DEF T
<1>6. PICK b \in Nat : \A i \in 1..n : number[i] <= b
  BY <1>2, BoundedAbove
<1> DEFINE Gaps == {b - number[i] : i \in {i \in 1..n : cost[i] = low}}
<1>7. PICK gap \in Gaps : \A m \in Gaps : gap <= m
  <2>1. Gaps \in SUBSET Nat /\ Gaps # {}
    BY <1>2, <1>5, <1>6
  <2> HIDE DEF Gaps
  <2> QED
    BY <2>1, LeastNat
<1>8. PICK i \in 1..n : cost[i] = low /\ gap = b - number[i]
  BY <1>7
<1>9. ASSUME NEW j \in (1..n) \ {i} PROVE betterVerdict(verdicts[i], verdicts[j])
  <2>1. low <= cost[j] /\ cost[i] \in Nat /\ cost[j] \in Nat /\ number[i] \in Nat /\ number[j] \in Nat
    BY <1>1, <1>2, <1>5
  <2>2. CASE cost[j] = low
    <3>1. b - number[j] \in Gaps
      BY <2>2
    <3>2. b - number[i] <= b - number[j]
      BY <1>7, <1>8, <3>1
    <3> QED
      BY <1>3, <1>4, <1>8, <2>1, <2>2, <3>2
  <2> QED
    BY <1>3, <1>8, <2>1, <2>2
<1> QED
  BY <1>9

-----------------------------------------------------------------------------
(* The rule list: which rule decided, and what the answer holds. *)

\* How a commit's verdict d came about: by the exemption, rule 1.
ByExemption(d, exempt) ==
    exempt /\ d.why = "exempt" /\ d.compliant = TRUE /\ d.reasons = {} /\ d.signals = NoSignals

\* By a pull request, one of n with the given verdicts, that passes every rule.
ByPullRequest(d, n, verdicts) ==
    /\ d.compliant = TRUE /\ d.reasons = {}
    /\ \E i \in 1..n :
          /\ verdicts[i].passes
          /\ d.why = IF verdicts[i].refreshed THEN "refreshed" ELSE "approved"
          /\ d.pr = verdicts[i].number
          /\ d.signals = finalizeCompliantPR(verdicts[i])

\* The signals of a grant that no pull request gave.
Noted(n) == IF n = 0 THEN NoSignals ELSE Associated

\* By the rule of empty commits.
ByEmptiness(d, n, empty) ==
    empty /\ d.why = "empty" /\ d.compliant = TRUE /\ d.reasons = {} /\ d.signals = Noted(n)

\* By the rule of clean reverts.
ByRevert(d, n, clean) ==
    clean /\ d.why = "clean revert" /\ d.compliant = TRUE /\ d.reasons = {} /\ d.signals = Noted(n)

\* Refused for want of a pull request.
Unclaimed(d, n) ==
    /\ n = 0 /\ d.why = "no pull request" /\ d.compliant = FALSE
    /\ d.reasons = {"no pull request"} /\ d.signals = NoSignals

\* Refused with the reasons of the best of the n verdicts, of which none
\* passes.
Refused(d, n, verdicts) ==
    /\ d.why = "refused" /\ d.compliant = FALSE
    /\ \E i \in 1..n : d.reasons = verdicts[i].reasons /\ d.signals = finalizeNonCompliant(verdicts[i])

\* EvaluateCommit's rule list: the first rule that applies, in the code's
\* order.
Decided(d, exempt, empty, clean, n, verdicts) ==
    \/ ByExemption(d, exempt)
    \/ ~exempt /\ ByPullRequest(d, n, verdicts)
    \/ /\ ~exempt /\ \A i \in 1..n : ~verdicts[i].passes
       /\ \/ ByEmptiness(d, n, empty)
          \/ ~empty /\ ByRevert(d, n, clean)
          \/ ~empty /\ ~clean /\ (Unclaimed(d, n) \/ Refused(d, n, verdicts))

\* CommitVerdict is that list.
LEMMA CommitVerdictDecides ==
    ASSUME NEW exempt \in BOOLEAN, NEW empty \in BOOLEAN, NEW clean \in BOOLEAN,
           NEW n \in Nat, NEW verdicts \in [1..n -> Verdicts],
           \A i, j \in 1..n : verdicts[i].number = verdicts[j].number => i = j
    PROVE  Decided(CommitVerdict(exempt, empty, clean, verdicts), exempt, empty, clean, n, verdicts)
<1> DEFINE d == CommitVerdict(exempt, empty, clean, verdicts)
           passing == {i \in DOMAIN verdicts : verdicts[i].passes}
           best == CHOOSE i \in DOMAIN verdicts :
                       \A j \in DOMAIN verdicts \ {i} : betterVerdict(verdicts[i], verdicts[j])
<1>1. DOMAIN verdicts = 1..n
  OBVIOUS
<1>2. verdicts = <<>> <=> n = 0
  OBVIOUS
<1>3. CASE exempt
  <2>1. ByExemption(d, exempt)
    BY <1>3 DEF CommitVerdict, ByExemption
  <2> QED
    BY <2>1 DEF Decided
<1>4. CASE ~exempt /\ passing # {}
  <2>1. Min(passing) \in passing
    <3>1. passing \in SUBSET Nat
      BY <1>1
    <3>2. \E i \in passing : \A j \in passing : i <= j
      BY <1>4, <3>1, LeastNat
    <3> HIDE DEF passing
    <3> QED
      BY <3>2 DEF Min
  <2> DEFINE winner == verdicts[Min(passing)]
  <2>2. /\ d.compliant = TRUE /\ d.reasons = {}
        /\ d.why = IF winner.refreshed THEN "refreshed" ELSE "approved"
        /\ d.pr = winner.number /\ d.signals = finalizeCompliantPR(winner)
    BY <1>4 DEF CommitVerdict
  <2>3. ByPullRequest(d, n, verdicts)
    BY <1>1, <2>1, <2>2 DEF ByPullRequest
  <2> QED
    BY <1>4, <2>3 DEF Decided
<1>5. CASE ~exempt /\ passing = {}
  <2>1. \A i \in 1..n : ~verdicts[i].passes
    BY <1>1, <1>5
  <2>2. CASE empty
    <3>1. ByEmptiness(d, n, empty)
      BY <1>2, <1>5, <2>2 DEF CommitVerdict, ByEmptiness, Noted
    <3> QED
      BY <1>5, <2>1, <3>1 DEF Decided
  <2>3. CASE ~empty /\ clean
    <3>1. ByRevert(d, n, clean)
      BY <1>2, <1>5, <2>3 DEF CommitVerdict, ByRevert, Noted
    <3> QED
      BY <1>5, <2>1, <2>3, <3>1 DEF Decided
  <2>4. CASE ~empty /\ ~clean /\ n = 0
    <3>1. Unclaimed(d, n)
      BY <1>2, <1>5, <2>4 DEF CommitVerdict, Unclaimed
    <3> QED
      BY <1>5, <2>1, <2>4, <3>1 DEF Decided
  <2>5. CASE ~empty /\ ~clean /\ n # 0
    <3>1. best \in 1..n
      <4>1. \E i \in 1..n : \A j \in (1..n) \ {i} : betterVerdict(verdicts[i], verdicts[j])
        BY <2>5, BestExists
      <4> QED
        BY <1>1, <4>1
    <3>2. /\ d.compliant = FALSE /\ d.why = "refused" /\ d.reasons = verdicts[best].reasons
          /\ d.signals = finalizeNonCompliant(verdicts[best])
      BY <1>2, <1>5, <2>5 DEF CommitVerdict
    <3>3. Refused(d, n, verdicts)
      BY <3>1, <3>2 DEF Refused
    <3> QED
      BY <1>5, <2>1, <2>5, <3>3 DEF Decided
  <2> QED
    BY <2>2, <2>3, <2>4, <2>5
<1> QED
  BY <1>3, <1>4, <1>5

\* Of two verdicts at most one is the better.
LEMMA NotBothBetter ==
    ASSUME NEW v \in Verdicts, NEW w \in Verdicts, betterVerdict(v, w), betterVerdict(w, v)
    PROVE  FALSE
<1>1. ASSUME NEW x \in Verdicts PROVE Cardinality(x.reasons) \in Nat /\ x.number \in Nat
  BY ReasonsCounted DEF Verdicts
<1> DEFINE a == Cardinality(v.reasons)
           b == Cardinality(w.reasons)
<1>2. a \in Nat /\ b \in Nat /\ v.number \in Nat /\ w.number \in Nat
  BY <1>1
<1>3. a < b \/ (a = b /\ v.number > w.number)
  BY DEF betterVerdict
<1>4. b < a \/ (b = a /\ w.number > v.number)
  BY DEF betterVerdict
<1> HIDE DEF a, b
<1> QED
  BY ONLY <1>2, <1>3, <1>4

\* The same verdicts, of distinct pull requests, in two orders.
SameVerdicts(n, vs, m, ws) ==
    /\ \A i, j \in 1..n : vs[i].number = vs[j].number => i = j
    /\ \A i, j \in 1..m : ws[i].number = ws[j].number => i = j
    /\ \A i \in 1..n : \E j \in 1..m : vs[i] = ws[j]
    /\ \A j \in 1..m : \E i \in 1..n : vs[i] = ws[j]

\* The order of the verdicts decides only which of several that pass is credited.
LEMMA OrderOfVerdicts ==
    ASSUME NEW exempt \in BOOLEAN, NEW empty \in BOOLEAN, NEW clean \in BOOLEAN,
           NEW n \in Nat, NEW vs \in [1..n -> Verdicts],
           NEW m \in Nat, NEW ws \in [1..m -> Verdicts],
           SameVerdicts(n, vs, m, ws)
    PROVE  LET d == CommitVerdict(exempt, empty, clean, vs)
               e == CommitVerdict(exempt, empty, clean, ws)
           IN  d = e \/ (ByPullRequest(d, n, vs) /\ ByPullRequest(e, m, ws))
<1> DEFINE d == CommitVerdict(exempt, empty, clean, vs)
           e == CommitVerdict(exempt, empty, clean, ws)
           First(xs) == CHOOSE i \in DOMAIN xs : \A j \in DOMAIN xs \ {i} : betterVerdict(xs[i], xs[j])
<1> SUFFICES d = e \/ (ByPullRequest(d, n, vs) /\ ByPullRequest(e, m, ws))
  OBVIOUS
<1>0. /\ \A i, j \in 1..n : vs[i].number = vs[j].number => i = j
      /\ \A i, j \in 1..m : ws[i].number = ws[j].number => i = j
      /\ \A i \in 1..n : \E j \in 1..m : vs[i] = ws[j]
      /\ \A j \in 1..m : \E i \in 1..n : vs[i] = ws[j]
  BY Zenon DEF SameVerdicts
<1>1. DOMAIN vs = 1..n /\ DOMAIN ws = 1..m
  OBVIOUS
<1>2. (vs = <<>> <=> n = 0) /\ (ws = <<>> <=> m = 0) /\ (n = 0 <=> m = 0)
  BY <1>0
<1>3. exempt \in BOOLEAN /\ empty \in BOOLEAN /\ clean \in BOOLEAN
  OBVIOUS
<1>4. CASE exempt
  BY <1>4 DEF CommitVerdict
<1>5. CASE ~exempt /\ \E i \in 1..n : vs[i].passes
  <2>1. \E j \in 1..m : ws[j].passes
    BY <1>0, <1>5
  <2>2. Decided(d, exempt, empty, clean, n, vs)
    <3>1. \A i, j \in 1..n : vs[i].number = vs[j].number => i = j
      BY ONLY <1>0
    <3>2. vs \in [1..n -> Verdicts] /\ n \in Nat
      OBVIOUS
    <3> QED
      BY ONLY <1>3, <3>1, <3>2, CommitVerdictDecides
  <2>3. Decided(e, exempt, empty, clean, m, ws)
    <3>1. \A i, j \in 1..m : ws[i].number = ws[j].number => i = j
      BY ONLY <1>0
    <3>2. ws \in [1..m -> Verdicts] /\ m \in Nat
      OBVIOUS
    <3> QED
      BY ONLY <1>3, <3>1, <3>2, CommitVerdictDecides
  <2> HIDE DEF d, e
  <2> QED
    BY <1>5, <2>1, <2>2, <2>3 DEF Decided, ByExemption
<1>6. CASE ~exempt /\ ~ \E i \in 1..n : vs[i].passes
  <2>1. {i \in DOMAIN vs : vs[i].passes} = {} /\ {i \in DOMAIN ws : ws[i].passes} = {}
    <3>1. ASSUME NEW j \in 1..m PROVE ~ws[j].passes
      <4>1. PICK i \in 1..n : vs[i] = ws[j]
        BY ONLY <1>0, <3>1
      <4> QED
        BY ONLY <1>6, <4>1
    <3> QED
      BY ONLY <1>1, <1>6, <3>1
  <2>2. CASE n = 0
    <3>1. vs = <<>> /\ ws = <<>>
      BY <1>2, <2>2
    <3> QED
      BY <3>1
  <2>3. CASE n # 0
    <3>1. n # 0 /\ m # 0 /\ vs # <<>> /\ ws # <<>>
      BY <1>2, <2>3
    <3>2. /\ First(vs) \in 1..n
          /\ \A j \in (1..n) \ {First(vs)} : betterVerdict(vs[First(vs)], vs[j])
      <4>1. \E i \in 1..n : \A j \in (1..n) \ {i} : betterVerdict(vs[i], vs[j])
        BY <1>0, <3>1, BestExists
      <4> QED
        BY <1>1, <4>1
    <3>3. /\ First(ws) \in 1..m
          /\ \A j \in (1..m) \ {First(ws)} : betterVerdict(ws[First(ws)], ws[j])
      <4>1. \E i \in 1..m : \A j \in (1..m) \ {i} : betterVerdict(ws[i], ws[j])
        BY <1>0, <3>1, BestExists
      <4> QED
        BY <1>1, <4>1
    <3>4. vs[First(vs)] = ws[First(ws)]
      <4> DEFINE a == First(vs)
                 b == First(ws)
      <4> HIDE DEF a, b, First
      <4>1. PICK j \in 1..m : ws[j] = vs[a]
        BY <1>0, <3>2 DEF a
      <4>2. PICK i \in 1..n : vs[i] = ws[b]
        BY <1>0, <3>3 DEF b
      <4>3. SUFFICES ASSUME vs[a] # ws[b] PROVE FALSE
        BY DEF a, b
      <4>4. betterVerdict(vs[a], ws[b])
        BY <3>2, <4>2, <4>3 DEF a
      <4>5. betterVerdict(ws[b], vs[a])
        BY <3>3, <4>1, <4>3 DEF b
      <4>6. vs[a] \in Verdicts /\ ws[b] \in Verdicts
        BY <3>2, <3>3 DEF a, b
      <4> QED
        BY ONLY <4>4, <4>5, <4>6, NotBothBetter
    <3> DEFINE v == vs[First(vs)]
               w == ws[First(ws)]
    <3>5. d = IF empty THEN [compliant |-> TRUE, why |-> "empty", pr |-> 0, reasons |-> {},
                             signals |-> Associated, exemptAuthor |-> exempt, forgeable |-> FALSE]
              ELSE IF clean
              THEN [compliant |-> TRUE, why |-> "clean revert", pr |-> v.number, reasons |-> {},
                    signals |-> Associated, exemptAuthor |-> exempt, forgeable |-> FALSE]
              ELSE [compliant |-> FALSE, why |-> "refused", pr |-> v.number, reasons |-> v.reasons,
                    signals |-> finalizeNonCompliant(v), exemptAuthor |-> exempt, forgeable |-> FALSE]
      BY <1>6, <2>1, <3>1 DEF CommitVerdict
    <3>6. e = IF empty THEN [compliant |-> TRUE, why |-> "empty", pr |-> 0, reasons |-> {},
                             signals |-> Associated, exemptAuthor |-> exempt, forgeable |-> FALSE]
              ELSE IF clean
              THEN [compliant |-> TRUE, why |-> "clean revert", pr |-> w.number, reasons |-> {},
                    signals |-> Associated, exemptAuthor |-> exempt, forgeable |-> FALSE]
              ELSE [compliant |-> FALSE, why |-> "refused", pr |-> w.number, reasons |-> w.reasons,
                    signals |-> finalizeNonCompliant(w), exemptAuthor |-> exempt, forgeable |-> FALSE]
      BY <1>6, <2>1, <3>1 DEF CommitVerdict
    <3> HIDE DEF d, e, First
    <3> QED
      BY ONLY <3>4, <3>5, <3>6
  <2> QED
    BY <2>2, <2>3
<1> QED
  BY <1>4, <1>5, <1>6

\* The answer on required checks is one of its four.
LEMMA ChecksType ==
    ASSUME NEW checks, NEW head
    PROVE  evaluateRequiredChecks(checks, head) \in CheckStates
BY DEF evaluateRequiredChecks, CheckStates

\* Of finitely many runs with ids of their own one is later than all the others.
LEMMA LatestExists ==
    ASSUME NEW S, IsFiniteSet(S), S # {},
           \A r \in S : r.at \in Nat /\ r.id \in Nat,
           \A r, s \in S : r.id = s.id => r = s
    PROVE  \E r \in S : \A s \in S \ {r} : LaterRun(r, s)
<1>1. PICK b \in Nat : \A r \in S : r.at <= b
  <2> DEFINE f == [r \in S |-> r.at]
  <2>1. f \in [S -> Nat]
    OBVIOUS
  <2>2. PICK b \in Nat : \A r \in S : f[r] <= b
    <3> HIDE DEF f
    <3> QED
      BY <2>1, FiniteBounded
  <2> QED
    BY <2>2
<1> DEFINE Ages == {b - r.at : r \in S}
<1>2. PICK age \in Ages : \A m \in Ages : age <= m
  <2>1. Ages \in SUBSET Nat /\ Ages # {}
    BY <1>1
  <2> HIDE DEF Ages
  <2> QED
    BY <2>1, LeastNat
<1>3. PICK newest \in S : age = b - newest.at
  BY <1>2
<1>4. \A r \in S : r.at <= newest.at
  <2>1. ASSUME NEW r \in S PROVE r.at <= newest.at
    <3>1. b - newest.at <= b - r.at
      BY <1>2, <1>3
    <3>2. b \in Nat /\ r.at \in Nat /\ newest.at \in Nat
      BY <1>3
    <3> QED
      BY ONLY <3>1, <3>2
  <2> QED
    BY <2>1
<1> DEFINE T == {r \in S : r.at = newest.at}
<1>5. PICK k \in Nat : \A r \in S : r.id <= k
  <2> DEFINE f == [r \in S |-> r.id]
  <2>1. f \in [S -> Nat]
    OBVIOUS
  <2>2. PICK k \in Nat : \A r \in S : f[r] <= k
    <3> HIDE DEF f
    <3> QED
      BY <2>1, FiniteBounded
  <2> QED
    BY <2>2
<1> DEFINE Gaps == {k - r.id : r \in T}
<1>6. PICK gap \in Gaps : \A m \in Gaps : gap <= m
  <2>1. Gaps \in SUBSET Nat /\ Gaps # {}
    BY <1>3, <1>5
  <2> HIDE DEF Gaps
  <2> QED
    BY <2>1, LeastNat
<1>7. PICK last \in T : gap = k - last.id
  BY <1>6
<1>8. ASSUME NEW s \in S \ {last} PROVE LaterRun(last, s)
  <2>1. last \in S /\ last.at = newest.at /\ last.id # s.id
    BY <1>7, <1>8
  <2>2. s.at \in Nat /\ s.id \in Nat /\ last.at \in Nat /\ last.id \in Nat /\ k \in Nat
    BY <1>8, <2>1
  <2>3. s.at <= last.at
    BY <1>4, <1>8, <2>1
  <2>4. s.at = last.at => k - last.id <= k - s.id
    BY <1>6, <1>7, <1>8, <2>1
  <2> QED
    BY ONLY <2>1, <2>2, <2>3, <2>4 DEF LaterRun
<1> QED
  BY <1>7, <1>8

\* Runs as check_runs keeps them, each with an id of its own.
RunsOK(checks) ==
    /\ IsFiniteSet(checks)
    /\ \A r \in checks : r.at \in Nat /\ r.id \in Nat
    /\ \A r, s \in checks : r.id = s.id => r = s

\* The latest of the runs of one name on the head: at a tie, the highest id.
IsLastRun(r, checks, head, name) ==
    /\ r \in checks /\ r.sha = head /\ r.name = name
    /\ \A s \in checks : s.sha = head /\ s.name = name /\ s # r => LaterRun(r, s)

\* evaluateRequiredChecks (audit.go 796-851): only the latest run of each
\* required check counts, whatever other runs there are.  All must have
\* succeeded; one that concluded otherwise is a failure; one that is running again, or
\* was never run, is not.
THEOREM LatestRunsDecide ==
    ASSUME NEW checks, RunsOK(checks), NEW head, Required # {}
    PROVE  LET answer == evaluateRequiredChecks(checks, head)
           IN  /\ (answer = "success") <=>
                    \A name \in Required : \E r \in checks :
                       IsLastRun(r, checks, head, name) /\ r.conclusion = "success"
               /\ (answer = "failure") <=>
                    \E name \in Required : \E r \in checks :
                       IsLastRun(r, checks, head, name) /\ r.conclusion \notin {"", "success"}
<1> DEFINE Runs(name) == {r \in checks : r.sha = head /\ r.name = name}
           LastRun(name) == CHOOSE r \in Runs(name) : \A s \in Runs(name) \ {r} : LaterRun(r, s)
           Missing(name) == Runs(name) = {} \/ LastRun(name).conclusion = ""
           Passed(name) == ~Missing(name) /\ LastRun(name).conclusion = "success"
<1>1. ASSUME NEW name, Runs(name) # {}
      PROVE  IsLastRun(LastRun(name), checks, head, name)
  <2> DEFINE S == Runs(name)
  <2>1. IsFiniteSet(S)
    BY FS_Subset DEF RunsOK
  <2>2. /\ \A r \in S : r.at \in Nat /\ r.id \in Nat
        /\ \A r, s \in S : r.id = s.id => r = s
    BY DEF RunsOK
  <2>3. \E r \in S : \A s \in S \ {r} : LaterRun(r, s)
    <3> HIDE DEF S
    <3> QED
      BY <1>1, <2>1, <2>2, LatestExists DEF S
  <2>4. LastRun(name) \in S /\ \A s \in S \ {LastRun(name)} : LaterRun(LastRun(name), s)
    BY <2>3
  <2> QED
    BY <2>4 DEF IsLastRun
<1>2. ASSUME NEW name, NEW r \in checks, IsLastRun(r, checks, head, name)
      PROVE  Runs(name) # {} /\ r = LastRun(name)
  <2>1. r \in Runs(name)
    BY <1>2 DEF IsLastRun
  <2>2. IsLastRun(LastRun(name), checks, head, name)
    BY <1>1, <2>1
  <2>3. SUFFICES ASSUME r # LastRun(name) PROVE FALSE
    BY <2>1
  <2> DEFINE l == LastRun(name)
  <2> HIDE DEF l
  <2>4. LaterRun(r, l) /\ LaterRun(l, r)
    BY <1>2, <2>2, <2>3 DEF IsLastRun, l
  <2>5. r.at \in Nat /\ l.at \in Nat /\ r.id \in Nat /\ l.id \in Nat
    BY <1>2, <2>2 DEF RunsOK, IsLastRun, l
  <2> QED
    BY ONLY <2>4, <2>5 DEF LaterRun
<1>3. ASSUME NEW name
      PROVE  /\ Passed(name) <=> \E r \in checks :
                  IsLastRun(r, checks, head, name) /\ r.conclusion = "success"
             /\ ~Missing(name) /\ ~Passed(name) <=> \E r \in checks :
                  IsLastRun(r, checks, head, name) /\ r.conclusion \notin {"", "success"}
  <2>1. Runs(name) # {} => LastRun(name) \in checks
    BY <1>1 DEF IsLastRun
  <2> HIDE DEF Runs, LastRun
  <2> QED
    BY <1>1, <1>2, <2>1
<1>4. evaluateRequiredChecks(checks, head) =
        IF \A name \in Required : Passed(name) THEN "success"
        ELSE IF \E name \in Required : ~Missing(name) /\ ~Passed(name) THEN "failure"
        ELSE "missing"
  BY Zenon DEF evaluateRequiredChecks
<1> HIDE DEF Passed, Missing
<1> QED
  BY ONLY <1>3, <1>4

\* evaluatePR gives a verdict of its type, with the pull request's number.
LEMMA EvaluatePRType ==
    ASSUME NEW c, NEW ev, NEW pull, pull.number \in Nat, NEW q
    PROVE  evaluatePR(c, ev, pull, q) \in Verdicts
<1>1. ASSUME NEW rows, NEW p PROVE postMergeConcern(rows, p) \in BOOLEAN
  BY DEF postMergeConcern
<1> QED
  BY <1>1, ChecksType, PRVerdictType DEF evaluatePR, evaluateApprovals

\* The verdicts of a commit's pull requests.
VerdictsOf(c, ev, q) == [i \in DOMAIN ev.prs |-> evaluatePR(c, ev, ev.prs[i], q)]

\* EvaluateCommit is the rule list asked of the commit's evidence.
LEMMA EvaluateCommitDecides ==
    ASSUME NEW c, NEW ev, NEW q, NEW n \in Nat, DOMAIN ev.prs = 1..n, ev.cleanRevert \in BOOLEAN,
           \A i \in 1..n : ev.prs[i].number \in Nat,
           \A i, j \in 1..n : ev.prs[i].number = ev.prs[j].number => i = j
    PROVE  LET d == EvaluateCommit(c, ev, q)
           IN  /\ Decided(d, ExemptionHolds(c, ev, q), EmptyHolds(c, q), ev.cleanRevert, n,
                          VerdictsOf(c, ev, q))
               /\ d.exemptAuthor = isExemptCommit(c)
               /\ d.forgeable = (ExemptionHolds(c, ev, q) /\ ~verifiedExemptSigner(c))
<1> DEFINE exempt == ExemptionHolds(c, ev, q)
           empty  == EmptyHolds(c, q)
           vs     == VerdictsOf(c, ev, q)
           v      == CommitVerdict(exempt, empty, ev.cleanRevert, vs)
           d      == EvaluateCommit(c, ev, q)
<1>1. exempt \in BOOLEAN /\ empty \in BOOLEAN
  BY DEF ExemptionHolds, EmptyHolds
<1>2. vs \in [1..n -> Verdicts]
  <2>1. ASSUME NEW i \in 1..n PROVE evaluatePR(c, ev, ev.prs[i], q) \in Verdicts
    <3>1. ev.prs[i].number \in Nat
      OBVIOUS
    <3> QED
      BY ONLY <3>1, EvaluatePRType
  <2>2. vs = [i \in 1..n |-> evaluatePR(c, ev, ev.prs[i], q)]
    BY Zenon DEF VerdictsOf
  <2> QED
    BY ONLY <2>1, <2>2
<1>3. \A i \in 1..n : vs[i].number = ev.prs[i].number
  BY Zenon DEF VerdictsOf, evaluatePR, evaluateApprovals, PRVerdict
<1>4. Decided(v, exempt, empty, ev.cleanRevert, n, vs)
  <2>1. \A i, j \in 1..n : vs[i].number = vs[j].number => i = j
    BY <1>3
  <2>2. n \in Nat /\ ev.cleanRevert \in BOOLEAN
    OBVIOUS
  <2> DEFINE waived == ev.cleanRevert
  <2> HIDE DEF exempt, empty, waived, vs
  <2>3. waived \in BOOLEAN
    BY <2>2 DEF waived
  <2> QED
    BY ONLY <1>1, <1>2, <2>1, <2>2, <2>3, CommitVerdictDecides DEF waived
<1>5. d = [v EXCEPT !.exemptAuthor = isExemptCommit(c), !.forgeable = exempt /\ ~verifiedExemptSigner(c)]
  BY DEF EvaluateCommit, VerdictsOf
<1>6. DOMAIN v = {"compliant", "why", "pr", "reasons", "signals", "exemptAuthor", "forgeable"}
  BY DEF CommitVerdict
<1>7. /\ d.compliant = v.compliant /\ d.why = v.why /\ d.pr = v.pr /\ d.reasons = v.reasons
      /\ d.signals = v.signals /\ d.exemptAuthor = isExemptCommit(c)
      /\ d.forgeable = (exempt /\ ~verifiedExemptSigner(c))
  <2> HIDE DEF v, exempt, d
  <2> QED
    BY <1>5, <1>6
<1>8. Decided(d, exempt, empty, ev.cleanRevert, n, vs)
  <2> HIDE DEF v, exempt, d, empty, vs
  <2> QED
    BY <1>4, <1>7 DEF Decided, ByExemption, ByPullRequest, ByEmptiness, ByRevert, Unclaimed, Refused
<1> QED
  BY <1>7, <1>8

\* What lists n pull requests, without repetition.
Lists(ev, n) ==
    /\ DOMAIN ev.prs = 1..n
    /\ \A i \in 1..n : ev.prs[i].number \in Nat
    /\ \A i, j \in 1..n : ev.prs[i].number = ev.prs[j].number => i = j

\* EvaluateCommit (audit.go) takes the pull requests of a commit in the order
\* that GitHub or a query without ORDER BY gives them.  That order never decides
\* whether the commit is compliant, and a row that credits no pull request with an approval
\* is the same in every field, whichever way it is listed; of several pull requests
\* that pass, the first listed is credited.
THEOREM OrderDecidesCreditOnly ==
    ASSUME NEW c, NEW q, NEW ev, NEW other, NEW n \in Nat, NEW m \in Nat,
           Lists(ev, n), Lists(other, m),
           {ev.prs[i] : i \in 1..n} = {other.prs[i] : i \in 1..m},
           ev.reviews = other.reviews, ev.commits = other.commits, ev.checks = other.checks,
           ev.cleanRevert \in BOOLEAN, ev.cleanRevert = other.cleanRevert
    PROVE  LET d == EvaluateCommit(c, ev, q)
               e == EvaluateCommit(c, other, q)
           IN  /\ d.compliant = e.compliant
               /\ d = e \/ {d.why, e.why} \subseteq {"approved", "refreshed"}
<1> DEFINE exempt == ExemptionHolds(c, ev, q)
           empty  == EmptyHolds(c, q)
           clean  == ev.cleanRevert
           vs     == [i \in 1..n |-> evaluatePR(c, ev, ev.prs[i], q)]
           ws     == [i \in 1..m |-> evaluatePR(c, ev, other.prs[i], q)]
           v      == CommitVerdict(exempt, empty, clean, vs)
           w      == CommitVerdict(exempt, empty, clean, ws)
           Marked(x) == [x EXCEPT !.exemptAuthor = isExemptCommit(c),
                                  !.forgeable    = exempt /\ ~verifiedExemptSigner(c)]
<1>1. ASSUME NEW pull PROVE evaluatePR(c, other, pull, q) = evaluatePR(c, ev, pull, q)
  BY Zenon DEF evaluatePR
<1>2. ExemptionHolds(c, other, q) = exempt
  BY Zenon DEF ExemptionHolds, hasNonExemptPRContributors
<1>3. EvaluateCommit(c, ev, q) = Marked(v)
  BY Zenon DEF EvaluateCommit, Lists
<1>4. EvaluateCommit(c, other, q) = Marked(w)
  <2>1. [i \in DOMAIN other.prs |-> evaluatePR(c, other, other.prs[i], q)] = ws
    BY <1>1, Zenon DEF Lists
  <2> HIDE DEF ws
  <2> QED
    BY <1>2, <2>1, Zenon DEF EvaluateCommit
<1>5. /\ vs \in [1..n -> Verdicts] /\ \A i \in 1..n : vs[i].number = ev.prs[i].number
      /\ ws \in [1..m -> Verdicts] /\ \A i \in 1..m : ws[i].number = other.prs[i].number
  <2>1. ASSUME NEW pull, pull.number \in Nat
        PROVE  evaluatePR(c, ev, pull, q) \in Verdicts /\ evaluatePR(c, ev, pull, q).number = pull.number
    <3>1. evaluatePR(c, ev, pull, q) \in Verdicts
      BY <2>1, EvaluatePRType
    <3>2. evaluatePR(c, ev, pull, q).number = pull.number
      BY Zenon DEF evaluatePR, evaluateApprovals, PRVerdict
    <3> QED
      BY <3>1, <3>2
  <2>2. \A i \in 1..n : ev.prs[i].number \in Nat
    BY DEF Lists
  <2>3. \A i \in 1..m : other.prs[i].number \in Nat
    BY DEF Lists
  <2> QED
    BY ONLY <2>1, <2>2, <2>3
<1>6. /\ \A i, j \in 1..n : vs[i].number = vs[j].number => i = j
      /\ \A i, j \in 1..m : ws[i].number = ws[j].number => i = j
  <2>1. /\ \A i, j \in 1..n : ev.prs[i].number = ev.prs[j].number => i = j
        /\ \A i, j \in 1..m : other.prs[i].number = other.prs[j].number => i = j
    BY DEF Lists
  <2> HIDE DEF vs, ws
  <2> QED
    BY ONLY <1>5, <2>1
<1>7. \A i \in 1..n : \E j \in 1..m : vs[i] = ws[j]
  <2>1. ASSUME NEW i \in 1..n PROVE \E j \in 1..m : ev.prs[i] = other.prs[j]
    BY Zenon
  <2> QED
    BY ONLY <2>1
<1>8. \A j \in 1..m : \E i \in 1..n : vs[i] = ws[j]
  <2>1. ASSUME NEW j \in 1..m PROVE \E i \in 1..n : ev.prs[i] = other.prs[j]
    BY Zenon
  <2> QED
    BY ONLY <2>1
<1>9. exempt \in BOOLEAN /\ empty \in BOOLEAN /\ clean \in BOOLEAN /\ n \in Nat /\ m \in Nat
  BY DEF ExemptionHolds, EmptyHolds
<1>10. v = w \/ (ByPullRequest(v, n, vs) /\ ByPullRequest(w, m, ws))
  <2> HIDE DEF exempt, empty, clean, vs, ws
  <2>1. SameVerdicts(n, vs, m, ws)
    BY ONLY <1>6, <1>7, <1>8, Zenon DEF SameVerdicts
  <2>2. vs \in [1..n -> Verdicts] /\ ws \in [1..m -> Verdicts]
    BY ONLY <1>5
  <2> QED
    BY ONLY <1>9, <2>1, <2>2, OrderOfVerdicts
<1>11. /\ Marked(v).compliant = v.compliant /\ Marked(v).why = v.why
       /\ Marked(w).compliant = w.compliant /\ Marked(w).why = w.why
  <2>1. DOMAIN v = {"compliant", "why", "pr", "reasons", "signals", "exemptAuthor", "forgeable"}
    BY DEF CommitVerdict
  <2>2. DOMAIN w = {"compliant", "why", "pr", "reasons", "signals", "exemptAuthor", "forgeable"}
    BY DEF CommitVerdict
  <2> HIDE DEF v, w, exempt
  <2>3. Marked(v).compliant = v.compliant /\ Marked(v).why = v.why
    BY ONLY <2>1
  <2>4. Marked(w).compliant = w.compliant /\ Marked(w).why = w.why
    BY ONLY <2>2
  <2> QED
    BY ONLY <2>3, <2>4
<1>12. CASE v = w
  BY <1>3, <1>4, <1>12, Zenon
<1>13. CASE ByPullRequest(v, n, vs) /\ ByPullRequest(w, m, ws)
  <2>1. v.compliant = TRUE /\ v.why \in {"approved", "refreshed"}
    BY ONLY <1>13 DEF ByPullRequest
  <2>2. w.compliant = TRUE /\ w.why \in {"approved", "refreshed"}
    BY ONLY <1>13 DEF ByPullRequest
  <2> HIDE DEF v, w, Marked
  <2> QED
    BY ONLY <1>3, <1>4, <1>11, <2>1, <2>2
<1> QED
  BY <1>10, <1>12, <1>13

-----------------------------------------------------------------------------
(* The pull requests' life: what holds of every state of the world. *)

\* What a commit record may hold.
Commits ==
    [sha : Nat, author : Accounts, committer : Accounts \cup {WebFlow}, webFlow : BOOLEAN,
     signed : BOOLEAN, prMessage : BOOLEAN, ref : Nat, parents : Seq(Nat),
     content : {"edit", "rename", "empty"}, lines : {0}, files : {0}, verified : {FALSE}]

\* What a pull request record may hold.
Pulls ==
    [number : Nat, author : {Opener}, head : Nat, mergeCommit : Nat \cup {NoCommit},
     mergedAt : Nat, base : Bases]

\* The states of a review row.
States == {"APPROVED", "CHANGES_REQUESTED", "COMMENTED", "DISMISSED"}

\* What a review row may hold; was is the state it was submitted with.
Rows ==
    [id : Nat, reviewer : Accounts, state : States, sha : Nat, at : Nat, dismissedAt : Nat,
     was : States \ {"DISMISSED"}]

\* The branch numbers its commits in push order; each is onto the one before or
\* onto the fork point.
BranchOK ==
    /\ branch \in Seq(Commits) /\ Len(branch) <= MaxCommits
    /\ \A i \in 1..Len(branch) :
          branch[i].sha = i /\ (branch[i].parents[1] = 0 \/ branch[i].parents[1] = i - 1)

\* A pull request has its number, and its head is a pushed commit if there is
\* one.
PullsOK ==
    /\ pr \in [Numbers -> Pulls]
    /\ \A p \in Numbers : pr[p].number = p /\ pr[p].head <= Len(branch)

\* Review rows have their type.
ReviewsOK ==
    /\ reviews \in [Numbers -> Seq(Rows)]
    /\ \A p \in Numbers : \A i \in 1..Len(reviews[p]) : reviews[p][i].sha \in 1..Len(branch)

\* The commit a pull request landed through is the branch's or new.
LandingOK ==
    /\ DOMAIN landing = Numbers /\ landing = [p \in Numbers |-> landing[p]]
    /\ \A p \in Numbers : Merged(p) =>
          /\ pr[p].head # 0
          /\ pr[p].mergeCommit = landing[p].commit.sha
          /\ landing[p].commit \in Commits
          /\ landing[p].commit = branch[pr[p].head] \/ landing[p].commit.sha = Landed(p)

\* The type invariant of the pull requests' life.
WorldOK == now \in Nat \ {0} /\ BranchOK /\ PullsOK /\ ReviewsOK /\ LandingOK

\* NewCommit makes a commit record.
LEMMA NewCommitType ==
    ASSUME NEW sha \in Nat, NEW author \in Accounts, NEW parents \in Seq(Nat),
           NEW content \in {"edit", "rename", "empty"}
    PROVE  /\ NewCommit(sha, author, parents, content) \in Commits
           /\ NewCommit(sha, author, parents, content).sha = sha
           /\ NewCommit(sha, author, parents, content).parents = parents
BY DEF NewCommit, Commits

\* The first state is such a world.
LEMMA WorldInit == Init => WorldOK
<1> SUFFICES ASSUME Init PROVE WorldOK
  OBVIOUS
<1> USE DEF Init
<1>1. BranchOK
  BY PullRequestsAssumption DEF BranchOK
<1>2. PullsOK
  <2>1. PICK base \in [Numbers -> Bases] : pr = [p \in Numbers |->
                   [number |-> p, author |-> Opener, head |-> 0,
                    mergeCommit |-> NoCommit, mergedAt |-> 0, base |-> base[p]]]
    BY DEF Init
  <2>2. Numbers \subseteq Nat
    BY PullRequestsAssumption
  <2> QED
    BY <2>1, <2>2, PullRequestsAssumption DEF PullsOK, Pulls
<1>3. ReviewsOK
  BY DEF ReviewsOK
<1>4. LandingOK
  <2>1. \A p \in Numbers : ~Merged(p)
    BY DEF Merged, Open
  <2> QED
    BY <2>1 DEF LandingOK
<1> QED
  BY <1>1, <1>2, <1>3, <1>4 DEF WorldOK

\* A push, forced or not, keeps the world well formed.
LEMMA PushKeeps ==
    ASSUME WorldOK, NEW a \in Authors, NEW content \in Contents, NEW forced \in BOOLEAN,
           Push(a, content, forced)
    PROVE  WorldOK'
<1> DEFINE sha == Len(branch) + 1
           parent == IF forced THEN 0 ELSE Len(branch)
           c == NewCommit(sha, a, <<parent>>, content)
<1>0. Len(branch) \in Nat /\ branch \in Seq(Commits)
  BY DEF WorldOK, BranchOK
<1>1. /\ branch' = Append(branch, c) /\ Len(branch) < MaxCommits
      /\ pr' = [p \in Numbers |-> IF Open(p) THEN [pr[p] EXCEPT !.head = sha] ELSE pr[p]]
      /\ UNCHANGED <<now, reviews, landing>>
  BY DEF Push
<1>2. c \in Commits /\ c.sha = sha /\ (c.parents[1] = 0 \/ c.parents[1] = sha - 1)
  <2>1. parent \in Nat /\ <<parent>> \in Seq(Nat) /\ <<parent>>[1] = parent
    BY <1>0
  <2>2. a \in Accounts /\ content \in {"edit", "rename", "empty"} /\ sha \in Nat
    BY <1>0, PullRequestsAssumption
  <2>3. c \in Commits /\ c.sha = sha /\ c.parents = <<parent>>
    <3> DEFINE parents == <<parent>>
    <3>1. parents \in Seq(Nat)
      BY <2>1
    <3> HIDE DEF sha, parents
    <3>2. /\ NewCommit(sha, a, parents, content) \in Commits
          /\ NewCommit(sha, a, parents, content).sha = sha
          /\ NewCommit(sha, a, parents, content).parents = parents
      BY <2>2, <3>1, NewCommitType
    <3> QED
      BY <3>2 DEF parents
  <2> QED
    BY <1>0, <2>1, <2>3
<1> HIDE DEF c
<1>3. /\ branch' \in Seq(Commits) /\ Len(branch') = sha
      /\ \A i \in 1..Len(branch) : branch'[i] = branch[i]
      /\ branch'[sha] = c
  BY <1>0, <1>1, <1>2
<1>4. BranchOK'
  <2>1. Len(branch') <= MaxCommits
    BY <1>0, <1>1, <1>3, PullRequestsAssumption
  <2>2. ASSUME NEW i \in 1..Len(branch')
        PROVE  branch'[i].sha = i /\ (branch'[i].parents[1] = 0 \/ branch'[i].parents[1] = i - 1)
    <3>1. CASE i = sha
      BY <1>2, <1>3, <3>1
    <3>2. CASE i # sha
      <4>1. i \in 1..Len(branch)
        BY <1>0, <1>3, <3>2
      <4> QED
        BY <1>3, <4>1 DEF WorldOK, BranchOK
    <3> QED
      BY <3>1, <3>2
  <2> QED
    BY <1>3, <2>1, <2>2 DEF BranchOK
<1>5. PullsOK'
  <2>1. ASSUME NEW p \in Numbers
        PROVE  pr'[p] \in Pulls /\ pr'[p].number = p /\ pr'[p].head <= Len(branch')
    <3>1. pr[p] \in Pulls /\ pr[p].number = p /\ pr[p].head <= Len(branch)
      BY DEF WorldOK, PullsOK
    <3>2. pr'[p] = pr[p] \/ pr'[p] = [pr[p] EXCEPT !.head = sha]
      BY <1>1
    <3>3. CASE pr'[p] = pr[p]
      BY <1>0, <1>3, <3>1, <3>3 DEF Pulls
    <3>4. CASE pr'[p] = [pr[p] EXCEPT !.head = sha]
      <4>1. sha \in Nat
        BY <1>0
      <4> HIDE DEF sha
      <4>2. pr'[p] \in Pulls /\ pr'[p].number = pr[p].number /\ pr'[p].head = sha
        BY <3>1, <3>4, <4>1 DEF Pulls
      <4> QED
        BY <1>3, <3>1, <4>1, <4>2
    <3> QED
      BY <3>2, <3>3, <3>4
  <2>2. pr' = [p \in Numbers |-> pr'[p]]
    BY <1>1
  <2> QED
    BY <2>1, <2>2 DEF PullsOK
<1>6. ReviewsOK'
  BY <1>0, <1>1, <1>3 DEF WorldOK, ReviewsOK
<1>7. LandingOK'
  <2>1. ASSUME NEW p \in Numbers, Merged(p)'
        PROVE  pr'[p] = pr[p] /\ Merged(p) /\ branch'[pr[p].head] = branch[pr[p].head]
    <3>1. pr[p] \in Pulls /\ pr[p].head <= Len(branch)
      BY DEF WorldOK, PullsOK
    <3>2. [pr[p] EXCEPT !.head = sha].mergedAt = pr[p].mergedAt
      BY <3>1 DEF Pulls
    <3>3. ~Open(p) /\ pr'[p] = pr[p]
      BY <1>1, <2>1, <3>2 DEF Merged, Open
    <3>4. pr[p].head \in 1..Len(branch)
      BY <3>1, <3>3 DEF WorldOK, LandingOK, Merged, Pulls
    <3> QED
      BY <1>3, <3>3, <3>4 DEF Merged
  <2>2. ASSUME NEW p \in Numbers, Merged(p)'
        PROVE  /\ pr'[p].head # 0
               /\ pr'[p].mergeCommit = landing'[p].commit.sha
               /\ landing'[p].commit \in Commits
               /\ landing'[p].commit = branch'[pr'[p].head] \/ landing'[p].commit.sha = Landed(p)
    <3>1. /\ pr[p].head # 0
          /\ pr[p].mergeCommit = landing[p].commit.sha
          /\ landing[p].commit \in Commits
          /\ landing[p].commit = branch[pr[p].head] \/ landing[p].commit.sha = Landed(p)
      BY <2>1, <2>2 DEF WorldOK, LandingOK
    <3>2. landing' = landing /\ pr'[p] = pr[p] /\ branch'[pr[p].head] = branch[pr[p].head]
      BY <1>1, <2>1, <2>2
    <3> QED
      BY ONLY <3>1, <3>2 DEF Landed
  <2> QED
    BY <1>1, <2>2 DEF WorldOK, LandingOK, Landed
<1> QED
  BY <1>1, <1>4, <1>5, <1>6, <1>7 DEF WorldOK

\* A review keeps the world well formed.
LEMMA SubmitKeeps ==
    ASSUME WorldOK, NEW p \in Numbers, NEW a \in Reviewers, NEW state \in Submissions,
           NEW sha \in 1..pr[p].head, Submit(p, a, sha, state)
    PROVE  WorldOK'
<1> DEFINE rv == [id |-> Len(reviews[p]) + 1, reviewer |-> a, state |-> state, sha |-> sha,
                  at |-> now, dismissedAt |-> 0, was |-> state]
<1>1. reviews' = [reviews EXCEPT ![p] = Append(reviews[p], rv)] /\ UNCHANGED <<now, branch, pr, landing>>
  BY DEF Submit
<1>2. reviews \in [Numbers -> Seq(Rows)] /\ reviews[p] \in Seq(Rows)
  BY DEF WorldOK, ReviewsOK
<1>3. sha \in 1..Len(branch) /\ sha \in Nat
  BY DEF WorldOK, PullsOK, Pulls, BranchOK
<1>4. rv \in Rows /\ rv.sha = sha
  <2>1. a \in Accounts /\ state \in States \ {"DISMISSED"} /\ now \in Nat /\ Len(reviews[p]) + 1 \in Nat
    BY <1>2, PullRequestsAssumption DEF States, WorldOK
  <2> QED
    BY <1>3, <2>1 DEF Rows
<1> HIDE DEF rv
<1>5. Append(reviews[p], rv) \in Seq(Rows)
  BY <1>2, <1>4
<1>6. ASSUME NEW i \in 1..Len(Append(reviews[p], rv))
      PROVE  Append(reviews[p], rv)[i].sha \in 1..Len(branch)
  <2>1. CASE i = Len(reviews[p]) + 1
    BY <1>2, <1>3, <1>4, <2>1
  <2>2. CASE i # Len(reviews[p]) + 1
    <3>1. i \in 1..Len(reviews[p])
      BY <1>2, <2>2
    <3>2. reviews[p][i].sha \in 1..Len(branch)
      BY <3>1 DEF WorldOK, ReviewsOK
    <3> QED
      BY <1>2, <3>1, <3>2
  <2> QED
    BY <2>1, <2>2
<1> DEFINE new == Append(reviews[p], rv)
<1> HIDE DEF new
<1>7. reviews' \in [Numbers -> Seq(Rows)]
  BY <1>1, <1>2, <1>5 DEF new
<1>8. ASSUME NEW o \in Numbers, NEW i \in 1..Len(reviews'[o])
      PROVE  reviews'[o][i].sha \in 1..Len(branch)
  <2>1. CASE o = p
    BY <1>1, <1>2, <1>6, <2>1 DEF new
  <2>2. CASE o # p
    BY <1>1, <1>2, <2>2 DEF WorldOK, ReviewsOK
  <2> QED
    BY <2>1, <2>2
<1>9. ReviewsOK'
  BY <1>1, <1>7, <1>8 DEF ReviewsOK
<1>10. BranchOK' /\ PullsOK' /\ LandingOK'
  BY <1>1 DEF WorldOK, BranchOK, PullsOK, LandingOK, Merged, Open
<1> QED
  BY <1>1, <1>9, <1>10 DEF WorldOK

\* A dismissal keeps the world well formed.
LEMMA DismissKeeps ==
    ASSUME WorldOK, NEW p \in Numbers, NEW i \in DOMAIN reviews[p], NEW dated \in BOOLEAN,
           Dismiss(p, i, dated)
    PROVE  WorldOK'
<1> DEFINE t == IF dated THEN now ELSE 0
           rv == [reviews[p][i] EXCEPT !.state = "DISMISSED", !.dismissedAt = t]
           new == [reviews[p] EXCEPT ![i] = rv]
<1>1. /\ reviews' = [reviews EXCEPT ![p][i].state = "DISMISSED", ![p][i].dismissedAt = t]
      /\ UNCHANGED <<now, branch, pr, landing>>
  BY DEF Dismiss
<1>2. reviews \in [Numbers -> Seq(Rows)] /\ reviews[p] \in Seq(Rows) /\ i \in 1..Len(reviews[p])
  BY DEF WorldOK, ReviewsOK
<1>3. t \in Nat
  BY DEF WorldOK
<1> HIDE DEF t
<1>4. rv \in Rows /\ rv.sha = reviews[p][i].sha
  <2>1. reviews[p][i] \in Rows
    BY <1>2
  <2> QED
    BY <1>3, <2>1 DEF Rows, States
<1>5. reviews' = [reviews EXCEPT ![p] = new]
  BY <1>1, <1>2
<1> HIDE DEF rv
<1>6. /\ new \in Seq(Rows) /\ Len(new) = Len(reviews[p])
      /\ \A j \in 1..Len(reviews[p]) : new[j] \in Rows /\ new[j].sha = reviews[p][j].sha
  BY <1>2, <1>4
<1> HIDE DEF new
<1>7. reviews' \in [Numbers -> Seq(Rows)]
  BY <1>2, <1>5, <1>6
<1>8. ASSUME NEW o \in Numbers, NEW j \in 1..Len(reviews'[o])
      PROVE  reviews'[o][j].sha \in 1..Len(branch)
  <2>1. CASE o = p
    BY <1>2, <1>5, <1>6, <2>1 DEF WorldOK, ReviewsOK
  <2>2. CASE o # p
    BY <1>2, <1>5, <2>2 DEF WorldOK, ReviewsOK
  <2> QED
    BY <2>1, <2>2
<1>9. ReviewsOK'
  BY <1>1, <1>7, <1>8 DEF ReviewsOK
<1>10. BranchOK' /\ PullsOK' /\ LandingOK'
  BY <1>1 DEF WorldOK, BranchOK, PullsOK, LandingOK, Merged, Open
<1> QED
  BY <1>1, <1>9, <1>10 DEF WorldOK

\* A merge keeps the world well formed, however the pull request lands.
LEMMA MergeKeeps ==
    ASSUME WorldOK, NEW p \in Numbers, NEW how \in Merges, NEW by \in Reviewers \cup {Opener},
           NEW content \in NetContents(p), Merge(p, how, by, content)
    PROVE  WorldOK'
<1> DEFINE c == LandingCommit(p, how, by, content)
           head == pr[p].head
<1>1. /\ Open(p) /\ head # 0
      /\ pr' = [pr EXCEPT ![p].mergedAt = now, ![p].mergeCommit = c.sha]
      /\ landing' = [landing EXCEPT ![p] = [how |-> how, commit |-> c]]
      /\ UNCHANGED <<now, branch, reviews>>
  BY DEF Merge
<1>2. /\ pr \in [Numbers -> Pulls] /\ pr[p] \in Pulls /\ head \in 1..Len(branch)
      /\ branch[head] \in Commits /\ branch \in Seq(Commits) /\ branch[head].sha = head /\ head \in Nat
  BY <1>1 DEF WorldOK, PullsOK, Pulls, BranchOK
<1>3. content \in {"edit", "rename", "empty"}
  <2>1. \A x \in ChainOf(p) : x.content \in {"edit", "rename", "empty"}
    <3> SUFFICES ASSUME NEW s \in Ancestors(head)
                 PROVE  branch[s].content \in {"edit", "rename", "empty"}
      BY DEF ChainOf
    <3>1. s \in 1..Len(branch)
      BY <1>2 DEF Ancestors
    <3>2. branch[s] \in Commits
      BY <1>2, <3>1
    <3> QED
      BY <3>2 DEF Commits
  <2> QED
    BY <2>1 DEF NetContents
<1>4. c \in Commits /\ (c = branch[head] \/ c.sha = Landed(p))
  <2> DEFINE base == NewCommit(Landed(p), by, <<0, head>>, content)
  <2>1. base \in Commits /\ base.sha = Landed(p)
    <3>1. by \in Accounts /\ Landed(p) \in Nat /\ <<0, head>> \in Seq(Nat)
      BY <1>2, PullRequestsAssumption DEF Landed
    <3> DEFINE parents == <<0, head>>
    <3> HIDE DEF parents
    <3>2. NewCommit(Landed(p), by, parents, content) \in Commits /\ NewCommit(Landed(p), by, parents, content).sha = Landed(p)
      BY <1>3, <3>1, NewCommitType DEF parents
    <3> QED
      BY <3>2 DEF parents
  <2>2. CASE how = "squash"
    <3>1. c = [base EXCEPT !.author = Opener, !.parents = <<0>>, !.committer = WebFlow,
                           !.webFlow = TRUE, !.signed = TRUE, !.ref = p]
      BY <2>2 DEF LandingCommit
    <3>2. Opener \in Accounts /\ p \in Nat /\ <<0>> \in Seq(Nat)
      BY PullRequestsAssumption
    <3> HIDE DEF base, c
    <3> QED
      BY <2>1, <3>1, <3>2 DEF Commits
  <2>3. CASE how = "merge"
    <3>1. c = [base EXCEPT !.committer = WebFlow, !.webFlow = TRUE, !.signed = TRUE, !.prMessage = TRUE]
      BY <2>3 DEF LandingCommit
    <3> HIDE DEF base, c
    <3> QED
      BY <2>1, <3>1 DEF Commits
  <2>4. CASE how = "local"
    BY <2>1, <2>4 DEF LandingCommit
  <2>5. CASE how = "fast-forward"
    BY <1>2, <2>5 DEF LandingCommit
  <2> QED
    BY <2>2, <2>3, <2>4, <2>5, PullRequestsAssumption
<1> HIDE DEF c
<1>5. PullsOK'
  <2>1. c.sha \in Nat /\ now \in Nat
    BY <1>4 DEF Commits, WorldOK
  <2>2. /\ pr'[p] = [pr[p] EXCEPT !.mergedAt = now, !.mergeCommit = c.sha]
        /\ \A o \in Numbers \ {p} : pr'[o] = pr[o]
        /\ pr' = [o \in Numbers |-> pr'[o]]
    BY <1>1, <1>2
  <2>3. pr'[p] \in Pulls /\ pr'[p].number = pr[p].number /\ pr'[p].head = pr[p].head
    BY <1>2, <2>1, <2>2 DEF Pulls
  <2> QED
    BY <1>1, <2>2, <2>3 DEF WorldOK, PullsOK
<1>6. LandingOK'
  <2>1. /\ landing'[p].commit = c /\ landing' = [o \in Numbers |-> landing'[o]]
        /\ \A o \in Numbers \ {p} : landing'[o] = landing[o]
    BY <1>1 DEF WorldOK, LandingOK
  <2>2. /\ pr'[p].head = head /\ pr'[p].mergeCommit = c.sha
        /\ \A o \in Numbers \ {p} : pr'[o] = pr[o]
    BY <1>1, <1>2 DEF Pulls
  <2>3. ASSUME NEW o \in Numbers, Merged(o)'
        PROVE  /\ pr'[o].head # 0
               /\ pr'[o].mergeCommit = landing'[o].commit.sha
               /\ landing'[o].commit \in Commits
               /\ landing'[o].commit = branch[pr'[o].head] \/ landing'[o].commit.sha = Landed(o)
    <3>1. CASE o = p
      BY <1>1, <1>4, <2>1, <2>2, <3>1
    <3>2. CASE o # p
      <4>1. Merged(o)
        BY <2>2, <2>3, <3>2 DEF Merged, Open
      <4> QED
        BY <2>1, <2>2, <3>2, <4>1 DEF WorldOK, LandingOK
    <3> QED
      BY <3>1, <3>2
  <2> QED
    BY <1>1, <2>1, <2>3 DEF LandingOK, Landed
<1>7. BranchOK' /\ ReviewsOK'
  BY <1>1 DEF WorldOK, BranchOK, ReviewsOK
<1> QED
  BY <1>1, <1>5, <1>6, <1>7 DEF WorldOK

\* Every step of the world keeps it well formed.
LEMMA WorldStep == WorldOK /\ [WorldNext]_world => WorldOK'
<1> SUFFICES ASSUME WorldOK, [WorldNext]_world PROVE WorldOK'
  OBVIOUS
<1>1. CASE Tick
  BY <1>1 DEF Tick, WorldOK, BranchOK, PullsOK, ReviewsOK, LandingOK, Merged, Open
<1>2. CASE UNCHANGED world
  BY <1>2 DEF world, WorldOK, BranchOK, PullsOK, ReviewsOK, LandingOK, Merged, Open
<1> QED
  BY <1>1, <1>2, PushKeeps, SubmitKeeps, DismissKeeps, MergeKeeps DEF WorldNext

-----------------------------------------------------------------------------
(* What the rule list is asked: the evidence, and what it answers of it. *)

\* SetToSeq lists each element of a finite set once.
LEMMA SetToSeqBijective ==
    ASSUME NEW S, IsFiniteSet(S)
    PROVE  /\ Cardinality(S) \in Nat
           /\ SetToSeq(S) \in [1..Cardinality(S) -> S]
           /\ \A i, j \in 1..Cardinality(S) : SetToSeq(S)[i] = SetToSeq(S)[j] => i = j
           /\ \A x \in S : \E i \in 1..Cardinality(S) : SetToSeq(S)[i] = x
<1> DEFINE n == Cardinality(S)
<1>1. n \in Nat /\ ExistsBijection(1..n, S)
  BY FS_CardinalityType
<1>2. PICK f \in Bijection(1..n, S) : TRUE
  BY <1>1 DEF ExistsBijection
<1>3. f \in [1..n -> S] /\ IsInjective(f)
  BY <1>2 DEF Bijection, Injection, IsInjective
<1>4. SetToSeq(S) \in [1..n -> S] /\ IsInjective(SetToSeq(S))
  BY <1>3 DEF SetToSeq
<1>5. \A i, j \in 1..n : SetToSeq(S)[i] = SetToSeq(S)[j] => i = j
  BY <1>4 DEF IsInjective
<1>6. SetToSeq(S) \in Injection(1..n, S)
  BY <1>4, <1>5 DEF Injection, IsInjective
<1>7. Cardinality(1..n) = n
  BY <1>1, FS_Interval
<1>8. SetToSeq(S) \in Surjection(1..n, S)
  BY <1>6, <1>7, FS_Injection
<1>9. \A x \in S : \E i \in 1..n : SetToSeq(S)[i] = x
  BY <1>8 DEF Surjection
<1> QED
  BY <1>1, <1>4, <1>5, <1>9

\* Pull request records that are the table's or the bulk query's.
Records(records) == \A p \in Numbers : records[p].number = p

\* The evidence holds exactly the records of the known pull requests, once
\* each.
LEMMA EvidencePulls ==
    ASSUME NEW known, known.prs \subseteq Numbers, NEW records, Records(records), NEW commits
    PROVE  LET ev == Evidence(known, records, commits)
               n  == Cardinality(known.prs)
           IN  /\ n \in Nat /\ (n = 0 <=> known.prs = {})
               /\ DOMAIN ev.prs = 1..n
               /\ \A i \in 1..n : \E p \in known.prs : ev.prs[i] = records[p]
               /\ \A i \in 1..n : ev.prs[i].number \in Nat
               /\ \A i, j \in 1..n : ev.prs[i].number = ev.prs[j].number => i = j
               /\ \A p \in known.prs : \E i \in 1..n : ev.prs[i] = records[p]
               /\ ev.commits = commits /\ ev.cleanRevert = known.clean /\ ev.checks = known.checks
               /\ \A p \in known.prs : ev.reviews[p] = StoredReviews(p, known)
<1> DEFINE n == Cardinality(known.prs)
           numbers == SetToSeq(known.prs)
           ev == Evidence(known, records, commits)
<1>1. IsFiniteSet(known.prs)
  BY FS_Subset, PullRequestsAssumption
<1>2. /\ n \in Nat /\ numbers \in [1..n -> known.prs]
      /\ \A i, j \in 1..n : numbers[i] = numbers[j] => i = j
      /\ \A p \in known.prs : \E i \in 1..n : numbers[i] = p
  BY <1>1, SetToSeqBijective
<1>3. n = 0 <=> known.prs = {}
  BY <1>1, FS_EmptySet
<1>4. ev.prs = [i \in 1..n |-> records[numbers[i]]]
  BY <1>2 DEF Evidence
<1>5. /\ ev.commits = commits /\ ev.cleanRevert = known.clean /\ ev.checks = known.checks
      /\ ev.reviews = [p \in known.prs |-> StoredReviews(p, known)]
  BY DEF Evidence
<1> HIDE DEF n, numbers, ev
<1>6. \A i \in 1..n : numbers[i] \in known.prs /\ ev.prs[i] = records[numbers[i]] /\ ev.prs[i].number = numbers[i]
  BY <1>2, <1>4 DEF Records
<1>7. Numbers \subseteq Nat
  BY PullRequestsAssumption
<1>8. /\ DOMAIN ev.prs = 1..n
      /\ \A i \in 1..n : \E p \in known.prs : ev.prs[i] = records[p]
  BY <1>4, <1>6
<1>9. /\ \A i \in 1..n : ev.prs[i].number \in Nat
      /\ \A i, j \in 1..n : ev.prs[i].number = ev.prs[j].number => i = j
  <2>1. ASSUME NEW i \in 1..n PROVE ev.prs[i].number \in Nat
    BY <1>6, <1>7
  <2>2. ASSUME NEW i \in 1..n, NEW j \in 1..n, ev.prs[i].number = ev.prs[j].number PROVE i = j
    BY <1>2, <1>6, <2>2
  <2> QED
    BY <2>1, <2>2
<1>10. /\ \A p \in known.prs : \E i \in 1..n : ev.prs[i] = records[p]
       /\ \A p \in known.prs : ev.reviews[p] = StoredReviews(p, known)
  BY <1>2, <1>4, <1>5
<1> QED
  BY <1>2, <1>3, <1>5, <1>8, <1>9, <1>10 DEF n, ev

\* How the verdict d of commit c came about, by pull request.
Verdict(c, known, records, commits, q, p) ==
    evaluatePR(c, Evidence(known, records, commits), records[p], q)

\* The exemption, rule 1, holds of the evidence.
Exempted(c, known, records, commits, q) ==
    ExemptionHolds(c, Evidence(known, records, commits), q)

\* The signals of a grant by rule 3 or 7.
HasPR(known) == IF known.prs = {} THEN NoSignals ELSE Associated

\* The grant d names its rule, and that rule held of the evidence.
GrantedByRule(d, c, known, records, commits, q) ==
    /\ d.compliant = TRUE /\ d.reasons = {}
    /\ \/ /\ Exempted(c, known, records, commits, q)
          /\ d.why = "exempt" /\ d.signals = NoSignals
       \/ /\ ~Exempted(c, known, records, commits, q)
          /\ \E p \in known.prs :
                LET v == Verdict(c, known, records, commits, q, p)
                IN  /\ v.passes /\ d.pr = p
                    /\ d.why = IF v.refreshed THEN "refreshed" ELSE "approved"
                    /\ d.signals = finalizeCompliantPR(v)
       \/ /\ ~Exempted(c, known, records, commits, q)
          /\ \/ d.why = "empty" /\ EmptyHolds(c, q)
             \/ d.why = "clean revert" /\ known.clean
          /\ d.signals = HasPR(known)

\* The refusal d, and what every rule said of the evidence.
RefusedByAll(d, c, known, records, commits, q) ==
    /\ d.compliant = FALSE
    /\ ~Exempted(c, known, records, commits, q)
    /\ \A p \in known.prs : ~Verdict(c, known, records, commits, q, p).passes
    /\ ~EmptyHolds(c, q) /\ ~known.clean
    /\ \/ /\ known.prs = {} /\ d.why = "no pull request"
          /\ d.reasons = {"no pull request"} /\ d.signals = NoSignals
       \/ /\ d.why = "refused"
          /\ \E p \in known.prs :
                LET v == Verdict(c, known, records, commits, q, p)
                IN  d.reasons = v.reasons /\ d.signals = finalizeNonCompliant(v)

\* The verdict d is a grant of one rule or a refusal by all.
Judged(d, c, known, records, commits, q) ==
    /\ d.exemptAuthor = isExemptCommit(c)
    /\ d.forgeable = (Exempted(c, known, records, commits, q) /\ ~verifiedExemptSigner(c))
    /\ \/ GrantedByRule(d, c, known, records, commits, q)
       \/ RefusedByAll(d, c, known, records, commits, q)

\* EvaluateCommit's answer is judged so, for any known pull requests and
\* answers.
LEMMA Judgement ==
    ASSUME NEW c, NEW known, known.prs \subseteq Numbers, known.clean \in BOOLEAN,
           NEW records, Records(records), NEW commits, NEW q
    PROVE  Judged(EvaluateCommit(c, Evidence(known, records, commits), q),
                  c, known, records, commits, q)
<1> DEFINE ev == Evidence(known, records, commits)
           n  == Cardinality(known.prs)
           d  == EvaluateCommit(c, ev, q)
           vs == VerdictsOf(c, ev, q)
           exempt == ExemptionHolds(c, ev, q)
           empty == EmptyHolds(c, q)
           V(p) == Verdict(c, known, records, commits, q, p)
<1>1. /\ n \in Nat /\ (n = 0 <=> known.prs = {})
      /\ DOMAIN ev.prs = 1..n
      /\ \A i \in 1..n : \E p \in known.prs : ev.prs[i] = records[p]
      /\ \A i \in 1..n : ev.prs[i].number \in Nat
      /\ \A i, j \in 1..n : ev.prs[i].number = ev.prs[j].number => i = j
      /\ \A p \in known.prs : \E i \in 1..n : ev.prs[i] = records[p]
      /\ ev.cleanRevert = known.clean
  BY EvidencePulls
<1>2. /\ Decided(d, exempt, empty, known.clean, n, vs)
      /\ d.exemptAuthor = isExemptCommit(c)
      /\ d.forgeable = (exempt /\ ~verifiedExemptSigner(c))
  <2> HIDE DEF ev, n, exempt, empty, vs, d
  <2> QED
    BY <1>1, EvaluateCommitDecides DEF exempt, empty, vs, d
<1>3. \A i \in 1..n : \E p \in known.prs : vs[i] = V(p) /\ V(p).number = p
  <2> SUFFICES ASSUME NEW i \in 1..n PROVE \E p \in known.prs : vs[i] = V(p) /\ V(p).number = p
    OBVIOUS
  <2>1. PICK p \in known.prs : ev.prs[i] = records[p]
    BY <1>1
  <2>2. vs[i] = V(p)
    BY <1>1, <2>1 DEF VerdictsOf, Verdict
  <2>3. V(p).number = p
    BY DEF Verdict, evaluatePR, evaluateApprovals, PRVerdict, Records
  <2> QED
    BY <2>2, <2>3
<1>4. \A p \in known.prs : \E i \in 1..n : vs[i] = V(p)
  BY <1>1 DEF VerdictsOf, Verdict
<1>5. exempt = Exempted(c, known, records, commits, q)
  BY DEF Exempted
<1>6. Noted(n) = HasPR(known)
  BY <1>1 DEF Noted, HasPR
<1> HIDE DEF ev, n, exempt, empty, vs, d, V
<1>7. CASE ByExemption(d, exempt)
  BY <1>2, <1>5, <1>7 DEF ByExemption, Judged, GrantedByRule, d, ev, n, V
<1>8. CASE ~exempt /\ ByPullRequest(d, n, vs)
  <2>1. PICK i \in 1..n : /\ vs[i].passes /\ d.pr = vs[i].number
                          /\ d.why = IF vs[i].refreshed THEN "refreshed" ELSE "approved"
                          /\ d.signals = finalizeCompliantPR(vs[i])
    BY <1>8 DEF ByPullRequest
  <2>2. PICK p \in known.prs : vs[i] = V(p) /\ V(p).number = p
    BY <1>3
  <2>3. GrantedByRule(d, c, known, records, commits, q)
    BY <1>5, <1>8, <2>1, <2>2 DEF GrantedByRule, ByPullRequest, V
  <2> QED
    BY <1>2, <1>5, <2>3 DEF Judged, d, ev
<1>9. CASE ~exempt /\ (ByEmptiness(d, n, empty) \/ ByRevert(d, n, known.clean))
  <2>1. GrantedByRule(d, c, known, records, commits, q)
    BY <1>5, <1>6, <1>9 DEF GrantedByRule, ByEmptiness, ByRevert, empty
  <2> QED
    BY <1>2, <1>5, <2>1 DEF Judged, d, ev
<1>10. CASE /\ ~exempt /\ ~empty /\ ~known.clean /\ \A i \in 1..n : ~vs[i].passes
            /\ Unclaimed(d, n) \/ Refused(d, n, vs)
  <2>1. \A p \in known.prs : ~V(p).passes
    BY <1>4, <1>10
  <2>2. CASE Unclaimed(d, n)
    <3>1. RefusedByAll(d, c, known, records, commits, q)
      BY <1>1, <1>5, <1>10, <2>1, <2>2 DEF RefusedByAll, Unclaimed, empty, V, n
    <3> QED
      BY <1>2, <1>5, <3>1 DEF Judged, d, ev
  <2>3. CASE Refused(d, n, vs)
    <3>1. PICK i \in 1..n : d.reasons = vs[i].reasons /\ d.signals = finalizeNonCompliant(vs[i])
      BY <2>3 DEF Refused
    <3>2. PICK p \in known.prs : vs[i] = V(p)
      BY <1>3
    <3>3. RefusedByAll(d, c, known, records, commits, q)
      BY <1>5, <1>10, <2>1, <2>3, <3>1, <3>2 DEF RefusedByAll, Refused, empty, V
    <3> QED
      BY <1>2, <1>5, <3>3 DEF Judged, d, ev
  <2> QED
    BY <1>10, <2>2, <2>3
<1> QED
  BY <1>2, <1>7, <1>8, <1>9, <1>10 DEF Decided

-----------------------------------------------------------------------------
(* A row's fields agree with each other; the reports rely on nothing else. *)

\* The fields of a verdict's signals.
Signals ==
    [hasPR : BOOLEAN, finalApproval : BOOLEAN, selfApproved : BOOLEAN, stale : BOOLEAN,
     concern : BOOLEAN, ownerCheck : CheckStates]

\* A refusal has reasons, and each reason its signal.
RefusalShape(d) ==
    \/ d.why = "no pull request" /\ d.reasons = {"no pull request"} /\ ~d.signals.hasPR
    \/ /\ d.why = "refused"
       /\ \E v \in Verdicts : ~v.passes /\ d.reasons = v.reasons /\ d.signals = finalizeNonCompliant(v)

\* What the reports rely on, whatever rule decided.
RowShape(d) ==
    /\ d.compliant \in BOOLEAN /\ d.exemptAuthor \in BOOLEAN /\ d.forgeable \in BOOLEAN
    /\ d.signals \in Signals
    /\ d.known.clean \in BOOLEAN
    /\ d.forgeable => d.exemptAuthor /\ d.why = "exempt"
    /\ d.why \in {"exempt", "empty"} => d.compliant
    /\ d.exemptAuthor /\ d.why # "exempt" => d.signals.hasPR
    /\ ~d.compliant => RefusalShape(d)

\* The signals of a compliant pull request have their type.
LEMMA SignalTypes ==
    /\ NoSignals \in Signals /\ Associated \in Signals
    /\ NoSignals.hasPR = FALSE /\ Associated.hasPR = TRUE
    /\ \A v \in Verdicts : /\ finalizeCompliantPR(v) \in Signals
                           /\ finalizeCompliantPR(v).hasPR = TRUE
                           /\ finalizeNonCompliant(v) \in Signals
                           /\ finalizeNonCompliant(v).hasPR = TRUE
<1>1. /\ NoSignals \in Signals /\ Associated \in Signals
      /\ NoSignals.hasPR = FALSE /\ Associated.hasPR = TRUE
  BY DEF NoSignals, Associated, Signals, CheckStates
<1>2. ASSUME NEW v \in Verdicts
      PROVE  finalizeCompliantPR(v) \in Signals /\ finalizeCompliantPR(v).hasPR = TRUE
  <2>1. v.concern \in BOOLEAN /\ v.check \in CheckStates
    BY DEF Verdicts
  <2> DEFINE b == v.concern
             k == v.check
  <2>2. finalizeCompliantPR(v) = [Associated EXCEPT !.finalApproval = TRUE, !.concern = b, !.ownerCheck = k]
    BY DEF finalizeCompliantPR
  <2> HIDE DEF b, k
  <2> QED
    BY <1>1, <2>1, <2>2 DEF Signals, b, k
<1>3. ASSUME NEW v \in Verdicts
      PROVE  finalizeNonCompliant(v) \in Signals /\ finalizeNonCompliant(v).hasPR = TRUE
  <2>1. /\ v.fresh \in BOOLEAN /\ v.self \in BOOLEAN /\ v.approved \in BOOLEAN
        /\ v.stale \in BOOLEAN /\ v.concern \in BOOLEAN /\ v.check \in CheckStates
    BY DEF Verdicts
  <2> DEFINE fresh == v.fresh
             alone == v.self /\ ~v.approved
             stale == v.stale
             concern == v.concern
             check == v.check
  <2>2. fresh \in BOOLEAN /\ alone \in BOOLEAN /\ stale \in BOOLEAN /\ concern \in BOOLEAN
    BY ONLY <2>1
  <2>3. check \in CheckStates
    BY ONLY <2>1
  <2>4. finalizeNonCompliant(v) =
           [Associated EXCEPT !.finalApproval = fresh, !.selfApproved = alone, !.stale = stale,
                              !.concern = concern, !.ownerCheck = check]
    BY ONLY DEF finalizeNonCompliant, fresh, alone, stale, concern, check
  <2> HIDE DEF fresh, alone, stale, concern, check
  <2> QED
    BY ONLY <1>1, <2>2, <2>3, <2>4 DEF Signals
<1> QED
  BY <1>1, <1>2, <1>3

\* A judged verdict has the shape the reports rely on.
LEMMA JudgedShape ==
    ASSUME NEW x, NEW c, NEW kind, NEW known, known.prs \subseteq Numbers, known.clean \in BOOLEAN,
           NEW records, Records(records), NEW commits, DOMAIN commits \subseteq known.prs, NEW q
    PROVE  RowShape(AuditRow(x, EvaluateCommit(c, Evidence(known, records, commits), q), kind, known))
<1> DEFINE ev == Evidence(known, records, commits)
           d == EvaluateCommit(c, ev, q)
           e == Exempted(c, known, records, commits, q)
           V(p) == Verdict(c, known, records, commits, q, p)
           r == AuditRow(x, d, kind, known)
<1>1. Judged(d, c, known, records, commits, q)
  BY Judgement
<1>2. /\ r.compliant = d.compliant /\ r.exemptAuthor = d.exemptAuthor /\ r.forgeable = d.forgeable
      /\ r.signals = d.signals /\ r.known = known /\ r.why = d.why /\ r.reasons = d.reasons
  BY DEF AuditRow
<1>3. \A p \in known.prs : V(p) \in Verdicts
  <2> SUFFICES ASSUME NEW p \in known.prs PROVE V(p) \in Verdicts
    OBVIOUS
  <2>1. records[p].number \in Nat
    BY PullRequestsAssumption DEF Records
  <2> QED
    BY <2>1, EvaluatePRType DEF Verdict
<1>4. isExemptCommit(c) /\ ~e => known.prs # {}
  <2>1. ev.commits = commits
    BY DEF Evidence
  <2> QED
    BY <2>1 DEF Exempted, ExemptionHolds, hasNonExemptPRContributors
<1>5. e => isExemptCommit(c)
  BY DEF Exempted, ExemptionHolds
<1>6. /\ d.exemptAuthor = isExemptCommit(c) /\ d.forgeable = (e /\ ~verifiedExemptSigner(c))
      /\ GrantedByRule(d, c, known, records, commits, q) \/ RefusedByAll(d, c, known, records, commits, q)
  BY <1>1 DEF Judged
<1>7. d.exemptAuthor \in BOOLEAN /\ d.forgeable \in BOOLEAN
  BY <1>6 DEF isExemptCommit
<1> HIDE DEF d, e, V, r, ev
<1>8. CASE GrantedByRule(d, c, known, records, commits, q)
  <2>1. d.compliant = TRUE
    BY <1>8 DEF GrantedByRule
  <2>2. d.signals \in Signals
    BY <1>3, <1>8, SignalTypes DEF GrantedByRule, HasPR, V
  <2>3. d.exemptAuthor /\ d.why # "exempt" => d.signals.hasPR
    BY <1>3, <1>4, <1>6, <1>8, SignalTypes DEF GrantedByRule, HasPR, V, e
  <2>4. d.forgeable => d.exemptAuthor /\ d.why = "exempt"
    BY <1>5, <1>6, <1>8 DEF GrantedByRule, e
  <2>5. RowShape(r)
    BY <1>2, <1>7, <2>1, <2>2, <2>3, <2>4 DEF RowShape
  <2> QED
    BY <2>5 DEF r, d, ev
<1>9. CASE RefusedByAll(d, c, known, records, commits, q)
  <2>1. d.compliant = FALSE /\ d.why \in {"no pull request", "refused"} /\ ~e
    BY <1>9 DEF RefusedByAll, e
  <2>2. RefusalShape(d) /\ d.signals \in Signals
    BY <1>3, <1>9, SignalTypes DEF RefusedByAll, RefusalShape, V
  <2>3. d.exemptAuthor => d.signals.hasPR
    BY <1>3, <1>4, <1>6, <1>9, <2>1, SignalTypes DEF RefusedByAll, V
  <2>4. d.forgeable = FALSE
    BY <1>6, <2>1
  <2>5. RowShape(r)
    BY <1>2, <1>7, <2>1, <2>2, <2>3, <2>4 DEF RowShape, RefusalShape
  <2> QED
    BY <2>5 DEF r, d, ev
<1> QED
  BY <1>6, <1>8, <1>9

\* From the shape alone, the report's accounts of a row agree.
LEMMA AccountsAgreeShape ==
    ASSUME row # NoRow => RowShape(row) PROVE AccountsAgree
<1> SUFFICES ASSUME row # NoRow, RowShape(row)
             PROVE  LET count == GetSummary(row)
                        fires == Fires(row)
                        log   == writeWaiversLog(row)
                    IN  /\ count.noPR    <=> ("R3" \in fires /\ R1Exempt(row) # "waived-weak")
                        /\ count.noFinal <=> "R4" \in fires
                        /\ count.checks  <=> "R6" \in fires
                        /\ count.queue   <=> RequiresAction(row)
                        /\ count.waived  <=> log # {}
                        /\ "exempt-author" \in log <=> (count.forgeable # ("R1" \in fires))
  BY DEF AccountsAgree
<1> DEFINE waived == row.exemptAuthor /\ row.compliant /\ row.why = "exempt"
           count == GetSummary(row)
           fires == Fires(row)
           log == writeWaiversLog(row)
           o == DeriveRuleOutcomes(row)
<1>1. R1Exempt(row) = IF waived THEN IF row.forgeable THEN "waived-weak" ELSE "waived" ELSE "skip"
  BY DEF R1Exempt
<1>2. /\ "R1" \in fires <=> o.R1 = "waived"
      /\ "R3" \in fires <=> o.R3 = "fail"
      /\ "R4" \in fires <=> o.R4 = "fail"
      /\ "R6" \in fires <=> o.R6 \in {"fail", "missing"}
  BY DEF Fires, DeriveRuleOutcomes
<1>3. /\ o.R1 = R1Exempt(row) /\ o.R3 = R3HasPR(row) /\ o.R6 = R6OwnerCheck(row)
      /\ o.R4 = OfPR(row, PassUnless(~row.signals.finalApproval))
      /\ o.R7 = PassUnless(~row.compliant)
  BY DEF DeriveRuleOutcomes
<1> HIDE DEF o, fires
<1>4. count.noPR <=> ("R3" \in fires /\ R1Exempt(row) # "waived-weak")
  <2>1. count.noPR <=> ~row.signals.hasPR /\ row.why # "empty" /\ ~(row.compliant /\ row.exemptAuthor)
    BY DEF GetSummary
  <2>2. "R3" \in fires <=> ~row.signals.hasPR /\ ~(R1Exempt(row) = "waived" \/ row.why = "empty")
    BY <1>2, <1>3 DEF R3HasPR
  <2>3. ~row.signals.hasPR => (row.exemptAuthor => waived)
    BY DEF RowShape
  <2> QED
    BY <1>1, <2>1, <2>2, <2>3
<1>5. count.noFinal <=> "R4" \in fires
  BY <1>2, <1>3 DEF GetSummary, OfPR, PassUnless
<1>6. count.checks <=> "R6" \in fires
  BY <1>2, <1>3 DEF GetSummary, R6OwnerCheck
<1>7. count.queue <=> RequiresAction(row)
  BY <1>3 DEF GetSummary, RequiresAction, PassUnless, o
<1>8. count.waived <=> log # {}
  <2>1. row.why = "empty" => row.compliant
    BY DEF RowShape
  <2>2. /\ "exempt-author" \in log <=> waived
        /\ "empty-commit" \in log <=> row.why = "empty"
        /\ "clean-revert" \in log <=> row.compliant /\ row.known.clean
        /\ "clean-merge" \in log <=> row.compliant /\ CleanMerge(row.commit)
        /\ log \subseteq {"exempt-author", "empty-commit", "clean-revert", "clean-merge"}
    BY DEF writeWaiversLog
  <2>3. count.waived <=> row.compliant /\ \/ row.exemptAuthor /\ row.why = "exempt"
                                          \/ row.why = "empty"
                                          \/ row.known.clean
                                          \/ CleanMerge(row.commit)
    BY DEF GetSummary
  <2> HIDE DEF log
  <2> QED
    BY <2>1, <2>2, <2>3
<1>9. "exempt-author" \in log <=> (count.forgeable # ("R1" \in fires))
  <2>1. "exempt-author" \in log <=> waived
    BY DEF writeWaiversLog
  <2>2. count.forgeable = (row.compliant /\ row.forgeable)
    BY DEF GetSummary
  <2>3. "R1" \in fires <=> waived /\ ~row.forgeable
    BY <1>1, <1>2, <1>3
  <2>4. row.forgeable => waived
    BY DEF RowShape
  <2> HIDE DEF log, count
  <2> QED
    BY <2>1, <2>2, <2>3, <2>4 DEF RowShape
<1> QED
  BY <1>4, <1>5, <1>6, <1>7, <1>8, <1>9 DEF fires

\* The first of the rules that fires.
FirstRule(fires) ==
    LET order == <<"R3", "R5", "R6", "R4b", "R4", "R4c", "R7">>
        I     == {i \in 1..Len(order) : order[i] \in fires}
    IN  order[IF I # {} THEN Min(I) ELSE 0]

\* The first rule that fires is the one chosen.
LEMMA FirstRuleIs ==
    ASSUME NEW fires
    PROVE  /\ "R3" \in fires => FirstRule(fires) = "R3"
           /\ "R3" \notin fires /\ "R5" \in fires => FirstRule(fires) = "R5"
           /\ {"R3", "R5"} \cap fires = {} /\ "R6" \in fires => FirstRule(fires) = "R6"
           /\ {"R3", "R5", "R6"} \cap fires = {} /\ "R4b" \in fires => FirstRule(fires) = "R4b"
           /\ {"R3", "R5", "R6", "R4b"} \cap fires = {} /\ "R4" \in fires => FirstRule(fires) = "R4"
<1> DEFINE order == <<"R3", "R5", "R6", "R4b", "R4", "R4c", "R7">>
           I == {i \in 1..Len(order) : order[i] \in fires}
<1>1. FirstRule(fires) = order[IF I # {} THEN Min(I) ELSE 0]
  BY DEF FirstRule
<1>2. /\ Len(order) = 7
      /\ order[1] = "R3" /\ order[2] = "R5" /\ order[3] = "R6" /\ order[4] = "R4b" /\ order[5] = "R4"
  OBVIOUS
<1> HIDE DEF order
<1>3. I = {i \in 1..7 : order[i] \in fires}
  BY <1>2
<1> HIDE DEF I
<1>4. ASSUME NEW i \in 1..7, order[i] \in fires, \A j \in 1..7 : order[j] \in fires => i <= j
      PROVE  FirstRule(fires) = order[i]
  <2>1. i \in I /\ \A j \in I : i <= j
    BY <1>3, <1>4
  <2>2. \A j \in I : j \in 1..7
    BY <1>3
  <2>3. Min(I) \in I /\ \A j \in I : Min(I) <= j
    BY <2>1 DEF Min
  <2>4. PICK m \in I : m = Min(I) /\ \A j \in I : m <= j
    BY <2>3
  <2>5. m \in 1..7 /\ m <= i /\ i <= m
    BY <2>1, <2>2, <2>4
  <2>6. m = i
    BY <1>4, <2>5
  <2> QED
    BY <1>1, <2>1, <2>4, <2>6
<1>5. ASSUME NEW i \in 1..5, order[i] \in fires, \A j \in 1..(i - 1) : order[j] \notin fires
      PROVE  FirstRule(fires) = order[i]
  <2>1. i \in 1..7 /\ \A j \in 1..7 : order[j] \in fires => i <= j
    BY <1>5
  <2> QED
    BY <1>4, <1>5, <2>1
<1>6. ASSUME "R3" \in fires PROVE FirstRule(fires) = "R3"
  <2>1. 1 \in 1..5 /\ order[1] \in fires /\ \A j \in 1..(1 - 1) : order[j] \notin fires
    BY <1>2, <1>6
  <2> QED
    BY <1>2, <1>5, <2>1
<1>7. ASSUME "R3" \notin fires, "R5" \in fires PROVE FirstRule(fires) = "R5"
  <2>1. 2 \in 1..5 /\ order[2] \in fires /\ \A j \in 1..(2 - 1) : order[j] \notin fires
    BY <1>2, <1>7
  <2> QED
    BY <1>2, <1>5, <2>1
<1>8. ASSUME {"R3", "R5"} \cap fires = {}, "R6" \in fires PROVE FirstRule(fires) = "R6"
  <2>0. \A j \in 1..(3 - 1) : j = 1 \/ j = 2
    OBVIOUS
  <2>1. 3 \in 1..5 /\ order[3] \in fires /\ \A j \in 1..(3 - 1) : order[j] \notin fires
    BY <1>2, <1>8, <2>0
  <2> QED
    BY <1>2, <1>5, <2>1
<1>9. ASSUME {"R3", "R5", "R6"} \cap fires = {}, "R4b" \in fires PROVE FirstRule(fires) = "R4b"
  <2>0. \A j \in 1..(4 - 1) : j = 1 \/ j = 2 \/ j = 3
    OBVIOUS
  <2>1. 4 \in 1..5 /\ order[4] \in fires /\ \A j \in 1..(4 - 1) : order[j] \notin fires
    BY <1>2, <1>9, <2>0
  <2> QED
    BY <1>2, <1>5, <2>1
<1>10. ASSUME {"R3", "R5", "R6", "R4b"} \cap fires = {}, "R4" \in fires PROVE FirstRule(fires) = "R4"
  <2>0. \A j \in 1..(5 - 1) : j = 1 \/ j = 2 \/ j = 3 \/ j = 4
    OBVIOUS
  <2>1. 5 \in 1..5 /\ order[5] \in fires /\ \A j \in 1..(5 - 1) : order[j] \notin fires
    BY <1>2, <1>10, <2>0
  <2> QED
    BY <1>2, <1>5, <2>1
<1> QED
  BY <1>6, <1>7, <1>8, <1>9, <1>10

\* From the shape alone, the action the report asks for names one of the row's
\* reasons.
LEMMA ActionNamesAReasonShape ==
    ASSUME row # NoRow => RowShape(row) PROVE ActionNamesAReason
<1> DEFINE Reason == [R3 |-> "no pull request", R5 |-> "self-approved", R6 |-> "checks",
                      R4b |-> "stale", R4 |-> "no approval", R4c |-> "", R7 |-> ""]
           fires == Fires(row)
           o == DeriveRuleOutcomes(row)
<1> SUFFICES ASSUME row # NoRow, RowShape(row), RequiresAction(row), "not delivered" \notin row.reasons
             PROVE  Reason[SynthesizeAction(row)] \in row.reasons
  BY DEF ActionNamesAReason
<1>1. ~row.compliant /\ RefusalShape(row)
  BY DEF RequiresAction, DeriveRuleOutcomes, PassUnless, RowShape
<1>2. /\ "R3" \in fires <=> o.R3 = "fail"
      /\ "R4" \in fires <=> o.R4 = "fail"
      /\ "R4b" \in fires <=> o.R4b = "fail"
      /\ "R5" \in fires <=> o.R5 = "fail"
      /\ "R6" \in fires <=> o.R6 \in {"fail", "missing"}
  BY DEF Fires, DeriveRuleOutcomes
<1>3. /\ o.R3 = R3HasPR(row) /\ o.R6 = R6OwnerCheck(row)
      /\ o.R4 = OfPR(row, PassUnless(~row.signals.finalApproval))
      /\ o.R4b = OfPR(row, PassUnless(row.signals.stale))
      /\ o.R5 = OfPR(row, IF row.signals.selfApproved THEN "fail" ELSE IF row.signals.finalApproval THEN "pass" ELSE "n/a")
  BY DEF DeriveRuleOutcomes
<1>4. SynthesizeAction(row) = FirstRule(fires)
  BY DEF SynthesizeAction, SelectInSeq, FirstRule
<1>5. /\ Reason["R3"] = "no pull request" /\ Reason["R5"] = "self-approved" /\ Reason["R6"] = "checks"
      /\ Reason["R4b"] = "stale" /\ Reason["R4"] = "no approval"
  OBVIOUS
<1> HIDE DEF o, fires, Reason
<1>6. CASE row.why = "no pull request"
  <2>1. ~row.signals.hasPR /\ row.reasons = {"no pull request"}
    BY <1>1, <1>6 DEF RefusalShape
  <2>2. R1Exempt(row) = "skip"
    BY <1>1 DEF R1Exempt
  <2>3. "R3" \in fires
    BY <1>2, <1>3, <1>6, <2>1, <2>2 DEF R3HasPR
  <2>4. SynthesizeAction(row) = "R3"
    BY <1>4, FirstRuleIs, <2>3
  <2> QED
    BY <1>5, <2>1, <2>4
<1>7. CASE row.why = "refused"
  <2>1. PICK v \in Verdicts : ~v.passes /\ row.reasons = v.reasons /\ row.signals = finalizeNonCompliant(v)
    BY <1>1, <1>7 DEF RefusalShape
  <2>2. /\ row.signals.hasPR = TRUE
        /\ row.signals.finalApproval = v.fresh
        /\ row.signals.selfApproved = (v.self /\ ~v.approved)
        /\ row.signals.stale = v.stale
        /\ row.signals.ownerCheck = v.check
    BY <2>1 DEF finalizeNonCompliant, Associated, NoSignals
  <2>3. "R3" \notin fires
    BY <1>2, <1>3, <2>2 DEF R3HasPR
  <2>4. /\ v.approved \in BOOLEAN /\ v.self \in BOOLEAN /\ v.stale \in BOOLEAN /\ v.fresh \in BOOLEAN
        /\ v.check \in CheckStates /\ (v.fresh => v.approved)
        /\ v.approved /\ v.check \in {"", "success"} => "not delivered" \in v.reasons
        /\ v.check \in {"failure", "missing"} => "checks" \in v.reasons
        /\ ~v.approved /\ v.self => "self-approved" \in v.reasons
        /\ ~v.approved /\ v.stale => "stale" \in v.reasons
        /\ ~v.approved /\ ~v.self /\ ~v.stale => "no approval" \in v.reasons
    BY <2>1 DEF Verdicts
  <2>5. "R5" \in fires <=> v.self /\ ~v.approved
    BY <1>2, <1>3, <2>2, <2>4 DEF OfPR
  <2>6. "R6" \in fires <=> v.check \in {"failure", "missing"}
    BY <1>2, <1>3, <2>2, <2>4 DEF R6OwnerCheck, CheckStates
  <2>7. "R4b" \in fires <=> v.stale
    BY <1>2, <1>3, <2>2, <2>4 DEF OfPR, PassUnless
  <2>8. "R4" \in fires <=> ~v.fresh
    BY <1>2, <1>3, <2>2, <2>4 DEF OfPR, PassUnless
  <2>9. CASE "R5" \in fires
    <3>1. SynthesizeAction(row) = "R5"
      BY <1>4, FirstRuleIs, <2>3, <2>9
    <3> QED
      BY <1>5, <2>1, <2>4, <2>5, <2>9, <3>1
  <2>10. CASE "R5" \notin fires /\ "R6" \in fires
    <3>1. SynthesizeAction(row) = "R6"
      BY <1>4, FirstRuleIs, <2>3, <2>10
    <3> QED
      BY <1>5, <2>1, <2>4, <2>6, <2>10, <3>1
  <2>11. CASE "R5" \notin fires /\ "R6" \notin fires
    <3>1. ~v.approved /\ ~v.self
      BY <2>1, <2>4, <2>5, <2>6, <2>11 DEF CheckStates
    <3>2. CASE v.stale
      <4>1. SynthesizeAction(row) = "R4b"
        BY <1>4, FirstRuleIs, <2>3, <2>7, <2>11, <3>2
      <4> QED
        BY <1>5, <2>1, <2>4, <3>1, <3>2, <4>1
    <3>3. CASE ~v.stale
      <4>1. "R4b" \notin fires /\ "R4" \in fires
        BY <2>4, <2>7, <2>8, <3>1, <3>3
      <4>2. SynthesizeAction(row) = "R4"
        BY <1>4, FirstRuleIs, <2>3, <2>11, <4>1
      <4> QED
        BY <1>5, <2>1, <2>4, <3>1, <3>3, <4>2
    <3> QED
      BY <3>2, <3>3
  <2> QED
    BY <2>9, <2>10, <2>11
<1> QED
  BY <1>1, <1>6, <1>7 DEF RefusalShape

-----------------------------------------------------------------------------
(* The commits that an audit meets, and the pull requests that contain them. *)

\* A SHA names one commit: the branch's, one a merge made, or the one pushed by hand.
IsMain(c) ==
    /\ c \in Commits
    /\ \/ c.sha \in 1..Len(branch) /\ c = branch[c.sha]
       \/ c.sha = Landed(0)
       \/ \E p \in Numbers : Merged(p) /\ c = landing[p].commit /\ c.sha = Landed(p)

\* A pull request's chain holds commits of the branch, its head among them.
LEMMA ChainShape ==
    ASSUME WorldOK, NEW p \in Numbers
    PROVE  /\ \A x \in ChainOf(p) : /\ x \in Commits /\ x.sha \in 1..Len(branch)
                                    /\ x = branch[x.sha] /\ x.sha \in Ancestors(pr[p].head)
           /\ IsFiniteSet(ChainOf(p))
<1>1. /\ pr[p].head \in Nat /\ pr[p].head <= Len(branch) /\ Len(branch) \in Nat
      /\ branch \in Seq(Commits)
  BY DEF WorldOK, PullsOK, Pulls, BranchOK
<1>2. ASSUME NEW x \in ChainOf(p)
      PROVE  /\ x \in Commits /\ x.sha \in 1..Len(branch)
             /\ x = branch[x.sha] /\ x.sha \in Ancestors(pr[p].head)
  <2>1. PICK s \in Ancestors(pr[p].head) : x = branch[s]
    BY DEF ChainOf
  <2>2. s \in 1..pr[p].head
    BY DEF Ancestors
  <2>3. s \in 1..Len(branch)
    BY <1>1, <2>2
  <2>4. branch[s].sha = s
    BY <2>3 DEF WorldOK, BranchOK
  <2>5. branch[s] \in Commits
    BY <1>1, <2>3
  <2> QED
    BY <2>1, <2>3, <2>4, <2>5
<1>3. IsFiniteSet(1..pr[p].head)
  <2>1. 1 \in Int /\ pr[p].head \in Int
    BY ONLY <1>1
  <2> QED
    BY ONLY <2>1, FS_Interval
<1>4. IsFiniteSet(Ancestors(pr[p].head))
  BY <1>3, FS_Subset DEF Ancestors
<1>5. IsFiniteSet({branch[s] : s \in Ancestors(pr[p].head)})
  <2> DEFINE A == Ancestors(pr[p].head)
             T == {branch[s] : s \in A}
             f == [s \in A |-> branch[s]]
  <2>1. f \in [A -> T] /\ \A t \in T : \E s \in A : f[s] = t
    OBVIOUS
  <2>2. f \in Surjection(A, T)
    BY <2>1 DEF Surjection
  <2> HIDE DEF f, A, T
  <2>3. IsFiniteSet(T)
    BY <1>4, <2>2, FS_Surjection DEF A
  <2> QED
    BY <2>3 DEF A, T
<1> QED
  BY <1>2, <1>5 DEF ChainOf

\* A commit of the audited branch is one a pull request landed through or the
\* one pushed by hand.
LEMMA OnMainIs ==
    ASSUME WorldOK, NEW c \in OnMain PROVE IsMain(c)
<1>1. MaxCommits \in Nat /\ Landed(0) \in Nat
  BY PullRequestsAssumption DEF Landed
<1>2. <<0>> \in Seq(Nat)
  OBVIOUS
<1>3. CASE \E a \in Authors, content \in Contents : c = NewCommit(Landed(0), a, <<0>>, content)
  <2>1. PICK a \in Authors, content \in Contents : c = NewCommit(Landed(0), a, <<0>>, content)
    BY <1>3
  <2>2. a \in Accounts /\ content \in {"edit", "rename", "empty"}
    BY PullRequestsAssumption
  <2>3. c \in Commits /\ c.sha = Landed(0)
    BY <1>1, <1>2, <2>1, <2>2, NewCommitType
  <2> QED
    BY <2>3 DEF IsMain
<1>4. CASE \E p \in Numbers : Merged(p) /\ c = branch[pr[p].head]
  <2>1. PICK p \in Numbers : Merged(p) /\ c = branch[pr[p].head]
    BY <1>4
  <2>2. pr[p].head \in 1..Len(branch) /\ branch \in Seq(Commits)
    BY <2>1 DEF WorldOK, LandingOK, PullsOK, Pulls, BranchOK
  <2>3. c \in Commits /\ c.sha = pr[p].head
    BY <2>1, <2>2 DEF WorldOK, BranchOK
  <2> QED
    BY <2>1, <2>2, <2>3 DEF IsMain
<1>5. CASE \E p \in Numbers : Merged(p) /\ c = landing[p].commit
  <2>1. PICK p \in Numbers : Merged(p) /\ c = landing[p].commit
    BY <1>5
  <2>2. c \in Commits /\ (c = branch[pr[p].head] \/ c.sha = Landed(p))
    BY <2>1 DEF WorldOK, LandingOK
  <2> QED
    BY <1>4, <2>1, <2>2 DEF IsMain
<1>6. CASE \E p \in Numbers : c = Claiming(p)
  <2>1. PICK p \in Numbers : c = Claiming(p)
    BY <1>6
  <2> DEFINE base == NewCommit(Landed(0), Opener, <<0>>, "rename")
  <2>2. base \in Commits /\ base.sha = Landed(0)
    <3>1. Opener \in Accounts
      BY PullRequestsAssumption
    <3>2. "rename" \in {"edit", "rename", "empty"}
      OBVIOUS
    <3> QED
      BY <1>1, <1>2, <3>1, <3>2, NewCommitType
  <2>3. c = [base EXCEPT !.ref = p]
    BY <2>1 DEF Claiming
  <2> HIDE DEF base
  <2>4. c \in Commits /\ c.sha = Landed(0)
    BY <2>2, <2>3, PullRequestsAssumption DEF Commits
  <2> QED
    BY <2>4 DEF IsMain
<1>7. CASE \E p \in Numbers : c \in ChainOf(p)
  BY <1>7, ChainShape DEF IsMain
<1> QED
  BY <1>3, <1>4, <1>5, <1>6, <1>7 DEF OnMain

\* The pull request that names the commit as its merge commit contains it.
LEMMA NamedBack ==
    ASSUME WorldOK, NEW c, IsMain(c), NEW p \in Numbers, Merged(p), pr[p].mergeCommit = c.sha
    PROVE  p \in PRsOf(c)
<1>1. /\ landing[p].commit.sha = c.sha /\ pr[p].head \in 1..Len(branch)
      /\ landing[p].commit = branch[pr[p].head] \/ landing[p].commit.sha = Landed(p)
  BY DEF WorldOK, LandingOK, PullsOK, Pulls, BranchOK
<1>2. /\ MaxCommits \in Nat /\ p \in Nat \ {0} /\ \A o \in Numbers : o \in Nat \ {0}
      /\ Len(branch) \in Nat /\ Len(branch) <= MaxCommits
  BY PullRequestsAssumption DEF WorldOK, BranchOK
<1>3. \A o \in Numbers : Landed(o) \in Nat /\ Landed(o) > MaxCommits + 1 /\ (Landed(o) = Landed(p) => o = p)
  <2> TAKE o \in Numbers
  <2>1. o \in Nat \ {0}
    BY <1>2
  <2> QED
    BY <1>2, <2>1 DEF Landed
<1>4. Landed(0) = MaxCommits + 1
  BY <1>2 DEF Landed
<1>5. CASE landing[p].commit = branch[pr[p].head]
  <2>1. branch[pr[p].head].sha = pr[p].head
    BY <1>1 DEF WorldOK, BranchOK
  <2>2. c.sha = pr[p].head /\ c.sha <= MaxCommits
    BY <1>1, <1>2, <1>5, <2>1
  <2>3. c = branch[c.sha]
    BY <1>2, <1>3, <1>4, <2>2 DEF IsMain
  <2>4. c = landing[p].commit
    BY <1>5, <2>2, <2>3
  <2> QED
    BY <2>4 DEF PRsOf
<1>6. CASE landing[p].commit.sha = Landed(p)
  <2>1. c.sha = Landed(p) /\ c.sha > MaxCommits + 1 /\ c.sha \notin 1..Len(branch)
    BY <1>1, <1>2, <1>3, <1>6
  <2>2. PICK o \in Numbers : c = landing[o].commit /\ c.sha = Landed(o)
    BY <1>2, <1>4, <2>1 DEF IsMain
  <2>3. o = p
    BY <1>3, <2>1, <2>2
  <2> QED
    BY <2>2, <2>3 DEF PRsOf
<1> QED
  BY <1>1, <1>5, <1>6

\* So does every pull request that a link of the database or an answer of
\* GitHub leads to.
LEMMA LinksContain ==
    ASSUME WorldOK, NEW c, IsMain(c)
    PROVE  /\ \A listed : listed \subseteq PRsOf(c) => getPRsForCommit(c, listed) \subseteq PRsOf(c)
           /\ PRIndex(c.sha) \subseteq PRsOf(c)
           /\ PRsOf(c) \subseteq Numbers
<1>1. recoverPRFromMergeMessage(c) \subseteq PRsOf(c)
  BY NamedBack DEF recoverPRFromMergeMessage
<1>2. PRIndex(c.sha) \subseteq PRsOf(c)
  BY NamedBack DEF PRIndex
<1> QED
  BY <1>1, <1>2 DEF getPRsForCommit, PRsOf

\* A branch commit that has the SHA of the audited one is that one.
LEMMA OneCommit ==
    ASSUME WorldOK, NEW c, IsMain(c), NEW s \in 1..Len(branch), c.sha = s
    PROVE  c = branch[s]
<1>1. /\ MaxCommits \in Nat /\ \A o \in Numbers : o \in Nat \ {0}
      /\ Len(branch) \in Nat /\ Len(branch) <= MaxCommits
  BY PullRequestsAssumption DEF WorldOK, BranchOK
<1>2. Landed(0) > MaxCommits /\ \A o \in Numbers : Landed(o) > MaxCommits
  BY <1>1 DEF Landed
<1> QED
  BY <1>1, <1>2 DEF IsMain

-----------------------------------------------------------------------------
(* Stats: what the fetchers answer and what the database stored. *)

\* What the fetcher says of a commit.
Answer(q, x) == q.stat[x.sha]

\* The true stats of a commit are empty exactly when it changes nothing.
LEMMA TruthTells ==
    ASSUME NEW x \in Commits
    PROVE  Truth(x) # Failed /\ (IsEmpty(Truth(x)) <=> x.content = "empty")
<1>1. /\ Truth(x).lines = Lines(x.content) /\ Truth(x).files = Files(x.content)
      /\ x.content \in {"edit", "rename", "empty"} /\ Truth(x) \in [lines : Nat, files : Nat]
  BY DEF Truth, Lines, Files, Commits
<1>2. Truth(x) # Failed
  BY <1>1, KernelAssumption
<1>3. /\ x.content = "empty" => Lines(x.content) = 0 /\ Files(x.content) = 0
      /\ x.content # "empty" => Files(x.content) = 1
  BY DEF Lines, Files
<1> QED
  BY <1>1, <1>2, <1>3 DEF IsEmpty

\* What the fetcher answers of a commit is the truth, or a failure if it is
\* neither stored nor answered.
LEMMA FetcherTells ==
    ASSUME WorldOK, NEW c, IsMain(c), NEW prs \in SUBSET Numbers, NEW answered
    PROVE  LET q == Fetcher(c, prs, answered)
           IN  /\ Answer(q, c) = IF c.sha \in detail \cup answered THEN Truth(c) ELSE Failed
               /\ \A p \in prs : \A x \in ChainOf(p) :
                     Answer(q, x) = IF x.sha \in detail \cup answered THEN Truth(x) ELSE Failed
<1> DEFINE q == Fetcher(c, prs, answered)
           S == Shas(c, prs)
<1>1. q.stat = [s \in S |-> IF s \in detail \cup answered
                                                THEN Truth(IF s = c.sha THEN c ELSE branch[s]) ELSE Failed]
  BY DEF Fetcher
<1>2. c.sha \in S /\ \A p \in prs : \A x \in ChainOf(p) : x.sha \in S
  BY DEF Shas, BranchShas
<1> HIDE DEF q, S
<1>3. ASSUME NEW p \in prs, NEW x \in ChainOf(p)
      PROVE  Answer(q, x) = IF x.sha \in detail \cup answered THEN Truth(x) ELSE Failed
  <2>1. x.sha \in 1..Len(branch) /\ x = branch[x.sha]
    BY ChainShape
  <2>2. x.sha = c.sha => x = c
    BY <2>1, OneCommit
  <2>3. (IF x.sha = c.sha THEN c ELSE branch[x.sha]) = x
    BY <2>1, <2>2
  <2> QED
    BY <1>1, <1>2, <2>3 DEF Answer
<1>4. Answer(q, c) = IF c.sha \in detail \cup answered THEN Truth(c) ELSE Failed
  BY <1>1, <1>2 DEF Answer
<1>5. \A p \in prs : \A x \in ChainOf(p) :
         Answer(q, x) = IF x.sha \in detail \cup answered THEN Truth(x) ELSE Failed
  BY <1>3
<1> QED
  BY <1>1, <1>4, <1>5 DEF q

\* An audit from the database alone has no answer about any commit.
LEMMA NoFetcherTells ==
    ASSUME NEW c, NEW prs
    PROVE  /\ Answer(NoFetcher(c, prs), c) = Failed
           /\ \A p \in prs : \A x \in ChainOf(p) : Answer(NoFetcher(c, prs), x) = Failed
<1>1. c.sha \in Shas(c, prs) /\ \A p \in prs : \A x \in ChainOf(p) : x.sha \in Shas(c, prs)
  BY DEF Shas, BranchShas
<1> QED
  BY <1>1 DEF NoFetcher, Answer

\* Rows that differ in their stats alone.
Same(y, x) ==
    /\ y.sha = x.sha /\ y.author = x.author /\ y.committer = x.committer
    /\ y.webFlow = x.webFlow /\ y.signed = x.signed /\ y.prMessage = x.prMessage
    /\ y.parents = x.parents /\ y.content = x.content

\* Rows that differ in their stats have the same SHA, author and parents.
LEMMA SameTells ==
    ASSUME NEW x, NEW y, Same(y, x)
    PROVE  /\ isExemptCommit(y) <=> isExemptCommit(x)
           /\ verifiedExemptSigner(y) <=> verifiedExemptSigner(x)
           /\ CleanMerge(y) <=> CleanMerge(x)
BY DEF Same, isExemptCommit, verifiedExemptSigner, CleanMerge

\* What the database stored of a commit has the commit's identity.
LEMMA StoredTells ==
    ASSUME NEW x \in Commits
    PROVE  /\ Same(Stored(x), x)
           /\ x.sha \in detail => /\ Stored(x).lines = Lines(x.content) /\ Stored(x).files = Files(x.content)
                                  /\ Stored(x).verified = TRUE
           /\ x.sha \notin detail => Stored(x).lines = 0 /\ Stored(x).files = 0 /\ Stored(x).verified = FALSE
BY DEF Stored, Same, Commits

\* Stats that the database stored are the truth.
LEMMA StoredStats ==
    ASSUME NEW x \in Commits, NEW q
    PROVE  KnownStat(Stored(x), q) = IF x.sha \in detail THEN Truth(x) ELSE Answer(q, x)
<1>1. Truth(x) = [lines |-> Lines(x.content), files |-> Files(x.content)]
  BY DEF Truth
<1>2. CASE x.sha \in detail
  BY <1>1, <1>2, StoredTells DEF KnownStat, Answer
<1>3. CASE x.sha \notin detail
  <2>1. Stored(x) = x /\ x.lines = 0 /\ x.verified = FALSE
    BY <1>3 DEF Stored, Commits
  <2> QED
    BY <1>3, <2>1 DEF KnownStat, Answer
<1> QED
  BY <1>2, <1>3

\* What a pull request's evidence is to the rules: the branch's commits, perhaps with
\* the audited one, of which none passes for empty that is not.
Faithful(c, p, cs, q) ==
    /\ IsFiniteSet(cs)
    /\ \A x \in ChainOf(p) : \E y \in cs : Same(y, x)
    /\ \A y \in cs : /\ \E x \in ChainOf(p) \cup {c} : Same(y, x)
                     /\ IsEmpty(Answer(q, y)) => y.content = "empty"
                     /\ IsEmpty(KnownStat(y, q)) => y.content = "empty"

\* The commits a sync audits with are faithful to the pull request's.
LEMMA SyncFaithful ==
    ASSUME WorldOK, NEW c, IsMain(c), NEW prs \in SUBSET Numbers, NEW answered, NEW p \in prs
    PROVE  Faithful(c, p, ChainOf(p), Fetcher(c, prs, answered))
<1> DEFINE q == Fetcher(c, prs, answered)
<1>1. IsFiniteSet(ChainOf(p))
  BY ChainShape
<1>2. ASSUME NEW y \in ChainOf(p)
      PROVE  /\ IsEmpty(Answer(q, y)) => y.content = "empty"
             /\ IsEmpty(KnownStat(y, q)) => y.content = "empty"
  <2>0. Answer(q, y) = IF y.sha \in detail \cup answered THEN Truth(y) ELSE Failed
    BY FetcherTells
  <2>1. Answer(q, y) = Truth(y) \/ Answer(q, y) = Failed
    BY <2>0
  <2>2. y \in Commits
    BY ChainShape
  <2> HIDE DEF q
  <2>3. KnownStat(y, q) = Answer(q, y)
    BY <2>2 DEF KnownStat, Answer, Commits
  <2>4. ~IsEmpty(Failed)
    BY DEF IsEmpty
  <2> QED
    BY <2>1, <2>2, <2>3, <2>4, TruthTells
<1>3. \A x : Same(x, x)
  BY DEF Same
<1> QED
  BY <1>1, <1>2, <1>3 DEF Faithful

\* The commits the database holds of a linked pull request are faithful to its
\* own.
LEMMA OfflineFaithful ==
    ASSUME WorldOK, NEW c, IsMain(c), NEW known, known.prs \subseteq Numbers,
           NEW p \in known.prs, known.linked = TRUE
    PROVE  Faithful(c, p, StoredCommits(c, known)[p], NoFetcher(c, known.prs))
<1> DEFINE q == NoFetcher(c, known.prs)
           X == {c} \cup ChainOf(p)
           Y == {Stored(x) : x \in X}
<1>1. StoredCommits(c, known)[p] = Y
  BY DEF StoredCommits
<1>2. \A x \in X : x \in Commits /\ Answer(q, x) = Failed
  <2>0. Answer(q, c) = Failed /\ \A o \in known.prs : \A x \in ChainOf(o) : Answer(q, x) = Failed
    BY NoFetcherTells
  <2>1. Answer(q, c) = Failed /\ \A x \in ChainOf(p) : Answer(q, x) = Failed
    BY <2>0
  <2>2. \A x \in ChainOf(p) : x \in Commits
    BY ChainShape
  <2>3. c \in Commits
    BY DEF IsMain
  <2> QED
    BY <2>1, <2>2, <2>3
<1>3. IsFiniteSet(X)
  BY ChainShape, FS_Singleton, FS_Union
<1>4. IsFiniteSet(Y)
  <2> DEFINE f == [x \in X |-> Stored(x)]
  <2>1. f \in [X -> Y] /\ \A y \in Y : \E x \in X : f[x] = y
    OBVIOUS
  <2>2. f \in Surjection(X, Y)
    BY <2>1 DEF Surjection
  <2> HIDE DEF f, X, Y
  <2> QED
    BY <1>3, <2>2, FS_Surjection
<1> HIDE DEF q
<1>5. ASSUME NEW x \in X
      PROVE  LET y == Stored(x)
             IN  /\ Same(y, x)
                 /\ IsEmpty(Answer(q, y)) => y.content = "empty"
                 /\ IsEmpty(KnownStat(y, q)) => y.content = "empty"
  <2> DEFINE y == Stored(x)
  <2>1. x \in Commits /\ Same(y, x)
    BY <1>2, StoredTells
  <2>2. y.sha = x.sha /\ y.content = x.content
    BY <2>1 DEF Same
  <2>3. KnownStat(y, q) = Truth(x) \/ KnownStat(y, q) = Failed
    BY <1>2, <2>1, StoredStats
  <2>4. ~IsEmpty(Failed)
    BY DEF IsEmpty
  <2> HIDE DEF y
  <2>5. IsEmpty(Answer(q, y)) => y.content = "empty"
    BY <1>2, <2>2, <2>4 DEF Answer
  <2>6. IsEmpty(KnownStat(y, q)) => y.content = "empty"
    BY <2>1, <2>2, <2>3, <2>4, TruthTells
  <2> QED
    BY <2>1, <2>5, <2>6 DEF y
<1>6. /\ \A x \in ChainOf(p) : \E y \in Y : Same(y, x)
      /\ \A y \in Y : /\ \E x \in ChainOf(p) \cup {c} : Same(y, x)
                      /\ IsEmpty(Answer(q, y)) => y.content = "empty"
                      /\ IsEmpty(KnownStat(y, q)) => y.content = "empty"
  BY <1>5
<1> QED
  BY <1>1, <1>4, <1>6 DEF Faithful, q

-----------------------------------------------------------------------------
(* One pull request: whose approvals count. *)

\* The accounts whose approval would be of their own code.
Own(c, rec, cs, q) == {a \in Accounts : isSelfApproval(a, c, rec, Contributors(cs, q))}

\* The required checks are done with, or there are none.
ChecksPass(checks, head) == evaluateRequiredChecks(checks, head) \in {"", "success"}

\* What evaluatePR found when it says approved, refreshed or self-approved.
LEMMA VerdictTells ==
    ASSUME NEW c, NEW rec, NEW cs, NEW rows \in Seq(Rows), NEW checks, NEW q, NEW ev,
           ev.commits[rec.number] = cs, ev.reviews[rec.number] = rows, ev.checks = checks
    PROVE  LET v   == evaluatePR(c, ev, rec, q)
               own == Own(c, rec, cs, q)
           IN  /\ v.passes <=> v.approved /\ ChecksPass(checks, rec.head) /\ prDelivers(rec)
               /\ v.approved <=> v.refreshed \/ \E a \in ApprovedOnFinal(rows, rec) : a \notin own
               /\ v.refreshed => \E i \in OlderApprovals(rows, rec, own) :
                                    isApprovalRefreshable(rows[i], cs, rec)
               /\ v.refreshed => \A a \in ApprovedOnFinal(rows, rec) : a \in own
<1> DEFINE v == evaluatePR(c, ev, rec, q)
           own == Own(c, rec, cs, q)
           final == ApprovedOnFinal(rows, rec)
           older == OlderApprovals(rows, rec, own)
           refreshable == {i \in older : isApprovalRefreshable(rows[i], cs, rec)}
           check == evaluateRequiredChecks(checks, rec.head)
           concern == postMergeConcern(rows, rec)
<1>1. v = PRVerdict(rec, final, older, refreshable, own, check, concern)
  BY DEF evaluatePR, evaluateApprovals, Own
<1> HIDE DEF v, own, final, older, check, concern
<1>2. refreshable \subseteq older /\ \A i \in refreshable : isApprovalRefreshable(rows[i], cs, rec)
  OBVIOUS
<1> HIDE DEF refreshable
<1> DEFINE fresh == final \ own
           promoted == {i \in older : fresh = {} /\ \A j \in older : j <= i => j \in refreshable}
<1>3. /\ v.approved = (fresh # {} \/ promoted # {}) /\ v.refreshed = (promoted # {})
      /\ v.passes = (v.approved /\ check \in {"", "success"} /\ prDelivers(rec))
  BY <1>1 DEF PRVerdict
<1>4. fresh # {} <=> \E a \in final : a \notin own
  OBVIOUS
<1>5. promoted # {} => fresh = {}
  OBVIOUS
<1>6. promoted # {} => \E i \in older : i \in refreshable
  <2> SUFFICES ASSUME NEW i \in older, \A j \in older : j <= i => j \in refreshable
               PROVE  \E j \in older : j \in refreshable
    OBVIOUS
  <2>1. i \in Nat
    BY DEF older, OlderApprovals
  <2>2. i <= i
    BY <2>1
  <2> QED
    BY <2>2
<1> QED
  BY <1>2, <1>3, <1>4, <1>5, <1>6 DEF v, own, final, older, check, ChecksPass

\* A pull request as the table or the bulk query has it.
AsPull(rec, p) == rec = pr[p] \/ rec = [pr[p] EXCEPT !.base = NoBranch]

\* Such a record has the pull request's author, head and merge.
LEMMA AsPullTells ==
    ASSUME WorldOK, NEW p \in Numbers, NEW rec, AsPull(rec, p)
    PROVE  /\ rec.number = p /\ rec.author = Opener /\ rec.head = pr[p].head
           /\ rec.mergedAt = pr[p].mergedAt /\ rec.mergeCommit = pr[p].mergeCommit
           /\ prDelivers(pr[p]) => prDelivers(rec)
<1>1. pr[p] \in Pulls /\ pr[p].number = p
  BY DEF WorldOK, PullsOK
<1> QED
  BY <1>1 DEF Pulls, AsPull, prDelivers

\* Who approves his own code is the opener, the author of a commit that is no
\* clean merge, or the author of a commit of the branch that is not empty.
LEMMA OwnTells ==
    ASSUME WorldOK, NEW p \in Numbers, NEW c, NEW c2, Same(c2, c), NEW rec, AsPull(rec, p),
           NEW cs, NEW q, Faithful(c, p, cs, q), NEW a \in Accounts, a \notin Own(c2, rec, cs, q)
    PROVE  /\ a # Opener
           /\ CleanMerge(c) \/ c.author # a
           /\ \A x \in ChainOf(p) : x.content # "empty" => x.author # a
<1>1. ~isSelfApproval(a, c2, rec, Contributors(cs, q))
  BY DEF Own
<1>2. a # rec.author /\ (CleanMerge(c2) \/ a # c2.author) /\ a \notin Contributors(cs, q)
  BY <1>1 DEF isSelfApproval, Trusted
<1>3. a # Opener
  BY <1>2, AsPullTells
<1>4. CleanMerge(c) \/ c.author # a
  BY <1>2, SameTells DEF Same
<1>5. ASSUME NEW x \in ChainOf(p), x.content # "empty", x.author = a PROVE FALSE
  <2>1. PICK y \in cs : Same(y, x)
    BY DEF Faithful
  <2>2. y.author = a /\ y.content # "empty"
    BY <1>5, <2>1 DEF Same
  <2>3. ~IsEmpty(Answer(q, y))
    BY <2>2 DEF Faithful
  <2>4. y \in {z \in cs : z.author = a}
    BY <2>2
  <2>5. hasNonEmptyContribution({z \in cs : z.author = a}, q)
    BY <2>3, <2>4 DEF hasNonEmptyContribution, Answer
  <2>6. a \in {z.author : z \in cs}
    BY <2>2
  <2>7. a \in Contributors(cs, q)
    BY <2>5, <2>6 DEF Contributors
  <2> QED
    BY <1>2, <2>7
<1> QED
  BY <1>3, <1>4, <1>5

\* Whoever's approval of the final commit counts submitted one.
LEMMA ApprovalBy ==
    ASSUME NEW rows \in Seq(Rows), NEW rec, NEW a \in ApprovedOnFinal(rows, rec)
    PROVE  /\ a \in Accounts
           /\ \E i \in 1..Len(rows) :
                 /\ rows[i].reviewer = a /\ rows[i].sha = rec.head
                 /\ rows[i].state = "APPROVED" \/ rows[i].was = "APPROVED"
<1> DEFINE latest == latestReviewStatesOnFinal(rows, rec)
<1>1. a \in Accounts /\ latest[a] # NoReview /\ latest[a].state = "APPROVED"
  BY DEF ApprovedOnFinal
<1>2. Len(rows) \in Nat
  OBVIOUS
<1>3. PICK f \in [0..Len(rows) -> LatestStates(rows, rec)] : latest = f[Len(rows)]
  BY <1>2, LatestUnfolds
<1>4. latest \in LatestStates(rows, rec)
  BY <1>2, <1>3
<1> HIDE DEF latest
<1>5. From(latest[a], a, rows, rec)
  BY <1>1, <1>4 DEF LatestStates
<1>6. PICK i \in 1..Len(rows) : /\ Considered(rows[i], rec) /\ rows[i].reviewer = a
                                /\ latest[a] = AsOfMerge(rows[i], rec)
  BY <1>5 DEF From
<1>7. rows[i].sha = rec.head
  BY <1>6 DEF Considered, OnFinal
<1>8. rows[i].state = "APPROVED" \/ rows[i].was = "APPROVED"
  <2>1. rows[i] \in Rows
    BY <1>6
  <2> DEFINE rv == rows[i]
  <2>2. CASE DismissedAfterMerge(rv, rec)
    <3>1. latest[a] = [rv EXCEPT !.state = rv.was]
      BY <1>6, <2>2 DEF AsOfMerge
    <3> QED
      BY <1>1, <2>1, <3>1 DEF Rows
  <2>3. CASE ~DismissedAfterMerge(rv, rec)
    BY <1>1, <1>6, <2>3 DEF AsOfMerge
  <2> QED
    BY <2>2, <2>3
<1> QED
  BY <1>1, <1>6, <1>7, <1>8

\* Somebody else's approval of the final commit, which stands.
OthersApproval(c, p) ==
    \E a \in ApprovedOnFinal(reviews[p], pr[p]) :
        /\ a # Opener
        /\ CleanMerge(c) \/ c.author # a
        /\ \A x \in ChainOf(p) : x.content # "empty" => x.author # a

\* Such an approval reviews every commit of the pull request.
LEMMA OthersApprovalReviews ==
    ASSUME WorldOK, NEW p \in Numbers, NEW c, OthersApproval(c, p)
    PROVE  Reviewed(p, {})
<1>1. PICK a \in ApprovedOnFinal(reviews[p], pr[p]) :
         a # Opener /\ \A x \in ChainOf(p) : x.content # "empty" => x.author # a
  BY DEF OthersApproval
<1>2. reviews[p] \in Seq(Rows)
  BY DEF WorldOK, ReviewsOK
<1>3. PICK i \in 1..Len(reviews[p]) :
         /\ reviews[p][i].reviewer = a /\ reviews[p][i].sha = pr[p].head
         /\ reviews[p][i].state = "APPROVED" \/ reviews[p][i].was = "APPROVED"
  BY <1>2, ApprovalBy
<1>4. \A x \in HumanWork(p) : x.author # a /\ x.sha \in Ancestors(pr[p].head)
  BY <1>1, ChainShape DEF HumanWork
<1>5. i \in DOMAIN reviews[p]
  BY <1>2
<1> DEFINE Whole(rv) ==
             /\ rv.state = "APPROVED" \/ rv.was = "APPROVED"
             /\ rv.reviewer # Opener
             /\ \A x \in HumanWork(p) : /\ x.author # rv.reviewer
                                        /\ x.sha \in Ancestors(rv.sha) \cup {}
<1>6. Whole(reviews[p][i])
  BY ONLY <1>1, <1>3, <1>4
<1>7. Reviewed(p, {}) <=> \E j \in DOMAIN reviews[p] : Whole(reviews[p][j])
  BY ONLY DEF Reviewed
<1> QED
  <2> HIDE DEF Whole
  <2> QED
    BY ONLY <1>5, <1>6, <1>7

\* Leaving out the base branch makes no difference to the reviews.
LEMMA LatestSame ==
    ASSUME NEW rows \in Seq(Rows), NEW rec, NEW pull,
           rec.head = pull.head, rec.mergedAt = pull.mergedAt
    PROVE  ApprovedOnFinal(rows, rec) = ApprovedOnFinal(rows, pull)
<1> DEFINE K == Len(rows)
<1>1. K \in Nat
  OBVIOUS
<1>0. rows \in Seq(Rows)
  OBVIOUS
<1>2. PICK f \in [0..K -> LatestStates(rows, rec)] :
         /\ f[0] = [a \in Accounts |-> NoReview]
         /\ \A n \in 1..K : f[n] = Take(f[n - 1], rows[n], rec)
         /\ latestReviewStatesOnFinal(rows, rec) = f[K]
  BY ONLY <1>0, <1>1, LatestUnfolds
<1>3. PICK g \in [0..K -> LatestStates(rows, pull)] :
         /\ g[0] = [a \in Accounts |-> NoReview]
         /\ \A n \in 1..K : g[n] = Take(g[n - 1], rows[n], pull)
         /\ latestReviewStatesOnFinal(rows, pull) = g[K]
  BY ONLY <1>0, <1>1, LatestUnfolds
<1>4. \A s, row_ : Take(s, row_, rec) = Take(s, row_, pull)
  BY DEF Take, Considered, OnFinal, AfterMerge, AsOfMerge, DismissedAfterMerge
<1> DEFINE S == {n \in Nat : n <= K => f[n] = g[n]}
<1> HIDE DEF K
<1>5. 0 \in S
  BY <1>2, <1>3
<1>6. ASSUME NEW n \in Nat, n \in S PROVE n + 1 \in S
  <2>1. CASE n + 1 <= K
    <3>1. n <= K /\ n + 1 \in 1..K /\ (n + 1) - 1 = n
      BY <1>1, <2>1
    <3>2. f[n + 1] = Take(f[n], rows[n + 1], rec) /\ g[n + 1] = Take(g[n], rows[n + 1], pull)
      BY <1>2, <1>3, <3>1
    <3>3. f[n] = g[n]
      BY <1>6, <3>1
    <3> QED
      BY <1>4, <3>2, <3>3
  <2>2. CASE ~(n + 1 <= K)
    BY <2>2
  <2> QED
    BY <2>1, <2>2
<1> HIDE DEF S
<1>7. Nat \subseteq S
  BY <1>5, <1>6, NatInd
<1>8. f[K] = g[K]
  BY <1>1, <1>7 DEF S
<1> QED
  BY <1>2, <1>3, <1>8 DEF ApprovedOnFinal

-----------------------------------------------------------------------------
(* The carve-out: the walk from the head to the approved commit. *)

RowOf(cs, s)   == CHOOSE c \in cs : c.sha = s
\* A row of SHA s is known, with its parents.
KnownIn(cs, s) == \E c \in cs : c.sha = s /\ c.parents # <<>>
NextOf(cs, s)  == IF KnownIn(cs, s) THEN RowOf(cs, s).parents[1] ELSE NoCommit

\* f is the carve-out's first-parent walk of K steps from the head.
IsWalk(K, f, approved, head, cs) ==
    /\ f[0] = head /\ \A n \in 1..K : f[n] = NextOf(cs, f[n - 1])
    /\ LET hits == {n \in 0..K : f[n] = approved}
       IN  postApprovalByGraph(approved, head, cs)
             = IF approved = NoCommit \/ head = NoCommit \/ hits = {} THEN {NoCommit}
               ELSE {RowOf(cs, f[i]) : i \in {i \in 0..K : \A n \in hits : i < n}}

\* The walk has steps, and the rule looks at what comes before the first hit.
LEMMA WalkUnfolds ==
    ASSUME NEW approved, NEW head, NEW cs, IsFiniteSet(cs)
    PROVE  \E K \in Nat : \E f : IsWalk(K, f, approved, head, cs)
<1> DEFINE V == {head, NoCommit} \cup {c.parents[1] : c \in cs}
           K == Cardinality(cs)
           step == [n \in 1..K |-> [s \in V |-> NextOf(cs, s)]]
<1>0. K \in Nat
  BY FS_CardinalityType
<1>1. head \in V
  OBVIOUS
<1>2. step \in [1..K -> [V -> V]]
  <2>1. \A s : NextOf(cs, s) \in V
    <3> SUFFICES ASSUME NEW s, KnownIn(cs, s) PROVE RowOf(cs, s) \in cs
      BY DEF NextOf
    <3> QED
      BY DEF KnownIn, RowOf
  <2> HIDE DEF V, K
  <2> QED
    BY <2>1
<1>3. \E f \in [0..K -> V] : f[0] = head /\ \A n \in 1..K : f[n] = step[n][f[n - 1]]
  <2> HIDE DEF V, K, step
  <2> QED
    BY <1>0, <1>1, <1>2, Recursion
<1>4. PICK g \in [0..K -> V] : g[0] = head /\ \A n \in 1..K : g[n] = step[n][g[n - 1]]
  BY <1>3
<1>5. \A n \in 0..K : g[n] = IF n = 0 THEN head ELSE NextOf(cs, g[n - 1])
  <2> HIDE DEF V, K
  <2> SUFFICES ASSUME NEW n \in 0..K, n # 0 PROVE g[n] = NextOf(cs, g[n - 1])
    BY <1>4
  <2>1. n \in 1..K /\ n - 1 \in 0..K
    BY <1>0
  <2>2. g[n] = step[n][g[n - 1]]
    BY <1>4, <2>1
  <2>3. g[n - 1] \in V
    BY <2>1
  <2>4. step[n][g[n - 1]] = NextOf(cs, g[n - 1])
    BY <2>1, <2>3
  <2> QED
    BY <2>2, <2>4
<1> DEFINE Eq(cur) == cur = [n \in 0..K |-> IF n = 0 THEN head ELSE NextOf(cs, cur[n - 1])]
           L == CHOOSE cur : Eq(cur)
<1>6. Eq(g)
  <2> HIDE DEF V, K, step
  <2> QED
    BY <1>5
<1>7. Eq(L)
  <2> HIDE DEF Eq
  <2> QED
    BY <1>6
<1>8. LET hits == {n \in DOMAIN L : L[n] = approved}
      IN  postApprovalByGraph(approved, head, cs)
            = IF approved = NoCommit \/ head = NoCommit \/ hits = {} THEN {NoCommit}
              ELSE {RowOf(cs, L[i]) : i \in {i \in DOMAIN L : \A n \in hits : i < n}}
  BY DEF postApprovalByGraph, RowOf, KnownIn, NextOf
<1> HIDE DEF L, K
<1>9. DOMAIN L = 0..K
  BY <1>7
<1>10. L[0] = head /\ \A n \in 1..K : L[n] = NextOf(cs, L[n - 1])
  BY <1>0, <1>7
<1>11. LET hits == {n \in 0..K : L[n] = approved}
       IN  postApprovalByGraph(approved, head, cs)
             = IF approved = NoCommit \/ head = NoCommit \/ hits = {} THEN {NoCommit}
               ELSE {RowOf(cs, L[i]) : i \in {i \in 0..K : \A n \in hits : i < n}}
  BY <1>8, <1>9
<1>12. IsWalk(K, L, approved, head, cs)
  BY <1>10, <1>11 DEF IsWalk
<1> QED
  BY <1>0, <1>12

\* An approval that the carve-out refreshed had been given of every commit but
\* the exempt accounts'.
LEMMA RefreshCovers ==
    ASSUME WorldOK, NEW c, IsMain(c), NEW p \in Numbers, NEW rec, AsPull(rec, p),
           NEW cs, NEW q, Faithful(c, p, cs, q),
           NEW rv, rv.sha \in 1..Len(branch), isApprovalRefreshable(rv, cs, rec),
           NEW x \in ChainOf(p), ~isExemptCommit(x)
    PROVE  x.sha \in Ancestors(rv.sha) \cup {pr[p].mergeCommit}
<1> DEFINE head == pr[p].head
           post == postApprovalByGraph(rv.sha, head, cs)
           s == x.sha
<1>1. /\ Len(branch) \in Nat /\ Len(branch) <= MaxCommits /\ head \in Nat /\ head <= Len(branch)
      /\ MaxCommits \in Nat /\ NoCommit \notin Nat
  BY PullRequestsAssumption DEF WorldOK, BranchOK, PullsOK, Pulls
<1>2. /\ x = branch[s] /\ s \in 1..Len(branch) /\ s \in Ancestors(head) /\ s \in 1..head
  BY ChainShape DEF Ancestors
<1>3. /\ post # {} /\ post # {NoCommit}
      /\ \A y \in post : y.sha = pr[p].mergeCommit \/ isExemptCommit(y)
  BY AsPullTells DEF isApprovalRefreshable
<1>4. ASSUME NEW y \in cs, NEW t \in 1..Len(branch), y.sha = t PROVE Same(y, branch[t])
  <2>1. PICK z \in ChainOf(p) \cup {c} : Same(y, z)
    BY DEF Faithful
  <2>2. z.sha = t
    BY <1>4, <2>1 DEF Same
  <2>3. z = branch[t]
    BY <2>2, ChainShape, OneCommit
  <2> QED
    BY <2>1, <2>3
<1>5. \A y \in cs : y.sha \in Nat \ {0}
  <2> SUFFICES ASSUME NEW y \in cs PROVE y.sha \in Nat \ {0}
    OBVIOUS
  <2>1. PICK z \in ChainOf(p) \cup {c} : Same(y, z)
    BY DEF Faithful
  <2>2. c.sha \in Nat \ {0}
    <3>1. Landed(0) \in Nat \ {0} /\ \A o \in Numbers : Landed(o) \in Nat \ {0}
      <4>1. \A o \in Numbers : o \in Nat
        BY PullRequestsAssumption
      <4> QED
        BY <1>1, <4>1 DEF Landed
    <3> QED
      BY <1>1, <3>1 DEF IsMain
  <2>3. \A w \in ChainOf(p) : w.sha \in 1..Len(branch)
    BY ChainShape
  <2>4. z.sha \in Nat \ {0}
    BY <1>1, <2>2, <2>3
  <2> QED
    BY <2>1, <2>4 DEF Same
<1>6. NextOf(cs, 0) = NoCommit /\ NextOf(cs, NoCommit) = NoCommit
  BY <1>1, <1>5 DEF NextOf, KnownIn
<1>7. ASSUME NEW t \in 1..Len(branch), NextOf(cs, t) # NoCommit
      PROVE  /\ NextOf(cs, t) \in {0, t - 1}
             /\ RowOf(cs, t) \in cs /\ Same(RowOf(cs, t), branch[t])
  <2>1. KnownIn(cs, t)
    BY <1>7 DEF NextOf
  <2>2. RowOf(cs, t) \in cs /\ RowOf(cs, t).sha = t
    BY <2>1 DEF KnownIn, RowOf
  <2>3. Same(RowOf(cs, t), branch[t])
    BY <1>4, <2>2
  <2>4. NextOf(cs, t) = branch[t].parents[1]
    BY <2>1, <2>3 DEF NextOf, Same
  <2> QED
    BY <2>2, <2>3, <2>4 DEF WorldOK, BranchOK
<1>8. IsFiniteSet(cs)
  BY DEF Faithful
<1>9. PICK K \in Nat : \E f : IsWalk(K, f, rv.sha, head, cs)
  BY <1>8, WalkUnfolds
<1>10. PICK f : IsWalk(K, f, rv.sha, head, cs)
  BY <1>9
<1> DEFINE hits == {n \in 0..K : f[n] = rv.sha}
<1>11. /\ f[0] = head /\ \A n \in 1..K : f[n] = NextOf(cs, f[n - 1])
       /\ post = IF rv.sha = NoCommit \/ head = NoCommit \/ hits = {} THEN {NoCommit}
                 ELSE {RowOf(cs, f[i]) : i \in {i \in 0..K : \A n \in hits : i < n}}
  BY <1>10 DEF IsWalk
<1> HIDE DEF post
<1>12. hits # {} /\ post = {RowOf(cs, f[i]) : i \in {i \in 0..K : \A n \in hits : i < n}}
  BY <1>3, <1>11
<1>13. PICK h \in hits : \A n \in hits : h <= n
  <2>1. hits \in SUBSET Nat
    OBVIOUS
  <2> HIDE DEF hits
  <2> QED
    BY <1>12, <2>1, LeastNat
<1>14. h \in 0..K /\ f[h] = rv.sha
  BY <1>13
<1>15. \A n \in Nat : n + 1 <= h => f[n + 1] = NextOf(cs, f[n])
  BY <1>11, <1>14
<1>16. ASSUME NEW n \in Nat, n <= h PROVE f[n] \notin {0, NoCommit}
  <2> SUFFICES ASSUME f[n] \in {0, NoCommit} PROVE FALSE
    OBVIOUS
  <2> DEFINE S == {m \in Nat : n + m <= h => f[n + m] \in {0, NoCommit}}
  <2>1. 0 \in S
    OBVIOUS
  <2>2. ASSUME NEW m \in Nat, m \in S PROVE m + 1 \in S
    <3>1. CASE n + (m + 1) <= h
      <4>1. n + m <= h /\ n + m \in Nat /\ n + (m + 1) = (n + m) + 1
        BY <1>14, <3>1
      <4>2. f[n + m] \in {0, NoCommit}
        BY <2>2, <4>1
      <4>3. f[(n + m) + 1] = NextOf(cs, f[n + m])
        BY <1>15, <3>1, <4>1
      <4>4. f[(n + m) + 1] = NoCommit
        BY <1>6, <4>2, <4>3
      <4> QED
        BY <4>1, <4>4
    <3>2. CASE ~(n + (m + 1) <= h)
      BY <3>2
    <3> QED
      BY <3>1, <3>2
  <2> HIDE DEF S
  <2>3. Nat \subseteq S
    BY <2>1, <2>2, NatInd
  <2>4. h - n \in Nat /\ n + (h - n) = h
    BY <1>14, <1>16
  <2>5. f[h] \in {0, NoCommit}
    BY <2>3, <2>4, <1>14 DEF S
  <2> QED
    BY <1>1, <1>14, <2>5
<1> DEFINE U == {n \in Nat : n <= h => f[n] = head - n /\ head - n >= 1}
<1>17. 0 \in U
  BY <1>1, <1>2, <1>11
<1>18. ASSUME NEW n \in Nat, n \in U PROVE n + 1 \in U
  <2> SUFFICES ASSUME n + 1 <= h PROVE f[n + 1] = head - (n + 1) /\ head - (n + 1) >= 1
    OBVIOUS
  <2>1. f[n] = head - n /\ head - n \in 1..Len(branch)
    BY <1>1, <1>14, <1>18
  <2>2. f[n + 1] = NextOf(cs, head - n) /\ f[n + 1] \notin {0, NoCommit}
    <3>1. n + 1 \in Nat
      OBVIOUS
    <3> QED
      BY <1>15, <1>16, <2>1, <3>1
  <2>3. f[n + 1] = (head - n) - 1
    BY <1>7, <2>1, <2>2
  <2>4. head - n \in 1..Len(branch) /\ (head - n) - 1 # 0
    BY ONLY <2>1, <2>2, <2>3
  <2>5. (head - n) - 1 = head - (n + 1) /\ head - (n + 1) >= 1
    BY ONLY <1>1, <1>18, <2>4
  <2> QED
    BY ONLY <2>3, <2>5
<1> HIDE DEF U
<1>19. \A n \in Nat : n <= h => f[n] = head - n /\ head - n >= 1
  BY <1>17, <1>18, NatInd DEF U
<1>20. rv.sha = head - h
  BY <1>14, <1>19
<1>21. CASE s <= rv.sha
  <2>1. s \in 1..rv.sha /\ rv.sha <= head
    BY <1>1, <1>2, <1>14, <1>20, <1>21
  <2>2. \A t \in (s + 1)..head : branch[t].parents[1] = t - 1
    BY <1>2 DEF Ancestors
  <2>3. \A t \in (s + 1)..rv.sha : t \in (s + 1)..head
    BY <1>1, <1>2, <2>1
  <2> QED
    BY <2>1, <2>2, <2>3 DEF Ancestors
<1>22. CASE s > rv.sha
  <2> DEFINE n == head - s
  <2>1. n \in Nat /\ n + 1 <= h /\ n <= h /\ n + 1 \in Nat /\ n < h /\ head - n = s
    BY <1>1, <1>2, <1>14, <1>20, <1>22
  <2> HIDE DEF n
  <2>2. f[n] = s /\ f[n + 1] # NoCommit
    BY <1>16, <1>19, <2>1
  <2>3. NextOf(cs, s) # NoCommit
    BY <1>15, <2>1, <2>2
  <2>4. Same(RowOf(cs, s), x)
    BY <1>2, <1>7, <2>3
  <2>5. n \in 0..K /\ \A m \in hits : n < m
    <3> SUFFICES ASSUME NEW m \in hits PROVE n < m
      BY <1>14, <2>1
    <3>1. m \in Nat /\ h <= m
      BY <1>13
    <3> QED
      BY <1>14, <2>1, <3>1
  <2>6. RowOf(cs, s) \in post
    BY <1>12, <2>2, <2>5
  <2>7. RowOf(cs, s).sha = pr[p].mergeCommit
    BY <1>3, <2>4, <2>6, SameTells
  <2> QED
    BY <2>4, <2>7 DEF Same
<1> QED
  BY <1>1, <1>2, <1>21, <1>22

-----------------------------------------------------------------------------
(* Why a commit was granted. *)

\* What a grant of rule why says of the world.
Justified(why, number, c, known) ==
    \/ /\ why = "exempt" /\ isExemptCommit(c)
       /\ known.linked => \A p \in known.prs : HumanWork(p) = {}
    \/ /\ why = "approved" /\ number \in known.prs
       /\ ChecksPass(known.checks, pr[number].head)
       /\ known.linked => OthersApproval(c, number)
    \/ /\ why = "refreshed" /\ number \in known.prs
       /\ known.linked => Reviewed(number, {pr[number].mergeCommit})
    \/ why = "empty"
    \/ why = "clean revert" /\ known.clean

\* A grant by exemption is justified.
LEMMA ExemptionGrounds ==
    ASSUME WorldOK, NEW c, NEW c2, Same(c2, c), NEW prs \in SUBSET Numbers, NEW ev, DOMAIN ev.commits = prs,
           NEW q, \A p \in prs : Faithful(c, p, ev.commits[p], q), ExemptionHolds(c2, ev, q),
           NEW p \in prs
    PROVE  HumanWork(p) = {}
<1> SUFFICES ASSUME NEW x \in HumanWork(p) PROVE FALSE
  OBVIOUS
<1>1. x \in ChainOf(p) /\ ~isExemptCommit(x) /\ x.content # "empty"
  BY DEF HumanWork
<1> DEFINE cs == ev.commits[p]
<1>2. Faithful(c, p, cs, q)
  OBVIOUS
<1>3. ~\E y \in cs : ~isExemptCommit(y) /\ ~IsEmpty(KnownStat(y, q))
  BY DEF ExemptionHolds, hasNonExemptPRContributors
<1> HIDE DEF cs
<1>4. PICK y \in cs : Same(y, x)
  BY <1>1, <1>2 DEF Faithful
<1>5. IsEmpty(KnownStat(y, q)) => y.content = "empty"
  BY <1>2 DEF Faithful
<1>6. ~isExemptCommit(y)
  BY <1>1, <1>4, SameTells
<1> QED
  BY <1>1, <1>3, <1>4, <1>5, <1>6 DEF Same

\* The reviews in the tables are rows, and after a sync GitHub's.
LEMMA StoredReviewsTell ==
    ASSUME WorldOK, NEW p \in Numbers, NEW known
    PROVE  /\ StoredReviews(p, known) \in Seq(Rows)
           /\ known.linked => StoredReviews(p, known) = reviews[p]
<1> DEFINE rows == reviews[p]
<1>1. rows \in Seq(Rows)
  BY DEF WorldOK, ReviewsOK
<1> HIDE DEF rows
<1>2. \A i \in 1..Len(rows) : [rows[i] EXCEPT !.dismissedAt = 0] \in Rows
  <2> SUFFICES ASSUME NEW i \in 1..Len(rows) PROVE [rows[i] EXCEPT !.dismissedAt = 0] \in Rows
    OBVIOUS
  <2>1. rows[i] \in Rows
    BY <1>1
  <2> QED
    BY <2>1 DEF Rows
<1>3. WithoutDates(rows) \in Seq(Rows)
  <2>1. WithoutDates(rows) = [i \in 1..Len(rows) |-> [rows[i] EXCEPT !.dismissedAt = 0]]
    BY <1>1 DEF WithoutDates
  <2>2. WithoutDates(rows) \in [1..Len(rows) -> Rows] /\ Len(rows) \in Nat
    BY <1>1, <1>2, <2>1
  <2> QED
    BY <2>2
<1> QED
  BY <1>1, <1>3 DEF StoredReviews, rows

\* A grant by a pull request is justified; if the reviews and the branch are known as
\* they are, by another's approval of the head or by a refreshed one.
LEMMA ApprovalGrounds ==
    ASSUME WorldOK, NEW c, IsMain(c), NEW c2, Same(c2, c), NEW p \in Numbers, NEW rec, AsPull(rec, p),
           NEW ev, ev.reviews[p] \in Seq(Rows), NEW q, evaluatePR(c2, ev, rec, q).passes
    PROVE  /\ ChecksPass(ev.checks, pr[p].head) /\ prDelivers(rec)
           /\ ev.reviews[p] = reviews[p] /\ Faithful(c, p, ev.commits[p], q)
              => IF evaluatePR(c2, ev, rec, q).refreshed
                 THEN Reviewed(p, {pr[p].mergeCommit}) ELSE OthersApproval(c, p)
<1> DEFINE v == evaluatePR(c2, ev, rec, q)
           cs == ev.commits[p]
           rows == ev.reviews[p]
           own == Own(c2, rec, cs, q)
           checks == ev.checks
<1>1. rec.number = p /\ rec.head = pr[p].head /\ rec.mergedAt = pr[p].mergedAt
  BY AsPullTells
<1>2. rows \in Seq(Rows)
  OBVIOUS
<1>3. /\ v.passes <=> v.approved /\ ChecksPass(checks, rec.head) /\ prDelivers(rec)
      /\ v.approved <=> v.refreshed \/ \E a \in ApprovedOnFinal(rows, rec) : a \notin own
      /\ v.refreshed => \E i \in OlderApprovals(rows, rec, own) : isApprovalRefreshable(rows[i], cs, rec)
  <2>1. ev.commits[rec.number] = cs /\ ev.reviews[rec.number] = rows
    BY <1>1
  <2> HIDE DEF cs, rows, checks
  <2> QED
    BY ONLY <1>2, <2>1, VerdictTells DEF checks
<1>4. ApprovedOnFinal(rows, rec) = ApprovedOnFinal(rows, pr[p])
  BY <1>1, <1>2, LatestSame
<1> HIDE DEF v, cs, own, checks, rows
<1>5. ASSUME rows = reviews[p], Faithful(c, p, cs, q), v.refreshed PROVE Reviewed(p, {pr[p].mergeCommit})
  <2>1. PICK i \in OlderApprovals(rows, rec, own) : isApprovalRefreshable(rows[i], cs, rec)
    BY <1>3, <1>5
  <2>2. /\ i \in 1..Len(rows) /\ i \in DOMAIN rows /\ rows[i].state = "APPROVED"
        /\ rows[i].reviewer \in Accounts /\ rows[i].reviewer \notin own
    BY <1>2 DEF OlderApprovals
  <2>3. /\ rows[i].reviewer # Opener
        /\ \A x \in ChainOf(p) : x.content # "empty" => x.author # rows[i].reviewer
    BY <1>5, <2>2, OwnTells DEF own
  <2>4. rows[i].sha \in 1..Len(branch)
    BY <1>5, <2>2 DEF WorldOK, ReviewsOK
  <2>5. \A x \in ChainOf(p) : ~isExemptCommit(x) => x.sha \in Ancestors(rows[i].sha) \cup {pr[p].mergeCommit}
    BY <1>5, <2>1, <2>4, RefreshCovers
  <2> QED
    BY <1>5, <2>2, <2>3, <2>5 DEF Reviewed, HumanWork
<1>6. ASSUME rows = reviews[p], Faithful(c, p, cs, q), v.approved, ~v.refreshed PROVE OthersApproval(c, p)
  <2>1. PICK a \in ApprovedOnFinal(rows, rec) : a \notin own
    BY <1>3, <1>6
  <2>2. a \in Accounts
    BY DEF ApprovedOnFinal
  <2>3. /\ a # Opener
        /\ CleanMerge(c) \/ c.author # a
        /\ \A x \in ChainOf(p) : x.content # "empty" => x.author # a
    BY <1>6, <2>1, <2>2, OwnTells DEF own
  <2>4. a \in ApprovedOnFinal(reviews[p], pr[p])
    BY <1>4, <1>6, <2>1
  <2> QED
    BY <2>3, <2>4 DEF OthersApproval
<1>7. v.passes
  BY DEF v
<1> QED
  BY <1>1, <1>3, <1>5, <1>6, <1>7 DEF v, cs, checks, rows

\* Every grant is justified.
LEMMA GrantGrounds ==
    ASSUME WorldOK, NEW c, IsMain(c), NEW c2, Same(c2, c),
           NEW known, known.prs \subseteq Numbers, known.clean \in BOOLEAN,
           NEW records, \A p \in Numbers : AsPull(records[p], p),
           NEW commits, DOMAIN commits = known.prs, NEW q,
           known.linked => \A p \in known.prs : Faithful(c, p, commits[p], q),
           NEW d, d = EvaluateCommit(c2, Evidence(known, records, commits), q), d.compliant
    PROVE  /\ Justified(d.why, d.pr, c, known)
           /\ d.why = "empty" => EmptyHolds(c2, q)
           /\ d.why = "approved" => prDelivers(records[d.pr])
<1> DEFINE ev == Evidence(known, records, commits)
<1>1. Records(records)
  BY AsPullTells DEF Records
<1>2. /\ ev.commits = commits /\ ev.checks = known.checks
      /\ \A p \in known.prs : ev.reviews[p] = StoredReviews(p, known)
  BY <1>1, EvidencePulls
<1>3. Judged(d, c2, known, records, commits, q)
  BY <1>1, Judgement
<1>4. GrantedByRule(d, c2, known, records, commits, q)
  BY <1>3 DEF Judged, RefusedByAll
<1> HIDE DEF ev
<1>5. CASE Exempted(c2, known, records, commits, q) /\ d.why = "exempt"
  <2>1. ExemptionHolds(c2, ev, q)
    BY <1>5 DEF Exempted, ev
  <2>2. isExemptCommit(c)
    BY <2>1, SameTells DEF ExemptionHolds
  <2>3. ASSUME known.linked PROVE \A p \in known.prs : HumanWork(p) = {}
    <3>1. DOMAIN ev.commits = known.prs /\ \A p \in known.prs : Faithful(c, p, ev.commits[p], q)
      BY <1>2, <2>3
    <3>2. known.prs \in SUBSET Numbers
      OBVIOUS
    <3> QED
      BY <2>1, <3>1, <3>2, ExemptionGrounds
  <2> QED
    BY <1>5, <2>2, <2>3 DEF Justified
<1>6. CASE \E p \in known.prs :
              LET v == Verdict(c2, known, records, commits, q, p)
              IN  v.passes /\ d.pr = p /\ d.why = IF v.refreshed THEN "refreshed" ELSE "approved"
  <2>1. PICK p \in known.prs :
           LET v == Verdict(c2, known, records, commits, q, p)
           IN  v.passes /\ d.pr = p /\ d.why = IF v.refreshed THEN "refreshed" ELSE "approved"
    BY <1>6
  <2> DEFINE v == evaluatePR(c2, ev, records[p], q)
  <2>2. v.passes /\ d.pr = p /\ d.why = IF v.refreshed THEN "refreshed" ELSE "approved"
    BY <2>1 DEF Verdict, ev
  <2>3. /\ p \in Numbers /\ AsPull(records[p], p)
        /\ ev.reviews[p] \in Seq(Rows)
        /\ known.linked => ev.reviews[p] = reviews[p]
    BY <1>2, StoredReviewsTell
  <2>4. /\ ChecksPass(ev.checks, pr[p].head) /\ prDelivers(records[p])
        /\ ev.reviews[p] = reviews[p] /\ Faithful(c, p, ev.commits[p], q)
           => IF v.refreshed THEN Reviewed(p, {pr[p].mergeCommit}) ELSE OthersApproval(c, p)
    BY <2>2, <2>3, ApprovalGrounds
  <2> HIDE DEF v
  <2>5. known.linked => IF v.refreshed THEN Reviewed(p, {pr[p].mergeCommit}) ELSE OthersApproval(c, p)
    BY <1>2, <2>3, <2>4
  <2>6. Justified(d.why, d.pr, c, known)
    BY <1>2, <2>2, <2>4, <2>5 DEF Justified
  <2> QED
    BY <2>2, <2>4, <2>6
<1>7. CASE d.why = "empty" /\ EmptyHolds(c2, q)
  BY <1>7 DEF Justified
<1>8. CASE d.why = "clean revert" /\ known.clean
  BY <1>8 DEF Justified
<1> QED
  BY <1>4, <1>5, <1>6, <1>7, <1>8 DEF GrantedByRule

-----------------------------------------------------------------------------
(* The same audit with every answer at hand grants no less. *)

\* With every answer at hand a commit is empty exactly if it changes nothing,
\* whichever way it is asked.
LEMMA FullAnswers ==
    ASSUME WorldOK, NEW c, IsMain(c), NEW prs \in SUBSET Numbers, NEW p \in prs, NEW x \in ChainOf(p)
    PROVE  LET q == Fetcher(c, prs, Shas(c, prs))
           IN  /\ IsEmpty(Answer(q, x)) <=> x.content = "empty"
               /\ IsEmpty(KnownStat(x, q)) <=> x.content = "empty"
<1> DEFINE q == Fetcher(c, prs, Shas(c, prs))
<1>1. x.sha \in Shas(c, prs)
  BY DEF Shas, BranchShas
<1>2. Answer(q, x) = IF x.sha \in detail \cup Shas(c, prs) THEN Truth(x) ELSE Failed
  BY FetcherTells
<1>3. x \in Commits
  BY ChainShape
<1> HIDE DEF q
<1>4. KnownStat(x, q) = Answer(q, x)
  BY <1>3 DEF KnownStat, Answer, Commits
<1>5. /\ IsEmpty(Answer(q, x)) <=> x.content = "empty"
      /\ IsEmpty(KnownStat(x, q)) <=> x.content = "empty"
  BY <1>1, <1>2, <1>3, <1>4, TruthTells
<1> QED
  BY <1>5 DEF q

\* A pull request with somebody else's approval of its final commit passes when
\* every answer is at hand.
LEMMA FullPasses ==
    ASSUME WorldOK, NEW c, IsMain(c), NEW prs \in SUBSET Numbers, NEW p \in prs, OthersApproval(c, p),
           NEW ev, ev.commits[p] = ChainOf(p), ev.reviews[p] = reviews[p],
           ChecksPass(ev.checks, pr[p].head), prDelivers(pr[p])
    PROVE  evaluatePR(Stored(c), ev, pr[p], Fetcher(c, prs, Shas(c, prs))).passes
<1> DEFINE q == Fetcher(c, prs, Shas(c, prs))
           cs == ChainOf(p)
           rows == reviews[p]
           rec == pr[p]
           checks == ev.checks
           own == Own(Stored(c), rec, cs, q)
           v == evaluatePR(Stored(c), ev, rec, q)
<1>1. rec.number = p /\ rec.author = Opener
  BY AsPullTells DEF AsPull
<1>2. rows \in Seq(Rows)
  BY DEF WorldOK, ReviewsOK
<1>3. /\ v.passes <=> v.approved /\ ChecksPass(checks, rec.head) /\ prDelivers(rec)
      /\ v.approved <=> v.refreshed \/ \E a \in ApprovedOnFinal(rows, rec) : a \notin own
  <2>1. ev.commits[rec.number] = cs /\ ev.reviews[rec.number] = rows
    BY <1>1
  <2> HIDE DEF cs, rows, checks, rec
  <2> QED
    BY ONLY <1>2, <2>1, VerdictTells DEF checks
<1>4. PICK a \in ApprovedOnFinal(rows, rec) :
         /\ a # Opener
         /\ CleanMerge(c) \/ c.author # a
         /\ \A x \in cs : x.content # "empty" => x.author # a
  BY DEF OthersApproval
<1>5. Same(Stored(c), c)
  BY StoredTells DEF IsMain
<1>6. ~(~CleanMerge(Stored(c)) /\ a = Stored(c).author)
  <2>1. CleanMerge(Stored(c)) <=> CleanMerge(c)
    BY <1>5, SameTells
  <2>2. Stored(c).author = c.author
    BY <1>5 DEF Same
  <2> QED
    BY <1>4, <2>1, <2>2
<1>7. \A x \in cs : /\ x.lines = 0 /\ x.files = 0
                    /\ IsEmpty(Answer(q, x)) <=> x.content = "empty"
  <2>1. \A x \in cs : x \in Commits
    BY ChainShape
  <2>2. \A x \in cs : x.lines = 0 /\ x.files = 0
    BY <2>1 DEF Commits
  <2>3. \A x \in cs : IsEmpty(Answer(q, x)) <=> x.content = "empty"
    BY FullAnswers
  <2> QED
    BY <2>2, <2>3
<1> HIDE DEF q, cs
<1>8. a \notin Contributors(cs, q)
  <2> SUFFICES ASSUME hasNonEmptyContribution({x \in cs : x.author = a}, q) PROVE FALSE
    BY DEF Contributors
  <2>1. PICK x \in cs : x.author = a /\ (x.lines > 0 \/ x.files > 0 \/ ~IsEmpty(Answer(q, x)))
    BY DEF hasNonEmptyContribution, Answer
  <2>2. x.content # "empty"
    BY <1>7, <2>1
  <2> QED
    BY <1>4, <2>1, <2>2
<1>9. a \notin own
  <2>1. ~isSelfApproval(a, Stored(c), rec, Contributors(cs, q))
    BY <1>1, <1>4, <1>6, <1>8 DEF isSelfApproval
  <2> QED
    BY <2>1 DEF Own
<1> HIDE DEF v, own, rec, rows
<1>10. v.approved
  BY <1>3, <1>4, <1>9
<1>11. ChecksPass(checks, rec.head) /\ prDelivers(rec)
  BY DEF rec
<1> QED
  BY <1>3, <1>10, <1>11 DEF v, rec, q

\* What is justified, refreshed approvals apart, an audit with every answer at
\* hand grants.
LEMMA FullGrants ==
    ASSUME WorldOK, NEW c, IsMain(c), NEW why, why # "refreshed", NEW number, NEW known,
           NEW prs \in SUBSET Numbers, known.prs \subseteq prs, why = "exempt" => prs = known.prs,
           known.linked = TRUE, known.clean \in BOOLEAN, Justified(why, number, c, known),
           why = "empty" => c.content = "empty", why = "approved" => prDelivers(pr[number]),
           NEW all, all.prs = prs, all.linked = TRUE, all.clean = known.clean, all.checks = known.checks
    PROVE  EvaluateCommit(Stored(c), SyncEvidence(all), Fetcher(c, prs, Shas(c, prs))).compliant
<1> DEFINE q == Fetcher(c, prs, Shas(c, prs))
           commits == [p \in prs |-> ChainOf(p)]
           ev == Evidence(all, pr, commits)
           d == EvaluateCommit(Stored(c), ev, q)
<1>1. SyncEvidence(all) = ev
  BY DEF SyncEvidence
<1>2. Records(pr)
  BY AsPullTells DEF Records, AsPull
<1>3. all.prs \subseteq Numbers /\ all.clean \in BOOLEAN
  OBVIOUS
<1>4. /\ ev.commits = commits /\ ev.checks = known.checks
      /\ \A p \in prs : ev.reviews[p] = reviews[p]
  <2> HIDE DEF commits
  <2>1. ev.commits = commits /\ ev.checks = all.checks /\ \A p \in prs : ev.reviews[p] = StoredReviews(p, all)
    BY <1>2, <1>3, EvidencePulls
  <2> QED
    BY <2>1 DEF StoredReviews
<1>5. Judged(d, Stored(c), all, pr, commits, q)
  <2> HIDE DEF commits, q
  <2> QED
    BY <1>2, <1>3, Judgement
<1>6. Same(Stored(c), c)
  BY StoredTells DEF IsMain
<1>7. DOMAIN commits = prs /\ \A p \in prs : commits[p] = ChainOf(p)
  OBVIOUS
<1> HIDE DEF ev, commits, d
<1> SUFFICES ASSUME RefusedByAll(d, Stored(c), all, pr, commits, q) PROVE FALSE
  BY <1>1, <1>5 DEF Judged, GrantedByRule, d, q
<1>8. CASE why = "exempt"
  <2>1. isExemptCommit(Stored(c))
    BY <1>6, <1>8, SameTells DEF Justified
  <2>2. \A p \in prs : \A x \in ChainOf(p) : ~isExemptCommit(x) => IsEmpty(KnownStat(x, q))
    <3> SUFFICES ASSUME NEW p \in prs, NEW x \in ChainOf(p), ~isExemptCommit(x)
                 PROVE  IsEmpty(KnownStat(x, q))
      OBVIOUS
    <3>1. x.content = "empty"
      BY <1>8 DEF Justified, HumanWork
    <3> QED
      BY <3>1, FullAnswers
  <2> HIDE DEF q
  <2>3. ExemptionHolds(Stored(c), ev, q)
    BY <1>4, <1>7, <2>1, <2>2 DEF ExemptionHolds, hasNonExemptPRContributors
  <2> QED
    BY <2>3 DEF RefusedByAll, Exempted, ev
<1>9. CASE why = "approved"
  <2>1. /\ number \in prs /\ ChecksPass(ev.checks, pr[number].head) /\ OthersApproval(c, number)
        /\ prDelivers(pr[number])
    BY <1>4, <1>9 DEF Justified
  <2>2. ev.commits[number] = ChainOf(number) /\ ev.reviews[number] = reviews[number]
    BY <1>4, <1>7, <2>1
  <2>3. evaluatePR(Stored(c), ev, pr[number], q).passes
    BY <2>1, <2>2, FullPasses
  <2> QED
    BY <2>1, <2>3 DEF RefusedByAll, Verdict, ev
<1>10. CASE why = "empty"
  <2>1. c \in Commits /\ c.content = "empty"
    BY <1>10 DEF IsMain
  <2>2. c.sha \in Shas(c, prs)
    BY DEF Shas
  <2>3. Answer(q, c) = IF c.sha \in detail \cup Shas(c, prs) THEN Truth(c) ELSE Failed
    BY FetcherTells
  <2>4. IsEmpty(Answer(q, c))
    BY <2>1, <2>2, <2>3, TruthTells
  <2>5. q.online = TRUE
    BY DEF Fetcher
  <2> HIDE DEF q
  <2>6. Stored(c).lines = 0
    BY <2>1, StoredTells DEF Lines
  <2>7. Stored(c).sha = c.sha
    BY <1>6 DEF Same
  <2>8. EmptyHolds(Stored(c), q)
    BY <2>4, <2>5, <2>6, <2>7 DEF EmptyHolds, Answer
  <2> QED
    BY <2>8 DEF RefusedByAll
<1>11. CASE why = "clean revert"
  BY <1>11 DEF Justified, RefusedByAll
<1> QED
  BY <1>8, <1>9, <1>10, <1>11 DEF Justified

-----------------------------------------------------------------------------
(* The same audit from the database alone grants no more. *)

\* The stored commits of the branch show nobody's work but exempt accounts', D being
\* the commits whose detail is stored.
Waivable(c, known, D) ==
    /\ isExemptCommit(c)
    /\ known.linked => \A p \in known.prs : \A x \in ChainOf(p) :
                          isExemptCommit(x) \/ (x.sha \in D /\ x.content = "empty")

\* An approval of the final commit that the database alone can tell from a
\* self-approval.
FreshOffline(c, known, p) ==
    \E a \in ApprovedOnFinal(StoredReviews(p, known), pr[p]) :
        /\ a # Opener /\ c.author # a
        /\ known.linked => \A x \in ChainOf(p) : x.author # a

\* From the database alone the exemption holds exactly when the stored rows
\* show no work but exempt accounts'.
LEMMA OfflineExemption ==
    ASSUME WorldOK, NEW c, IsMain(c), NEW c2, Same(c2, c), NEW known, known.prs \subseteq Numbers,
           NEW ev, ev.commits = StoredCommits(c, known)
    PROVE  ExemptionHolds(c2, ev, NoFetcher(c, known.prs)) <=> Waivable(c, known, detail)
<1> DEFINE q == NoFetcher(c, known.prs)
           X(p) == {c} \cup (IF known.linked THEN ChainOf(p) ELSE {})
<1>1. DOMAIN ev.commits = known.prs /\ \A p \in known.prs : ev.commits[p] = {Stored(x) : x \in X(p)}
  BY DEF StoredCommits
<1>2. isExemptCommit(c2) <=> isExemptCommit(c)
  BY SameTells
<1>3. Answer(q, c) = Failed /\ \A p \in known.prs : \A x \in ChainOf(p) : Answer(q, x) = Failed
  BY NoFetcherTells
<1>4. c \in Commits /\ \A p \in known.prs : \A x \in ChainOf(p) : x \in Commits
  BY ChainShape DEF IsMain
<1> HIDE DEF q
<1>5. ASSUME NEW p \in known.prs, NEW x \in X(p)
      PROVE  /\ isExemptCommit(Stored(x)) <=> isExemptCommit(x)
             /\ IsEmpty(KnownStat(Stored(x), q)) <=> x.sha \in detail /\ x.content = "empty"
  <2>1. x \in Commits /\ Answer(q, x) = Failed
    BY <1>3, <1>4
  <2>2. KnownStat(Stored(x), q) = IF x.sha \in detail THEN Truth(x) ELSE Failed
    BY <2>1, StoredStats
  <2>3. ~IsEmpty(Failed)
    BY DEF IsEmpty
  <2>4. Same(Stored(x), x)
    BY <2>1, StoredTells
  <2> QED
    BY <2>1, <2>2, <2>3, <2>4, TruthTells, SameTells
<1> HIDE DEF X
<1>6. hasNonExemptPRContributors(ev, q)
        <=> \E p \in known.prs : \E x \in X(p) :
               ~isExemptCommit(x) /\ ~(x.sha \in detail /\ x.content = "empty")
  <2>1. hasNonExemptPRContributors(ev, q)
          <=> \E p \in known.prs : \E x \in X(p) :
                 ~isExemptCommit(Stored(x)) /\ ~IsEmpty(KnownStat(Stored(x), q))
    BY <1>1 DEF hasNonExemptPRContributors
  <2> QED
    BY <1>5, <2>1
<1>7. Waivable(c, known, detail)
        <=> isExemptCommit(c) /\ \A p \in known.prs : \A x \in X(p) :
               isExemptCommit(x) \/ (x.sha \in detail /\ x.content = "empty")
  BY DEF Waivable, X
<1> QED
  BY <1>2, <1>6, <1>7 DEF ExemptionHolds, q

\* From the database alone an approval is somebody else's exactly when its
\* reviewer neither opened the pull request nor wrote the commit or a linked
\* one.
LEMMA OfflineOwn ==
    ASSUME WorldOK, NEW c, IsMain(c), NEW c2, Same(c2, c), NEW known, known.prs \subseteq Numbers,
           NEW p \in known.prs, NEW rec, AsPull(rec, p), NEW a \in Accounts
    PROVE  a \notin Own(c2, rec, StoredCommits(c, known)[p], NoFetcher(c, known.prs))
             <=> /\ a # Opener /\ c.author # a
                 /\ known.linked => \A x \in ChainOf(p) : x.author # a
<1> DEFINE q == NoFetcher(c, known.prs)
           X == {c} \cup (IF known.linked THEN ChainOf(p) ELSE {})
           cs == StoredCommits(c, known)[p]
<1>1. cs = {Stored(x) : x \in X}
  BY DEF StoredCommits
<1>2. p \in Numbers /\ Answer(q, c) = Failed /\ \A x \in ChainOf(p) : Answer(q, x) = Failed
  <2>1. Answer(q, c) = Failed /\ \A o \in known.prs : \A x \in ChainOf(o) : Answer(q, x) = Failed
    BY NoFetcherTells
  <2> QED
    BY <2>1
<1>3. c \in Commits /\ \A x \in ChainOf(p) : x \in Commits
  BY <1>2, ChainShape DEF IsMain
<1> HIDE DEF q, cs
<1>4. \A x \in X : Same(Stored(x), x) /\ Answer(q, x) = Failed
  BY <1>2, <1>3, StoredTells
<1> HIDE DEF X
<1>5. a \in Contributors(cs, q) <=> \E x \in X : x.author = a
  <2>1. a \in Contributors(cs, q)
          <=> a \in {y.author : y \in cs} /\ hasNonEmptyContribution({y \in cs : y.author = a}, q)
    BY DEF Contributors
  <2>2. \A y \in cs : ~IsEmpty(Answer(q, y))
    <3> SUFFICES ASSUME NEW x \in X PROVE ~IsEmpty(Answer(q, Stored(x)))
      BY <1>1
    <3>1. Answer(q, Stored(x)) = Failed
      BY <1>4 DEF Same, Answer
    <3> QED
      BY <3>1 DEF IsEmpty
  <2>3. hasNonEmptyContribution({y \in cs : y.author = a}, q) <=> \E y \in cs : y.author = a
    BY <2>2 DEF hasNonEmptyContribution, Answer
  <2>4. (\E y \in cs : y.author = a) <=> \E x \in X : x.author = a
    BY <1>1, <1>4 DEF Same
  <2> QED
    BY <2>1, <2>3, <2>4
<1>6. (\E x \in X : x.author = a) <=> c.author = a \/ (known.linked /\ \E x \in ChainOf(p) : x.author = a)
  BY DEF X
<1>7. a \in Own(c2, rec, cs, q)
        <=> a = Opener \/ (~CleanMerge(c2) /\ a = c2.author) \/ a \in Contributors(cs, q)
  <2>1. rec.author = Opener
    BY <1>2, AsPullTells
  <2> QED
    BY <2>1 DEF Own, isSelfApproval, Trusted
<1>8. c2.author = c.author
  BY DEF Same
<1> QED
  BY <1>5, <1>6, <1>7, <1>8 DEF q, cs

\* Whoever the database cannot take for a contributor, sync did not either.
LEMMA SyncOwn ==
    ASSUME WorldOK, NEW c, IsMain(c), NEW p \in Numbers, NEW a \in Accounts, NEW q,
           a # Opener, c.author # a, \A x \in ChainOf(p) : x.author # a
    PROVE  a \notin Own(Stored(c), pr[p], ChainOf(p), q)
<1>1. pr[p].author = Opener
  BY AsPullTells DEF AsPull
<1>2. Stored(c).author = c.author
  BY StoredTells DEF Same, IsMain
<1>3. a \notin Contributors(ChainOf(p), q)
  BY DEF Contributors
<1> QED
  BY <1>1, <1>2, <1>3 DEF Own, isSelfApproval

\* What holds of a pull request that passes.
LEMMA PassesTells ==
    ASSUME WorldOK, NEW c2, NEW p \in Numbers, NEW rec, AsPull(rec, p),
           NEW ev, ev.reviews[p] \in Seq(Rows), NEW q
    PROVE  LET v == evaluatePR(c2, ev, rec, q)
           IN  /\ v.passes <=> v.approved /\ ChecksPass(ev.checks, pr[p].head) /\ prDelivers(rec)
               /\ v.approved <=> v.refreshed \/ \E a \in ApprovedOnFinal(ev.reviews[p], pr[p]) :
                                                 a \notin Own(c2, rec, ev.commits[p], q)
<1> DEFINE rows == ev.reviews[p]
           cs == ev.commits[p]
           checks == ev.checks
           v == evaluatePR(c2, ev, rec, q)
           own == Own(c2, rec, cs, q)
<1>1. /\ rec.number = p /\ rec.head = pr[p].head /\ rec.mergedAt = pr[p].mergedAt
  BY AsPullTells
<1>2. rows \in Seq(Rows)
  OBVIOUS
<1>3. /\ v.passes <=> v.approved /\ ChecksPass(checks, rec.head) /\ prDelivers(rec)
      /\ v.approved <=> v.refreshed \/ \E a \in ApprovedOnFinal(rows, rec) : a \notin own
  <2>1. ev.commits[rec.number] = cs /\ ev.reviews[rec.number] = rows
    BY <1>1
  <2> HIDE DEF cs, rows, checks
  <2> QED
    BY ONLY <1>2, <2>1, VerdictTells DEF checks
<1>4. ApprovedOnFinal(rows, rec) = ApprovedOnFinal(rows, pr[p])
  BY <1>1, <1>2, LatestSame
<1> HIDE DEF v, own
<1>5. /\ v.passes <=> v.approved /\ ChecksPass(checks, pr[p].head) /\ prDelivers(rec)
      /\ v.approved <=> v.refreshed \/ \E a \in ApprovedOnFinal(rows, pr[p]) : a \notin own
  BY <1>1, <1>3, <1>4
<1> QED
  BY <1>5 DEF v, own

\* A pull request that passes the other rules was not fresh.
LEMMA NotFresh ==
    ASSUME WorldOK, NEW c2, NEW p \in Numbers, NEW rec, AsPull(rec, p),
           NEW ev, ev.reviews[p] \in Seq(Rows), NEW q, ~evaluatePR(c2, ev, rec, q).passes,
           ChecksPass(ev.checks, pr[p].head), prDelivers(pr[p])
    PROVE  \A a \in ApprovedOnFinal(ev.reviews[p], pr[p]) : a \in Own(c2, rec, ev.commits[p], q)
<1>1. prDelivers(rec)
  BY AsPullTells
<1> QED
  BY <1>1, PassesTells

\* What a refusal leaves, for the database alone to find.
Unforgiven(c, known, D) ==
    /\ ~known.clean
    /\ c.sha \in D => c.content # "empty"
    /\ ~Waivable(c, known, D)
    /\ \A p \in known.prs :
          ChecksPass(known.checks, pr[p].head) /\ prDelivers(pr[p]) => ~FreshOffline(c, known, p)

\* A refusal leaves nothing that the database alone could find, whoever
\* refused.
LEMMA OfflineRefusal ==
    ASSUME WorldOK, NEW c, IsMain(c), NEW c2, Same(c2, c), NEW known, known.prs \subseteq Numbers,
           known.clean \in BOOLEAN, NEW records, \A p \in Numbers : AsPull(records[p], p),
           NEW d, d = EvaluateCommit(c2, Evidence(known, records, StoredCommits(c, known)),
                                     NoFetcher(c, known.prs)), ~d.compliant,
           c.sha \in detail /\ c.content = "empty" => c2.lines = 0 /\ c2.files = 0
    PROVE  Unforgiven(c, known, detail)
<1> DEFINE q == NoFetcher(c, known.prs)
           commits == StoredCommits(c, known)
           ev == Evidence(known, records, commits)
<1>1. Records(records)
  BY AsPullTells DEF Records
<1>2. /\ ev.commits = commits /\ ev.checks = known.checks
      /\ \A p \in known.prs : ev.reviews[p] = StoredReviews(p, known)
  <2> HIDE DEF commits
  <2> QED
    BY <1>1, EvidencePulls
<1>3. Judged(d, c2, known, records, commits, q)
  <2> HIDE DEF commits, q
  <2> QED
    BY <1>1, Judgement DEF commits, q
<1>4. RefusedByAll(d, c2, known, records, commits, q)
  BY <1>3 DEF Judged, GrantedByRule
<1>5. /\ ~ExemptionHolds(c2, ev, q) /\ ~EmptyHolds(c2, q) /\ ~known.clean
      /\ \A p \in known.prs : ~evaluatePR(c2, ev, records[p], q).passes
  BY <1>4 DEF RefusedByAll, Exempted, Verdict
<1>6. ~Waivable(c, known, detail)
  <2> HIDE DEF ev
  <2> QED
    BY <1>2, <1>5, OfflineExemption
<1>7. c.sha \in detail => c.content # "empty"
  <2>1. q.online = FALSE
    BY DEF NoFetcher
  <2> HIDE DEF q
  <2>2. ~(c2.lines = 0 /\ c2.files = 0)
    BY <1>5, <2>1 DEF EmptyHolds
  <2> QED
    BY <2>2
<1>8. ASSUME NEW p \in known.prs, ChecksPass(known.checks, pr[p].head), prDelivers(pr[p]),
             FreshOffline(c, known, p)
      PROVE  FALSE
  <2>1. PICK a \in ApprovedOnFinal(StoredReviews(p, known), pr[p]) :
           /\ a # Opener /\ c.author # a
           /\ known.linked => \A x \in ChainOf(p) : x.author # a
    BY <1>8 DEF FreshOffline
  <2>2. a \in Accounts
    BY DEF ApprovedOnFinal
  <2>3. a \notin Own(c2, records[p], commits[p], q)
    <3>1. AsPull(records[p], p)
      OBVIOUS
    <3> QED
      BY <2>1, <2>2, <3>1, OfflineOwn
  <2>4. /\ ev.commits[p] = commits[p] /\ ev.reviews[p] = StoredReviews(p, known) /\ ev.reviews[p] \in Seq(Rows)
        /\ ~evaluatePR(c2, ev, records[p], q).passes
    BY <1>2, <1>5, StoredReviewsTell
  <2>5. ChecksPass(ev.checks, pr[p].head)
    BY <1>2, <1>8
  <2> HIDE DEF ev, commits, q
  <2>6. a \in Own(c2, records[p], ev.commits[p], q)
    BY <1>8, <2>1, <2>4, <2>5, NotFresh
  <2> QED
    BY <2>3, <2>4, <2>6
<1> QED
  BY <1>5, <1>6, <1>7, <1>8 DEF Unforgiven

\* After a refusal the database alone finds a refreshed approval or one that
\* landed on another branch, and nothing else.
LEMMA OfflineForgives ==
    ASSUME WorldOK, NEW c, IsMain(c), NEW known, known.prs \subseteq Numbers,
           known.clean \in BOOLEAN, Unforgiven(c, known, detail), c.sha \in detail,
           NEW records, \A p \in Numbers : AsPull(records[p], p),
           NEW d, d = EvaluateCommit(Stored(c), Evidence(known, records, StoredCommits(c, known)),
                                     NoFetcher(c, known.prs))
    PROVE  \/ ~d.compliant
           \/ d.why = "refreshed"
           \/ d.why = "approved" /\ ~prDelivers(pr[d.pr])
<1> DEFINE q == NoFetcher(c, known.prs)
           commits == StoredCommits(c, known)
           ev == Evidence(known, records, commits)
           c2 == Stored(c)
<1>1. Records(records)
  BY AsPullTells DEF Records
<1>2. /\ ev.commits = commits /\ ev.checks = known.checks
      /\ \A p \in known.prs : ev.reviews[p] = StoredReviews(p, known)
  <2> HIDE DEF commits
  <2> QED
    BY <1>1, EvidencePulls
<1>3. Judged(d, c2, known, records, commits, q)
  <2> HIDE DEF commits, q, c2
  <2> QED
    BY <1>1, Judgement DEF commits, q, c2
<1>4. Same(c2, c) /\ c \in Commits
  BY StoredTells DEF IsMain
<1> SUFFICES ASSUME GrantedByRule(d, c2, known, records, commits, q)
             PROVE  d.why = "refreshed" \/ (d.why = "approved" /\ ~prDelivers(pr[d.pr]))
  BY <1>3 DEF Judged, RefusedByAll
<1>5. ~Exempted(c2, known, records, commits, q)
  <2> HIDE DEF ev, c2
  <2>1. ~ExemptionHolds(c2, ev, q)
    BY <1>2, <1>4, OfflineExemption DEF Unforgiven
  <2> QED
    BY <2>1 DEF Exempted, ev
<1>6. ~EmptyHolds(c2, q)
  <2>1. q.online = FALSE
    BY DEF NoFetcher
  <2>2. c2.lines = Lines(c.content) /\ c2.files = Files(c.content)
    BY <1>4, StoredTells
  <2>3. c.content # "empty"
    BY DEF Unforgiven
  <2> HIDE DEF q, c2
  <2> QED
    BY <2>1, <2>2, <2>3 DEF EmptyHolds, Files
<1>7. ~known.clean
  BY DEF Unforgiven
<1>8. PICK p \in known.prs : LET v == Verdict(c2, known, records, commits, q, p)
                             IN  /\ v.passes /\ d.pr = p
                                 /\ d.why = IF v.refreshed THEN "refreshed" ELSE "approved"
  BY <1>5, <1>6, <1>7 DEF GrantedByRule
<1> DEFINE v == evaluatePR(c2, ev, records[p], q)
<1>9. v.passes /\ d.pr = p /\ d.why = IF v.refreshed THEN "refreshed" ELSE "approved"
  BY <1>8 DEF Verdict
<1> SUFFICES ASSUME ~v.refreshed, prDelivers(pr[p]) PROVE FALSE
  BY <1>9
<1>10. AsPull(records[p], p) /\ p \in Numbers
  OBVIOUS
<1> DEFINE rec == records[p]
           cs == commits[p]
           own == Own(c2, rec, cs, q)
<1>11. /\ ev.commits[p] = cs /\ ev.checks = known.checks
       /\ ev.reviews[p] = StoredReviews(p, known) /\ ev.reviews[p] \in Seq(Rows)
  <2> HIDE DEF ev, commits
  <2> QED
    BY <1>2, <1>10, StoredReviewsTell
<1>12. /\ v.passes <=> v.approved /\ ChecksPass(ev.checks, pr[p].head) /\ prDelivers(rec)
       /\ v.approved <=> v.refreshed \/ \E a \in ApprovedOnFinal(ev.reviews[p], pr[p]) :
                                         a \notin Own(c2, rec, ev.commits[p], q)
  <2> HIDE DEF ev, q, c2
  <2> QED
    BY <1>10, <1>11, PassesTells
<1> HIDE DEF v, cs, c2, commits, q, ev
<1>15. PICK a \in ApprovedOnFinal(StoredReviews(p, known), pr[p]) : a \notin own
  BY <1>9, <1>11, <1>12
<1>16. ChecksPass(known.checks, pr[p].head)
  BY <1>9, <1>11, <1>12
<1>17. /\ a # Opener /\ c.author # a
       /\ known.linked => \A x \in ChainOf(p) : x.author # a
  <2>1. a \in Accounts
    BY DEF ApprovedOnFinal
  <2> QED
    BY <1>4, <1>10, <1>15, <2>1, OfflineOwn DEF cs, commits, q
<1>18. FreshOffline(c, known, p)
  BY <1>15, <1>17 DEF FreshOffline
<1> QED
  BY <1>16, <1>18 DEF Unforgiven

-----------------------------------------------------------------------------
(* The invariant of an audited row. *)

\* The pull requests a row was judged by contain its commit.
KnownOK(c, known) ==
    known \in [prs : SUBSET PRsOf(c), linked : BOOLEAN, checks : CheckHistories, clean : BOOLEAN]

\* The record has the fields of a row of audit_results.
IsRow(r) ==
    DOMAIN r = {"commit", "by", "known", "compliant", "why", "pr", "reasons", "signals",
                "exemptAuthor", "forgeable"}

\* A grant of the row is justified; for emptiness only if the commit is empty
\* or a re-audit had zeros to believe, and in a sync only by a pull request
\* that delivers.
GrantOK(r, D) ==
    /\ Justified(r.why, r.pr, r.commit, r.known)
    /\ r.why = "empty" => \/ r.commit.content = "empty"
                          \/ r.by = "failures"
                          \/ r.by # "sync" /\ r.commit.sha \notin D
    /\ r.why = "approved" /\ r.by = "sync" => prDelivers(pr[r.pr])

\* The invariant of an audited row, D being the commits whose detail is stored.
RowOK(r, D) ==
    /\ IsRow(r) /\ RowShape(r)
    /\ IsMain(r.commit) /\ KnownOK(r.commit, r.known)
    /\ r.by = "sync" => r.known.linked
    /\ r.compliant => GrantOK(r, D)
    /\ ~r.compliant => Unforgiven(r.commit, r.known, D)

\* The row that a sync's audit writes meets the invariant.
LEMMA SyncRow ==
    ASSUME WorldOK, NEW c \in OnMain, NEW known, KnownOK(c, known), known.linked = TRUE, NEW answered,
           NEW d, d = EvaluateCommit(Stored(c), SyncEvidence(known), Fetcher(c, known.prs, answered)),
           NEW D \in SUBSET answered
    PROVE  RowOK(AuditRow(c, d, "sync", known), D)
<1> DEFINE prs == known.prs
           q == Fetcher(c, prs, answered)
           commits == [p \in prs |-> ChainOf(p)]
           ev == Evidence(known, pr, commits)
           c2 == Stored(c)
<1>1. IsMain(c) /\ c \in Commits /\ Same(c2, c)
  BY OnMainIs, StoredTells DEF IsMain
<1>2. prs \subseteq PRsOf(c) /\ prs \subseteq Numbers
  BY DEF KnownOK, PRsOf
<1>3. /\ KnownOK(c, known) /\ known.clean \in BOOLEAN /\ known.linked = TRUE
      /\ prs \in SUBSET Numbers
  BY <1>2 DEF KnownOK
<1>4. d = EvaluateCommit(c2, ev, q)
  BY DEF SyncEvidence
<1>5. Records(pr) /\ \A p \in Numbers : AsPull(pr[p], p)
  BY AsPullTells DEF Records, AsPull
<1>6. /\ ev.commits = commits /\ ev.checks = known.checks
      /\ \A p \in prs : ev.reviews[p] = reviews[p]
  <2> HIDE DEF commits
  <2>1. /\ ev.commits = commits /\ ev.checks = known.checks
        /\ \A p \in prs : ev.reviews[p] = StoredReviews(p, known)
    BY <1>3, <1>5, EvidencePulls
  <2> QED
    BY <2>1 DEF StoredReviews
<1>7. Judged(d, c2, known, pr, commits, q)
  <2> HIDE DEF commits, q, c2
  <2> QED
    BY <1>3, <1>4, <1>5, Judgement
<1>8. DOMAIN commits = prs /\ \A p \in prs : commits[p] = ChainOf(p)
  OBVIOUS
<1>9. RowShape(AuditRow(c, d, "sync", known))
  <2> HIDE DEF commits, q, c2
  <2> QED
    BY <1>3, <1>4, <1>5, <1>8, JudgedShape
<1>10. \A p \in prs : Faithful(c, p, commits[p], q)
  BY <1>1, <1>3, <1>8, SyncFaithful
<1>11. Answer(q, c) = IF c.sha \in detail \cup answered THEN Truth(c) ELSE Failed
  BY <1>1, <1>3, FetcherTells
<1>12. EmptyHolds(c2, q) => c.content = "empty"
  <2>1. q.online = TRUE
    BY DEF Fetcher
  <2> HIDE DEF q, c2
  <2>2. EmptyHolds(c2, q) => IsEmpty(Answer(q, c))
    BY <1>1, <2>1 DEF EmptyHolds, Answer, Same
  <2> QED
    BY <1>1, <1>11, <2>2, TruthTells DEF IsEmpty
<1>13. d.compliant => GrantOK(AuditRow(c, d, "sync", known), D)
  <2> SUFFICES ASSUME d.compliant PROVE GrantOK(AuditRow(c, d, "sync", known), D)
    OBVIOUS
  <2> HIDE DEF commits, q, c2
  <2>1. /\ Justified(d.why, d.pr, c, known)
        /\ d.why = "empty" => EmptyHolds(c2, q)
        /\ d.why = "approved" => prDelivers(pr[d.pr])
    BY <1>1, <1>3, <1>4, <1>5, <1>8, <1>10, GrantGrounds
  <2> QED
    BY <1>12, <2>1 DEF GrantOK, AuditRow
<1>14. ~d.compliant => Unforgiven(c, known, D)
  <2> SUFFICES ASSUME ~d.compliant PROVE Unforgiven(c, known, D)
    OBVIOUS
  <2>1. RefusedByAll(d, c2, known, pr, commits, q)
    BY <1>7 DEF Judged, GrantedByRule
  <2>2. /\ ~ExemptionHolds(c2, ev, q) /\ ~EmptyHolds(c2, q) /\ ~known.clean
        /\ \A p \in prs : ~evaluatePR(c2, ev, pr[p], q).passes
    BY <2>1 DEF RefusedByAll, Exempted, Verdict
  <2>3. c.sha \in D => c.content # "empty"
    <3> SUFFICES ASSUME c.sha \in D, c.content = "empty" PROVE FALSE
      OBVIOUS
    <3>1. IsEmpty(Answer(q, c))
      BY <1>1, <1>11, TruthTells
    <3>2. c2.lines = 0
      BY <1>1, StoredTells DEF Lines
    <3>3. q.online = TRUE
      BY DEF Fetcher
    <3> HIDE DEF q, c2
    <3>4. EmptyHolds(c2, q)
      BY <1>1, <3>1, <3>2, <3>3 DEF EmptyHolds, Answer, Same
    <3> QED
      BY <2>2, <3>4
  <2>4. ~Waivable(c, known, D)
    <3> SUFFICES ASSUME Waivable(c, known, D) PROVE FALSE
      OBVIOUS
    <3>1. isExemptCommit(c2)
      BY <1>1, SameTells DEF Waivable
    <3>2. ASSUME NEW p \in prs, NEW x \in ChainOf(p), ~isExemptCommit(x) PROVE IsEmpty(KnownStat(x, q))
      <4>1. x.sha \in answered /\ x.content = "empty"
        BY <1>3, <3>2 DEF Waivable
      <4>2. x \in Commits
        BY <1>3, ChainShape
      <4>3. Answer(q, x) = IF x.sha \in detail \cup answered THEN Truth(x) ELSE Failed
        BY <1>1, <1>3, FetcherTells
      <4> HIDE DEF q
      <4>4. KnownStat(x, q) = Truth(x)
        BY <4>1, <4>2, <4>3 DEF KnownStat, Answer, Commits
      <4> QED
        BY <4>1, <4>2, <4>4, TruthTells
    <3> HIDE DEF q, c2, commits, ev, prs
    <3>3. ExemptionHolds(c2, ev, q)
      BY <1>6, <1>8, <3>1, <3>2 DEF ExemptionHolds, hasNonExemptPRContributors
    <3> QED
      BY <2>2, <3>3
  <2>5. ASSUME NEW p \in prs, ChecksPass(known.checks, pr[p].head), prDelivers(pr[p]),
               FreshOffline(c, known, p)
        PROVE  FALSE
    <3>1. PICK a \in ApprovedOnFinal(reviews[p], pr[p]) :
             /\ a # Opener /\ c.author # a
             /\ \A x \in ChainOf(p) : x.author # a
      BY <1>3, <2>5 DEF FreshOffline, StoredReviews
    <3>2. a \in Accounts /\ p \in Numbers
      BY <1>3 DEF ApprovedOnFinal
    <3>3. a \notin Own(c2, pr[p], ChainOf(p), q)
      BY <1>1, <3>1, <3>2, SyncOwn
    <3>4. ev.commits[p] = ChainOf(p) /\ ev.reviews[p] = reviews[p] /\ ev.reviews[p] \in Seq(Rows)
      BY <1>6, <1>8, <3>2 DEF WorldOK, ReviewsOK
    <3>5. ~evaluatePR(c2, ev, pr[p], q).passes /\ ChecksPass(ev.checks, pr[p].head) /\ AsPull(pr[p], p)
      BY <1>5, <1>6, <2>2, <2>5, <3>2
    <3> HIDE DEF ev, q, c2
    <3>6. a \in Own(c2, pr[p], ev.commits[p], q)
      BY <2>5, <3>1, <3>2, <3>4, <3>5, NotFresh
    <3> QED
      BY <3>3, <3>4, <3>6
  <2> QED
    BY <2>2, <2>3, <2>4, <2>5 DEF Unforgiven
<1> DEFINE r == AuditRow(c, d, "sync", known)
<1>15. /\ r.commit = c /\ r.by = "sync" /\ r.known = known /\ r.compliant = d.compliant /\ IsRow(r)
  BY DEF AuditRow, IsRow
<1> HIDE DEF r
<1>16. RowOK(r, D)
  BY <1>1, <1>3, <1>9, <1>13, <1>14, <1>15 DEF RowOK, r
<1> QED
  BY <1>16 DEF r

\* So does the row that an audit from the database alone writes over one that
\* does.
LEMMA OfflineRow ==
    ASSUME WorldOK, NEW c, IsMain(c), NEW known, KnownOK(c, known), NEW kind, kind # "sync",
           NEW c2, c2 = Stored(c) \/ (kind = "failures" /\ c2 = [Stored(c) EXCEPT !.files = 0, !.verified = FALSE]),
           NEW records, \A p \in Numbers : AsPull(records[p], p),
           NEW d, d = EvaluateCommit(c2, Evidence(known, records, StoredCommits(c, known)),
                                     NoFetcher(c, known.prs))
    PROVE  RowOK(AuditRow(c, d, kind, known), detail)
<1> DEFINE prs == known.prs
           q == NoFetcher(c, prs)
           commits == StoredCommits(c, known)
           r == AuditRow(c, d, kind, known)
<1>1. c \in Commits /\ Same(Stored(c), c)
  BY StoredTells DEF IsMain
<1>2. c.sha \in detail => Stored(c).lines = Lines(c.content) /\ Stored(c).files = Files(c.content)
  BY <1>1, StoredTells
<1>4. /\ Same(c2, c) /\ c2.lines = Stored(c).lines
      /\ c2.files = Stored(c).files \/ (kind = "failures" /\ c2.files = 0)
  <2>1. CASE c2 = Stored(c)
    BY <1>1, <2>1
  <2>2. CASE kind = "failures" /\ c2 = [Stored(c) EXCEPT !.files = 0, !.verified = FALSE]
    <3>1. CASE c.sha \in detail
      <4>1. c2 = [c EXCEPT !.lines = Lines(c.content), !.files = 0, !.verified = FALSE]
        BY <1>1, <2>2, <3>1 DEF Stored, Commits
      <4> QED
        BY <1>1, <1>2, <2>2, <3>1, <4>1 DEF Same, Commits
    <3>2. CASE c.sha \notin detail
      <4>1. Stored(c) = c
        BY <3>2 DEF Stored
      <4> QED
        BY <1>1, <2>2, <4>1 DEF Same, Commits
    <3> QED
      BY <3>1, <3>2
  <2> QED
    BY <2>1, <2>2
<1>5. /\ prs \subseteq Numbers /\ known.clean \in BOOLEAN /\ known.linked \in BOOLEAN
  BY DEF KnownOK, PRsOf
<1>6. Records(records)
  BY AsPullTells DEF Records
<1>7. DOMAIN commits = prs
  BY DEF StoredCommits
<1> HIDE DEF q, commits, prs
<1>8. RowShape(r)
  BY <1>5, <1>6, <1>7, JudgedShape DEF q, commits, prs
<1>9. known.linked => \A p \in prs : Faithful(c, p, commits[p], q)
  <2> SUFFICES ASSUME known.linked, NEW p \in known.prs PROVE Faithful(c, p, commits[p], q)
    BY DEF prs
  <2>1. known.linked = TRUE /\ known.prs \subseteq Numbers
    BY <1>5 DEF prs
  <2> QED
    BY <2>1, OfflineFaithful DEF commits, q, prs
<1>10. c.sha \in detail /\ EmptyHolds(c2, q) /\ kind # "failures" => c.content = "empty"
  <2>1. q.online = FALSE
    BY DEF q, NoFetcher
  <2>2. EmptyHolds(c2, q) => c2.files = 0
    BY <2>1 DEF EmptyHolds
  <2> QED
    BY <1>2, <1>4, <2>2 DEF Files
<1>11. d = EvaluateCommit(c2, Evidence(known, records, commits), q)
  BY DEF commits, q, prs
<1>12. ASSUME d.compliant PROVE GrantOK(r, detail)
  <2>1. /\ known.prs \subseteq Numbers /\ DOMAIN commits = known.prs
        /\ known.linked => \A p \in known.prs : Faithful(c, p, commits[p], q)
    BY <1>5, <1>7, <1>9 DEF prs
  <2>2. /\ Justified(d.why, d.pr, c, known)
        /\ d.why = "empty" => EmptyHolds(c2, q)
    BY <1>4, <1>5, <1>11, <1>12, <2>1, GrantGrounds
  <2> QED
    BY <1>10, <2>2 DEF GrantOK, AuditRow
<1>13. ASSUME ~d.compliant PROVE Unforgiven(c, known, detail)
  <2>1. c.sha \in detail /\ c.content = "empty" => c2.lines = 0 /\ c2.files = 0
    BY <1>2, <1>4 DEF Lines, Files
  <2>2. known.prs \subseteq Numbers
    BY <1>5 DEF prs
  <2> QED
    BY <1>4, <1>5, <1>13, <2>1, <2>2, OfflineRefusal
<1>14. /\ r.commit = c /\ r.by = kind /\ r.known = known /\ r.compliant = d.compliant /\ IsRow(r)
  BY DEF AuditRow, IsRow
<1> HIDE DEF r
<1>15. RowOK(r, detail)
  BY <1>8, <1>12, <1>13, <1>14 DEF RowOK
<1> QED
  BY <1>15 DEF r

-----------------------------------------------------------------------------
(* Every audit writes such a row, and no step spoils it. *)

\* The inductive invariant: the audited row, if there is one, meets it.
RowInv == row # NoRow => RowOK(row, detail)

\* A step that leaves the world and keeps the row well formed keeps the
\* invariant.
LEMMA RowFrame ==
    ASSUME NEW r, NEW D, RowOK(r, D), world' = world, row' = r, detail' = D
    PROVE  RowInv'
<1>1. /\ now' = now /\ branch' = branch /\ reviews' = reviews /\ pr' = pr
      /\ landing' = landing /\ standing' = standing
  BY DEF world
<1>2. (IsRow(row) /\ RowShape(row))'
  BY DEF RowOK, IsRow, RowShape
<1>3. IsMain(row.commit)'
  BY <1>1 DEF RowOK, IsMain, Merged, Open
<1>4. KnownOK(row.commit, row.known)'
  BY <1>1 DEF RowOK, KnownOK, PRsOf, ChainOf, Ancestors, Merged, Open
<1>5. /\ r.commit = (row.commit)' /\ r.known = (row.known)' /\ r.why = (row.why)' /\ r.pr = (row.pr)'
      /\ r.by = (row.by)' /\ r.compliant = (row.compliant)'
  OBVIOUS
<1>6. GrantOK(r, D) => GrantOK(row, detail)'
  <2>1. \A p : HumanWork(p)' = HumanWork(p)
    BY <1>1 DEF HumanWork, ChainOf, Ancestors
  <2>3. Reviewed(r.pr, {pr[r.pr].mergeCommit}) <=> Reviewed(row.pr, {pr[row.pr].mergeCommit})'
    BY <1>1, <1>5, <2>1 DEF Reviewed, Ancestors
  <2>4. OthersApproval(r.commit, r.pr) <=> OthersApproval(row.commit, row.pr)'
    BY <1>1, <1>5 DEF OthersApproval, ChainOf, Ancestors
  <2>5. ChecksPass(r.known.checks, pr[r.pr].head) <=> ChecksPass(row.known.checks, pr[row.pr].head)'
    BY <1>1, <1>5 DEF ChecksPass
  <2>6. Justified(r.why, r.pr, r.commit, r.known) <=> Justified(row.why, row.pr, row.commit, row.known)'
    BY <1>1, <1>5, <2>1, <2>3, <2>4, <2>5 DEF Justified
  <2>7. prDelivers(pr[r.pr]) <=> prDelivers(pr[row.pr])'
    BY <1>1, <1>5
  <2> QED
    BY <1>5, <2>6, <2>7 DEF GrantOK
<1>7. Unforgiven(r.commit, r.known, D) => Unforgiven(row.commit, row.known, detail)'
  <2>1. Waivable(r.commit, r.known, D) <=> Waivable(row.commit, row.known, detail)'
    BY <1>1 DEF Waivable, ChainOf, Ancestors
  <2>2. ASSUME NEW p PROVE FreshOffline(r.commit, r.known, p) <=> FreshOffline(row.commit, row.known, p)'
    BY <1>1 DEF FreshOffline, StoredReviews, WithoutDates, ChainOf, Ancestors
  <2>3. ASSUME NEW p
        PROVE  (ChecksPass(r.known.checks, pr[p].head) /\ prDelivers(pr[p]))
                 <=> (ChecksPass(row.known.checks, pr[p].head) /\ prDelivers(pr[p]))'
    BY <1>1 DEF ChecksPass
  <2> QED
    BY <1>5, <2>1, <2>2, <2>3 DEF Unforgiven
<1> QED
  BY <1>2, <1>3, <1>4, <1>5, <1>6, <1>7 DEF RowInv, RowOK

\* A sync's audit writes a well-formed row.
LEMMA SyncAuditKeeps ==
    ASSUME WorldOK, NEW c \in UnauditedCommits, NEW listed \in SUBSET PRsOf(c), NEW answered,
           NEW checks \in CheckHistories, NEW clean \in CleanReverts,
           SyncAudit(c, listed, answered, checks, clean)
    PROVE  RowInv'
<1> DEFINE prs     == getPRsForCommit(c, listed)
           known   == [prs |-> prs, linked |-> TRUE, checks |-> checks, clean |-> clean]
           verdict == EvaluateCommit(Stored(c), SyncEvidence(known), Fetcher(c, prs, answered))
           asked   == BranchShas(prs) \cup
                      (IF verdict.why \notin {"exempt", "approved", "refreshed"} THEN {c.sha} ELSE {})
<1>1. row' = AuditRow(c, verdict, "sync", known) /\ detail' = answered \cap asked /\ UNCHANGED world
  BY DEF SyncAudit
<1>2. c \in OnMain
  BY DEF UnauditedCommits
<1>3. known.prs = prs /\ known.linked = TRUE /\ KnownOK(c, known)
  BY <1>2, OnMainIs, LinksContain, AuditAssumption DEF KnownOK
<1>4. ASSUME NEW D \in SUBSET answered
      PROVE  RowOK(AuditRow(c, verdict, "sync", known), D)
  <2>1. verdict = EvaluateCommit(Stored(c), SyncEvidence(known), Fetcher(c, known.prs, answered))
    BY <1>3
  <2> HIDE DEF verdict, known
  <2> QED
    BY <1>2, <1>3, <2>1, SyncRow
<1>5. RowOK(AuditRow(c, verdict, "sync", known), answered \cap asked)
  <2> HIDE DEF asked, verdict, known
  <2> QED
    BY <1>4
<1> HIDE DEF asked, verdict, known
<1> QED
  BY <1>1, <1>5, RowFrame

\* So does a re-audit, of each kind.
LEMMA ReAuditKeeps ==
    ASSUME WorldOK, RowInv, NEW kind \in Kinds, ReAudit(kind)
    PROVE  RowInv'
<1> DEFINE records == IF kind = "single" THEN pr ELSE WithoutBase
           ev == Evidence(row.known, records, StoredCommits(row.commit, row.known))
           d  == EvaluateCommit(loadCandidateCommit(kind), ev, NoFetcher(row.commit, row.known.prs))
<1>1. /\ row # NoRow /\ UNCHANGED <<world, detail>>
      /\ row' = AuditRow(row.commit, d, kind, row.known)
  <2>1. ev = IF kind = "single" THEN buildEnrichmentFromDB(row.commit, row.known)
             ELSE buildEnrichmentFromBundle(row.commit, row.known)
    BY DEF buildEnrichmentFromDB, buildEnrichmentFromBundle
  <2>2. d = Offline(kind, ev, row.known.prs)
    BY DEF Offline
  <2> HIDE DEF ev, d
  <2> QED
    BY <2>1, <2>2 DEF ReAudit
<1>2. IsMain(row.commit) /\ KnownOK(row.commit, row.known)
  BY <1>1 DEF RowInv, RowOK
<1>3. kind # "sync"
  BY AuditAssumption
<1>4. \/ loadCandidateCommit(kind) = Stored(row.commit)
      \/ /\ kind = "failures"
         /\ loadCandidateCommit(kind) = [Stored(row.commit) EXCEPT !.files = 0, !.verified = FALSE]
  BY DEF loadCandidateCommit
<1>5. \A p \in Numbers : AsPull(records[p], p)
  BY DEF AsPull, WithoutBase
<1> HIDE DEF records
<1>6. RowOK(AuditRow(row.commit, d, kind, row.known), detail)
  BY <1>2, <1>3, <1>4, <1>5, OfflineRow
<1> HIDE DEF d
<1> QED
  BY <1>1, <1>6, RowFrame

\* So does backfill-missing-prs.
LEMMA BackfillKeeps ==
    ASSUME WorldOK, RowInv, Backfill
    PROVE  RowInv'
<1>1. row # NoRow /\ UNCHANGED <<world, detail>>
  BY DEF Backfill, Candidate
<1>2. IsMain(row.commit) /\ KnownOK(row.commit, row.known)
  BY <1>1 DEF RowInv, RowOK
<1> DEFINE Linked(p) == [row.known EXCEPT !.prs = {p}, !.linked = FALSE]
<1>3. PICK p \in PRIndex(row.commit.sha) :
        row' = AuditRow(row.commit,
                        Offline("single", buildEnrichmentFromDB(row.commit, Linked(p)), {p}),
                        "backfill", Linked(p))
  BY DEF Backfill
<1>4. KnownOK(row.commit, Linked(p)) /\ Linked(p).prs = {p}
  BY <1>2, LinksContain DEF KnownOK
<1> DEFINE known == Linked(p)
           d == EvaluateCommit(Stored(row.commit),
                               Evidence(known, pr, StoredCommits(row.commit, known)),
                               NoFetcher(row.commit, known.prs))
<1>5. row' = AuditRow(row.commit, d, "backfill", known)
  <2>1. loadCandidateCommit("single") = Stored(row.commit)
    BY DEF loadCandidateCommit
  <2> HIDE DEF Linked
  <2> QED
    BY <1>3, <1>4, <2>1 DEF Offline, buildEnrichmentFromDB
<1>6. \A n \in Numbers : AsPull(pr[n], n)
  BY DEF AsPull
<1> HIDE DEF known, Linked
<1>7. RowOK(AuditRow(row.commit, d, "backfill", known), detail)
  BY <1>2, <1>4, <1>6, OfflineRow DEF known
<1> HIDE DEF d
<1> QED
  BY <1>1, <1>5, <1>7, RowFrame

\* annotate-commits changes a flag that the invariant does not rest on.
LEMMA AnnotateKeeps ==
    ASSUME WorldOK, RowInv, AnnotateCommits
    PROVE  RowInv'
<1> DEFINE r == [row EXCEPT !.forgeable = FALSE]
<1>1. RowOK(row, detail) /\ UNCHANGED <<world, detail>> /\ row' = r
  BY DEF AnnotateCommits, RowInv
<1>2. /\ r.commit = row.commit /\ r.by = row.by /\ r.known = row.known /\ r.compliant = row.compliant
      /\ r.why = row.why /\ r.pr = row.pr /\ r.reasons = row.reasons /\ r.signals = row.signals
      /\ r.exemptAuthor = row.exemptAuthor /\ r.forgeable = FALSE /\ IsRow(r)
  BY <1>1 DEF RowOK, IsRow
<1> HIDE DEF r
<1>3. RowOK(r, detail)
  BY <1>1, <1>2 DEF RowOK, RowShape, RefusalShape, GrantOK
<1> QED
  BY <1>1, <1>3, RowFrame

\* No audit changes what is on GitHub.
LEMMA AuditsLeaveTheWorld ==
    ASSUME AuditNext
    PROVE  UNCHANGED world
<1>1. ASSUME NEW c, NEW listed, NEW answered, NEW checks, NEW clean,
             SyncAudit(c, listed, answered, checks, clean)
      PROVE  UNCHANGED world
  BY <1>1 DEF SyncAudit
<1>2. ASSUME NEW kind, ReAudit(kind) PROVE UNCHANGED world
  BY <1>2 DEF ReAudit
<1>3. Backfill => UNCHANGED world
  BY DEF Backfill
<1>4. AnnotateCommits => UNCHANGED world
  BY DEF AnnotateCommits
<1> QED
  BY <1>1, <1>2, <1>3, <1>4 DEF AuditNext

\* An audit leaves the world alone, and the world moves only before it.
LEMMA AuditStep ==
    ASSUME WorldOK, RowInv, [Next]_vars
    PROVE  WorldOK' /\ RowInv'
<1>1. CASE row = NoRow /\ WorldNext /\ UNCHANGED <<detail, row>>
  BY <1>1, WorldStep DEF RowInv
<1>2. ASSUME UNCHANGED world PROVE WorldOK'
  BY <1>2, WorldStep
<1>3. ASSUME NEW c \in UnauditedCommits, NEW checks \in CheckHistories, NEW clean \in CleanReverts,
             NEW listed \in SUBSET PRsOf(c), NEW answered,
             SyncAudit(c, listed, answered, checks, clean)
      PROVE  WorldOK' /\ RowInv'
  BY <1>2, <1>3, SyncAuditKeeps DEF SyncAudit
<1>4. ASSUME NEW kind \in Kinds, ReAudit(kind) PROVE WorldOK' /\ RowInv'
  BY <1>2, <1>4, ReAuditKeeps DEF ReAudit
<1>5. CASE Backfill
  BY <1>2, <1>5, BackfillKeeps DEF Backfill
<1>6. CASE AnnotateCommits
  BY <1>2, <1>6, AnnotateKeeps DEF AnnotateCommits
<1>7. CASE UNCHANGED vars
  <2>1. CASE row = NoRow
    BY <1>2, <1>7, <2>1 DEF RowInv, vars
  <2>2. CASE row # NoRow
    BY <1>2, <1>7, <2>2, RowFrame DEF RowInv, vars
  <2> QED
    BY <2>1, <2>2
<1> QED
  BY <1>1, <1>3, <1>4, <1>5, <1>6, <1>7 DEF Next, AuditNext

\* In every state of an audit the world is well formed and so is the row: the
\* type invariant and the strengthening that the theorems on verdicts rest on,
\* for any accounts, pull requests, answers of the API and bounds.
THEOREM RowsWellFounded == AuditSpec => [](WorldOK /\ RowInv)
<1>1. AuditInit => WorldOK /\ RowInv
  BY WorldInit DEF AuditInit, RowInv
<1> QED
  BY <1>1, AuditStep, PTL DEF AuditSpec

-----------------------------------------------------------------------------
(* The theorems on the audited row. *)

\* What the summary, the per-repository counts and the workbook say of a row
\* agree, whatever audit wrote it (report.go and xlsx.go over audit_results).
THEOREM ReportsAgree == AuditSpec => []AccountsAgree
<1>1. RowInv => AccountsAgree
  BY AccountsAgreeShape DEF RowInv, RowOK
<1> QED
  BY <1>1, RowsWellFounded, PTL

\* The action that the workbook asks for on a refused row names a reason the
\* row gives.
THEOREM ActionsNameReasons == AuditSpec => []ActionNamesAReason
<1>1. RowInv => ActionNamesAReason
  BY ActionNamesAReasonShape DEF RowInv, RowOK
<1> QED
  BY <1>1, RowsWellFounded, PTL

\* A justified grant under which no human commit went unreviewed.
LEMMA GrantReviewed ==
    ASSUME WorldOK, NEW r, NEW D, IsMain(r.commit), KnownOK(r.commit, r.known), GrantOK(r, D)
    PROVE  CASE r.why = "exempt" ->
                /\ isExemptCommit(r.commit)
                /\ \A p \in r.known.prs : r.known.linked => HumanWork(p) = {}
             [] r.why = "approved" ->
                /\ r.pr \in PRsOf(r.commit)
                /\ r.known.linked => Reviewed(r.pr, {})
             [] r.why = "refreshed" ->
                /\ r.pr \in PRsOf(r.commit)
                /\ r.known.linked => Reviewed(r.pr, {pr[r.pr].mergeCommit})
             [] r.why = "empty" ->
                \/ r.commit.content = "empty"
                \/ r.by = "failures"
                \/ r.by # "sync" /\ r.commit.sha \notin D
             [] OTHER -> r.known.clean
<1>1. r.known.prs \subseteq PRsOf(r.commit) /\ PRsOf(r.commit) \subseteq Numbers
  BY DEF KnownOK, PRsOf
<1>2. Justified(r.why, r.pr, r.commit, r.known)
  BY DEF GrantOK
<1>3. CASE r.why = "exempt"
  BY <1>2, <1>3 DEF Justified
<1>4. CASE r.why = "approved"
  <2>1. r.pr \in PRsOf(r.commit) /\ r.pr \in Numbers
        /\ (r.known.linked => OthersApproval(r.commit, r.pr))
    BY <1>1, <1>2, <1>4 DEF Justified
  <2>2. r.known.linked => Reviewed(r.pr, {})
    BY <2>1, OthersApprovalReviews
  <2> QED
    BY <1>4, <2>1, <2>2
<1>5. CASE r.why = "refreshed"
  BY <1>1, <1>2, <1>5 DEF Justified
<1>6. CASE r.why = "empty"
  BY <1>6 DEF GrantOK
<1>7. CASE r.why = "clean revert"
  BY <1>2, <1>7 DEF Justified
<1> QED
  BY <1>2, <1>3, <1>4, <1>5, <1>6, <1>7 DEF Justified

\* A compliant row covers no human work that nobody else has seen, for any
\* history of pushes, reviews, dismissals and merges, any links and any answers
\* of the API: the rule list of EvaluateCommit as sync, re-audit and
\* backfill-missing-prs run it.
THEOREM Compliance == AuditSpec => []CompliantMeansReviewed
<1>1. WorldOK /\ RowInv => CompliantMeansReviewed
  BY GrantReviewed DEF RowInv, RowOK, CompliantMeansReviewed
<1> QED
  BY <1>1, RowsWellFounded, PTL

\* Missing evidence never helps: what sync grants while fetches fail and pull
\* requests are not listed, it would grant with every answer at hand.
THEOREM FailClosed == AuditSpec => []ErrorsFailClosed
<1>1. ASSUME WorldOK, RowInv PROVE ErrorsFailClosed
  <2> DEFINE c     == row.commit
             prs   == IF row.why = "exempt" THEN row.known.prs ELSE PRsOf(c)
             known == [row.known EXCEPT !.prs = prs]
  <2> SUFFICES ASSUME row # NoRow, row.by = "sync", row.compliant, row.why # "refreshed"
               PROVE  EvaluateCommit(Stored(c), SyncEvidence(known), Fetcher(c, prs, Shas(c, prs))).compliant
    BY DEF ErrorsFailClosed
  <2>1. RowOK(row, detail)
    BY <1>1 DEF RowInv
  <2>2. /\ IsMain(c) /\ KnownOK(c, row.known) /\ row.known.linked
        /\ Justified(row.why, row.pr, c, row.known)
        /\ row.why = "empty" => c.content = "empty"
        /\ row.why = "approved" => prDelivers(pr[row.pr])
    BY <2>1 DEF RowOK, GrantOK
  <2>3. /\ row.known.prs \subseteq PRsOf(c) /\ PRsOf(c) \subseteq Numbers
        /\ row.known.linked = TRUE /\ row.known.clean \in BOOLEAN
    BY <2>2 DEF KnownOK, PRsOf
  <2>4. /\ known.prs = prs /\ known.linked = TRUE
        /\ known.clean = row.known.clean /\ known.checks = row.known.checks
    BY <2>2 DEF KnownOK
  <2>5. /\ prs \in SUBSET Numbers /\ row.known.prs \subseteq prs
        /\ row.why = "exempt" => prs = row.known.prs
    BY <2>3
  <2> HIDE DEF prs, known, c
  <2> QED
    BY <1>1, <2>2, <2>3, <2>4, <2>5, FullGrants
<1> QED
  BY <1>1, RowsWellFounded, PTL

\* From the database alone no new ground for compliance appears: an action
\* property, proved of each step from what the row invariant says of a refusal.
THEOREM NeverForgives == AuditSpec => ReauditNeverForgives
<1> DEFINE Kept == row # NoRow /\ row' # row /\ ~row.compliant
                   /\ row'.by \in {"bulk", "single"} /\ row.commit.sha \in detail
                   => \/ ~row'.compliant
                      \/ row'.why = "refreshed"
                      \/ row'.why = "approved" /\ ~prDelivers(pr[row'.pr])
<1>1. ASSUME WorldOK, RowInv, [Next]_vars PROVE [Kept]_vars
  <2> SUFFICES ASSUME row # NoRow, row' # row, ~row.compliant,
                      row'.by \in {"bulk", "single"}, row.commit.sha \in detail
               PROVE  \/ ~row'.compliant
                      \/ row'.why = "refreshed"
                      \/ row'.why = "approved" /\ ~prDelivers(pr[row'.pr])
    OBVIOUS
  <2>1. RowOK(row, detail)
    BY <1>1 DEF RowInv
  <2>2. PICK kind \in Kinds : ReAudit(kind)
    <3>1. ASSUME Backfill PROVE row'.by = "backfill"
      BY <3>1 DEF Backfill, AuditRow
    <3>2. ~AnnotateCommits
      BY <2>1 DEF AnnotateCommits, RowOK, RowShape
    <3>3. UnauditedCommits = {}
      BY DEF UnauditedCommits
    <3>4. row # NoRow /\ ~UNCHANGED vars
      BY DEF vars
    <3> QED
      BY <1>1, <3>1, <3>2, <3>3, <3>4 DEF Next, AuditNext
  <2> DEFINE records == IF kind = "single" THEN pr ELSE WithoutBase
             d == EvaluateCommit(Stored(row.commit),
                                 Evidence(row.known, records, StoredCommits(row.commit, row.known)),
                                 NoFetcher(row.commit, row.known.prs))
  <2>3. kind # "failures" /\ row' = AuditRow(row.commit, d, kind, row.known)
    <3>1. row'.by = kind
      BY <2>2 DEF ReAudit, AuditRow
    <3>2. kind # "failures"
      BY <3>1
    <3>3. loadCandidateCommit(kind) = Stored(row.commit)
      BY <3>2 DEF loadCandidateCommit
    <3> QED
      BY <2>2, <3>2, <3>3 DEF ReAudit, Offline, buildEnrichmentFromDB, buildEnrichmentFromBundle
  <2>4. /\ IsMain(row.commit) /\ row.known.prs \subseteq Numbers /\ row.known.clean \in BOOLEAN
        /\ Unforgiven(row.commit, row.known, detail)
    BY <2>1 DEF RowOK, KnownOK, PRsOf
  <2>5. \A p \in Numbers : AsPull(records[p], p)
    BY DEF AsPull, WithoutBase
  <2> HIDE DEF records
  <2>6. \/ ~d.compliant
        \/ d.why = "refreshed"
        \/ d.why = "approved" /\ ~prDelivers(pr[d.pr])
    BY <1>1, <2>4, <2>5, OfflineForgives
  <2> HIDE DEF d
  <2> QED
    BY <2>3, <2>6 DEF AuditRow
<1> QED
  BY <1>1, RowsWellFounded, PTL DEF AuditSpec, ReauditNeverForgives

-----------------------------------------------------------------------------
(* The history of reviews: what the rows tell of who stands. *)

\* Row i is a verdict of a's on the commit, given before the pull request
\* merged.
Given(R, pull, a, sha, i) ==
    /\ i \in 1..Len(R)
    /\ R[i].reviewer = a /\ R[i].sha = sha /\ R[i].was # "COMMENTED"
    /\ ~AfterMerge(R[i].at, pull)

\* The last such verdict.
LastGiven(R, pull, a, sha, i) ==
    Given(R, pull, a, sha, i) /\ \A j \in 1..Len(R) : Given(R, pull, a, sha, j) => j <= i

\* An approval, dismissals after the merge undone.
Counts(rv, pull) ==
    \/ rv.state = "APPROVED"
    \/ rv.state = "DISMISSED" /\ rv.was = "APPROVED" /\ AfterMerge(rv.dismissedAt, pull)

Undated(rv) == rv.state = "DISMISSED" /\ rv.dismissedAt = 0

\* The i-th row is of the past, and a dismissal alone changed its state.
RowHistory(rv, i, t) ==
    /\ rv.id = i /\ rv.at <= t /\ rv.dismissedAt <= t
    /\ rv.state = rv.was \/ (rv.state = "DISMISSED" /\ rv.was # "COMMENTED")

\* Rows of one reviewer in one instant.
Twice(R, i, j) == R[i].reviewer = R[j].reviewer /\ R[i].at = R[j].at

\* The rows are in submission order, at most two of a reviewer in an instant, and
\* only a verdict is ever dismissed.
History(R, t) ==
    /\ \A i \in 1..Len(R) : RowHistory(R[i], i, t)
    /\ \A i, j \in 1..Len(R) : i < j => R[i].at <= R[j].at
    /\ \A i, j, k \in 1..Len(R) : Twice(R, i, j) /\ Twice(R, i, k) => i = j \/ i = k \/ j = k

\* An approval stands whose row is the last verdict and counts; a dismissal without
\* a date leaves it open.
StandsAt(R, pull, S, a, sha) ==
    /\ \A i \in 1..Len(R) :
          LastGiven(R, pull, a, sha, i) /\ Counts(R[i], pull) => <<a, sha>> \in S
    /\ <<a, sha>> \in S =>
          \E i \in 1..Len(R) :
             /\ LastGiven(R, pull, a, sha, i) /\ R[i].was = "APPROVED"
             /\ Counts(R[i], pull) \/ Undated(R[i])

\* The review rows tell who stands: the invariant behind the two theorems on
\* the merge.
ReviewsTell ==
    /\ DOMAIN standing = Numbers
    /\ \A p \in Numbers :
          /\ pr[p].mergedAt <= now /\ History(reviews[p], now)
          /\ \A a, sha : StandsAt(reviews[p], pr[p], standing[p], a, sha)

\* While no review changes: a later instant, or a merge at this one.
LEMMA UnreviewedTells ==
    ASSUME NEW R \in Seq(Rows), NEW t \in Nat, NEW u \in Nat, t <= u, History(R, t),
           NEW pull, NEW merged, \A d \in Nat : d <= t => (AfterMerge(d, pull) <=> AfterMerge(d, merged)),
           NEW S, \A a, sha : StandsAt(R, pull, S, a, sha)
    PROVE  /\ History(R, u)
           /\ \A a, sha : StandsAt(R, merged, S, a, sha)
<1>1. \A i \in 1..Len(R) : R[i] \in Rows
  OBVIOUS
<1>2. \A i \in 1..Len(R) : /\ R[i].at \in Nat /\ R[i].dismissedAt \in Nat
                           /\ R[i].at <= t /\ R[i].dismissedAt <= t
  BY <1>1 DEF History, RowHistory, Rows
<1>3. History(R, u)
  BY <1>2 DEF History, RowHistory
<1>4. \A i \in 1..Len(R) : /\ AfterMerge(R[i].at, pull) <=> AfterMerge(R[i].at, merged)
                           /\ AfterMerge(R[i].dismissedAt, pull) <=> AfterMerge(R[i].dismissedAt, merged)
  BY <1>2
<1>5. ASSUME NEW a, NEW sha PROVE StandsAt(R, merged, S, a, sha)
  <2>1. \A i \in 1..Len(R) : Given(R, pull, a, sha, i) <=> Given(R, merged, a, sha, i)
    BY <1>4 DEF Given
  <2>2. \A i \in 1..Len(R) : LastGiven(R, pull, a, sha, i) <=> LastGiven(R, merged, a, sha, i)
    BY <2>1 DEF LastGiven
  <2>3. \A i \in 1..Len(R) : Counts(R[i], pull) <=> Counts(R[i], merged)
    BY <1>4 DEF Counts
  <2>4. StandsAt(R, pull, S, a, sha)
    OBVIOUS
  <2> QED
    BY <2>2, <2>3, <2>4 DEF StandsAt
<1> QED
  BY <1>3, <1>5

\* The approvals that stand after a review.
AfterSubmit(S, rv, t, pull) ==
    IF AfterMerge(t, pull) \/ rv.state = "COMMENTED" THEN S
    ELSE IF rv.state = "APPROVED" THEN S \cup {<<rv.reviewer, rv.sha>>}
         ELSE S \ {<<rv.reviewer, rv.sha>>}

\* A review more, before or after the merge, and the rows still tell.
LEMMA SubmittedTells ==
    ASSUME NEW R \in Seq(Rows), NEW t \in Nat, History(R, t),
           NEW rv \in Rows, rv.id = Len(R) + 1, rv.at = t, rv.dismissedAt = 0, rv.state = rv.was,
           \A i, j \in 1..Len(R) :
              R[i].reviewer = rv.reviewer /\ R[i].at = t /\ R[j].reviewer = rv.reviewer /\ R[j].at = t
                => i = j,
           NEW pull, pull.mergedAt \in Nat, NEW S,
           \A a, sha : StandsAt(R, pull, S, a, sha)
    PROVE  /\ History(Append(R, rv), t)
           /\ \A a, sha : StandsAt(Append(R, rv), pull, AfterSubmit(S, rv, t, pull), a, sha)
<1> DEFINE n == Len(R)
           S2 == AfterSubmit(S, rv, t, pull)
           Q == Append(R, rv)
<1>1. /\ n \in Nat /\ Len(Q) = n + 1 /\ Q[n + 1] = rv
      /\ \A i \in 1..n : Q[i] = R[i] /\ R[i] \in Rows
      /\ 1..(n + 1) = 1..n \cup {n + 1}
  OBVIOUS
<1>5. S2 = IF AfterMerge(t, pull) \/ rv.state = "COMMENTED" THEN S
           ELSE IF rv.state = "APPROVED" THEN S \cup {<<rv.reviewer, rv.sha>>}
                ELSE S \ {<<rv.reviewer, rv.sha>>}
  BY DEF AfterSubmit
<1>2. \A i \in 1..n : R[i].at \in Nat /\ R[i].at <= t /\ R[i].id = i
  BY <1>1 DEF History, RowHistory, Rows
<1> HIDE DEF Q, n, S2
<1>3. History(Q, t)
  <2>1. \A i \in 1..(n + 1) : RowHistory(Q[i], i, t)
    BY <1>1 DEF History, RowHistory, n
  <2>2. \A i, j \in 1..(n + 1) : i < j => Q[i].at <= Q[j].at
    <3> SUFFICES ASSUME NEW i \in 1..(n + 1), NEW j \in 1..(n + 1), i < j PROVE Q[i].at <= Q[j].at
      OBVIOUS
    <3>1. i \in 1..n
      BY <1>1
    <3>2. CASE j \in 1..n
      BY <1>1, <3>1, <3>2 DEF History, n
    <3>3. CASE j = n + 1
      BY <1>1, <1>2, <3>1, <3>3
    <3> QED
      BY <1>1, <3>2, <3>3
  <2>3. ASSUME NEW i \in 1..(n + 1), NEW j \in 1..(n + 1), NEW k \in 1..(n + 1),
               Twice(Q, i, j), Twice(Q, i, k)
        PROVE  i = j \/ i = k \/ j = k
    <3>1. CASE i \in 1..n /\ j \in 1..n /\ k \in 1..n
      <4>1. Twice(R, i, j) /\ Twice(R, i, k)
        BY <1>1, <2>3, <3>1 DEF Twice
      <4> QED
        BY <3>1, <4>1 DEF History, n
    <3>2. CASE i = n + 1 /\ j \in 1..n /\ k \in 1..n
      <4>1. R[j].reviewer = rv.reviewer /\ R[j].at = t /\ R[k].reviewer = rv.reviewer /\ R[k].at = t
        BY <1>1, <2>3, <3>2 DEF Twice
      <4> QED
        BY <3>2, <4>1 DEF n
    <3>3. CASE i \in 1..n /\ j = n + 1 /\ k \in 1..n
      <4>1. R[i].reviewer = rv.reviewer /\ R[i].at = t /\ R[k].reviewer = rv.reviewer /\ R[k].at = t
        BY <1>1, <2>3, <3>3 DEF Twice
      <4> QED
        BY <3>3, <4>1 DEF n
    <3>4. CASE i \in 1..n /\ j \in 1..n /\ k = n + 1
      <4>1. R[i].reviewer = rv.reviewer /\ R[i].at = t /\ R[j].reviewer = rv.reviewer /\ R[j].at = t
        BY <1>1, <2>3, <3>4 DEF Twice
      <4> QED
        BY <3>4, <4>1 DEF n
    <3> QED
      BY <1>1, <3>1, <3>2, <3>3, <3>4
  <2> QED
    BY <1>1, <2>1, <2>2, <2>3 DEF History
<1>4. ASSUME NEW a, NEW sha PROVE StandsAt(Q, pull, S2, a, sha)
  <2>0. StandsAt(R, pull, S, a, sha)
    OBVIOUS
  <2>1. \A i \in 1..n : Given(Q, pull, a, sha, i) <=> Given(R, pull, a, sha, i)
    BY <1>1 DEF Given, n
  <2>2. CASE ~Given(Q, pull, a, sha, n + 1)
    <3>1. \A i : LastGiven(Q, pull, a, sha, i) <=> LastGiven(R, pull, a, sha, i)
      BY <1>1, <2>1, <2>2 DEF LastGiven, Given, n
    <3>2. <<a, sha>> \in S2 <=> <<a, sha>> \in S
      BY <1>1, <1>5, <2>2 DEF Given
    <3>3. ~LastGiven(Q, pull, a, sha, n + 1)
      BY <2>2 DEF LastGiven
    <3> QED
      BY <1>1, <2>0, <3>1, <3>2, <3>3 DEF StandsAt, n
  <2>3. CASE Given(Q, pull, a, sha, n + 1)
    <3>1. /\ a = rv.reviewer /\ sha = rv.sha /\ rv.state # "COMMENTED" /\ ~AfterMerge(t, pull)
      BY <1>1, <2>3 DEF Given
    <3>2. \A i \in 1..(n + 1) : LastGiven(Q, pull, a, sha, i) <=> i = n + 1
      BY <1>1, <2>3 DEF LastGiven, Given
    <3>3. rv.was \in States \ {"DISMISSED"}
      BY DEF Rows
    <3>4. Counts(rv, pull) <=> rv.state = "APPROVED"
      BY <3>3 DEF Counts
    <3>5. <<a, sha>> \in S2 <=> rv.state = "APPROVED"
      BY <1>5, <3>1
    <3> QED
      BY <1>1, <3>2, <3>4, <3>5 DEF StandsAt
  <2> QED
    BY <2>2, <2>3
<1> QED
  BY <1>3, <1>4 DEF Q, S2

\* A row dismissed at d, 0 when the timeline does not say.
Withdrawn(rv, d) == [rv EXCEPT !.state = "DISMISSED", !.dismissedAt = d]

\* A dismissed row differs in its state and its date.
LEMMA WithdrawnRow ==
    ASSUME NEW rv \in Rows, NEW d
    PROVE  LET q == Withdrawn(rv, d)
           IN  /\ q.id = rv.id /\ q.reviewer = rv.reviewer /\ q.sha = rv.sha /\ q.at = rv.at
               /\ q.was = rv.was /\ q.state = "DISMISSED" /\ q.dismissedAt = d
BY DEF Rows, Withdrawn

\* The approvals that stand after a dismissal.
AfterDismissal(S, R, x, t, pull) ==
    IF AfterMerge(t, pull) \/ \E j \in (x + 1)..Len(R) :
          R[j].reviewer = R[x].reviewer /\ R[j].sha = R[x].sha /\ R[j].was # "COMMENTED"
    THEN S ELSE S \ {<<R[x].reviewer, R[x].sha>>}

\* A dismissal more, before or after the merge, and the rows still tell.
LEMMA DismissedTells ==
    ASSUME NEW R \in Seq(Rows), NEW t \in Nat, t # 0, History(R, t),
           NEW x \in 1..Len(R), R[x].state \in {"APPROVED", "CHANGES_REQUESTED"}, NEW d \in {0, t},
           NEW Q, Q = [R EXCEPT ![x] = Withdrawn(R[x], d)],
           NEW pull, pull.mergedAt \in Nat, NEW S, \A a, sha : StandsAt(R, pull, S, a, sha)
    PROVE  /\ History(Q, t)
           /\ \A a, sha : StandsAt(Q, pull, AfterDismissal(S, R, x, t, pull), a, sha)
<1> DEFINE n == Len(R)
           rv == R[x]
           S2 == AfterDismissal(S, R, x, t, pull)
<1>7. S2 = IF AfterMerge(t, pull) \/ \E j \in (x + 1)..n :
                 R[j].reviewer = rv.reviewer /\ R[j].sha = rv.sha /\ R[j].was # "COMMENTED"
           THEN S ELSE S \ {<<rv.reviewer, rv.sha>>}
  BY DEF AfterDismissal
<1>1. /\ n \in Nat /\ Len(Q) = n /\ \A i \in 1..n : R[i] \in Rows /\ (i # x => Q[i] = R[i])
  OBVIOUS
<1>2. /\ Q[x].id = rv.id /\ Q[x].reviewer = rv.reviewer /\ Q[x].sha = rv.sha /\ Q[x].at = rv.at
      /\ Q[x].was = rv.was /\ Q[x].state = "DISMISSED" /\ Q[x].dismissedAt = d
  <2>1. rv \in Rows /\ Q[x] = Withdrawn(rv, d)
    BY <1>1
  <2> QED
    BY <2>1, WithdrawnRow
<1>3. rv.was = rv.state
  BY DEF History, RowHistory
<1>4. \A i \in 1..n : /\ R[i].at \in Nat /\ R[i].at <= t /\ R[i].dismissedAt \in Nat
                      /\ Q[i].reviewer = R[i].reviewer /\ Q[i].sha = R[i].sha /\ Q[i].at = R[i].at
                      /\ Q[i].was = R[i].was /\ Q[i].id = R[i].id
  BY <1>1, <1>2 DEF History, RowHistory, Rows
<1> HIDE DEF n, rv, S2
<1>5. History(Q, t)
  <2>1. \A i \in 1..n : RowHistory(Q[i], i, t)
    <3> SUFFICES ASSUME NEW i \in 1..n PROVE RowHistory(Q[i], i, t)
      OBVIOUS
    <3>1. RowHistory(R[i], i, t)
      BY DEF History, n
    <3>2. CASE i # x
      BY <1>1, <3>1, <3>2
    <3>3. CASE i = x
      BY <1>2, <1>3, <3>1, <3>3 DEF RowHistory, rv
    <3> QED
      BY <3>2, <3>3
  <2>2. \A i, j \in 1..n : i < j => Q[i].at <= Q[j].at
    BY <1>4 DEF History, n
  <2>3. \A i, j \in 1..n : Twice(Q, i, j) <=> Twice(R, i, j)
    BY <1>4 DEF Twice
  <2>4. \A i, j, k \in 1..n : Twice(Q, i, j) /\ Twice(Q, i, k) => i = j \/ i = k \/ j = k
    <3>1. \A i, j, k \in 1..n : Twice(R, i, j) /\ Twice(R, i, k) => i = j \/ i = k \/ j = k
      BY DEF History, n
    <3> QED
      BY <2>3, <3>1
  <2> QED
    BY <1>1, <2>1, <2>2, <2>4 DEF History
<1>6. ASSUME NEW a, NEW sha PROVE StandsAt(Q, pull, S2, a, sha)
  <2>0. StandsAt(R, pull, S, a, sha)
    OBVIOUS
  <2>1. \A i : Given(Q, pull, a, sha, i) <=> Given(R, pull, a, sha, i)
    BY <1>1, <1>4 DEF Given, n
  <2>2. \A i : LastGiven(Q, pull, a, sha, i) <=> LastGiven(R, pull, a, sha, i)
    BY <1>1, <2>1 DEF LastGiven, n
  <2>3. CASE ~LastGiven(R, pull, a, sha, x)
    <3>1. <<a, sha>> \in S2 <=> <<a, sha>> \in S
      <4> SUFFICES ASSUME a = rv.reviewer, sha = rv.sha, ~AfterMerge(t, pull)
                   PROVE  \E j \in (x + 1)..n : R[j].reviewer = a /\ R[j].sha = sha /\ R[j].was # "COMMENTED"
        BY <1>7
      <4>1. \A i \in 1..n : ~AfterMerge(R[i].at, pull)
        BY <1>4 DEF AfterMerge
      <4>2. Given(R, pull, a, sha, x)
        BY <1>3, <4>1 DEF Given, n, rv
      <4>3. PICK j \in 1..n : Given(R, pull, a, sha, j) /\ ~(j <= x)
        BY <2>3, <4>2 DEF LastGiven, n
      <4>4. j \in (x + 1)..n
        BY <1>1, <4>3 DEF n
      <4> QED
        BY <4>3, <4>4 DEF Given
    <3>2. \A i \in 1..n : LastGiven(R, pull, a, sha, i) => Q[i] = R[i]
      BY <1>1, <2>3
    <3> QED
      BY <1>1, <2>0, <2>2, <3>1, <3>2 DEF StandsAt, n
  <2>4. CASE LastGiven(R, pull, a, sha, x)
    <3>1. Given(R, pull, a, sha, x) /\ a = rv.reviewer /\ sha = rv.sha
      BY <2>4 DEF LastGiven, Given, rv
    <3>2. \A i \in 1..n : LastGiven(R, pull, a, sha, i) <=> i = x
      BY <1>1, <2>4, <3>1 DEF LastGiven, n
    <3>6. ASSUME Counts(Q[x], pull) => <<a, sha>> \in S2,
                 <<a, sha>> \in S2 => Q[x].was = "APPROVED" /\ (Counts(Q[x], pull) \/ Undated(Q[x]))
          PROVE  StandsAt(Q, pull, S2, a, sha)
      BY <1>1, <2>2, <2>4, <3>2, <3>6 DEF StandsAt, n
    <3>3. CASE AfterMerge(t, pull) /\ d = t
      <4>1. Counts(Q[x], pull) <=> Counts(R[x], pull)
        BY <1>2, <1>3, <3>3 DEF Counts, rv
      <4>2. S2 = S /\ ~Undated(R[x])
        BY <1>7, <3>3 DEF Undated
      <4>3. <<a, sha>> \in S => R[x].was = "APPROVED" /\ (Counts(R[x], pull) \/ Undated(R[x]))
        BY <2>0, <3>2 DEF StandsAt, n
      <4>4. Counts(R[x], pull) => <<a, sha>> \in S
        BY <2>0, <2>4 DEF StandsAt, n
      <4> QED
        BY <1>4, <3>6, <4>1, <4>2, <4>3, <4>4 DEF n
    <3>4. CASE AfterMerge(t, pull) /\ d = 0
      <4>1. ~Counts(Q[x], pull) /\ Undated(Q[x])
        BY <1>2, <3>4 DEF Counts, Undated, AfterMerge
      <4>2. S2 = S
        BY <1>7, <3>4
      <4>3. <<a, sha>> \in S => R[x].was = "APPROVED" /\ (Counts(R[x], pull) \/ Undated(R[x]))
        BY <2>0, <3>2 DEF StandsAt, n
      <4>4. Counts(R[x], pull) => <<a, sha>> \in S
        BY <2>0, <2>4 DEF StandsAt, n
      <4> QED
        BY <1>4, <3>6, <4>1, <4>2, <4>3, <4>4 DEF n
    <3>5. CASE ~AfterMerge(t, pull)
      <4>1. ~Counts(Q[x], pull)
        BY <1>2, <3>5 DEF Counts, AfterMerge
      <4>2. ~ \E j \in (x + 1)..n : R[j].reviewer = a /\ R[j].sha = sha /\ R[j].was # "COMMENTED"
        <5> SUFFICES ASSUME NEW j \in (x + 1)..n, R[j].reviewer = a, R[j].sha = sha, R[j].was # "COMMENTED"
                     PROVE  FALSE
          OBVIOUS
        <5>1. j \in 1..n /\ ~(j <= x)
          BY <1>1 DEF n
        <5>2. Given(R, pull, a, sha, j)
          BY <1>4, <3>5, <5>1 DEF Given, AfterMerge, n
        <5> QED
          BY <2>4, <5>1, <5>2 DEF LastGiven, n
      <4>3. <<a, sha>> \notin S2
        BY <1>7, <3>1, <3>5, <4>2
      <4> QED
        BY <3>6, <4>1, <4>3
    <3> QED
      BY <3>3, <3>4, <3>5
  <2> QED
    BY <2>3, <2>4
<1> QED
  BY <1>5, <1>6 DEF S2

-----------------------------------------------------------------------------
(* Every step of the world keeps the rows telling. *)

\* A finite set of fewer than two elements has one at most.
LEMMA AtMostOne ==
    ASSUME NEW T, IsFiniteSet(T), Cardinality(T) < 2, NEW x \in T, NEW y \in T
    PROVE  x = y
<1> SUFFICES ASSUME x # y PROVE FALSE
  OBVIOUS
<1>1. Cardinality({x, y}) = 2 /\ IsFiniteSet({x, y})
  <2>1. IsFiniteSet({y}) /\ Cardinality({y}) = 1
    BY FS_Singleton
  <2>2. {x, y} = {y} \cup {x} /\ x \notin {y}
    OBVIOUS
  <2> QED
    BY <2>1, <2>2, FS_AddElement
<1>2. Cardinality({x, y}) <= Cardinality(T) /\ Cardinality(T) \in Nat
  BY FS_Subset, FS_CardinalityType
<1> QED
  BY <1>1, <1>2

\* Without reviews nobody stands.
LEMMA ReviewsInit == Init => ReviewsTell
<1> SUFFICES ASSUME Init
             PROVE  ReviewsTell
  OBVIOUS
<1>0. DOMAIN standing = Numbers
  BY DEF Init
<1> SUFFICES ASSUME NEW p \in Numbers
             PROVE  /\ pr[p].mergedAt <= now /\ History(reviews[p], now)
                    /\ \A a, sha : StandsAt(reviews[p], pr[p], standing[p], a, sha)
  BY <1>0 DEF ReviewsTell
<1>1. reviews[p] = <<>> /\ standing[p] = {} /\ now = 1 /\ pr[p].mergedAt = 0
  BY DEF Init
<1>2. Len(reviews[p]) = 0 /\ 1..0 = {}
  BY <1>1
<1> QED
  BY <1>1, <1>2 DEF History, StandsAt, LastGiven, Given

\* Every step of the world keeps the rows telling.
LEMMA ReviewsStep ==
    ASSUME MaxAtOnce <= 2, WorldOK, WorldOK', ReviewsTell, [WorldNext]_world
    PROVE  ReviewsTell'
<1>1. /\ now \in Nat \ {0} /\ now' \in Nat
      /\ DOMAIN standing = Numbers
      /\ \A p \in Numbers : /\ reviews[p] \in Seq(Rows)
                            /\ pr[p].mergedAt \in Nat /\ pr[p].mergedAt <= now
  BY DEF WorldOK, ReviewsOK, PullsOK, Pulls, ReviewsTell
<1>2. ASSUME UNCHANGED <<reviews, standing>>, now <= now',
             \A p \in Numbers : /\ pr'[p].mergedAt <= now'
                                /\ \A d \in Nat : d <= now => (AfterMerge(d, pr[p]) <=> AfterMerge(d, pr'[p]))
      PROVE  ReviewsTell'
  <2>0. DOMAIN standing' = Numbers
    BY <1>1, <1>2
  <2> SUFFICES ASSUME NEW p \in Numbers
               PROVE  /\ pr'[p].mergedAt <= now' /\ History(reviews'[p], now')
                      /\ \A a, sha : StandsAt(reviews'[p], pr'[p], standing'[p], a, sha)
    BY <2>0 DEF ReviewsTell
  <2>1. /\ reviews[p] \in Seq(Rows) /\ now \in Nat /\ now' \in Nat /\ History(reviews[p], now)
        /\ \A a, sha : StandsAt(reviews[p], pr[p], standing[p], a, sha)
    BY <1>1 DEF ReviewsTell
  <2>2. /\ History(reviews[p], now')
        /\ \A a, sha : StandsAt(reviews[p], pr'[p], standing[p], a, sha)
    BY <1>2, <2>1, UnreviewedTells
  <2> QED
    BY <1>2, <2>2
<1>3. CASE Tick
  <2>1. UNCHANGED <<reviews, standing, pr>> /\ now' = now + 1
    BY <1>3 DEF Tick
  <2> QED
    BY <1>1, <1>2, <2>1
<1>4. CASE UNCHANGED world
  BY <1>1, <1>2, <1>4 DEF world
<1>5. ASSUME NEW a \in Authors, NEW content \in Contents, NEW forced \in BOOLEAN, Push(a, content, forced)
      PROVE  ReviewsTell'
  <2>1. UNCHANGED <<reviews, standing, now>>
    BY <1>5 DEF Push
  <2>2. ASSUME NEW p \in Numbers PROVE pr'[p].mergedAt = pr[p].mergedAt
    <3>1. pr[p] \in Pulls
      BY DEF WorldOK, PullsOK
    <3>2. pr'[p] = pr[p] \/ \E sha : pr'[p] = [pr[p] EXCEPT !.head = sha]
      BY <1>5 DEF Push
    <3> QED
      BY <3>1, <3>2 DEF Pulls
  <2> QED
    BY <1>1, <1>2, <2>1, <2>2 DEF AfterMerge
<1>6. ASSUME NEW p \in Numbers, NEW how \in Merges, NEW by \in Reviewers \cup {Opener},
             NEW content \in NetContents(p), Merge(p, how, by, content)
      PROVE  ReviewsTell'
  <2>1. UNCHANGED <<reviews, standing, now>> /\ pr[p].mergedAt = 0
    BY <1>6 DEF Merge, Open
  <2>2. \A q \in Numbers : pr'[q].mergedAt = IF q = p THEN now ELSE pr[q].mergedAt
    <3>1. \A q \in Numbers : pr[q] \in Pulls
      BY DEF WorldOK, PullsOK
    <3>2. \A q \in Numbers \ {p} : pr'[q] = pr[q]
      BY <1>6 DEF Merge, WorldOK, PullsOK
    <3>3. \E sha : pr'[p] = [pr[p] EXCEPT !.mergedAt = now, !.mergeCommit = sha]
      BY <1>6 DEF Merge, WorldOK, PullsOK
    <3>4. pr'[p].mergedAt = now
      BY <3>1, <3>3 DEF Pulls
    <3> QED
      BY <3>2, <3>4
  <2> QED
    BY <1>1, <1>2, <2>1, <2>2 DEF AfterMerge
<1>7. ASSUME NEW p \in Numbers, NEW a \in Reviewers, NEW state \in Submissions,
             NEW sha \in 1..pr[p].head, Submit(p, a, sha, state)
      PROVE  ReviewsTell'
  <2> DEFINE R == reviews[p]
             rv == [id |-> Len(R) + 1, reviewer |-> a, state |-> state, sha |-> sha,
                    at |-> now, dismissedAt |-> 0, was |-> state]
             S2 == AfterSubmit(standing[p], rv, now, pr[p])
  <2>1. /\ UNCHANGED <<now, pr>>
        /\ reviews' = [reviews EXCEPT ![p] = Append(R, rv)]
        /\ standing' = IF Settled(p) \/ state = "COMMENTED" THEN standing
                       ELSE [standing EXCEPT ![p] = IF state = "APPROVED" THEN standing[p] \cup {<<a, sha>>}
                                                    ELSE standing[p] \ {<<a, sha>>}]
        /\ Cardinality({i \in DOMAIN R : R[i].reviewer = a /\ R[i].at = now}) < MaxAtOnce
    BY <1>7 DEF Submit
  <2>2. ASSUME NEW o \in Numbers, o # p
        PROVE  reviews'[o] = reviews[o] /\ standing'[o] = standing[o]
    BY <2>1, <2>2 DEF WorldOK, ReviewsOK
  <2>3. Settled(p) <=> AfterMerge(now, pr[p])
    BY DEF Settled, Merged, Open, AfterMerge
  <2>4. reviews'[p] = Append(R, rv) /\ standing'[p] = S2 /\ DOMAIN standing' = Numbers
    <3>1. /\ rv.reviewer = a /\ rv.sha = sha /\ rv.state = state
      OBVIOUS
    <3>2. reviews'[p] = Append(R, rv)
      BY <2>1 DEF WorldOK, ReviewsOK
    <3> HIDE DEF rv
    <3>3. S2 = IF AfterMerge(now, pr[p]) \/ state = "COMMENTED" THEN standing[p]
               ELSE IF state = "APPROVED" THEN standing[p] \cup {<<a, sha>>}
                    ELSE standing[p] \ {<<a, sha>>}
      BY <3>1 DEF AfterSubmit
    <3> QED
      BY <1>1, <2>1, <2>3, <3>2, <3>3
  <2>5. rv \in Rows
    <3>1. reviews'[p] \in Seq(Rows)
      BY DEF WorldOK, ReviewsOK
    <3>2. Append(R, rv) \in Seq(Rows) /\ R \in Seq(Rows)
      BY <1>1, <2>4, <3>1
    <3> HIDE DEF rv, R
    <3>3. Len(R) + 1 \in 1..Len(Append(R, rv)) /\ Append(R, rv)[Len(R) + 1] = rv
      BY <3>2
    <3> QED
      BY <3>2, <3>3
  <2>6. ASSUME NEW i \in 1..Len(R), NEW j \in 1..Len(R),
               R[i].reviewer = a /\ R[i].at = now, R[j].reviewer = a /\ R[j].at = now
        PROVE  i = j
    <3> DEFINE T == {k \in DOMAIN R : R[k].reviewer = a /\ R[k].at = now}
    <3>1. DOMAIN R = 1..Len(R) /\ Len(R) \in Nat
      BY <1>1
    <3>2. IsFiniteSet(T)
      <4>1. IsFiniteSet(1..Len(R))
        BY <3>1, FS_Interval
      <4> QED
        BY <3>1, <4>1, FS_Subset
    <3>3. i \in T /\ j \in T /\ Cardinality(T) < MaxAtOnce
      BY <2>1, <2>6, <3>1
    <3>4. Cardinality(T) < 2
      <4> HIDE DEF T
      <4>1. Cardinality(T) \in Nat /\ MaxAtOnce \in Nat /\ MaxAtOnce <= 2
        BY <3>2, FS_CardinalityType, PullRequestsAssumption
      <4> QED
        BY <3>3, <4>1
    <3> HIDE DEF T
    <3> QED
      BY <3>2, <3>3, <3>4, AtMostOne
  <2>7. /\ History(Append(R, rv), now)
        /\ \A b, s : StandsAt(Append(R, rv), pr[p], S2, b, s)
    <3>1. /\ R \in Seq(Rows) /\ now \in Nat /\ History(R, now) /\ pr[p].mergedAt \in Nat
          /\ \A b, s : StandsAt(R, pr[p], standing[p], b, s)
      BY <1>1 DEF ReviewsTell
    <3>2. /\ rv.id = Len(R) + 1 /\ rv.at = now /\ rv.dismissedAt = 0 /\ rv.state = rv.was
          /\ rv.reviewer = a /\ rv.sha = sha /\ rv.state = state
      OBVIOUS
    <3> HIDE DEF rv, R
    <3>3. \A i, j \in 1..Len(R) :
             R[i].reviewer = rv.reviewer /\ R[i].at = now /\ R[j].reviewer = rv.reviewer /\ R[j].at = now
               => i = j
      BY <2>6, <3>2
    <3> QED
      BY <2>5, <3>1, <3>2, <3>3, SubmittedTells
  <2> HIDE DEF rv, R, S2
  <2>8. \A o \in Numbers : /\ pr'[o].mergedAt <= now' /\ History(reviews'[o], now')
                            /\ \A b, s : StandsAt(reviews'[o], pr'[o], standing'[o], b, s)
    <3> TAKE o \in Numbers
    <3>1. CASE o = p
      BY <1>1, <2>1, <2>4, <2>7, <3>1
    <3>2. CASE o # p
      BY <1>1, <2>1, <2>2, <3>2 DEF ReviewsTell
    <3> QED
      BY <3>1, <3>2
  <2> QED
    BY <2>4, <2>8 DEF ReviewsTell
<1>8. ASSUME NEW p \in Numbers, NEW x \in DOMAIN reviews[p], NEW dated \in BOOLEAN, Dismiss(p, x, dated)
      PROVE  ReviewsTell'
  <2> DEFINE R == reviews[p]
             d == IF dated THEN now ELSE 0
             Q == [R EXCEPT ![x] = Withdrawn(R[x], d)]
             later == \E j \in (x + 1)..Len(R) :
                         R[j].reviewer = R[x].reviewer /\ R[j].sha = R[x].sha /\ R[j].was # "COMMENTED"
             S2 == AfterDismissal(standing[p], R, x, now, pr[p])
  <2>1. /\ UNCHANGED <<now, pr>> /\ R[x].state \in {"APPROVED", "CHANGES_REQUESTED"}
        /\ reviews' = [reviews EXCEPT ![p][x].state = "DISMISSED", ![p][x].dismissedAt = d]
        /\ standing' = IF Settled(p) \/ x \notin Latest(p, R[x].reviewer, R[x].sha) THEN standing
                       ELSE [standing EXCEPT ![p] = standing[p] \ {<<R[x].reviewer, R[x].sha>>}]
    BY <1>8 DEF Dismiss
  <2>2. R \in Seq(Rows) /\ x \in 1..Len(R) /\ reviews \in [Numbers -> Seq(Rows)]
    BY <1>1 DEF WorldOK, ReviewsOK
  <2>3. reviews' = [reviews EXCEPT ![p] = Q]
    BY <2>1, <2>2 DEF Withdrawn
  <2>4. ASSUME NEW o \in Numbers, o # p
        PROVE  reviews'[o] = reviews[o] /\ standing'[o] = standing[o]
    BY <2>1, <2>2, <2>3, <2>4
  <2>5. Settled(p) <=> AfterMerge(now, pr[p])
    BY DEF Settled, Merged, Open, AfterMerge
  <2>6. x \in Latest(p, R[x].reviewer, R[x].sha) <=> ~later
    <3>1. R[x].was # "COMMENTED"
      BY <2>1, <2>2 DEF ReviewsTell, History, RowHistory
    <3> QED
      BY <2>2, <3>1 DEF Latest
  <2>7. reviews'[p] = Q /\ standing'[p] = S2 /\ DOMAIN standing' = Numbers
    <3>1. S2 = IF AfterMerge(now, pr[p]) \/ later THEN standing[p]
               ELSE standing[p] \ {<<R[x].reviewer, R[x].sha>>}
      BY DEF AfterDismissal
    <3> HIDE DEF Q, later, S2
    <3> QED
      BY <1>1, <2>1, <2>2, <2>3, <2>5, <2>6, <3>1
  <2>8. History(Q, now) /\ \A b, s : StandsAt(Q, pr[p], S2, b, s)
    <3>1. /\ now \in Nat /\ now # 0 /\ History(R, now) /\ pr[p].mergedAt \in Nat /\ d \in {0, now}
          /\ \A b, s : StandsAt(R, pr[p], standing[p], b, s)
      BY <1>1 DEF ReviewsTell
    <3> HIDE DEF d, R
    <3> QED
      BY <2>1, <2>2, <3>1, DismissedTells
  <2> HIDE DEF R, Q, S2
  <2>9. \A o \in Numbers : /\ pr'[o].mergedAt <= now' /\ History(reviews'[o], now')
                            /\ \A b, s : StandsAt(reviews'[o], pr'[o], standing'[o], b, s)
    <3> TAKE o \in Numbers
    <3>1. CASE o = p
      BY <1>1, <2>1, <2>7, <2>8, <3>1
    <3>2. CASE o # p
      BY <1>1, <2>1, <2>4, <3>2 DEF ReviewsTell
    <3> QED
      BY <3>1, <3>2
  <2> QED
    BY <2>7, <2>9 DEF ReviewsTell
<1> QED
  BY <1>3, <1>4, <1>5, <1>6, <1>7, <1>8 DEF WorldNext

-----------------------------------------------------------------------------
(* The fold: what a reviewer's entry says after some of the rows. *)

\* The fold considers row i for reviewer a.
Mine(rows, pull, a, i) == Considered(rows[i], pull) /\ rows[i].reviewer = a
\* And the row is a verdict.
Says(rows, pull, a, i) == Mine(rows, pull, a, i) /\ rows[i].was # "COMMENTED"

\* Rows that are read in the order of their instants: id is the order of submission.
InReadOrder(rows) ==
    /\ \A i \in 1..Len(rows) : \E n, t : RowHistory(rows[i], n, t)
    /\ \A i, j \in 1..Len(rows) : i < j => rows[i].at <= rows[j].at
    /\ \A i, j \in 1..Len(rows) : rows[i].id = rows[j].id => i = j
    /\ \A i, j \in 1..Len(rows) : rows[i].id < rows[j].id => rows[i].at <= rows[j].at
    /\ \A i, j, k \in 1..Len(rows) : Twice(rows, i, j) /\ Twice(rows, i, k) => i = j \/ i = k \/ j = k

\* Row k is the fold's entry for a after n rows.
Entry(rows, pull, a, n, k) ==
    /\ k \in 1..n /\ Mine(rows, pull, a, k)
    /\ \A j \in 1..n : Says(rows, pull, a, j) => rows[j].at <= rows[k].at
    /\ IF Counts(rows[k], pull)
       THEN \A j \in 1..n : Says(rows, pull, a, j) => rows[j].id <= rows[k].id
       ELSE \A j \in 1..n : Says(rows, pull, a, j) /\ Counts(rows[j], pull) =>
               \E m \in 1..n : Says(rows, pull, a, m) /\ rows[j].id < rows[m].id

\* What the fold's entry v of a says after n rows.
Folded(v, rows, pull, a, n) ==
    IF v = NoReview THEN \A j \in 1..n : ~Mine(rows, pull, a, j)
    ELSE \E k \in 1..n : Entry(rows, pull, a, n, k) /\ v = AsOfMerge(rows[k], pull)

\* AsOfMerge changes the state alone, and leaves an approval where it counts.
LEMMA AsOfMergeTells ==
    ASSUME NEW rv \in Rows, NEW n, NEW t, RowHistory(rv, n, t), NEW pull
    PROVE  /\ AsOfMerge(rv, pull).at = rv.at /\ AsOfMerge(rv, pull).id = rv.id
           /\ AsOfMerge(rv, pull).state = "APPROVED" <=> Counts(rv, pull)
           /\ AsOfMerge(rv, pull).state = "COMMENTED" <=> rv.was = "COMMENTED"
           /\ AsOfMerge(rv, pull) # NoReview
<1>1. CASE ~DismissedAfterMerge(rv, pull)
  <2>1. AsOfMerge(rv, pull) = rv
    BY <1>1 DEF AsOfMerge
  <2>2. rv # NoReview
    BY PullRequestsAssumption DEF Rows, States
  <2>3. rv.state = "APPROVED" <=> Counts(rv, pull)
    BY <1>1 DEF Counts, DismissedAfterMerge
  <2>4. rv.state = "COMMENTED" <=> rv.was = "COMMENTED"
    BY DEF RowHistory
  <2> QED
    BY <2>1, <2>2, <2>3, <2>4
<1>2. CASE DismissedAfterMerge(rv, pull)
  <2>1. AsOfMerge(rv, pull) = [rv EXCEPT !.state = rv.was]
    BY <1>2 DEF AsOfMerge
  <2>2. /\ rv.state = "DISMISSED" /\ rv.was # "DISMISSED" /\ rv.was # "COMMENTED"
        /\ AfterMerge(rv.dismissedAt, pull)
    BY <1>2 DEF DismissedAfterMerge, RowHistory, Rows, States
  <2>3. /\ AsOfMerge(rv, pull) \in Rows
        /\ AsOfMerge(rv, pull).at = rv.at /\ AsOfMerge(rv, pull).id = rv.id
        /\ AsOfMerge(rv, pull).state = rv.was
    BY <2>1 DEF Rows, States
  <2>4. AsOfMerge(rv, pull) # NoReview
    BY <2>3, PullRequestsAssumption DEF Rows, States
  <2>5. Counts(rv, pull) <=> rv.was = "APPROVED"
    BY <2>2 DEF Counts
  <2> QED
    BY <2>2, <2>3, <2>4, <2>5
<1> QED
  BY <1>1, <1>2

\* A row that is no verdict of a's leaves his entry what it is.
LEMMA EntryStays ==
    ASSUME NEW rows \in Seq(Rows), NEW pull, NEW a, NEW n \in Nat, n + 1 \in 1..Len(rows),
           NEW k, Entry(rows, pull, a, n, k), ~Says(rows, pull, a, n + 1)
    PROVE  Entry(rows, pull, a, n + 1, k)
<1>1. 1..(n + 1) = 1..n \cup {n + 1}
  OBVIOUS
<1> QED
  BY <1>1 DEF Entry

\* When the next row displaces the entry, it becomes the entry: the approval it
\* hides was not the last word.
LEMMA EntryYields ==
    ASSUME NEW rows \in Seq(Rows), InReadOrder(rows), NEW pull, NEW a,
           NEW n \in Nat, n + 1 \in 1..Len(rows),
           NEW k, Entry(rows, pull, a, n, k), Mine(rows, pull, a, n + 1),
           Displaces(AsOfMerge(rows[n + 1], pull), AsOfMerge(rows[k], pull))
    PROVE  Entry(rows, pull, a, n + 1, n + 1)
<1> DEFINE x == n + 1
           S(j) == Says(rows, pull, a, j)
           C(j) == Counts(rows[j], pull)
<1>1. 1..x = 1..n \cup {x} /\ k \in 1..n /\ 1..x \subseteq 1..Len(rows) /\ x \notin 1..n
  BY DEF Entry
<1>2. \A j \in 1..x : /\ rows[j] \in Rows /\ rows[j].at \in Nat /\ rows[j].id \in Nat
                      /\ \E m, t : RowHistory(rows[j], m, t)
  <2>1. \A j \in 1..x : rows[j] \in Rows
    BY <1>1
  <2>2. \A j \in 1..x : rows[j].at \in Nat /\ rows[j].id \in Nat
    BY <2>1 DEF Rows
  <2>3. \A j \in 1..x : \E m, t : RowHistory(rows[j], m, t)
    BY <1>1 DEF InReadOrder
  <2> QED
    BY <2>1, <2>2, <2>3
<1>3. \A j \in 1..n : rows[j].at <= rows[x].at
  BY <1>1 DEF InReadOrder
<1> DEFINE eX == AsOfMerge(rows[x], pull)
           eK == AsOfMerge(rows[k], pull)
<1>4. /\ eX.at = rows[x].at /\ eX.id = rows[x].id
      /\ eX.state = "APPROVED" <=> C(x)
      /\ eX.state = "COMMENTED" <=> rows[x].was = "COMMENTED"
      /\ eK.at = rows[k].at /\ eK.id = rows[k].id
      /\ eK.state = "APPROVED" <=> C(k)
      /\ eK.state = "COMMENTED" <=> rows[k].was = "COMMENTED"
  BY <1>1, <1>2, AsOfMergeTells
<1> HIDE DEF eX, eK
<1>5. /\ ~(rows[x].was = "COMMENTED" /\ C(k))
      /\ \/ C(x) /\ rows[k].was = "COMMENTED"
         \/ rows[x].at > rows[k].at
         \/ rows[x].id > rows[k].id
  <2>1. Displaces(eX, eK)
    BY DEF eX, eK
  <2> QED
    BY <1>4, <2>1 DEF Displaces
<1>6. \A j \in 1..n : S(j) => rows[j].at <= rows[k].at
  BY DEF Entry
<1>7. Mine(rows, pull, a, k)
  BY DEF Entry
<1>8. \A j \in 1..x : S(j) => rows[j].at <= rows[x].at
  BY <1>1, <1>2, <1>3
<1>9. CASE C(x)
  <2>1. ASSUME NEW j \in 1..n, S(j), ~(rows[j].id <= rows[x].id) PROVE FALSE
    <3>1. rows[j].id > rows[x].id /\ rows[j].at = rows[x].at
      <4>1. rows[j].id > rows[x].id
        BY <1>1, <1>2, <2>1
      <4>2. rows[x].at <= rows[j].at
        BY <1>1, <4>1 DEF InReadOrder
      <4> QED
        BY <1>1, <1>2, <1>3, <4>1, <4>2
    <3>2. rows[k].at = rows[x].at
      BY <1>1, <1>2, <1>3, <1>6, <2>1, <3>1
    <3>3. Twice(rows, x, j) /\ Twice(rows, x, k)
      BY <1>7, <2>1, <3>1, <3>2 DEF Twice, Says, Mine
    <3>4. j = k
      BY <1>1, <3>3 DEF InReadOrder
    <3>5. rows[k].was # "COMMENTED"
      BY <2>1, <3>4 DEF Says
    <3> QED
      BY <1>1, <1>2, <1>5, <3>1, <3>2, <3>4, <3>5
  <2>2. \A j \in 1..x : S(j) => rows[j].id <= rows[x].id
    BY <1>1, <1>2, <2>1
  <2> QED
    BY <1>1, <1>8, <1>9, <2>2 DEF Entry
<1>10. CASE ~C(x)
  <2>1. ASSUME NEW j \in 1..n, S(j), C(j)
        PROVE  \E m \in 1..x : S(m) /\ rows[j].id < rows[m].id
    <3>1. CASE C(k)
      <4>1. rows[j].id <= rows[k].id
        BY <2>1, <3>1 DEF Entry
      <4>2. rows[x].was # "COMMENTED" /\ S(x)
        BY <1>5, <3>1 DEF Says
      <4>3. rows[k].id < rows[x].id
        <5>1. CASE rows[x].at > rows[k].at
          <6>1. rows[x].id # rows[k].id
            BY <1>1 DEF InReadOrder
          <6>2. ~(rows[x].id < rows[k].id)
            BY <1>1, <1>2, <5>1 DEF InReadOrder
          <6> QED
            BY <1>1, <1>2, <6>1, <6>2
        <5> QED
          BY <1>5, <1>10, <5>1
      <4>4. rows[j].id < rows[x].id
        BY <1>1, <1>2, <4>1, <4>3
      <4> QED
        BY <1>1, <4>2, <4>4
    <3>2. CASE ~C(k)
      <4>1. \E m \in 1..n : S(m) /\ rows[j].id < rows[m].id
        BY <2>1, <3>2 DEF Entry
      <4> QED
        BY <1>1, <4>1
    <3> QED
      BY <3>1, <3>2
  <2>2. \A j \in 1..x : S(j) /\ C(j) => \E m \in 1..x : S(m) /\ rows[j].id < rows[m].id
    BY <1>1, <1>10, <2>1
  <2> QED
    BY <1>1, <1>8, <1>10, <2>2 DEF Entry
<1> QED
  BY <1>9, <1>10

\* When it does not, the old entry is still right.
LEMMA EntryHolds ==
    ASSUME NEW rows \in Seq(Rows), InReadOrder(rows), NEW pull, NEW a,
           NEW n \in Nat, n + 1 \in 1..Len(rows),
           NEW k, Entry(rows, pull, a, n, k), Mine(rows, pull, a, n + 1),
           ~Displaces(AsOfMerge(rows[n + 1], pull), AsOfMerge(rows[k], pull))
    PROVE  Entry(rows, pull, a, n + 1, k)
<1> DEFINE x == n + 1
           S(j) == Says(rows, pull, a, j)
           C(j) == Counts(rows[j], pull)
<1>1. 1..x = 1..n \cup {x} /\ k \in 1..n /\ 1..x \subseteq 1..Len(rows) /\ x \notin 1..n
  BY DEF Entry
<1>2. \A j \in 1..x : /\ rows[j] \in Rows /\ rows[j].at \in Nat /\ rows[j].id \in Nat
                      /\ \E m, t : RowHistory(rows[j], m, t)
  <2>1. \A j \in 1..x : rows[j] \in Rows
    BY <1>1
  <2>2. \A j \in 1..x : rows[j].at \in Nat /\ rows[j].id \in Nat
    BY <2>1 DEF Rows
  <2>3. \A j \in 1..x : \E m, t : RowHistory(rows[j], m, t)
    BY <1>1 DEF InReadOrder
  <2> QED
    BY <2>1, <2>2, <2>3
<1>3. rows[k].at <= rows[x].at
  BY <1>1 DEF InReadOrder
<1> DEFINE eX == AsOfMerge(rows[x], pull)
           eK == AsOfMerge(rows[k], pull)
<1>4. /\ eX.at = rows[x].at /\ eX.id = rows[x].id
      /\ eX.state = "APPROVED" <=> C(x)
      /\ eX.state = "COMMENTED" <=> rows[x].was = "COMMENTED"
      /\ eK.at = rows[k].at /\ eK.id = rows[k].id
      /\ eK.state = "APPROVED" <=> C(k)
      /\ eK.state = "COMMENTED" <=> rows[k].was = "COMMENTED"
  BY <1>1, <1>2, AsOfMergeTells
<1> HIDE DEF eX, eK
<1>5. \/ rows[x].was = "COMMENTED" /\ C(k)
      \/ /\ ~(C(x) /\ rows[k].was = "COMMENTED")
         /\ rows[x].at <= rows[k].at /\ rows[x].id <= rows[k].id
  <2>1. ~Displaces(eX, eK)
    BY DEF eX, eK
  <2> QED
    BY <1>1, <1>2, <1>3, <1>4, <2>1 DEF Displaces
<1>6. CASE ~S(x)
  BY <1>6, EntryStays
<1>7. CASE S(x)
  <2>1. /\ rows[x].at <= rows[k].at /\ rows[x].id <= rows[k].id /\ rows[x].id # rows[k].id
        /\ C(x) => rows[k].was # "COMMENTED"
    BY <1>1, <1>5, <1>7 DEF Says, InReadOrder
  <2>2. rows[x].id < rows[k].id
    BY <1>1, <1>2, <2>1
  <2>3. \A j \in 1..x : S(j) => rows[j].at <= rows[k].at
    BY <1>1, <2>1 DEF Entry
  <2>4. CASE C(k)
    <3>1. \A j \in 1..x : S(j) => rows[j].id <= rows[k].id
      BY <1>1, <2>1, <2>4 DEF Entry
    <3> QED
      BY <1>1, <2>3, <2>4, <3>1 DEF Entry
  <2>5. CASE ~C(k)
    <3>1. ASSUME NEW j \in 1..x, S(j), C(j)
          PROVE  \E m \in 1..x : S(m) /\ rows[j].id < rows[m].id
      <4>1. CASE j \in 1..n
        <5>1. \E m \in 1..n : S(m) /\ rows[j].id < rows[m].id
          BY <2>5, <3>1, <4>1 DEF Entry
        <5> QED
          BY <1>1, <5>1
      <4>2. CASE j = x
        <5>1. S(k)
          BY <2>1, <3>1, <4>2 DEF Entry, Says
        <5> QED
          BY <1>1, <2>2, <4>2, <5>1
      <4> QED
        BY <1>1, <4>1, <4>2
    <3> QED
      BY <1>1, <2>3, <2>5, <3>1 DEF Entry
  <2> QED
    BY <2>4, <2>5
<1> QED
  BY <1>6, <1>7

-----------------------------------------------------------------------------
(* The fold of all the rows. *)

\* One row more.
LEMMA FoldStep ==
    ASSUME NEW rows \in Seq(Rows), InReadOrder(rows), NEW pull, NEW a \in Accounts,
           NEW n \in Nat, n + 1 \in 1..Len(rows),
           NEW s \in LatestStates(rows, pull), Folded(s[a], rows, pull, a, n)
    PROVE  Folded(Take(s, rows[n + 1], pull)[a], rows, pull, a, n + 1)
<1> DEFINE x == n + 1
           rv == AsOfMerge(rows[x], pull)
           e == Take(s, rows[x], pull)[a]
<1>1. 1..x = 1..n \cup {x} /\ x \in 1..Len(rows)
  OBVIOUS
<1>2. DOMAIN s = Accounts
  BY DEF LatestStates
<1>3. CASE ~Mine(rows, pull, a, x)
  <2>1. e = s[a]
    <3>1. CASE rows[x].reviewer = a
      BY <1>3, <3>1 DEF Take, Mine
    <3>2. CASE rows[x].reviewer # a
      BY <1>2, <3>2 DEF Take
    <3> QED
      BY <3>1, <3>2
  <2>2. CASE s[a] = NoReview
    <3>1. \A j \in 1..n : ~Mine(rows, pull, a, j)
      BY <2>2 DEF Folded
    <3>2. \A j \in 1..x : ~Mine(rows, pull, a, j)
      BY <1>1, <1>3, <3>1
    <3> QED
      BY <2>1, <2>2, <3>2 DEF Folded
  <2>3. CASE s[a] # NoReview
    <3>1. PICK k \in 1..n : Entry(rows, pull, a, n, k) /\ s[a] = AsOfMerge(rows[k], pull)
      BY <2>3 DEF Folded
    <3>2. ~Says(rows, pull, a, x)
      BY <1>3 DEF Says
    <3>3. Entry(rows, pull, a, x, k)
      BY <3>1, <3>2, EntryStays
    <3>4. k \in 1..x
      BY <1>1, <3>1
    <3> QED
      BY <2>1, <2>3, <3>1, <3>3, <3>4 DEF Folded
  <2> QED
    BY <2>2, <2>3
<1>4. CASE Mine(rows, pull, a, x)
  <2>1. Considered(rows[x], pull) /\ rows[x].reviewer = a
    BY <1>4 DEF Mine
  <2>2. e = IF s[a] = NoReview \/ Displaces(rv, s[a]) THEN rv ELSE s[a]
    BY <1>2, <2>1 DEF Take
  <2>3. rv # NoReview
    <3>1. rows[x] \in Rows
      BY <1>1
    <3>2. \E m, t : RowHistory(rows[x], m, t)
      BY <1>1 DEF InReadOrder
    <3> QED
      BY <3>1, <3>2, AsOfMergeTells
  <2>4. x \in 1..x
    BY <1>1
  <2>5. CASE s[a] = NoReview
    <3>1. \A j \in 1..n : ~Mine(rows, pull, a, j)
      BY <2>5 DEF Folded
    <3>2. \A j \in 1..x : Says(rows, pull, a, j) => j = x
      BY <1>1, <3>1 DEF Says
    <3>3. rows[x].at \in Nat /\ rows[x].id \in Nat
      <4>1. rows[x] \in Rows
        BY <1>1
      <4> QED
        BY <4>1 DEF Rows
    <3>4. Entry(rows, pull, a, x, x)
      BY <1>4, <2>4, <3>2, <3>3 DEF Entry
    <3> QED
      BY <2>2, <2>3, <2>4, <2>5, <3>4 DEF Folded
  <2>6. CASE s[a] # NoReview
    <3>1. PICK k \in 1..n : Entry(rows, pull, a, n, k) /\ s[a] = AsOfMerge(rows[k], pull)
      BY <2>6 DEF Folded
    <3>2. CASE Displaces(rv, s[a])
      <4>1. Entry(rows, pull, a, x, x)
        BY <1>4, <3>1, <3>2, EntryYields
      <4> QED
        BY <2>2, <2>3, <2>4, <3>2, <4>1 DEF Folded
    <3>3. CASE ~Displaces(rv, s[a])
      <4>1. Entry(rows, pull, a, x, k)
        BY <1>4, <3>1, <3>3, EntryHolds
      <4>2. k \in 1..x
        BY <1>1, <3>1
      <4>3. e = s[a]
        BY <2>2, <2>6, <3>3
      <4> QED
        BY <2>6, <3>1, <4>1, <4>2, <4>3 DEF Folded
    <3> QED
      BY <3>2, <3>3
  <2> QED
    BY <2>5, <2>6
<1> QED
  BY <1>3, <1>4

\* All the rows.
LEMMA FoldTells ==
    ASSUME NEW rows \in Seq(Rows), InReadOrder(rows), NEW pull, NEW a \in Accounts
    PROVE  Folded(latestReviewStatesOnFinal(rows, pull)[a], rows, pull, a, Len(rows))
<1> DEFINE K == Len(rows)
<1>1. K \in Nat
  OBVIOUS
<1>2. PICK f \in [0..K -> LatestStates(rows, pull)] :
         /\ f[0] = [x \in Accounts |-> NoReview]
         /\ \A n \in 1..K : f[n] = Take(f[n - 1], rows[n], pull)
         /\ latestReviewStatesOnFinal(rows, pull) = f[K]
  BY <1>1, LatestUnfolds
<1> DEFINE S == {n \in Nat : n <= K => Folded(f[n][a], rows, pull, a, n)}
<1>3. 0 \in S
  BY <1>2 DEF Folded
<1>4. ASSUME NEW n \in Nat, n \in S PROVE n + 1 \in S
  <2> SUFFICES ASSUME n + 1 <= K PROVE Folded(f[n + 1][a], rows, pull, a, n + 1)
    OBVIOUS
  <2>1. n + 1 \in 1..K /\ (n + 1) - 1 = n /\ n \in 0..K /\ n <= K
    BY <1>1
  <2>2. f[n + 1] = Take(f[n], rows[n + 1], pull) /\ f[n] \in LatestStates(rows, pull)
    BY <1>2, <2>1
  <2>3. Folded(f[n][a], rows, pull, a, n)
    BY <1>4, <2>1
  <2>4. Folded(Take(f[n], rows[n + 1], pull)[a], rows, pull, a, n + 1)
    BY <2>1, <2>2, <2>3, FoldStep
  <2> QED
    BY <2>2, <2>4
<1> HIDE DEF S
<1>5. Nat \subseteq S
  BY <1>3, <1>4, NatInd
<1> QED
  BY <1>1, <1>2, <1>5 DEF S

\* Whose approval of the final commit the fold finds.
LEMMA ApprovedTells ==
    ASSUME NEW rows \in Seq(Rows), InReadOrder(rows), NEW pull, NEW a \in Accounts
    PROVE  a \in ApprovedOnFinal(rows, pull) <=>
              \E i \in 1..Len(rows) :
                 /\ Says(rows, pull, a, i) /\ Counts(rows[i], pull)
                 /\ \A j \in 1..Len(rows) : Says(rows, pull, a, j) => rows[j].id <= rows[i].id
<1> DEFINE e == latestReviewStatesOnFinal(rows, pull)[a]
           K == Len(rows)
<1>1. Folded(e, rows, pull, a, K)
  BY FoldTells
<1>2. a \in ApprovedOnFinal(rows, pull) <=> e # NoReview /\ e.state = "APPROVED"
  BY DEF ApprovedOnFinal
<1>3. \A i \in 1..K : /\ rows[i] \in Rows /\ rows[i].id \in Nat
                      /\ \E m, t : RowHistory(rows[i], m, t)
  <2>1. \A i \in 1..K : rows[i] \in Rows
    OBVIOUS
  <2>2. \A i \in 1..K : rows[i].id \in Nat
    BY <2>1 DEF Rows
  <2>3. \A i \in 1..K : \E m, t : RowHistory(rows[i], m, t)
    BY DEF InReadOrder
  <2> QED
    BY <2>1, <2>2, <2>3
<1>4. \A i \in 1..K : /\ AsOfMerge(rows[i], pull).state = "APPROVED" <=> Counts(rows[i], pull)
  BY <1>3, AsOfMergeTells
<1> HIDE DEF e, K
<1>5. ASSUME e # NoReview, e.state = "APPROVED"
      PROVE  \E i \in 1..K : /\ Says(rows, pull, a, i) /\ Counts(rows[i], pull)
                             /\ \A j \in 1..K : Says(rows, pull, a, j) => rows[j].id <= rows[i].id
  <2>1. PICK k \in 1..K : Entry(rows, pull, a, K, k) /\ e = AsOfMerge(rows[k], pull)
    BY <1>1, <1>5 DEF Folded
  <2>2. Counts(rows[k], pull)
    BY <1>4, <1>5, <2>1
  <2>3. Says(rows, pull, a, k)
    <3>1. \E m, t : RowHistory(rows[k], m, t)
      BY <1>3
    <3>2. rows[k].was # "COMMENTED"
      BY <2>2, <3>1 DEF RowHistory, Counts
    <3> QED
      BY <2>1, <3>2 DEF Says, Entry
  <2>4. \A j \in 1..K : Says(rows, pull, a, j) => rows[j].id <= rows[k].id
    BY <2>1, <2>2 DEF Entry
  <2> QED
    BY <2>2, <2>3, <2>4
<1>6. ASSUME NEW i \in 1..K, Says(rows, pull, a, i), Counts(rows[i], pull),
             \A j \in 1..K : Says(rows, pull, a, j) => rows[j].id <= rows[i].id
      PROVE  e # NoReview /\ e.state = "APPROVED"
  <2>1. e # NoReview
    BY <1>1, <1>6 DEF Folded, Says
  <2>2. PICK k \in 1..K : Entry(rows, pull, a, K, k) /\ e = AsOfMerge(rows[k], pull)
    BY <1>1, <2>1 DEF Folded
  <2>3. CASE Counts(rows[k], pull)
    BY <1>4, <2>1, <2>2, <2>3
  <2>4. CASE ~Counts(rows[k], pull)
    <3>1. PICK m \in 1..K : Says(rows, pull, a, m) /\ rows[i].id < rows[m].id
      BY <1>6, <2>2, <2>4 DEF Entry
    <3> QED
      BY <1>3, <1>6, <3>1
  <2> QED
    BY <2>3, <2>4
<1> QED
  BY <1>2, <1>5, <1>6 DEF K

-----------------------------------------------------------------------------
(* The orders that rows are read in, and the approvals that stood. *)

\* What never falls from one to the next never falls.
LEMMA Climbs ==
    ASSUME NEW n \in Nat, NEW f \in [1..n -> Nat], \A i \in 2..n : f[i - 1] <= f[i]
    PROVE  \A i, j \in 1..n : i < j => f[i] <= f[j]
<1> DEFINE S == {d \in Nat : \A i \in 1..n : i + d <= n => f[i] <= f[i + d]}
<1>1. 0 \in S
  OBVIOUS
<1>2. ASSUME NEW d \in Nat, d \in S PROVE d + 1 \in S
  <2> SUFFICES ASSUME NEW i \in 1..n, i + (d + 1) <= n PROVE f[i] <= f[i + (d + 1)]
    OBVIOUS
  <2>1. i + d \in 1..n /\ i + (d + 1) \in 2..n /\ (i + (d + 1)) - 1 = i + d /\ i + (d + 1) \in 1..n
    OBVIOUS
  <2>2. f[i] <= f[i + d]
    BY <1>2, <2>1
  <2>3. f[i + d] <= f[i + (d + 1)]
    BY <2>1
  <2> QED
    BY <2>1, <2>2, <2>3
<1> HIDE DEF S
<1>3. Nat \subseteq S
  BY <1>1, <1>2, NatInd
<1> SUFFICES ASSUME NEW i \in 1..n, NEW j \in 1..n, i < j PROVE f[i] <= f[j]
  OBVIOUS
<1>4. j - i \in Nat /\ i + (j - i) = j /\ i + (j - i) <= n
  OBVIOUS
<1> QED
  BY <1>3, <1>4 DEF S

\* The rows come in an order the fold was reasoned about.
LEMMA ReadOrdersTell ==
    ASSUME NEW R \in Seq(Rows), NEW t, History(R, t), NEW rows \in ReadOrders(R)
    PROVE  /\ rows \in Seq(Rows) /\ Len(rows) = Len(R) /\ InReadOrder(rows)
           /\ \E g \in Bijection(1..Len(R), 1..Len(R)) : \A i \in 1..Len(R) : rows[i] = R[g[i]]
<1> DEFINE n == Len(R)
<1>1. n \in Nat /\ DOMAIN R = 1..n /\ \A i \in 1..n : R[i] \in Rows
  OBVIOUS
<1>2. PICK g \in [1..n -> 1..n] :
         /\ \A i \in 2..n : R[g[i - 1]].at <= R[g[i]].at
         /\ rows = [i \in 1..n |-> R[g[i]]]
         /\ IsInjective(g)
  BY <1>1 DEF ReadOrders
<1>3. \A i, j \in 1..n : g[i] = g[j] => i = j
  BY <1>2 DEF IsInjective
<1>4. \A i \in 1..n : g[i] \in 1..n /\ rows[i] = R[g[i]] /\ R[g[i]] \in Rows
  BY <1>1, <1>2, <1>3
<1>5. rows \in [1..n -> Rows]
  BY <1>2, <1>4
<1>6. rows \in Seq(Rows) /\ Len(rows) = n
  BY <1>1, <1>5
<1> HIDE DEF n
<1>7. \A i \in 1..n : rows[i].at \in Nat /\ rows[i].id = g[i] /\ RowHistory(rows[i], g[i], t)
  <2>1. \A i \in 1..n : RowHistory(R[g[i]], g[i], t)
    BY <1>4 DEF History, n
  <2> QED
    BY <1>4, <2>1 DEF Rows, RowHistory
<1>8. \A i, j \in 1..n : i < j => rows[i].at <= rows[j].at
  <2> DEFINE f == [i \in 1..n |-> rows[i].at]
  <2>1. f \in [1..n -> Nat]
    BY <1>7
  <2>2. \A i \in 2..n : f[i - 1] <= f[i]
    <3> SUFFICES ASSUME NEW i \in 2..n PROVE f[i - 1] <= f[i]
      OBVIOUS
    <3>1. i \in 1..n /\ i - 1 \in 1..n
      BY <1>1
    <3>2. rows[i - 1] = R[g[i - 1]] /\ rows[i] = R[g[i]]
      BY <1>4, <3>1
    <3> QED
      BY <1>2, <3>1, <3>2
  <2>3. \A i, j \in 1..n : i < j => f[i] <= f[j]
    <3> HIDE DEF f
    <3> QED
      BY <1>1, <2>1, <2>2, Climbs
  <2> QED
    BY <2>3
<1>9. \A i, j \in 1..n : g[i] < g[j] => rows[i].at <= rows[j].at
  BY <1>4 DEF History, n
<1>10. ASSUME NEW i \in 1..n, NEW j \in 1..n, NEW k \in 1..n, Twice(rows, i, j), Twice(rows, i, k)
       PROVE  i = j \/ i = k \/ j = k
  <2>1. Twice(R, g[i], g[j]) /\ Twice(R, g[i], g[k])
    BY <1>4, <1>10 DEF Twice
  <2>2. g[i] = g[j] \/ g[i] = g[k] \/ g[j] = g[k]
    BY <1>4, <2>1 DEF History, n
  <2> QED
    BY <1>3, <2>2
<1>11. InReadOrder(rows)
  <2>1. \A i \in 1..n : \E m, u : RowHistory(rows[i], m, u)
    BY <1>7
  <2>2. \A i, j \in 1..n : rows[i].id = rows[j].id => i = j
    BY <1>3, <1>7
  <2>3. \A i, j \in 1..n : rows[i].id < rows[j].id => rows[i].at <= rows[j].at
    BY <1>7, <1>9
  <2> QED
    BY <1>6, <1>8, <1>10, <2>1, <2>2, <2>3 DEF InReadOrder
<1>12. g \in Bijection(1..n, 1..n)
  <2>1. g \in Injection(1..n, 1..n)
    BY <1>2 DEF Injection
  <2>2. IsFiniteSet(1..n)
    BY <1>1, FS_Interval
  <2> QED
    BY <2>1, <2>2, FS_Injection DEF Bijection
<1> QED
  BY <1>4, <1>6, <1>11, <1>12 DEF n

\* In whatever order they come, the rows give the approvals of the last verdicts.
LEMMA ApprovalsAre ==
    ASSUME NEW R \in Seq(Rows), NEW t, History(R, t), NEW rows \in ReadOrders(R),
           NEW pull, NEW a \in Accounts
    PROVE  a \in ApprovedOnFinal(rows, pull) <=>
              \E i \in 1..Len(R) : LastGiven(R, pull, a, pull.head, i) /\ Counts(R[i], pull)
<1> DEFINE n == Len(R)
<1>1. /\ rows \in Seq(Rows) /\ Len(rows) = n /\ InReadOrder(rows) /\ n \in Nat
      /\ \A i \in 1..n : R[i].id = i
  <2>1. \A i \in 1..n : RowHistory(R[i], i, t)
    BY DEF History
  <2> QED
    BY <2>1, ReadOrdersTell DEF RowHistory
<1>2. PICK g \in Bijection(1..n, 1..n) : \A i \in 1..n : rows[i] = R[g[i]]
  BY ReadOrdersTell
<1>3. /\ \A i \in 1..n : g[i] \in 1..n
      /\ \A k \in 1..n : \E i \in 1..n : g[i] = k
  BY <1>2 DEF Bijection, Injection, Surjection, IsInjective
<1> DEFINE G(i) == Given(R, pull, a, pull.head, i)
<1> HIDE DEF n
<1>4. \A i \in 1..n : /\ rows[i].id = g[i] /\ rows[i] = R[g[i]]
                      /\ Says(rows, pull, a, i) <=> G(g[i])
  <2> SUFFICES ASSUME NEW i \in 1..n
               PROVE  /\ rows[i].id = g[i] /\ rows[i] = R[g[i]]
                      /\ Says(rows, pull, a, i) <=> G(g[i])
    OBVIOUS
  <2>1. rows[i] = R[g[i]] /\ g[i] \in 1..n /\ R[g[i]].id = g[i]
    BY <1>1, <1>2, <1>3
  <2>2. Says(rows, pull, a, i) <=>
           /\ rows[i].sha = pull.head /\ ~AfterMerge(rows[i].at, pull)
           /\ rows[i].reviewer = a /\ rows[i].was # "COMMENTED"
    BY DEF Says, Mine, Considered, OnFinal, Trusted
  <2>3. G(g[i]) <=>
           /\ R[g[i]].sha = pull.head /\ ~AfterMerge(R[g[i]].at, pull)
           /\ R[g[i]].reviewer = a /\ R[g[i]].was # "COMMENTED"
    BY <2>1 DEF Given, n
  <2> HIDE DEF G
  <2> QED
    BY <2>1, <2>2, <2>3
<1> DEFINE B == \E i \in 1..n :
                   /\ Says(rows, pull, a, i) /\ Counts(rows[i], pull)
                   /\ \A j \in 1..n : Says(rows, pull, a, j) => rows[j].id <= rows[i].id
<1>5. a \in ApprovedOnFinal(rows, pull) <=> B
  BY <1>1, ApprovedTells DEF n
<1> HIDE DEF G
<1>6. ASSUME NEW i \in 1..n, Says(rows, pull, a, i), Counts(rows[i], pull),
             \A j \in 1..n : Says(rows, pull, a, j) => rows[j].id <= rows[i].id
      PROVE  g[i] \in 1..n /\ LastGiven(R, pull, a, pull.head, g[i]) /\ Counts(R[g[i]], pull)
  <2>1. ASSUME NEW j \in 1..n, G(j) PROVE j <= g[i]
    <3>1. PICK k \in 1..n : g[k] = j
      BY <1>3
    <3> QED
      BY <1>4, <1>6, <2>1, <3>1
  <2>2. G(g[i])
    BY <1>4, <1>6
  <2> QED
    BY <1>3, <1>4, <1>6, <2>1, <2>2 DEF LastGiven, G, n
<1>7. ASSUME NEW k \in 1..n, LastGiven(R, pull, a, pull.head, k), Counts(R[k], pull)
      PROVE  B
  <2>1. PICK i \in 1..n : g[i] = k
    BY <1>3
  <2>2. G(k) /\ \A j \in 1..n : G(j) => j <= k
    BY <1>7 DEF LastGiven, G, n
  <2>3. Says(rows, pull, a, i) /\ Counts(rows[i], pull)
    BY <1>4, <1>7, <2>1, <2>2
  <2>4. \A j \in 1..n : Says(rows, pull, a, j) => rows[j].id <= rows[i].id
    BY <1>3, <1>4, <2>1, <2>2
  <2> QED
    BY <2>3, <2>4
<1> HIDE DEF B
<1> QED
  BY <1>5, <1>6, <1>7 DEF n, B

\* In every state the review rows, dismissals written over them, still tell
\* whose approvals stood up to the merge.  Of three reviews in one instant they
\* do not (Submit has why).
THEOREM ReviewsFollowed ==
    ASSUME MaxAtOnce <= 2
    PROVE  AuditSpec => []ReviewsTell
<1>1. AuditInit => ReviewsTell
  BY ReviewsInit DEF AuditInit
<1>2. WorldOK /\ RowInv /\ WorldOK' /\ ReviewsTell /\ [Next]_vars => ReviewsTell'
  <2> SUFFICES ASSUME WorldOK, WorldOK', ReviewsTell, [Next]_vars PROVE ReviewsTell'
    OBVIOUS
  <2>1. AuditNext => UNCHANGED world
    BY AuditsLeaveTheWorld
  <2>2. UNCHANGED vars => UNCHANGED world
    BY DEF vars
  <2>3. [WorldNext]_world
    BY <2>1, <2>2 DEF Next
  <2> QED
    BY <2>3, ReviewsStep
<1> QED
  BY <1>1, <1>2, RowsWellFounded, PTL DEF AuditSpec

\* Read in any order, they give those approvals.
LEMMA Stood ==
    ASSUME WorldOK, ReviewsTell
    PROVE  StoodAtMerge
<1> SUFFICES ASSUME NEW p \in Numbers, NEW rows \in ReadOrders(reviews[p])
             PROVE  LET stood    == {a \in Accounts : <<a, pr[p].head>> \in standing[p]}
                        approved == ApprovedOnFinal(rows, pr[p])
                        undated  == {rows[i].reviewer : i \in {i \in DOMAIN rows :
                                        rows[i].state = "DISMISSED" /\ rows[i].dismissedAt = 0}}
                    IN  approved \subseteq stood /\ stood \ approved \subseteq undated
  BY DEF StoodAtMerge
<1> DEFINE R == reviews[p]
           n == Len(R)
           pull == pr[p]
           S == standing[p]
           approved == ApprovedOnFinal(rows, pull)
<1>1. /\ R \in Seq(Rows) /\ History(R, now)
      /\ \A a, sha : StandsAt(R, pull, S, a, sha)
  BY DEF WorldOK, ReviewsOK, ReviewsTell
<1>2. \A a \in Accounts : a \in approved <=>
         \E i \in 1..n : LastGiven(R, pull, a, pull.head, i) /\ Counts(R[i], pull)
  BY <1>1, ApprovalsAre
<1>3. approved \subseteq Accounts
  BY DEF ApprovedOnFinal
<1>4. ASSUME NEW a \in approved PROVE a \in Accounts /\ <<a, pull.head>> \in S
  <2>1. PICK i \in 1..n : LastGiven(R, pull, a, pull.head, i) /\ Counts(R[i], pull)
    BY <1>2, <1>3, <1>4
  <2>2. StandsAt(R, pull, S, a, pull.head)
    BY <1>1
  <2> HIDE DEF approved, R, pull, S
  <2> QED
    BY <1>3, <1>4, <2>1, <2>2 DEF StandsAt
<1>5. ASSUME NEW a \in Accounts, <<a, pull.head>> \in S, a \notin approved
      PROVE  \E i \in DOMAIN rows : /\ rows[i].state = "DISMISSED" /\ rows[i].dismissedAt = 0
                                    /\ rows[i].reviewer = a
  <2>1. StandsAt(R, pull, S, a, pull.head)
    BY <1>1
  <2>2. PICK i \in 1..n : LastGiven(R, pull, a, pull.head, i) /\ Undated(R[i])
    <3> HIDE DEF approved, R, pull, S
    <3>1. PICK i \in 1..n : /\ LastGiven(R, pull, a, pull.head, i)
                            /\ Counts(R[i], pull) \/ Undated(R[i])
      BY <1>5, <2>1 DEF StandsAt
    <3> QED
      BY <1>2, <1>5, <3>1
  <2>3. R[i].reviewer = a
    BY <2>2 DEF LastGiven, Given
  <2>4. rows \in Seq(Rows) /\ Len(rows) = n
    BY <1>1, ReadOrdersTell
  <2>5. PICK g \in Bijection(1..n, 1..n) : \A k \in 1..n : rows[k] = R[g[k]]
    BY <1>1, ReadOrdersTell
  <2>6. PICK k \in 1..n : g[k] = i
    BY DEF Bijection, Surjection
  <2>7. k \in DOMAIN rows /\ rows[k] = R[i]
    BY <2>4, <2>5, <2>6
  <2> QED
    BY <2>2, <2>3, <2>7 DEF Undated
<1> HIDE DEF approved
<1> QED
  BY <1>4, <1>5 DEF approved

\* The approvals that latestReviewStatesOnFinal counts are those that stood at
\* the merge, in whatever order rows of one instant are read; one is lost only
\* to a dismissal without a date.
THEOREM ApprovalsStood ==
    ASSUME MaxAtOnce <= 2
    PROVE  AuditSpec => []StoodAtMerge
BY Stood, ReviewsFollowed, RowsWellFounded, PTL

-----------------------------------------------------------------------------
(* The losses that are noticed. *)

\* A set of numbers up to n has a greatest.
LEMMA Greatest ==
    ASSUME NEW n \in Nat, NEW T \in SUBSET (1..n), T # {}
    PROVE  \E i \in T : \A j \in T : j <= i
<1> DEFINE Gaps == {d \in Nat : n - d \in T}
<1>1. \A i \in T : n - i \in Gaps
  OBVIOUS
<1>2. Gaps \in SUBSET Nat /\ Gaps # {}
  BY <1>1
<1> HIDE DEF Gaps
<1>3. PICK least \in Gaps : \A d \in Gaps : least <= d
  BY <1>2, LeastNat
<1>4. least \in Nat /\ n - least \in T
  BY <1>3 DEF Gaps
<1>5. ASSUME NEW j \in T PROVE j <= n - least
  <2>1. least <= n - j
    BY <1>1, <1>3
  <2> QED
    BY <1>4, <2>1
<1> QED
  BY <1>4, <1>5

\* From the rows that tell, the loss of a standing approval is a concern.
LEMMA Noticed ==
    ASSUME WorldOK, ReviewsTell
    PROVE  LossesNoticed
<1> SUFFICES ASSUME NEW p \in Numbers, NEW rows \in ReadOrders(reviews[p]), NEW a \in Reviewers,
                    <<a, pr[p].head>> \in standing[p],
                    \A i \in Latest(p, a, pr[p].head) : reviews[p][i].state # "APPROVED"
             PROVE  \/ postMergeConcern(rows, pr[p])
                    \/ \E i \in DOMAIN rows : rows[i].state = "DISMISSED" /\ rows[i].dismissedAt = 0
  BY DEF LossesNoticed
<1> DEFINE R == reviews[p]
           n == Len(R)
           pull == pr[p]
           S == standing[p]
<1>1. /\ R \in Seq(Rows) /\ History(R, now) /\ a \in Accounts
      /\ StandsAt(R, pull, S, a, pull.head)
  BY PullRequestsAssumption DEF WorldOK, ReviewsOK, ReviewsTell
<1>2. /\ n \in Nat /\ DOMAIN R = 1..n
      /\ \A i \in 1..n : R[i] \in Rows
  BY <1>1
<1>3. PICK g \in Bijection(1..n, 1..n) : \A i \in 1..n : rows[i] = R[g[i]]
  BY <1>1, ReadOrdersTell
<1>4. rows \in Seq(Rows) /\ Len(rows) = n /\ DOMAIN rows = 1..n
  <2>1. rows \in Seq(Rows) /\ Len(rows) = n
    BY <1>1, ReadOrdersTell
  <2> QED
    BY <2>1
<1>5. \A k \in 1..n : \E i \in DOMAIN rows : rows[i] = R[k]
  <2> SUFFICES ASSUME NEW k \in 1..n PROVE \E i \in DOMAIN rows : rows[i] = R[k]
    OBVIOUS
  <2>1. PICK i \in 1..n : g[i] = k
    BY DEF Bijection, Surjection
  <2> QED
    BY <1>3, <1>4, <2>1
<1>6. PICK i \in 1..n :
         /\ LastGiven(R, pull, a, pull.head, i) /\ R[i].was = "APPROVED"
         /\ Counts(R[i], pull) \/ Undated(R[i])
  <2>1. <<a, pull.head>> \in S
    OBVIOUS
  <2> HIDE DEF R, pull, S
  <2> QED
    BY <1>1, <2>1 DEF StandsAt, n
<1> DEFINE T == {k \in 1..n : R[k].reviewer = a /\ R[k].sha = pull.head /\ R[k].was # "COMMENTED"}
<1>7. PICK l \in T : \A k \in T : k <= l
  <2>1. i \in T
    BY <1>6 DEF LastGiven, Given
  <2> HIDE DEF T
  <2>2. T \in SUBSET (1..n) /\ T # {}
    BY <2>1 DEF T
  <2> HIDE DEF n
  <2> QED
    BY <1>2, <2>2, Greatest
<1>8. l \in Latest(p, a, pull.head)
  <2>1. ASSUME NEW j \in (l + 1)..n, R[j].reviewer = a, R[j].sha = pull.head
        PROVE  R[j].was = "COMMENTED"
    <3>1. j \in 1..n /\ ~(j <= l)
      BY <1>2, <1>7
    <3> QED
      BY <1>7, <2>1, <3>1
  <2> QED
    BY <1>2, <1>7, <2>1 DEF Latest
<1>9. R[l].state # "APPROVED" /\ l \in 1..n
  BY <1>7, <1>8
<1> DEFINE concern(rv) == /\ OnFinal(rv, pull)
                          /\ IF AfterMerge(rv.at, pull)
                             THEN rv.state \in {"CHANGES_REQUESTED", "DISMISSED"}
                             ELSE DismissedAfterMerge(rv, pull)
<1>10. ASSUME NEW k \in 1..n, concern(R[k]) PROVE postMergeConcern(rows, pull)
  BY <1>5, <1>10 DEF postMergeConcern
<1>11. CASE Undated(R[i])
  BY <1>5, <1>11 DEF Undated
<1>12. CASE ~Undated(R[i]) /\ R[i].state = "DISMISSED"
  <2>1. Given(R, pull, a, pull.head, i)
    BY <1>6 DEF LastGiven
  <2>2. OnFinal(R[i], pull) /\ ~AfterMerge(R[i].at, pull)
    BY <1>1, <2>1 DEF Given, OnFinal, Trusted
  <2>3. DismissedAfterMerge(R[i], pull)
    BY <1>6, <1>12 DEF Counts, DismissedAfterMerge
  <2> QED
    BY <1>10, <2>2, <2>3
<1>13. CASE R[i].state # "DISMISSED"
  <2>1. R[i].state = "APPROVED"
    BY <1>6, <1>13 DEF Counts, Undated
  <2>2. l # i
    BY <1>9, <2>1
  <2>3. i <= l
    BY <1>6, <1>7 DEF LastGiven, Given
  <2>4. ~Given(R, pull, a, pull.head, l)
    <3>1. ~(l <= i)
      BY <1>9, <2>2, <2>3
    <3> QED
      BY <1>6, <1>9, <3>1 DEF LastGiven
  <2>5. AfterMerge(R[l].at, pull) /\ OnFinal(R[l], pull)
    BY <1>1, <1>7, <2>4 DEF Given, OnFinal, Trusted
  <2>6. R[l].state \in {"CHANGES_REQUESTED", "DISMISSED"}
    <3>1. RowHistory(R[l], l, now) /\ R[l] \in Rows
      BY <1>1, <1>2, <1>9 DEF History
    <3>2. R[l].was # "COMMENTED"
      BY <1>7
    <3> QED
      BY <1>9, <3>1, <3>2 DEF RowHistory, Rows, States
  <2> QED
    BY <1>9, <1>10, <2>5, <2>6
<1> QED
  BY <1>11, <1>12, <1>13

\* An approval that stood at the merge and no longer stands is a post-merge
\* concern (HasPostMergeConcern), unless a dismissal has no date.
THEOREM LossesSeen ==
    ASSUME MaxAtOnce <= 2
    PROVE  AuditSpec => []LossesNoticed
BY Noticed, ReviewsFollowed, RowsWellFounded, PTL

=============================================================================
