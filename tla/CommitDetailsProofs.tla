-------------------------- MODULE CommitDetailsProofs --------------------------
(***************************************************************************)
(* The safety properties of CommitDetails hold for any number of commits   *)
(* and branches, failures and changes of policy.                           *)
(*                                                                         *)
(* The argument: every copy of a commit's stats (its row, a staged row,    *)
(* the copy held for the audit, the fetcher's answer) claims no more than  *)
(* what GitHub says, and claims it only because a detail was stored or a   *)
(* failure was seen; and a row loses its detail only by a batch that had   *)
(* reconciled it before the detail came.                                   *)
(***************************************************************************)
EXTENDS CommitDetails, TLAPS

\* What may be said of commit c: nothing GitHub does not say, the whole of it
\* in a marked row, and lines only after a detail was stored.
Truthful(r, c) ==
    /\ r.lines => content[c].lines
    /\ r.files => content[c].files
    /\ r.marked => r.lines = content[c].lines /\ r.files = content[c].files
    /\ r.lines \/ r.marked => c \in told

RowsTruthful == \A c \in Commit : row[c] # None => Truthful(row[c], c)

StagingTruthful == \A c \in DOMAIN staging : Truthful(staging[c], c)

TodoTruthful == \A c \in DOMAIN todo : row[c] # None /\ Truthful(todo[c], c)

\* An answer agrees with GitHub about emptiness, and stands for a stored detail
\* or a failure.
AnswersTruthful ==
    \A c \in Commit :
        /\ answer[c] \in Stat => /\ c \in told \cup faulted
                                 /\ Blank(answer[c]) = Blank(content[c])
        /\ answer[c] = Failed => c \in faulted

\* What sync said of a commit.
VerdictsGrounded ==
    \A c \in Commit : verdict[c] # None /\ verdict[c].by = "sync" =>
        /\ verdict[c].says = "empty" => Blank(content[c])
        /\ verdict[c].says = "refused" =>
              /\ c \in told \cup faulted
              /\ c \in faulted \/ ~Blank(content[c])

\* A batch past its first statement has the details stored so far.
StagedKept ==
    \A b \in Branch : pc[b] = "preserved" =>
        \A c \in DOMAIN staging : c \in told \ late => staging[c].marked

\* The inductive invariant.
DInv ==
    /\ TypeOK
    /\ RowsTruthful /\ StagingTruthful /\ TodoTruthful /\ AnswersTruthful
    /\ VerdictsGrounded
    /\ StagedKept
    /\ \A c \in told \ late : row[c] # None /\ row[c].marked

-----------------------------------------------------------------------------
\* A row's fields, and a marked row that says what GitHub says.
LEMMA RowFields ==
    ASSUME NEW r \in Row
    PROVE  /\ r.lines \in BOOLEAN /\ r.files \in BOOLEAN /\ r.marked \in BOOLEAN
           /\ r # None
BY CommitDetailsAssumption DEF Row

LEMMA DetailedIsRow ==
    ASSUME NEW s \in Stat
    PROVE  /\ Detailed(s) \in Row /\ Detailed(s).marked
           /\ Detailed(s).lines = s.lines /\ Detailed(s).files = s.files
BY DEF Stat, Row, Detailed

LEMMA ZeroIsRow == ZeroRow \in Row /\ ~ZeroRow.marked /\ ~ZeroRow.lines /\ ~ZeroRow.files
BY DEF ZeroRow, Row

LEMMA WithLines ==
    ASSUME NEW q \in Row
    PROVE  LET r == [q EXCEPT !.lines = TRUE]
           IN  r \in Row /\ r.lines = TRUE /\ r.files = q.files /\ r.marked = q.marked
BY DEF Row

LEMMA StatOfIsStat ==
    ASSUME NEW r \in Row
    PROVE  StatOf(r) \in Stat /\ StatOf(r).lines = r.lines /\ StatOf(r).files = r.files
BY DEF StatOf, Stat, Row

LEMMA MarkedIsDetailed ==
    ASSUME NEW r \in Row, NEW s \in Stat, r.marked, r.lines = s.lines, r.files = s.files
    PROVE  r = Detailed(s)
BY DEF Row, Stat, Detailed

LEMMA ContentsAreStats == Contents \subseteq Stat
BY DEF Contents

\* DInv gives what the run checks.
THEOREM InvariantImplies ==
    DInv => SyncWaivesTheEmpty /\ DetailKept /\ RefusalsKeepTheirProof
<1> SUFFICES ASSUME DInv PROVE SyncWaivesTheEmpty /\ DetailKept /\ RefusalsKeepTheirProof
  OBVIOUS
<1>t. \A c \in Commit : content[c] \in Stat /\ (row[c] # None => row[c] \in Row)
  BY ContentsAreStats DEF DInv, TypeOK
<1>1. SyncWaivesTheEmpty
  <2> SUFFICES ASSUME NEW c \in Commit, verdict[c] = [says |-> "empty", by |-> "sync"]
               PROVE  Blank(content[c])
    BY DEF SyncWaivesTheEmpty
  <2>1. verdict[c] \in Verdict
    BY DEF Verdict
  <2>2. verdict[c] # None
    BY <2>1, CommitDetailsAssumption
  <2> QED
    BY <2>2 DEF DInv, VerdictsGrounded
<1>2. DetailKept
  <2> SUFFICES ASSUME NEW c \in told \ late PROVE row[c] = Detailed(content[c])
    BY DEF DetailKept
  <2>1. c \in Commit /\ row[c] # None /\ row[c].marked
    BY DEF DInv, TypeOK
  <2>2. Truthful(row[c], c)
    BY <2>1 DEF DInv, RowsTruthful
  <2> QED
    BY <1>t, <2>1, <2>2, MarkedIsDetailed DEF Truthful
<1>3. RefusalsKeepTheirProof
  <2> SUFFICES ASSUME NEW c \in Commit, c \notin faulted, c \notin late,
                      verdict[c] = [says |-> "refused", by |-> "sync"]
               PROVE  row[c].marked
    BY DEF RefusalsKeepTheirProof
  <2>1. verdict[c] # None
    BY CommitDetailsAssumption DEF Verdict
  <2>2. c \in told
    BY <2>1 DEF DInv, VerdictsGrounded
  <2> QED
    BY <2>2 DEF DInv
<1> QED
  BY <1>1, <1>2, <1>3

LEMMA InitInv == Init => DInv
<1> SUFFICES ASSUME Init PROVE DInv
  OBVIOUS
<1>1. TypeOK
  BY CommitDetailsAssumption DEF Init, TypeOK, Nothing, Unasked, Steps
<1>2. RowsTruthful /\ VerdictsGrounded
  BY DEF Init, RowsTruthful, VerdictsGrounded
<1>3. StagingTruthful /\ TodoTruthful /\ StagedKept
  BY DEF Init, StagingTruthful, TodoTruthful, StagedKept, Nothing
<1>4. AnswersTruthful
  BY CommitDetailsAssumption DEF Init, AnswersTruthful, Unasked
<1> QED
  BY <1>1, <1>2, <1>3, <1>4 DEF DInv, Init

-----------------------------------------------------------------------------
(* One lemma per group of actions.  What an action leaves alone is lifted  *)
(* by the first lemma.                                                     *)

\* Steps that touch neither rows nor histories need their own part only.
LEMMA Untouched ==
    ASSUME DInv, TypeOK', UNCHANGED <<content, row, told, late, faulted>>
    PROVE  /\ RowsTruthful'
           /\ (\A c \in told \ late : row[c] # None /\ row[c].marked)'
           /\ UNCHANGED verdict => VerdictsGrounded'
           /\ UNCHANGED answer => AnswersTruthful'
           /\ UNCHANGED todo => TodoTruthful'
           /\ UNCHANGED staging => StagingTruthful'
BY DEF DInv, RowsTruthful, VerdictsGrounded, AnswersTruthful, TodoTruthful,
       StagingTruthful, Truthful, Blank

LEMMA TypePc ==
    ASSUME TypeOK, NEW b \in Branch, NEW s \in Steps
    PROVE  [pc EXCEPT ![b] = s] \in [Branch -> Steps]
BY DEF TypeOK

LEMMA StageStep ==
    ASSUME DInv, NEW b \in Branch, Stage(b)
    PROVE  DInv'
<1> USE DEF Stage
<1>1. PICK batch \in SUBSET Reach[b] : staging' = [c \in batch |-> ZeroRow]
  OBVIOUS
<1>2. DOMAIN staging' \in SUBSET Commit
  BY <1>1, CommitDetailsAssumption
<1>3. TypeOK'
  BY <1>1, <1>2, ZeroIsRow, TypePc DEF DInv, TypeOK, Steps, dbVars, historyVars
<1>4. StagingTruthful'
  BY <1>1, ZeroIsRow DEF StagingTruthful, Truthful
<1>5. StagedKept'
  BY DEF StagedKept, InWriter, DInv, TypeOK
<1> QED
  BY <1>3, <1>4, <1>5, Untouched DEF DInv, dbVars, historyVars

LEMMA PreserveStep ==
    ASSUME DInv, NEW b \in Branch, Preserve(b)
    PROVE  DInv'
<1> USE DEF Preserve
<1>t. DOMAIN staging \in SUBSET Commit
  BY DEF DInv, TypeOK
<1>1. ASSUME NEW c \in DOMAIN staging
      PROVE  /\ staging'[c] \in Row
             /\ staging'[c] = IF ~staging[c].marked /\ row[c] # None /\ row[c].marked
                              THEN row[c] ELSE staging[c]
  BY <1>1, <1>t DEF Preserved, DInv, TypeOK
<1>2. DOMAIN staging' = DOMAIN staging
  OBVIOUS
<1>3. TypeOK'
  BY <1>1, <1>2, <1>t, TypePc DEF DInv, TypeOK, Steps, dbVars, historyVars
<1>4. StagingTruthful'
  BY <1>1, <1>2, <1>t DEF DInv, StagingTruthful, RowsTruthful, Truthful, historyVars
<1>5. StagedKept'
  BY <1>1, <1>2, <1>t DEF DInv, StagedKept, historyVars
<1> QED
  BY <1>3, <1>4, <1>5, Untouched DEF DInv, dbVars, historyVars

LEMMA MergeStep ==
    ASSUME DInv, NEW b \in Branch, Merge(b)
    PROVE  DInv'
<1> USE DEF Merge
<1>n. DOMAIN staging' = {}
  BY DEF Nothing
<1>t. /\ DOMAIN staging \in SUBSET Commit
      /\ \A c \in DOMAIN staging : staging[c] \in Row
  BY DEF DInv, TypeOK
<1>1. \A c \in Commit : row'[c] = IF c \in DOMAIN staging THEN staging[c] ELSE row[c]
  OBVIOUS
<1>2. TypeOK'
  <2>1. row' \in [Commit -> Row \cup {None}]
    BY <1>t DEF DInv, TypeOK
  <2>2. staging' \in [DOMAIN staging' -> Row]
    BY <1>n DEF Nothing
  <2> QED
    BY <2>1, <2>2, <1>n, TypePc DEF DInv, TypeOK, Steps, historyVars
<1>3. RowsTruthful'
  BY <1>1, <1>t DEF DInv, RowsTruthful, StagingTruthful, Truthful, historyVars
<1>4. TodoTruthful'
  <2>1. \A c \in DOMAIN todo : c \in Commit /\ row'[c] # None
    BY <1>1, <1>t, RowFields DEF DInv, TodoTruthful, TypeOK
  <2> QED
    BY <2>1 DEF DInv, TodoTruthful, Truthful, historyVars
<1>5. \A c \in told \ late : row'[c] # None /\ row'[c].marked
  <2> SUFFICES ASSUME NEW c \in told \ late PROVE row'[c] # None /\ row'[c].marked
    OBVIOUS
  <2>1. c \in Commit /\ row[c] # None /\ row[c].marked
    BY DEF DInv, TypeOK
  <2>2. c \in DOMAIN staging => staging[c].marked /\ staging[c] # None
    BY <1>t, RowFields DEF DInv, StagedKept
  <2> QED
    BY <1>1, <2>1, <2>2
<1>6. StagingTruthful' /\ StagedKept'
  BY <1>n DEF StagingTruthful, StagedKept
<1>7. VerdictsGrounded' /\ AnswersTruthful'
  BY DEF DInv, VerdictsGrounded, AnswersTruthful, Blank, historyVars
<1> QED
  BY <1>2, <1>3, <1>4, <1>5, <1>6, <1>7 DEF DInv, historyVars

LEMMA LoadStep ==
    ASSUME DInv, NEW b \in Branch, LoadUnaudited(b)
    PROVE  DInv'
<1> USE DEF LoadUnaudited
<1>1. /\ DOMAIN todo' \in SUBSET Commit
      /\ \A c \in DOMAIN todo' : row[c] # None /\ todo'[c] = row[c] /\ todo'[c] \in Row
  BY DEF Stored, DInv, TypeOK
<1>2. TypeOK'
  BY <1>1, TypePc DEF DInv, TypeOK, Steps, dbVars, historyVars
<1>3. TodoTruthful'
  BY <1>1 DEF DInv, TodoTruthful, RowsTruthful, Truthful, dbVars, historyVars
<1>4. StagedKept'
  BY DEF DInv, TypeOK, StagedKept, historyVars
<1> QED
  BY <1>2, <1>3, <1>4, Untouched DEF DInv, dbVars, historyVars

LEMMA EnrichStep ==
    ASSUME DInv, NEW b \in Branch, Enrich(b)
    PROVE  DInv'
<1> USE DEF Enrich
<1>1. ASSUME NEW c \in Commit
      PROVE  /\ row'[c] \in Row \cup {None}
             /\ row[c] # None => row'[c] # None
             /\ row'[c] # None => Truthful(row'[c], c)
             /\ c \in told \ late => row'[c].marked
  <2> DEFINE r == IF c \in DOMAIN todo /\ todo[c].lines
                  THEN [row[c] EXCEPT !.lines = TRUE] ELSE row[c]
  <2>1. row'[c] = r \/ row'[c] = Inserted(c, r)
    OBVIOUS
  <2>2. row[c] # None => row[c] \in Row /\ Truthful(row[c], c)
    BY DEF DInv, TypeOK, RowsTruthful
  <2>3. c \in DOMAIN todo => /\ row[c] # None
                             /\ todo[c].lines => content[c].lines /\ c \in told
    BY DEF DInv, TodoTruthful, Truthful
  <2>4. row[c] # None => /\ r \in Row /\ r.marked = row[c].marked /\ r.files = row[c].files
                         /\ \/ r.lines = row[c].lines
                            \/ r.lines = TRUE /\ content[c].lines /\ c \in told
    <3>1. CASE c \in DOMAIN todo /\ todo[c].lines
      <4>1. row[c] \in Row
        BY <2>2, <2>3, <3>1
      <4>2. r = [row[c] EXCEPT !.lines = TRUE]
        BY <3>1
      <4> HIDE DEF r
      <4> QED
        BY <4>1, <4>2, <2>3, <3>1, WithLines
    <3>2. CASE ~(c \in DOMAIN todo /\ todo[c].lines)
      <4>1. r = row[c]
        BY <3>2
      <4> HIDE DEF r
      <4> QED
        BY <4>1, <2>2
    <3> QED
      BY <3>1, <3>2
  <2>5. row[c] = None => r = None
    BY <2>3
  <2>6. row[c] # None => r # None /\ Truthful(r, c)
    BY <2>2, <2>4, RowFields, ContentsAreStats DEF Truthful, DInv, TypeOK, Stat
  <2>7. Truthful(ZeroRow, c)
    BY ZeroIsRow DEF Truthful
  <2>8. CASE row[c] = None
    BY <2>1, <2>5, <2>7, <2>8, ZeroIsRow DEF Inserted, DInv
  <2>9. CASE row[c] # None
    <3>1. row'[c] = r
      BY <2>1, <2>6, <2>9 DEF Inserted
    <3> QED
      BY <3>1, <2>4, <2>6, <2>9 DEF DInv
  <2> QED
    BY <2>8, <2>9
<1>2. TypeOK'
  <2>1. row' \in [Commit -> Row \cup {None}]
    BY <1>1
  <2> QED
    BY <2>1, TypePc DEF DInv, TypeOK, Steps, historyVars
<1>3. RowsTruthful'
  BY <1>1 DEF RowsTruthful, Truthful, historyVars
<1>4. TodoTruthful'
  BY <1>1 DEF DInv, TypeOK, TodoTruthful, Truthful, historyVars
<1>5. \A c \in told \ late : row'[c] # None /\ row'[c].marked
  BY <1>1 DEF DInv, TypeOK
<1>6. StagingTruthful' /\ VerdictsGrounded' /\ AnswersTruthful'
  BY DEF DInv, StagingTruthful, VerdictsGrounded, AnswersTruthful, Truthful, Blank, historyVars
<1>7. StagedKept'
  BY DEF DInv, TypeOK, StagedKept, historyVars
<1> QED
  BY <1>2, <1>3, <1>4, <1>5, <1>6, <1>7 DEF DInv, historyVars

\* Steps of which only the program counters are read.
LEMMA PcStep ==
    ASSUME DInv, UNCHANGED <<content, standing, dbVars, historyVars, policies>>,
           pc' \in [Branch -> Steps], \A b \in Branch : pc'[b] # "preserved" \/ pc'[b] = pc[b],
           \/ UNCHANGED <<staging, todo, answer>>
           \/ staging' = Nothing /\ todo' = Nothing /\ answer' = Unasked
    PROVE  DInv'
<1> USE DEF dbVars, historyVars
<1>1. CASE UNCHANGED <<staging, todo, answer>>
  <2>1. TypeOK'
    BY <1>1 DEF DInv, TypeOK
  <2>2. StagedKept'
    BY <1>1 DEF DInv, StagedKept
  <2> QED
    BY <1>1, <2>1, <2>2, Untouched DEF DInv
<1>2. CASE staging' = Nothing /\ todo' = Nothing /\ answer' = Unasked
  <2>1. TypeOK'
    BY <1>2, CommitDetailsAssumption DEF DInv, TypeOK, Nothing, Unasked
  <2>2. StagedKept' /\ StagingTruthful' /\ TodoTruthful'
    BY <1>2 DEF StagedKept, StagingTruthful, TodoTruthful, Nothing
  <2>3. AnswersTruthful'
    BY <1>2, CommitDetailsAssumption DEF AnswersTruthful, Unasked
  <2> QED
    BY <2>1, <2>2, <2>3, Untouched DEF DInv
<1> QED
  BY <1>1, <1>2

LEMMA AskStep ==
    ASSUME DInv, NEW c \in Commit, Ask(c)
    PROVE  DInv'
<1> USE DEF Ask, dbVars, historyVars
<1>1. CASE Known(row[c])
  <2>1. row[c] \in Row /\ row[c] # None /\ Truthful(row[c], c)
    BY <1>1 DEF Known, DInv, TypeOK, RowsTruthful
  <2>2. answer'[c] = StatOf(row[c]) /\ answer'[c] \in Stat
    BY <1>1, <2>1, StatOfIsStat DEF DInv, TypeOK
  <2>3. /\ answer'[c].lines = row[c].lines /\ answer'[c].files = row[c].files
    BY <2>1, <2>2, StatOfIsStat
  <2>4. content[c].lines \in BOOLEAN /\ content[c].files \in BOOLEAN
    BY ContentsAreStats DEF DInv, TypeOK, Stat
  <2>5. c \in told /\ Blank(answer'[c]) = Blank(content[c])
    BY <1>1, <2>1, <2>3, <2>4, RowFields DEF Known, Truthful, Blank
  <2>6. AnswersTruthful'
    BY <2>2, <2>5, CommitDetailsAssumption DEF DInv, TypeOK, AnswersTruthful, Blank
  <2>7. TypeOK'
    BY <2>2 DEF DInv, TypeOK
  <2> QED
    BY <2>6, <2>7, Untouched DEF DInv, StagedKept
<1>2. CASE ~Known(row[c])
  <2>1. answer' = [answer EXCEPT ![c] = Calling]
    BY <1>2
  <2>2. AnswersTruthful'
    BY <2>1, CommitDetailsAssumption DEF DInv, TypeOK, AnswersTruthful, Blank
  <2>3. TypeOK'
    BY <2>1 DEF DInv, TypeOK
  <2> QED
    BY <2>2, <2>3, Untouched DEF DInv, StagedKept
<1> QED
  BY <1>1, <1>2

LEMMA MarkStep ==
    ASSUME DInv, NEW c \in Commit, Mark(c)
    PROVE  DInv'
<1> USE DEF Mark
<1>1. content[c] \in Stat
  BY ContentsAreStats DEF DInv, TypeOK
<1>2. /\ Detailed(content[c]) \in Row /\ Detailed(content[c]) # None
      /\ Detailed(content[c]).marked
      /\ Detailed(content[c]).lines = content[c].lines
      /\ Detailed(content[c]).files = content[c].files
  BY <1>1, DetailedIsRow, RowFields
<1>3. \A d \in Commit : row'[d] = IF d = c THEN Detailed(content[c]) ELSE row[d]
  BY DEF DInv, TypeOK
<1>4. late \subseteq late' /\ told \subseteq told'
  OBVIOUS
<1>5. TypeOK'
  <2>1. row' \in [Commit -> Row \cup {None}]
    BY <1>2 DEF DInv, TypeOK
  <2>2. answer' \in [Commit -> Stat \cup {None, Calling, Failed}]
    BY <1>1 DEF DInv, TypeOK
  <2> QED
    BY <2>1, <2>2 DEF DInv, TypeOK
<1>6. RowsTruthful'
  BY <1>2, <1>3, <1>4 DEF DInv, RowsTruthful, Truthful
<1>7. StagingTruthful'
  BY <1>4 DEF DInv, StagingTruthful, Truthful
<1>8. TodoTruthful'
  BY <1>2, <1>3, <1>4 DEF DInv, TypeOK, TodoTruthful, Truthful
<1>9. AnswersTruthful'
  BY <1>1, <1>4, CommitDetailsAssumption DEF DInv, TypeOK, AnswersTruthful, Blank
<1>10. VerdictsGrounded'
  BY <1>4 DEF DInv, VerdictsGrounded, Blank
<1>11. StagedKept'
  BY DEF DInv, StagedKept
<1>12. \A d \in told' \ late' : row'[d] # None /\ row'[d].marked
  <2> SUFFICES ASSUME NEW d \in told' \ late' PROVE row'[d] # None /\ row'[d].marked
    OBVIOUS
  <2>1. d \in Commit /\ (d # c => row[d] # None /\ row[d].marked)
    BY <1>4 DEF DInv, TypeOK
  <2> QED
    BY <2>1, <1>2, <1>3
<1> QED
  BY <1>5, <1>6, <1>7, <1>8, <1>9, <1>10, <1>11, <1>12 DEF DInv

LEMMA FaultStep ==
    ASSUME DInv, NEW c \in Commit, MarkFails(c) \/ FetchFails(c)
    PROVE  DInv'
<1> USE DEF MarkFails, FetchFails, dbVars
<1>1. content[c] \in Stat
  BY ContentsAreStats DEF DInv, TypeOK
<1>2. PICK a \in {content[c], Failed} : answer' = [answer EXCEPT ![c] = a]
  OBVIOUS
<1>3. faulted' = faulted \cup {c} /\ UNCHANGED <<content, row, verdict, told, late>>
  OBVIOUS
<1>4. TypeOK'
  <2>1. answer' \in [Commit -> Stat \cup {None, Calling, Failed}]
    BY <1>1, <1>2 DEF DInv, TypeOK
  <2> QED
    BY <2>1, <1>3 DEF DInv, TypeOK
<1>5. AnswersTruthful'
  BY <1>1, <1>2, <1>3, CommitDetailsAssumption DEF DInv, TypeOK, AnswersTruthful, Blank
<1>6. VerdictsGrounded'
  BY <1>3 DEF DInv, VerdictsGrounded, Blank
<1>7. RowsTruthful' /\ (\A d \in told \ late : row[d] # None /\ row[d].marked)'
  BY <1>3 DEF DInv, RowsTruthful, Truthful
<1>8. StagingTruthful' /\ TodoTruthful' /\ StagedKept'
  BY <1>3 DEF DInv, StagingTruthful, TodoTruthful, StagedKept, Truthful
<1> QED
  BY <1>4, <1>5, <1>6, <1>7, <1>8 DEF DInv

\* A verdict is a pair of known parts.
LEMMA VerdictFields ==
    ASSUME NEW s \in {"granted", "empty", "refused"}, NEW k \in {"sync", "all", "failures", "single"}
    PROVE  /\ [says |-> s, by |-> k] \in Verdict
           /\ [says |-> s, by |-> k].says = s /\ [says |-> s, by |-> k].by = k
BY DEF Verdict

LEMMA WriteStep ==
    ASSUME DInv, NEW b \in Branch, WriteResults(b)
    PROVE  DInv'
<1> USE DEF WriteResults
<1>1. \A c \in Commit : Online(c) \in {"granted", "empty", "refused"}
  BY DEF Online
<1>2. ASSUME NEW c \in Commit
      PROVE  verdict'[c] = IF c \in DOMAIN todo THEN [says |-> Online(c), by |-> "sync"]
                           ELSE verdict[c]
  OBVIOUS
<1>3. ASSUME NEW c \in DOMAIN todo
      PROVE  /\ c \in Commit /\ content[c] \in Stat
             /\ Truthful(todo[c], c) /\ todo[c] \in Row
             /\ MustAsk(c) => answer[c] \in Stat \cup {Failed}
  BY ContentsAreStats DEF DInv, TypeOK, TodoTruthful
<1>4. ASSUME NEW c \in DOMAIN todo
      PROVE  /\ Online(c) = "empty" => Blank(content[c])
             /\ Online(c) = "refused" => /\ c \in told \cup faulted
                                         /\ c \in faulted \/ ~Blank(content[c])
  <2>1. CASE ~MustAsk(c)
    BY <2>1, <1>3, RowFields DEF Online, MustAsk, Truthful, Blank
  <2>2. CASE MustAsk(c) /\ answer[c] = Failed
    BY <2>2, <1>3 DEF Online, EmptyHolds, DInv, AnswersTruthful
  <2>3. CASE MustAsk(c) /\ answer[c] \in Stat
    BY <2>3, <1>3, CommitDetailsAssumption DEF Online, EmptyHolds, DInv, AnswersTruthful
  <2> QED
    BY <2>1, <2>2, <2>3, <1>3
<1>5. VerdictsGrounded'
  <2> SUFFICES ASSUME NEW c \in Commit, verdict'[c] # None, verdict'[c].by = "sync"
               PROVE  /\ verdict'[c].says = "empty" => Blank(content'[c])
                      /\ verdict'[c].says = "refused" =>
                            /\ c \in told' \cup faulted'
                            /\ c \in faulted' \/ ~Blank(content'[c])
    BY DEF VerdictsGrounded
  <2>1. CASE c \in DOMAIN todo
    <3>1. verdict'[c].says = Online(c)
      BY <2>1, <1>1, <1>2, VerdictFields
    <3> QED
      BY <3>1, <2>1, <1>4 DEF historyVars
  <2>2. CASE c \notin DOMAIN todo
    BY <2>2, <1>2 DEF DInv, VerdictsGrounded, historyVars
  <2> QED
    BY <2>1, <2>2
<1>6. TypeOK'
  <2>1. verdict' \in [Commit -> Verdict \cup {None}]
    BY <1>1, <1>2, VerdictFields DEF DInv, TypeOK
  <2>2. answer' \in [Commit -> Stat \cup {None, Calling, Failed}]
    BY DEF Unasked
  <2>3. DOMAIN todo' \in SUBSET Commit /\ todo' \in [DOMAIN todo' -> Row]
    BY DEF Nothing
  <2> QED
    BY <2>1, <2>2, <2>3, TypePc DEF DInv, TypeOK, Steps, historyVars
<1>7. AnswersTruthful'
  BY CommitDetailsAssumption DEF AnswersTruthful, Unasked
<1>8. TodoTruthful'
  BY DEF TodoTruthful, Nothing
<1>9. StagedKept'
  BY DEF DInv, TypeOK, StagedKept, historyVars
<1> QED
  BY <1>5, <1>6, <1>7, <1>8, <1>9, Untouched DEF DInv, historyVars

LEMMA ReAuditStep ==
    ASSUME DInv, NEW kind \in {"all", "failures", "single"}, ReAudit(kind)
    PROVE  DInv'
<1> USE DEF ReAudit, runVars, historyVars
<1>1. PICK judged \in Candidates(kind) :
         verdict' = [c \in Commit |-> IF c \in judged THEN [says |-> Offline(c, kind), by |-> kind]
                                      ELSE verdict[c]]
  OBVIOUS
<1>2. \A c \in Commit : Offline(c, kind) \in {"granted", "empty", "refused"}
  BY DEF Offline
<1>3. \A c \in Commit : /\ verdict'[c] \in Verdict \cup {None}
                        /\ verdict'[c] = verdict[c] \/ verdict'[c].by = kind
  BY <1>1, <1>2, VerdictFields DEF DInv, TypeOK
<1>4. TypeOK'
  BY <1>1, <1>3 DEF DInv, TypeOK
<1>5. VerdictsGrounded'
  BY <1>3 DEF DInv, VerdictsGrounded, Blank
<1> QED
  BY <1>4, <1>5, Untouched DEF DInv, StagedKept

\* Every step preserves the invariant.
THEOREM NextInv == DInv /\ [Next]_vars => DInv'
<1> SUFFICES ASSUME DInv, [Next]_vars PROVE DInv'
  OBVIOUS
<1> USE DEF dbVars, runVars, historyVars
<1>t. pc \in [Branch -> Steps]
  BY DEF DInv, TypeOK
<1>1. CASE UNCHANGED vars
  BY <1>1, <1>t, PcStep DEF vars
<1>2. CASE StartRun \/ EndRun
  BY <1>2, <1>t, PcStep DEF StartRun, EndRun, Steps
<1>3. CASE RunFails
  BY <1>3, <1>t, PcStep DEF RunFails, Steps
<1>4. ASSUME NEW b \in Branch, SyncStep(b) PROVE DInv'
  <2>1. CASE ListNothing(b)
    BY <2>1, <1>t, PcStep DEF ListNothing, Steps
  <2> QED
    BY <1>4, <2>1, StageStep, PreserveStep, MergeStep, LoadStep, EnrichStep, WriteStep
    DEF SyncStep
<1>5. ASSUME NEW c \in Commit, FetchStep(c) PROVE DInv'
  BY <1>5, AskStep, MarkStep, FaultStep DEF FetchStep
<1>6. ASSUME NEW c \in Commit, Reconsider(c) PROVE DInv'
  <2>1. TypeOK'
    BY <1>6, CommitDetailsAssumption DEF Reconsider, DInv, TypeOK
  <2> QED
    BY <1>6, <2>1, Untouched DEF Reconsider, DInv, StagedKept
<1>7. ASSUME NEW kind \in {"all", "failures", "single"}, ReAudit(kind) PROVE DInv'
  BY <1>7, ReAuditStep
<1> QED
  BY <1>1, <1>2, <1>3, <1>4, <1>5, <1>6, <1>7 DEF Next

\* The invariant holds in every reachable state.
THEOREM Invariant == Spec => []DInv
BY InitInv, NextInv, PTL DEF Spec

-----------------------------------------------------------------------------
(* What the run checks. *)

\* The variables keep their types.
THEOREM TypeCorrect == Spec => []TypeOK
<1>1. DInv => TypeOK
  BY DEF DInv
<1> QED
  BY <1>1, Invariant, PTL

\* A waiver sync gives for emptiness is for a commit that changes nothing
\* (StatsFetcher.GetCommitStats, applyEmptyCommitFallback).
THEOREM SyncWaivers == Spec => []SyncWaivesTheEmpty
BY InvariantImplies, Invariant, PTL

\* A stored detail stays, but for the one that lands between the two statements
\* of a batch (MarkCommitDetail against upsertBatch).
THEOREM Details == Spec => []DetailKept
BY InvariantImplies, Invariant, PTL

\* A refusal by sync leaves the commit's detail behind (commitDetailFetcher).
THEOREM Refusals == Spec => []RefusalsKeepTheirProof
BY InvariantImplies, Invariant, PTL

\* A full re-audit says what sync said of a commit whose detail was stored.
THEOREM ReauditStep == DInv /\ Next =>
    \A c \in told \ late :
        /\ verdict[c] # None /\ verdict[c].by = "sync" /\ verdict[c].says # "granted"
        /\ verdict'[c].by \in {"all", "single"} /\ c \notin standing
        => \/ verdict'[c].says = verdict[c].says
           \/ c \in faulted /\ Blank(content[c])
<1> SUFFICES ASSUME DInv, Next, NEW c \in told \ late,
                    verdict[c] # None, verdict[c].by = "sync", verdict[c].says # "granted",
                    verdict'[c].by \in {"all", "single"}, c \notin standing
             PROVE  \/ verdict'[c].says = verdict[c].says
                    \/ c \in faulted /\ Blank(content[c])
  OBVIOUS
<1>t. c \in Commit /\ content[c] \in Stat /\ verdict[c] \in Verdict
  BY ContentsAreStats DEF DInv, TypeOK
<1>1. CASE UNCHANGED verdict
  BY <1>1
<1>2. ASSUME NEW b \in Branch, WriteResults(b)
      PROVE  verdict'[c].says = verdict[c].says
  <2>1. CASE c \in DOMAIN todo
    <3>1. verdict'[c] = [says |-> Online(c), by |-> "sync"]
      BY <1>2, <1>t, <2>1 DEF WriteResults
    <3>2. verdict'[c].by = "sync"
      BY <3>1, VerdictFields DEF Online
    <3> QED
      BY <3>2
  <2>2. CASE c \notin DOMAIN todo
    BY <1>2, <1>t, <2>2 DEF WriteResults
  <2> QED
    BY <2>1, <2>2
<1>3. ASSUME NEW kind \in {"all", "failures", "single"}, ReAudit(kind)
      PROVE  \/ verdict'[c].says = verdict[c].says
             \/ c \in faulted /\ Blank(content[c])
  <2>1. PICK judged \in Candidates(kind) :
           verdict' = [d \in Commit |-> IF d \in judged THEN [says |-> Offline(d, kind), by |-> kind]
                                        ELSE verdict[d]]
    BY <1>3 DEF ReAudit
  <2>2. CASE c \notin judged
    BY <2>1, <2>2, <1>t
  <2>3. CASE c \in judged
    <3>1. verdict'[c] = [says |-> Offline(c, kind), by |-> kind]
      BY <2>1, <2>3, <1>t
    <3>2. verdict'[c].says = Offline(c, kind) /\ verdict'[c].by = kind
      BY <3>1, VerdictFields DEF Offline
    <3>3. row[c] # None /\ row[c] \in Row /\ row[c].marked /\ Truthful(row[c], c)
      BY <1>t DEF DInv, TypeOK, RowsTruthful
    <3>4. Loaded(row[c], kind) = StatOf(row[c])
      BY <3>2 DEF Loaded
    <3>5. Blank(Loaded(row[c], kind)) = Blank(content[c])
      BY <3>3, <3>4, StatOfIsStat DEF Truthful, Blank
    <3>6. Offline(c, kind) = IF Blank(content[c]) THEN "empty" ELSE "refused"
      BY <3>5 DEF Offline
    <3>7. verdict[c].says = "empty" \/ verdict[c].says = "refused"
      BY <1>t DEF Verdict
    <3>8. /\ verdict[c].says = "empty" => Blank(content[c])
          /\ verdict[c].says = "refused" => c \in faulted \/ ~Blank(content[c])
      BY <1>t DEF DInv, VerdictsGrounded
    <3> QED
      BY <3>2, <3>6, <3>7, <3>8
  <2> QED
    BY <2>2, <2>3
<1> QED
  BY <1>1, <1>2, <1>3 DEF Next, SyncStep, FetchStep, StartRun, EndRun, RunFails, ListNothing,
     Stage, Preserve, Merge, LoadUnaudited, Enrich, Ask, Mark, MarkFails, FetchFails,
     Reconsider, dbVars

\* sync's verdicts and offline re-audits agree (reaudit.go, applyEmptyCommitFallback).
THEOREM Agreement == Spec => ReauditAgrees
<1>1. DInv /\ [Next]_vars =>
        [\A c \in told \ late :
          /\ verdict[c] # None /\ verdict[c].by = "sync" /\ verdict[c].says # "granted"
          /\ verdict'[c].by \in {"all", "single"} /\ c \notin standing
          => \/ verdict'[c].says = verdict[c].says
             \/ c \in faulted /\ Blank(content[c])]_vars
  BY ReauditStep
<1> QED
  BY <1>1, Invariant, PTL DEF Spec, ReauditAgrees
=============================================================================
