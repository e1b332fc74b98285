------------------------- MODULE SyncPipelineProofs -------------------------
(***************************************************************************)
(* Proofs about SyncPipeline, for every set of commits and branches, every *)
(* commit graph and dating, every set of run flags and every budget.       *)
(*                                                                         *)
(* IInv is inductive: each lemma below preserves one of its conjuncts over *)
(* every action, the theorems at the end put them together.                *)
(***************************************************************************)
EXTENDS SyncPipeline, TLAPS

\* The tuples of variables, and the helpers that only move control.
USE DEF github, tables, local, ghosts, budget, Goto, Fault, Reset, NoCursor

\* Every action keeps the types.
LEMMA TypeStep ==
  ASSUME IInv, [Next]_vars
  PROVE  TypeOK'
<1>1. ASSUME NEW b \in Branch, NEW c \in Commit, Push(b, c) PROVE TypeOK'
  BY <1>1 DEF IInv, TypeOK, Push
<1>2. ASSUME NEW w \in Bounds, StartRun(w) PROVE TypeOK'
  BY <1>2 DEF IInv, TypeOK, Step, StartRun
<1>3. ASSUME NEW b \in Branch, ReadCursor(b) PROVE TypeOK'
  BY <1>3 DEF IInv, TypeOK, Step, ReadCursor
<1>4. ASSUME NEW b \in Branch, HeadUnchanged(b) PROVE TypeOK'
  BY <1>4, CommitAssumption, BranchAssumption, BoundAssumption
    DEF IInv, TypeOK, Step, Unaudited, Listed, Range, Dates, NewLastSHA, HeadUnchanged
<1>5. ASSUME NEW b \in Branch, HeadMoved(b) PROVE TypeOK'
  BY <1>5 DEF IInv, TypeOK, Step, HeadMoved
<1>6. ASSUME NEW b \in Branch, HeadFails(b) PROVE TypeOK'
  BY <1>6 DEF IInv, TypeOK, Step, HeadFails
<1>7. ASSUME NEW b \in Branch, Compare(b) PROVE TypeOK'
  BY <1>7, CommitAssumption DEF IInv, TypeOK, Step, Range, RunInv, Compare
<1>8. ASSUME NEW b \in Branch, CompareUnavailable(b) PROVE TypeOK'
  BY <1>8 DEF IInv, TypeOK, Step, CompareUnavailable
<1>9. ASSUME NEW b \in Branch, List(b) PROVE TypeOK'
  <2>1. Listed(b) \in SUBSET Commit
    BY CommitAssumption DEF Listed, IInv, TypeOK
  <2>2. Reach[head[b]] \in SUBSET Commit
    BY CommitAssumption DEF IInv, TypeOK
  <2>3. tip' \in [Branch -> Commit \cup {None}]
    BY <1>9, <2>1 DEF List, IInv, TypeOK
  <2>4. pc' \in [Branch -> Step]
    BY <1>9 DEF List, IInv, TypeOK, Step
  <2>5. QED
    BY <1>9, <2>1, <2>2, <2>3, <2>4 DEF List, IInv, TypeOK
<1>10. ASSUME NEW b \in Branch, UpsertCommits(b) PROVE TypeOK'
  BY <1>10 DEF IInv, TypeOK, Step, UpsertCommits
<1>11. ASSUME NEW b \in Branch, UpsertCommitBranches(b) PROVE TypeOK'
  BY <1>11 DEF IInv, TypeOK, Step, UpsertCommitBranches
<1>12. ASSUME NEW b \in Branch, LoadUnaudited(b) PROVE TypeOK'
  BY <1>12 DEF IInv, TypeOK, Step, Unaudited, LoadUnaudited
<1>13. ASSUME NEW b \in Branch, NEW c \in Commit, EnrichBatch(b, c) PROVE TypeOK'
  BY <1>13, CommitAssumption DEF IInv, TypeOK, EnrichBatch
<1>14. ASSUME NEW b \in Branch, UpsertAuditResults(b) PROVE TypeOK'
  BY <1>14 DEF IInv, TypeOK, Step, UpsertAuditResults
<1>15. ASSUME NEW b \in Branch, UpsertSyncCursor(b) PROVE TypeOK'
  BY <1>15, CommitAssumption DEF IInv, TypeOK, Step, Dates, NewLastSHA, UpsertSyncCursor
<1>16. ASSUME NEW b \in Branch, BranchFails(b) PROVE TypeOK'
  BY <1>16 DEF IInv, TypeOK, Step, BranchFails
<1>17. ASSUME FinishRun PROVE TypeOK'
  <2>1. cleanSweep' \in BOOLEAN /\ faults' \in Nat /\ crashes' \in Nat
    <3>1. CASE UNCHANGED budget
      BY <1>17, <3>1 DEF FinishRun, IInv, TypeOK
    <3>2. CASE Fault /\ UNCHANGED cleanSweep
      BY <3>2 DEF IInv, TypeOK
    <3>3. QED
      BY <1>17, <3>1, <3>2 DEF FinishRun
  <2>2. QED
    BY <1>17, <2>1 DEF IInv, TypeOK, Step, FinishRun
<1>18. ASSUME Crash PROVE TypeOK'
  BY <1>18 DEF IInv, TypeOK, Step, Crash
<1>19. ASSUME UNCHANGED vars PROVE TypeOK'
  BY <1>19 DEF IInv, vars, TypeOK, Step, Unaudited, Listed, Range, Dates, NewLastSHA
<1>20. QED
  BY <1>1, <1>2, <1>3, <1>4, <1>5, <1>6, <1>7, <1>8, <1>9, <1>10, <1>11, <1>12, <1>13,
     <1>14, <1>15, <1>16, <1>17, <1>18, <1>19 DEF Next, BranchStep

\* Every action keeps RunInv.
LEMMA RunStep ==
  ASSUME IInv, [Next]_vars
  PROVE  RunInv'
<1>1. ASSUME NEW b \in Branch, NEW c \in Commit, Push(b, c) PROVE RunInv'
  BY <1>1 DEF IInv, RunInv, Active, Unbounded, Push
<1>2. ASSUME NEW w \in Bounds, StartRun(w) PROVE RunInv'
  BY <1>2, BoundAssumption DEF IInv, RunInv, Active, StartRun
<1>3. ASSUME NEW b \in Branch, ReadCursor(b) PROVE RunInv'
  BY <1>3 DEF IInv, TypeOK, RunInv, Active, Unbounded, ReadCursor
<1>4. ASSUME NEW b \in Branch, HeadUnchanged(b) PROVE RunInv'
  BY <1>4 DEF IInv, RunInv, Active, Unbounded, HeadUnchanged
<1>5. ASSUME NEW b \in Branch, HeadMoved(b) PROVE RunInv'
  BY <1>5, CommitAssumption DEF IInv, TypeOK, RunInv, Active, Unbounded, HeadMoved
<1>6. ASSUME NEW b \in Branch, HeadFails(b) PROVE RunInv'
  BY <1>6 DEF IInv, RunInv, Active, Unbounded, HeadFails
<1>7. ASSUME NEW b \in Branch, Compare(b) PROVE RunInv'
  BY <1>7 DEF IInv, TypeOK, RunInv, Active, Unbounded, Compare
<1>8. ASSUME NEW b \in Branch, CompareUnavailable(b) PROVE RunInv'
  BY <1>8 DEF IInv, TypeOK, RunInv, Active, Unbounded, CompareUnavailable
<1>9. ASSUME NEW b \in Branch, List(b) PROVE RunInv'
  <2>1. /\ pc'[b] \in {"lock", "commits"}
        /\ \A o \in Branch \ {b} : pc'[o] = pc[o] /\ fetched'[o] = fetched[o] /\ tip'[o] = tip[o]
    BY <1>9 DEF List, IInv, TypeOK
  <2>2. UNCHANGED <<run, snap, cursor, cleanSweep>>
    BY <1>9 DEF List
  <2>3. run # None /\ snap[b] = cursor[b]
    BY <1>9 DEF List, IInv, RunInv, Active
  <2>4. QED
    BY <2>1, <2>2, <2>3 DEF IInv, RunInv, Active, Unbounded
<1>10. ASSUME NEW b \in Branch, UpsertCommits(b) PROVE RunInv'
  BY <1>10 DEF IInv, RunInv, Active, Unbounded, UpsertCommits
<1>11. ASSUME NEW b \in Branch, UpsertCommitBranches(b) PROVE RunInv'
  BY <1>11 DEF IInv, RunInv, Active, Unbounded, UpsertCommitBranches
<1>12. ASSUME NEW b \in Branch, LoadUnaudited(b) PROVE RunInv'
  BY <1>12 DEF IInv, RunInv, Active, Unbounded, LoadUnaudited
<1>13. ASSUME NEW b \in Branch, NEW c \in Commit, EnrichBatch(b, c) PROVE RunInv'
  BY <1>13 DEF IInv, RunInv, Active, Unbounded, EnrichBatch
<1>14. ASSUME NEW b \in Branch, UpsertAuditResults(b) PROVE RunInv'
  BY <1>14 DEF IInv, RunInv, Active, Unbounded, UpsertAuditResults
<1>15. ASSUME NEW b \in Branch, UpsertSyncCursor(b) PROVE RunInv'
  BY <1>15 DEF IInv, TypeOK, RunInv, Active, Unbounded, UpsertSyncCursor
<1>16. ASSUME NEW b \in Branch, BranchFails(b) PROVE RunInv'
  BY <1>16 DEF IInv, RunInv, Active, Unbounded, BranchFails
<1>17. ASSUME FinishRun PROVE RunInv'
  BY <1>17 DEF IInv, RunInv, Active, FinishRun
<1>18. ASSUME Crash PROVE RunInv'
  BY <1>18 DEF IInv, RunInv, Active, Crash
<1>19. ASSUME UNCHANGED vars PROVE RunInv'
  BY <1>19 DEF IInv, vars, TypeOK, RunInv, Active, Unbounded
<1>20. QED
  BY <1>1, <1>2, <1>3, <1>4, <1>5, <1>6, <1>7, <1>8, <1>9, <1>10, <1>11, <1>12, <1>13,
     <1>14, <1>15, <1>16, <1>17, <1>18, <1>19 DEF Next, BranchStep

\* Every action keeps MutexInv.
LEMMA MutexStep ==
  ASSUME IInv, [Next]_vars
  PROVE  MutexInv'
<1>1. ASSUME NEW b \in Branch, NEW c \in Commit, Push(b, c) PROVE MutexInv'
  BY <1>1 DEF IInv, MutexInv, InAudit, Push
<1>2. ASSUME NEW w \in Bounds, StartRun(w) PROVE MutexInv'
  BY <1>2 DEF IInv, RunInv, MutexInv, InAudit, StartRun
<1>3. ASSUME NEW b \in Branch, ReadCursor(b) PROVE MutexInv'
  BY <1>3 DEF IInv, MutexInv, InAudit, ReadCursor
<1>4. ASSUME NEW b \in Branch, HeadUnchanged(b) PROVE MutexInv'
  BY <1>4 DEF IInv, MutexInv, InAudit, HeadUnchanged
<1>5. ASSUME NEW b \in Branch, HeadMoved(b) PROVE MutexInv'
  BY <1>5 DEF IInv, MutexInv, InAudit, HeadMoved
<1>6. ASSUME NEW b \in Branch, HeadFails(b) PROVE MutexInv'
  BY <1>6 DEF IInv, MutexInv, InAudit, HeadFails
<1>7. ASSUME NEW b \in Branch, Compare(b) PROVE MutexInv'
  BY <1>7 DEF IInv, MutexInv, InAudit, Compare
<1>8. ASSUME NEW b \in Branch, CompareUnavailable(b) PROVE MutexInv'
  BY <1>8 DEF IInv, MutexInv, InAudit, CompareUnavailable
<1>9. ASSUME NEW b \in Branch, List(b) PROVE MutexInv'
  BY <1>9 DEF IInv, TypeOK, MutexInv, InAudit, List
<1>10. ASSUME NEW b \in Branch, UpsertCommits(b) PROVE MutexInv'
  BY <1>10 DEF IInv, MutexInv, InAudit, UpsertCommits
<1>11. ASSUME NEW b \in Branch, UpsertCommitBranches(b) PROVE MutexInv'
  BY <1>11 DEF IInv, MutexInv, InAudit, UpsertCommitBranches
<1>12. ASSUME NEW b \in Branch, LoadUnaudited(b) PROVE MutexInv'
  BY <1>12, BranchAssumption DEF IInv, TypeOK, MutexInv, InAudit, LoadUnaudited
<1>13. ASSUME NEW b \in Branch, NEW c \in Commit, EnrichBatch(b, c) PROVE MutexInv'
  BY <1>13 DEF IInv, MutexInv, InAudit, EnrichBatch
<1>14. ASSUME NEW b \in Branch, UpsertAuditResults(b) PROVE MutexInv'
  BY <1>14 DEF IInv, MutexInv, InAudit, UpsertAuditResults
<1>15. ASSUME NEW b \in Branch, UpsertSyncCursor(b) PROVE MutexInv'
  BY <1>15, BranchAssumption DEF IInv, TypeOK, MutexInv, InAudit, UpsertSyncCursor
<1>16. ASSUME NEW b \in Branch, BranchFails(b) PROVE MutexInv'
  BY <1>16, BranchAssumption DEF IInv, TypeOK, MutexInv, InAudit, BranchFails
<1>17. ASSUME FinishRun PROVE MutexInv'
  BY <1>17 DEF IInv, TypeOK, MutexInv, InAudit, FinishRun
<1>18. ASSUME Crash PROVE MutexInv'
  BY <1>18, BranchAssumption DEF IInv, MutexInv, InAudit, Crash
<1>19. ASSUME UNCHANGED vars PROVE MutexInv'
  BY <1>19 DEF IInv, vars, TypeOK, RunInv, MutexInv, InAudit
<1>20. QED
  BY <1>1, <1>2, <1>3, <1>4, <1>5, <1>6, <1>7, <1>8, <1>9, <1>10, <1>11, <1>12, <1>13,
     <1>14, <1>15, <1>16, <1>17, <1>18, <1>19 DEF Next, BranchStep

\* Every action keeps IngestInv.
LEMMA IngestStep ==
  ASSUME IInv, [Next]_vars
  PROVE  IngestInv'
<1>1. ASSUME NEW b \in Branch, NEW c \in Commit, Push(b, c) PROVE IngestInv'
  BY <1>1 DEF IInv, IngestInv, Push
<1>2. ASSUME NEW w \in Bounds, StartRun(w) PROVE IngestInv'
  BY <1>2 DEF IInv, IngestInv, StartRun
<1>3. ASSUME NEW b \in Branch, ReadCursor(b) PROVE IngestInv'
  BY <1>3 DEF IInv, IngestInv, ReadCursor
<1>4. ASSUME NEW b \in Branch, HeadUnchanged(b) PROVE IngestInv'
  BY <1>4 DEF IInv, RunInv, IngestInv, HeadUnchanged
<1>5. ASSUME NEW b \in Branch, HeadMoved(b) PROVE IngestInv'
  BY <1>5 DEF IInv, IngestInv, HeadMoved
<1>6. ASSUME NEW b \in Branch, HeadFails(b) PROVE IngestInv'
  BY <1>6 DEF IInv, IngestInv, HeadFails
<1>7. ASSUME NEW b \in Branch, Compare(b) PROVE IngestInv'
  BY <1>7 DEF IInv, TypeOK, IngestInv, Compare
<1>8. ASSUME NEW b \in Branch, CompareUnavailable(b) PROVE IngestInv'
  BY <1>8 DEF IInv, IngestInv, CompareUnavailable
<1>9. ASSUME NEW b \in Branch, List(b) PROVE IngestInv'
  BY <1>9 DEF IInv, TypeOK, IngestInv, List
<1>10. ASSUME NEW b \in Branch, UpsertCommits(b) PROVE IngestInv'
  BY <1>10 DEF IInv, IngestInv, UpsertCommits
<1>11. ASSUME NEW b \in Branch, UpsertCommitBranches(b) PROVE IngestInv'
  BY <1>11 DEF IInv, TypeOK, IngestInv, UpsertCommitBranches
<1>12. ASSUME NEW b \in Branch, LoadUnaudited(b) PROVE IngestInv'
  BY <1>12 DEF IInv, TypeOK, IngestInv, LoadUnaudited
<1>13. ASSUME NEW b \in Branch, NEW c \in Commit, EnrichBatch(b, c) PROVE IngestInv'
  <2>1. PRCommit[c] \in SUBSET Commit
    BY CommitAssumption
  <2>2. \A o \in Branch : commitBranches'[o] \subseteq commitBranches[o] \cup PRCommit[c]
    BY <1>13 DEF EnrichBatch
  <2>3. \A o \in Branch : commitBranches[o] \subseteq commitBranches'[o]
    BY <1>13 DEF EnrichBatch
  <2>4. QED
    BY <1>13, <2>1, <2>2, <2>3 DEF IInv, IngestInv, EnrichBatch
<1>14. ASSUME NEW b \in Branch, UpsertAuditResults(b) PROVE IngestInv'
  BY <1>14 DEF IInv, IngestInv, UpsertAuditResults
<1>15. ASSUME NEW b \in Branch, UpsertSyncCursor(b) PROVE IngestInv'
  BY <1>15 DEF IInv, IngestInv, UpsertSyncCursor
<1>16. ASSUME NEW b \in Branch, BranchFails(b) PROVE IngestInv'
  BY <1>16 DEF IInv, IngestInv, BranchFails
<1>17. ASSUME FinishRun PROVE IngestInv'
  BY <1>17 DEF IInv, IngestInv, FinishRun
<1>18. ASSUME Crash PROVE IngestInv'
  BY <1>18 DEF IInv, IngestInv, Crash
<1>19. ASSUME UNCHANGED vars PROVE IngestInv'
  BY <1>19 DEF IInv, vars, TypeOK, RunInv, IngestInv
<1>20. QED
  BY <1>1, <1>2, <1>3, <1>4, <1>5, <1>6, <1>7, <1>8, <1>9, <1>10, <1>11, <1>12, <1>13,
     <1>14, <1>15, <1>16, <1>17, <1>18, <1>19 DEF Next, BranchStep

\* Every action keeps FetchInv.
LEMMA FetchStep ==
  ASSUME IInv, [Next]_vars
  PROVE  FetchInv'
<1>1. ASSUME NEW b \in Branch, NEW c \in Commit, Push(b, c) PROVE FetchInv'
  BY <1>1 DEF IInv, FetchInv, HasFetched, Push
<1>2. ASSUME NEW w \in Bounds, StartRun(w) PROVE FetchInv'
  BY <1>2 DEF IInv, FetchInv, HasFetched, StartRun
<1>3. ASSUME NEW b \in Branch, ReadCursor(b) PROVE FetchInv'
  BY <1>3 DEF IInv, FetchInv, HasFetched, ReadCursor
<1>4. ASSUME NEW b \in Branch, HeadUnchanged(b) PROVE FetchInv'
  <2>1. tip'[b] = cursor[b].sha /\ cursor[b].sha \in Commit /\ run.since = 0
    BY <1>4 DEF HeadUnchanged, IInv, TypeOK, RunInv, Active, Unbounded
  <2>2. Reach[tip'[b]] \subseteq auditResults \cup excused[b]
    BY <2>1, CommitAssumption DEF IInv, CursorCovers
  <2>3. QED
    BY <1>4, <2>1, <2>2 DEF HeadUnchanged, IInv, TypeOK, FetchInv, HasFetched
<1>5. ASSUME NEW b \in Branch, HeadMoved(b) PROVE FetchInv'
  BY <1>5 DEF IInv, FetchInv, HasFetched, HeadMoved
<1>6. ASSUME NEW b \in Branch, HeadFails(b) PROVE FetchInv'
  BY <1>6 DEF IInv, FetchInv, HasFetched, HeadFails
<1>7. ASSUME NEW b \in Branch, Compare(b) PROVE FetchInv'
  <2>1. /\ snap[b].sha = cursor[b].sha /\ cursor[b].sha \in Commit
        /\ tip[b] \in Commit /\ run.since = 0
    BY <1>7 DEF Compare, IInv, TypeOK, RunInv, Active, Unbounded
  <2>2. Reach[cursor[b].sha] \subseteq auditResults \cup excused[b]
    BY <2>1, CommitAssumption DEF IInv, CursorCovers
  <2>3. Reach[tip[b]] \subseteq fetched'[b] \cup auditResults \cup excused[b]
    BY <1>7, <2>1, <2>2 DEF Compare, Range, IInv, TypeOK
  <2>4. \A o \in Branch \ {b} : pc'[o] = pc[o] /\ fetched'[o] = fetched[o]
    BY <1>7 DEF Compare, IInv, TypeOK
  <2>5. UNCHANGED <<tip, auditResults, excused, run>>
    BY <1>7 DEF Compare
  <2>6. QED
    BY <2>1, <2>3, <2>4, <2>5 DEF IInv, FetchInv, HasFetched
<1>8. ASSUME NEW b \in Branch, CompareUnavailable(b) PROVE FetchInv'
  BY <1>8 DEF IInv, FetchInv, HasFetched, CompareUnavailable
<1>9. ASSUME NEW b \in Branch, List(b) PROVE FetchInv'
  BY <1>9, CommitAssumption DEF IInv, TypeOK, FetchInv, HasFetched, Listed, SinceFor, List
<1>10. ASSUME NEW b \in Branch, UpsertCommits(b) PROVE FetchInv'
  BY <1>10 DEF IInv, FetchInv, HasFetched, UpsertCommits
<1>11. ASSUME NEW b \in Branch, UpsertCommitBranches(b) PROVE FetchInv'
  BY <1>11 DEF IInv, FetchInv, HasFetched, UpsertCommitBranches
<1>12. ASSUME NEW b \in Branch, LoadUnaudited(b) PROVE FetchInv'
  BY <1>12, CommitAssumption, BranchAssumption, BoundAssumption
    DEF IInv, TypeOK, RunInv, Active, FetchInv, HasFetched, Range, Unbounded, LoadUnaudited
<1>13. ASSUME NEW b \in Branch, NEW c \in Commit, EnrichBatch(b, c) PROVE FetchInv'
  BY <1>13, CommitAssumption, BranchAssumption, BoundAssumption
    DEF IInv, TypeOK, RunInv, Active, FetchInv, HasFetched, Range, Unbounded, EnrichBatch
<1>14. ASSUME NEW b \in Branch, UpsertAuditResults(b) PROVE FetchInv'
  BY <1>14 DEF IInv, FetchInv, HasFetched, UpsertAuditResults
<1>15. ASSUME NEW b \in Branch, UpsertSyncCursor(b) PROVE FetchInv'
  BY <1>15 DEF IInv, FetchInv, HasFetched, UpsertSyncCursor
<1>16. ASSUME NEW b \in Branch, BranchFails(b) PROVE FetchInv'
  BY <1>16 DEF IInv, FetchInv, HasFetched, BranchFails
<1>17. ASSUME FinishRun PROVE FetchInv'
  BY <1>17, CommitAssumption, BranchAssumption, BoundAssumption
    DEF IInv, TypeOK, RunInv, Active, FetchInv, HasFetched, Range, Unbounded, FinishRun
<1>18. ASSUME Crash PROVE FetchInv'
  BY <1>18 DEF IInv, FetchInv, Crash
<1>19. ASSUME UNCHANGED vars PROVE FetchInv'
  BY <1>19 DEF IInv, vars, TypeOK, RunInv, Active, FetchInv, HasFetched, CursorCovers, Range, Unbounded
<1>20. QED
  BY <1>1, <1>2, <1>3, <1>4, <1>5, <1>6, <1>7, <1>8, <1>9, <1>10, <1>11, <1>12, <1>13,
     <1>14, <1>15, <1>16, <1>17, <1>18, <1>19 DEF Next, BranchStep

\* Every action keeps LoadInv.
LEMMA LoadStep ==
  ASSUME IInv, [Next]_vars
  PROVE  LoadInv'
<1>1. ASSUME NEW b \in Branch, NEW c \in Commit, Push(b, c) PROVE LoadInv'
  BY <1>1 DEF IInv, LoadInv, Unbounded, Push
<1>2. ASSUME NEW w \in Bounds, StartRun(w) PROVE LoadInv'
  BY <1>2 DEF IInv, LoadInv, StartRun
<1>3. ASSUME NEW b \in Branch, ReadCursor(b) PROVE LoadInv'
  BY <1>3 DEF IInv, LoadInv, Unbounded, ReadCursor
<1>4. ASSUME NEW b \in Branch, HeadUnchanged(b) PROVE LoadInv'
  BY <1>4 DEF IInv, LoadInv, Unbounded, HeadUnchanged
<1>5. ASSUME NEW b \in Branch, HeadMoved(b) PROVE LoadInv'
  BY <1>5 DEF IInv, LoadInv, Unbounded, HeadMoved
<1>6. ASSUME NEW b \in Branch, HeadFails(b) PROVE LoadInv'
  BY <1>6 DEF IInv, LoadInv, Unbounded, HeadFails
<1>7. ASSUME NEW b \in Branch, Compare(b) PROVE LoadInv'
  BY <1>7 DEF IInv, LoadInv, Unbounded, Compare
<1>8. ASSUME NEW b \in Branch, CompareUnavailable(b) PROVE LoadInv'
  BY <1>8 DEF IInv, LoadInv, Unbounded, CompareUnavailable
<1>9. ASSUME NEW b \in Branch, List(b) PROVE LoadInv'
  BY <1>9 DEF IInv, TypeOK, LoadInv, Unbounded, List
<1>10. ASSUME NEW b \in Branch, UpsertCommits(b) PROVE LoadInv'
  BY <1>10 DEF IInv, LoadInv, Unbounded, UpsertCommits
<1>11. ASSUME NEW b \in Branch, UpsertCommitBranches(b) PROVE LoadInv'
  BY <1>11 DEF IInv, LoadInv, Unbounded, UpsertCommitBranches
<1>12. ASSUME NEW b \in Branch, LoadUnaudited(b) PROVE LoadInv'
  BY <1>12
    DEF IInv, TypeOK, FetchInv, HasFetched, IngestInv, LoadInv, Unbounded, Unaudited, LoadUnaudited
<1>13. ASSUME NEW b \in Branch, NEW c \in Commit, EnrichBatch(b, c) PROVE LoadInv'
  BY <1>13 DEF IInv, LoadInv, Unbounded, EnrichBatch
<1>14. ASSUME NEW b \in Branch, UpsertAuditResults(b) PROVE LoadInv'
  BY <1>14 DEF IInv, LoadInv, Unbounded, UpsertAuditResults
<1>15. ASSUME NEW b \in Branch, UpsertSyncCursor(b) PROVE LoadInv'
  BY <1>15 DEF IInv, LoadInv, Unbounded, UpsertSyncCursor
<1>16. ASSUME NEW b \in Branch, BranchFails(b) PROVE LoadInv'
  BY <1>16 DEF IInv, LoadInv, Unbounded, BranchFails
<1>17. ASSUME FinishRun PROVE LoadInv'
  BY <1>17 DEF IInv, LoadInv, FinishRun
<1>18. ASSUME Crash PROVE LoadInv'
  BY <1>18 DEF IInv, LoadInv, Crash
<1>19. ASSUME UNCHANGED vars PROVE LoadInv'
  BY <1>19 DEF IInv, vars, TypeOK, RunInv, FetchInv, HasFetched, IngestInv, LoadInv, Unbounded
<1>20. QED
  BY <1>1, <1>2, <1>3, <1>4, <1>5, <1>6, <1>7, <1>8, <1>9, <1>10, <1>11, <1>12, <1>13,
     <1>14, <1>15, <1>16, <1>17, <1>18, <1>19 DEF Next, BranchStep

\* Every action keeps EvidenceInv.
LEMMA EvidenceStep ==
  ASSUME IInv, [Next]_vars
  PROVE  EvidenceInv'
<1>1. ASSUME NEW b \in Branch, NEW c \in Commit, Push(b, c) PROVE EvidenceInv'
  BY <1>1 DEF IInv, EvidenceInv, HasFetched, Rewritten, Push
<1>2. ASSUME NEW w \in Bounds, StartRun(w) PROVE EvidenceInv'
  BY <1>2 DEF IInv, EvidenceInv, HasFetched, Rewritten, StartRun
<1>3. ASSUME NEW b \in Branch, ReadCursor(b) PROVE EvidenceInv'
  BY <1>3 DEF IInv, EvidenceInv, HasFetched, Rewritten, ReadCursor
<1>4. ASSUME NEW b \in Branch, HeadUnchanged(b) PROVE EvidenceInv'
  BY <1>4 DEF IInv, TypeOK, EvidenceInv, HasFetched, Rewritten, HeadUnchanged
<1>5. ASSUME NEW b \in Branch, HeadMoved(b) PROVE EvidenceInv'
  BY <1>5 DEF IInv, EvidenceInv, HasFetched, Rewritten, HeadMoved
<1>6. ASSUME NEW b \in Branch, HeadFails(b) PROVE EvidenceInv'
  BY <1>6 DEF IInv, EvidenceInv, HasFetched, Rewritten, HeadFails
<1>7. ASSUME NEW b \in Branch, Compare(b) PROVE EvidenceInv'
  BY <1>7 DEF IInv, EvidenceInv, HasFetched, Rewritten, Compare
<1>8. ASSUME NEW b \in Branch, CompareUnavailable(b) PROVE EvidenceInv'
  BY <1>8 DEF IInv, EvidenceInv, HasFetched, Rewritten, CompareUnavailable
<1>9. ASSUME NEW b \in Branch, List(b) PROVE EvidenceInv'
  BY <1>9 DEF IInv, TypeOK, EvidenceInv, HasFetched, Rewritten, List
<1>10. ASSUME NEW b \in Branch, UpsertCommits(b) PROVE EvidenceInv'
  BY <1>10 DEF IInv, EvidenceInv, HasFetched, Rewritten, UpsertCommits
<1>11. ASSUME NEW b \in Branch, UpsertCommitBranches(b) PROVE EvidenceInv'
  BY <1>11 DEF IInv, EvidenceInv, HasFetched, Rewritten, UpsertCommitBranches
<1>12. ASSUME NEW b \in Branch, LoadUnaudited(b) PROVE EvidenceInv'
  BY <1>12 DEF IInv, EvidenceInv, HasFetched, Rewritten, LoadUnaudited
<1>13. ASSUME NEW b \in Branch, NEW c \in Commit, EnrichBatch(b, c) PROVE EvidenceInv'
  BY <1>13 DEF IInv, EvidenceInv, HasFetched, Rewritten, EnrichBatch
<1>14. ASSUME NEW b \in Branch, UpsertAuditResults(b) PROVE EvidenceInv'
  BY <1>14 DEF IInv, EvidenceInv, HasFetched, Rewritten, UpsertAuditResults
<1>15. ASSUME NEW b \in Branch, UpsertSyncCursor(b) PROVE EvidenceInv'
  BY <1>15 DEF IInv, EvidenceInv, HasFetched, Rewritten, UpsertSyncCursor
<1>16. ASSUME NEW b \in Branch, BranchFails(b) PROVE EvidenceInv'
  BY <1>16 DEF IInv, EvidenceInv, HasFetched, Rewritten, BranchFails
<1>17. ASSUME FinishRun PROVE EvidenceInv'
  BY <1>17 DEF IInv, EvidenceInv, Rewritten, FinishRun
<1>18. ASSUME Crash PROVE EvidenceInv'
  BY <1>18 DEF IInv, EvidenceInv, Rewritten, Crash
<1>19. ASSUME UNCHANGED vars PROVE EvidenceInv'
  BY <1>19 DEF IInv, vars, TypeOK, RunInv, Active, EvidenceInv, HasFetched, Rewritten
<1>20. QED
  BY <1>1, <1>2, <1>3, <1>4, <1>5, <1>6, <1>7, <1>8, <1>9, <1>10, <1>11, <1>12, <1>13,
     <1>14, <1>15, <1>16, <1>17, <1>18, <1>19 DEF Next, BranchStep

\* Every action keeps CursorCovers.
LEMMA CoversStep ==
  ASSUME IInv, [Next]_vars
  PROVE  CursorCovers'
<1>1. ASSUME NEW b \in Branch, NEW c \in Commit, Push(b, c) PROVE CursorCovers'
  BY <1>1 DEF IInv, CursorCovers, Push
<1>2. ASSUME NEW w \in Bounds, StartRun(w) PROVE CursorCovers'
  BY <1>2 DEF IInv, CursorCovers, StartRun
<1>3. ASSUME NEW b \in Branch, ReadCursor(b) PROVE CursorCovers'
  BY <1>3 DEF IInv, CursorCovers, ReadCursor
<1>4. ASSUME NEW b \in Branch, HeadUnchanged(b) PROVE CursorCovers'
  BY <1>4 DEF IInv, CursorCovers, HeadUnchanged
<1>5. ASSUME NEW b \in Branch, HeadMoved(b) PROVE CursorCovers'
  BY <1>5 DEF IInv, CursorCovers, HeadMoved
<1>6. ASSUME NEW b \in Branch, HeadFails(b) PROVE CursorCovers'
  BY <1>6 DEF IInv, CursorCovers, HeadFails
<1>7. ASSUME NEW b \in Branch, Compare(b) PROVE CursorCovers'
  BY <1>7 DEF IInv, CursorCovers, Compare
<1>8. ASSUME NEW b \in Branch, CompareUnavailable(b) PROVE CursorCovers'
  BY <1>8 DEF IInv, CursorCovers, CompareUnavailable
<1>9. ASSUME NEW b \in Branch, List(b) PROVE CursorCovers'
  BY <1>9 DEF IInv, CursorCovers, List
<1>10. ASSUME NEW b \in Branch, UpsertCommits(b) PROVE CursorCovers'
  BY <1>10 DEF IInv, CursorCovers, UpsertCommits
<1>11. ASSUME NEW b \in Branch, UpsertCommitBranches(b) PROVE CursorCovers'
  BY <1>11 DEF IInv, CursorCovers, UpsertCommitBranches
<1>12. ASSUME NEW b \in Branch, LoadUnaudited(b) PROVE CursorCovers'
  BY <1>12 DEF IInv, CursorCovers, LoadUnaudited
<1>13. ASSUME NEW b \in Branch, NEW c \in Commit, EnrichBatch(b, c) PROVE CursorCovers'
  BY <1>13 DEF IInv, CursorCovers, EnrichBatch
<1>14. ASSUME NEW b \in Branch, UpsertAuditResults(b) PROVE CursorCovers'
  BY <1>14 DEF IInv, CursorCovers, UpsertAuditResults
<1>15. ASSUME NEW b \in Branch, UpsertSyncCursor(b) PROVE CursorCovers'
  <2>1. UNCHANGED <<auditResults, excused>>
    BY <1>15 DEF UpsertSyncCursor
  <2>2. /\ cursor'[b].sha = NewLastSHA(b)
        /\ \A o \in Branch \ {b} : cursor'[o] = cursor[o]
    BY <1>15 DEF UpsertSyncCursor, IInv, TypeOK
  <2>3. snap[b] = cursor[b]
    BY <1>15 DEF UpsertSyncCursor, IInv, RunInv, Active
  <2>4. CASE run.until # 0 \/ tip[b] = None
    BY <2>1, <2>2, <2>3, <2>4 DEF NewLastSHA, IInv, CursorCovers
  <2>5. CASE run.until = 0 /\ tip[b] # None
    <3>1. cursor'[b].sha = tip[b]
      BY <2>2, <2>5 DEF NewLastSHA
    <3>2. fetched[b] \subseteq auditResults
      BY <1>15, <2>5 DEF UpsertSyncCursor, IInv, LoadInv
    <3>3. Reach[tip[b]] \subseteq auditResults \cup excused[b]
      BY <1>15, <2>5, <3>2 DEF UpsertSyncCursor, IInv, FetchInv, HasFetched
    <3>4. QED
      BY <2>1, <2>2, <3>1, <3>3 DEF IInv, CursorCovers
  <2>6. QED
    BY <2>4, <2>5
<1>16. ASSUME NEW b \in Branch, BranchFails(b) PROVE CursorCovers'
  BY <1>16 DEF IInv, CursorCovers, BranchFails
<1>17. ASSUME FinishRun PROVE CursorCovers'
  BY <1>17 DEF IInv, CursorCovers, FinishRun
<1>18. ASSUME Crash PROVE CursorCovers'
  BY <1>18 DEF IInv, CursorCovers, Crash
<1>19. ASSUME UNCHANGED vars PROVE CursorCovers'
  BY <1>19 DEF IInv, vars, TypeOK, RunInv, Active, CursorCovers
<1>20. QED
  BY <1>1, <1>2, <1>3, <1>4, <1>5, <1>6, <1>7, <1>8, <1>9, <1>10, <1>11, <1>12, <1>13,
     <1>14, <1>15, <1>16, <1>17, <1>18, <1>19 DEF Next, BranchStep

\* Every action keeps StampMeansDrained.
LEMMA StampStep ==
  ASSUME IInv, [Next]_vars
  PROVE  StampMeansDrained'
<1>1. ASSUME NEW b \in Branch, NEW c \in Commit, Push(b, c) PROVE StampMeansDrained'
  BY <1>1 DEF IInv, StampMeansDrained, Push
<1>2. ASSUME NEW w \in Bounds, StartRun(w) PROVE StampMeansDrained'
  BY <1>2 DEF IInv, StampMeansDrained, StartRun
<1>3. ASSUME NEW b \in Branch, ReadCursor(b) PROVE StampMeansDrained'
  BY <1>3 DEF IInv, StampMeansDrained, ReadCursor
<1>4. ASSUME NEW b \in Branch, HeadUnchanged(b) PROVE StampMeansDrained'
  BY <1>4 DEF IInv, StampMeansDrained, HeadUnchanged
<1>5. ASSUME NEW b \in Branch, HeadMoved(b) PROVE StampMeansDrained'
  BY <1>5 DEF IInv, StampMeansDrained, HeadMoved
<1>6. ASSUME NEW b \in Branch, HeadFails(b) PROVE StampMeansDrained'
  BY <1>6 DEF IInv, StampMeansDrained, HeadFails
<1>7. ASSUME NEW b \in Branch, Compare(b) PROVE StampMeansDrained'
  BY <1>7 DEF IInv, StampMeansDrained, Compare
<1>8. ASSUME NEW b \in Branch, CompareUnavailable(b) PROVE StampMeansDrained'
  BY <1>8 DEF IInv, StampMeansDrained, CompareUnavailable
<1>9. ASSUME NEW b \in Branch, List(b) PROVE StampMeansDrained'
  BY <1>9 DEF IInv, StampMeansDrained, List
<1>10. ASSUME NEW b \in Branch, UpsertCommits(b) PROVE StampMeansDrained'
  BY <1>10 DEF IInv, StampMeansDrained, UpsertCommits
<1>11. ASSUME NEW b \in Branch, UpsertCommitBranches(b) PROVE StampMeansDrained'
  BY <1>11 DEF IInv, RunInv, StampMeansDrained, UpsertCommitBranches
<1>12. ASSUME NEW b \in Branch, LoadUnaudited(b) PROVE StampMeansDrained'
  BY <1>12 DEF IInv, StampMeansDrained, LoadUnaudited
<1>13. ASSUME NEW b \in Branch, NEW c \in Commit, EnrichBatch(b, c) PROVE StampMeansDrained'
  BY <1>13 DEF IInv, StampMeansDrained, EnrichBatch
<1>14. ASSUME NEW b \in Branch, UpsertAuditResults(b) PROVE StampMeansDrained'
  BY <1>14 DEF IInv, StampMeansDrained, UpsertAuditResults
<1>15. ASSUME NEW b \in Branch, UpsertSyncCursor(b) PROVE StampMeansDrained'
  BY <1>15 DEF IInv, StampMeansDrained, UpsertSyncCursor
<1>16. ASSUME NEW b \in Branch, BranchFails(b) PROVE StampMeansDrained'
  BY <1>16 DEF IInv, StampMeansDrained, BranchFails
<1>17. ASSUME FinishRun PROVE StampMeansDrained'
  BY <1>17 DEF IInv, LoadInv, StampMeansDrained, FinishRun
<1>18. ASSUME Crash PROVE StampMeansDrained'
  BY <1>18 DEF IInv, StampMeansDrained, Crash
<1>19. ASSUME UNCHANGED vars PROVE StampMeansDrained'
  BY <1>19 DEF IInv, vars, TypeOK, RunInv, LoadInv, Unbounded, StampMeansDrained
<1>20. QED
  BY <1>1, <1>2, <1>3, <1>4, <1>5, <1>6, <1>7, <1>8, <1>9, <1>10, <1>11, <1>12, <1>13,
     <1>14, <1>15, <1>16, <1>17, <1>18, <1>19 DEF Next, BranchStep

\* Every action keeps NoDoubleAudit.
LEMMA DoubleStep ==
  ASSUME IInv, [Next]_vars
  PROVE  NoDoubleAudit'
<1>1. ASSUME NEW b \in Branch, NEW c \in Commit, Push(b, c) PROVE NoDoubleAudit'
  BY <1>1 DEF IInv, NoDoubleAudit, Push
<1>2. ASSUME NEW w \in Bounds, StartRun(w) PROVE NoDoubleAudit'
  BY <1>2 DEF IInv, NoDoubleAudit, StartRun
<1>3. ASSUME NEW b \in Branch, ReadCursor(b) PROVE NoDoubleAudit'
  BY <1>3 DEF IInv, NoDoubleAudit, ReadCursor
<1>4. ASSUME NEW b \in Branch, HeadUnchanged(b) PROVE NoDoubleAudit'
  BY <1>4 DEF IInv, NoDoubleAudit, HeadUnchanged
<1>5. ASSUME NEW b \in Branch, HeadMoved(b) PROVE NoDoubleAudit'
  BY <1>5 DEF IInv, NoDoubleAudit, HeadMoved
<1>6. ASSUME NEW b \in Branch, HeadFails(b) PROVE NoDoubleAudit'
  BY <1>6 DEF IInv, NoDoubleAudit, HeadFails
<1>7. ASSUME NEW b \in Branch, Compare(b) PROVE NoDoubleAudit'
  BY <1>7 DEF IInv, NoDoubleAudit, Compare
<1>8. ASSUME NEW b \in Branch, CompareUnavailable(b) PROVE NoDoubleAudit'
  BY <1>8 DEF IInv, NoDoubleAudit, CompareUnavailable
<1>9. ASSUME NEW b \in Branch, List(b) PROVE NoDoubleAudit'
  BY <1>9, BranchAssumption DEF IInv, TypeOK, NoDoubleAudit, List
<1>10. ASSUME NEW b \in Branch, UpsertCommits(b) PROVE NoDoubleAudit'
  BY <1>10 DEF IInv, NoDoubleAudit, UpsertCommits
<1>11. ASSUME NEW b \in Branch, UpsertCommitBranches(b) PROVE NoDoubleAudit'
  BY <1>11 DEF IInv, NoDoubleAudit, UpsertCommitBranches
<1>12. ASSUME NEW b \in Branch, LoadUnaudited(b) PROVE NoDoubleAudit'
  BY <1>12 DEF IInv, TypeOK, NoDoubleAudit, Unaudited, LoadUnaudited
<1>13. ASSUME NEW b \in Branch, NEW c \in Commit, EnrichBatch(b, c) PROVE NoDoubleAudit'
  BY <1>13 DEF IInv, NoDoubleAudit, EnrichBatch
<1>14. ASSUME NEW b \in Branch, UpsertAuditResults(b) PROVE NoDoubleAudit'
  BY <1>14 DEF IInv, TypeOK, MutexInv, InAudit, NoDoubleAudit, UpsertAuditResults
<1>15. ASSUME NEW b \in Branch, UpsertSyncCursor(b) PROVE NoDoubleAudit'
  BY <1>15 DEF IInv, NoDoubleAudit, UpsertSyncCursor
<1>16. ASSUME NEW b \in Branch, BranchFails(b) PROVE NoDoubleAudit'
  BY <1>16 DEF IInv, NoDoubleAudit, BranchFails
<1>17. ASSUME FinishRun PROVE NoDoubleAudit'
  BY <1>17 DEF IInv, NoDoubleAudit, FinishRun
<1>18. ASSUME Crash PROVE NoDoubleAudit'
  BY <1>18 DEF IInv, NoDoubleAudit, Crash
<1>19. ASSUME UNCHANGED vars PROVE NoDoubleAudit'
  BY <1>19 DEF IInv, vars, TypeOK, MutexInv, InAudit, NoDoubleAudit, Unaudited
<1>20. QED
  BY <1>1, <1>2, <1>3, <1>4, <1>5, <1>6, <1>7, <1>8, <1>9, <1>10, <1>11, <1>12, <1>13,
     <1>14, <1>15, <1>16, <1>17, <1>18, <1>19 DEF Next, BranchStep

-----------------------------------------------------------------------------
\* The initial tables are empty and no goroutine is at work.
LEMMA InitIInv == Init => IInv
<1> SUFFICES ASSUME Init PROVE IInv
  OBVIOUS
<1>1. TypeOK
  BY CommitAssumption, BranchAssumption DEF Init, TypeOK, Step
<1>2. RunInv /\ MutexInv /\ IngestInv
  BY BranchAssumption DEF Init, RunInv, Active, MutexInv, InAudit, IngestInv
<1>3. FetchInv /\ LoadInv /\ EvidenceInv
  BY DEF Init, FetchInv, HasFetched, LoadInv, EvidenceInv
<1>4. CursorCovers /\ StampMeansDrained /\ NoDoubleAudit
  BY DEF Init, CursorCovers, StampMeansDrained, NoDoubleAudit
<1>5. QED
  BY <1>1, <1>2, <1>3, <1>4 DEF IInv

\* IInv is inductive.
THEOREM Inductive == Spec => []IInv
<1>1. Init => IInv
  BY InitIInv
<1>2. IInv /\ [Next]_vars => IInv'
  <2> SUFFICES ASSUME IInv, [Next]_vars PROVE IInv'
    OBVIOUS
  <2>1. TypeOK' /\ RunInv' /\ MutexInv' /\ IngestInv' /\ FetchInv'
    BY TypeStep, RunStep, MutexStep, IngestStep, FetchStep
  <2>2. LoadInv' /\ EvidenceInv' /\ CursorCovers' /\ StampMeansDrained' /\ NoDoubleAudit'
    BY LoadStep, EvidenceStep, CoversStep, StampStep, DoubleStep
  <2>3. QED
    BY <2>1, <2>2 DEF IInv
<1>3. QED
  BY <1>1, <1>2, PTL DEF Spec

\* Every variable keeps its type.
THEOREM TypeCorrect == Spec => []TypeOK
<1>1. IInv => TypeOK
  BY DEF IInv
<1>2. QED
  BY <1>1, Inductive, PTL

\* Whatever is reachable from a recorded tip has a verdict, or was left out by
\* the dates of a listing: for every graph, any number of branches, any flags,
\* and any sequence of crashes, failures and force-pushes.
THEOREM CursorIsCovered == Spec => []CursorCovers
<1>1. IInv => CursorCovers
  BY DEF IInv
<1>2. QED
  BY <1>1, Inductive, PTL

\* A stamped unbounded sweep leaves no listed commit of an audited branch
\* without a verdict.
THEOREM StampIsDrained == Spec => []StampMeansDrained
<1>1. IInv => StampMeansDrained
  BY DEF IInv
<1>2. QED
  BY <1>1, Inductive, PTL

\* No commit is enriched and audited by two branches of a run.
THEOREM AuditedOnce == Spec => []NoDoubleAudit
<1>1. IInv => NoDoubleAudit
  BY DEF IInv
<1>2. QED
  BY <1>1, Inductive, PTL

\* A cursor moved by the graph path onto rewritten history left evidence first.
THEOREM EvidenceOnRecord == Spec => RewriteLeavesEvidence
<1> DEFINE Recorded ==
      \A b \in Branch :
        (via[b] = "graph" /\ cursor[b].sha # None /\ Rewritten(cursor[b].sha, cursor'[b].sha))
          => <<b, cursor[b].sha, cursor'[b].sha>> \in historyRewrites \cup unrecorded
<1>1. IInv /\ [Next]_vars => [Recorded]_cursor
  <2> SUFFICES ASSUME IInv, [Next]_vars, cursor' # cursor PROVE Recorded
    OBVIOUS
  <2>1. PICK b \in Branch : UpsertSyncCursor(b)
    BY DEF Next, BranchStep, vars, Push, StartRun, ReadCursor, HeadUnchanged, HeadMoved,
       HeadFails, Compare, CompareUnavailable, List, UpsertCommits, UpsertCommitBranches,
       LoadUnaudited, EnrichBatch, UpsertAuditResults, BranchFails, FinishRun, Crash
  <2>2. /\ cursor'[b].sha = NewLastSHA(b)
        /\ \A o \in Branch \ {b} : cursor'[o] = cursor[o]
    BY <2>1 DEF UpsertSyncCursor, IInv, TypeOK
  <2>3. snap[b] = cursor[b] /\ HasFetched(b)
    BY <2>1 DEF UpsertSyncCursor, IInv, RunInv, Active, HasFetched
  <2>4. QED
    BY <2>2, <2>3 DEF NewLastSHA, Rewritten, IInv, EvidenceInv
<1>2. QED
  BY <1>1, Inductive, PTL DEF Spec, RewriteLeavesEvidence
\* The detailed pipeline implements the ledger: an audit or a listing by date
\* adds to the ledger's sets, a cursor update advances one tip over settled
\* history, and every other step is invisible.
THEOREM PipelineImplementsLedger == Spec => ImplementsLedger
<1>1. Init => Ledger!Init
  BY DEF Init, Ledger!Init
<1>2. IInv /\ [Next]_vars => [Ledger!Next]_(Ledger!ledger)
  <2> SUFFICES ASSUME IInv, [Next]_vars, ~ UNCHANGED Ledger!ledger PROVE Ledger!Next
    OBVIOUS
  <2>1. \E b \in Branch : List(b) \/ UpsertAuditResults(b) \/ UpsertSyncCursor(b)
    BY DEF Next, BranchStep, vars, Ledger!ledger, Push, StartRun, ReadCursor, HeadUnchanged,
       HeadMoved, HeadFails, Compare, CompareUnavailable, UpsertCommits, UpsertCommitBranches,
       LoadUnaudited, EnrichBatch, BranchFails, FinishRun, Crash
  <2>2. PICK b \in Branch : List(b) \/ UpsertAuditResults(b) \/ UpsertSyncCursor(b)
    BY <2>1
  <2>3. CASE List(b)
    <3>1. Reach[head[b]] \ Listed(b) \in SUBSET Commit
      BY CommitAssumption DEF IInv, TypeOK
    <3>2. Ledger!Excuse(b)
      BY <2>3, <3>1 DEF List, Ledger!Excuse
    <3>3. QED
      BY <3>2 DEF Ledger!Next
  <2>4. CASE UpsertAuditResults(b)
    <3>1. work[b] \in SUBSET Commit
      BY DEF IInv, TypeOK
    <3>2. Ledger!Audit
      BY <2>4, <3>1 DEF UpsertAuditResults, Ledger!Audit
    <3>3. QED
      BY <3>2 DEF Ledger!Next
  <2>5. CASE UpsertSyncCursor(b)
    <3>1. /\ cursor'[b].sha = NewLastSHA(b)
          /\ \A o \in Branch \ {b} : cursor'[o] = cursor[o]
          /\ UNCHANGED <<auditResults, excused>>
      BY <2>5 DEF UpsertSyncCursor, IInv, TypeOK
    <3>2. snap[b] = cursor[b]
      BY <2>5 DEF UpsertSyncCursor, IInv, RunInv, Active
    <3>3. NewLastSHA(b) # cursor[b].sha
      BY <3>1 DEF Ledger!ledger
    <3>4. tip[b] \in Commit /\ NewLastSHA(b) = tip[b]
      BY <3>2, <3>3 DEF NewLastSHA, IInv, TypeOK
    <3>5. CursorCovers'
      BY CoversStep
    <3>6. PICK t \in Commit : t = tip[b]
      BY <3>4
    <3>7. Reach[t] \subseteq auditResults \cup excused[b]
      BY <3>1, <3>4, <3>5, <3>6, CommitAssumption DEF CursorCovers
    <3>8. [o \in Branch |-> cursor'[o].sha]
            = [[o \in Branch |-> cursor[o].sha] EXCEPT ![b] = t]
      BY <3>1, <3>4, <3>6
    <3>9. Ledger!Advance(b, t)
      BY <3>1, <3>7, <3>8 DEF Ledger!Advance
    <3>10. QED
      BY <3>9 DEF Ledger!Next
  <2>6. QED
    BY <2>2, <2>3, <2>4, <2>5
<1>3. QED
  BY <1>1, <1>2, Inductive, PTL DEF Spec, ImplementsLedger, Ledger!Spec

\* Neither half of a cursor is ever lost: the date only grows, a tip is only
\* replaced by another tip.
THEOREM CursorKept == Spec => CursorNeverRegresses
<1> DEFINE Kept ==
      \A b \in Branch :
        /\ cursor'[b].date >= cursor[b].date
        /\ cursor[b].sha # None => cursor'[b].sha # None
<1>1. IInv /\ [Next]_vars => [Kept]_cursor
  <2> SUFFICES ASSUME IInv, [Next]_vars, cursor' # cursor PROVE Kept
    OBVIOUS
  <2>1. PICK b \in Branch : UpsertSyncCursor(b)
    BY DEF Next, BranchStep, vars, Push, StartRun, ReadCursor, HeadUnchanged, HeadMoved,
       HeadFails, Compare, CompareUnavailable, List, UpsertCommits, UpsertCommitBranches,
       LoadUnaudited, EnrichBatch, UpsertAuditResults, BranchFails, FinishRun, Crash
  <2>2. /\ cursor'[b].sha = NewLastSHA(b)
        /\ \A d \in Dates(b) : d <= cursor'[b].date
        /\ \A o \in Branch \ {b} : cursor'[o] = cursor[o]
    BY <2>1 DEF UpsertSyncCursor, IInv, TypeOK
  <2>3. snap[b] = cursor[b]
    BY <2>1 DEF UpsertSyncCursor, IInv, RunInv, Active
  <2>4. \A o \in Branch : cursor[o].date \in Nat
    BY DEF IInv, TypeOK
  <2>5. QED
    BY <2>2, <2>3, <2>4 DEF NewLastSHA, Dates
<1>2. QED
  BY <1>1, Inductive, PTL DEF Spec, CursorNeverRegresses
=============================================================================
