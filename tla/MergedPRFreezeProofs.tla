------------------------ MODULE MergedPRFreezeProofs ------------------------
(***************************************************************************)
(* Proofs about MergedPRFreeze, for any number of concurrent batches, any  *)
(* kinds of rows and any budget of failures and crashes, and after them    *)
(* about BackfillPR, which puts a backfill beside the batches.  One lemma  *)
(* per conjunct of the inductive invariant; none but the one about the PR  *)
(* row needs that row to be sound, so that they serve BackfillPR as well.  *)
(***************************************************************************)
EXTENDS BackfillPR, TLAPS

USE DEF ci, tables, caches, batches, writer, budget, Goto, Fault, Exit, Nothing, IsPRMerged

\* Resolving one kind with a snapshot keeps the types of what it changes.
LEMMA ResolveTypes ==
  ASSUME TypeOK, NEW b \in Batch, NEW snapshot \in Cached, Resolve(b, snapshot)
  PROVE  /\ got' \in [Batch -> [Kind -> Cached]]
         /\ at' \in [Batch -> Kind]
         /\ pc' \in [Batch -> {"idle", "pr", "mem", "rows", "row", "api", "queued", "done", "failed"}]
         /\ jobs' \subseteq Batch
<1>1. at[b] \in Kind /\ got[b] \in [Kind -> Cached]
  BY DEF TypeOK
<1>2. [got[b] EXCEPT ![at[b]] = snapshot] \in [Kind -> Cached]
  BY <1>1
<1>3. got' \in [Batch -> [Kind -> Cached]]
  BY <1>2 DEF TypeOK, Resolve
<1>4. After(at[b]) \in Kind
  BY DEF After, Kind
<1>5. at' \in [Batch -> Kind]
  BY <1>4 DEF TypeOK, Resolve
<1>6. jobs' \subseteq Batch
  BY DEF TypeOK, Resolve
<1>7. pc' \in [Batch -> {"idle", "pr", "mem", "rows", "row", "api", "queued", "done", "failed"}]
  BY DEF TypeOK, Resolve
<1>8. QED
  BY <1>3, <1>5, <1>6, <1>7

\* Every action keeps the types.
LEMMA FreezeTypeStep ==
  ASSUME ProgressInv, [Next]_vars
  PROVE  TypeOK'
<1>1. ASSUME CIDone PROVE TypeOK'
  BY <1>1 DEF ProgressInv, TypeOK, CIDone
<1>2. ASSUME NEW S \in SUBSET Batch, StartRun(S) PROVE TypeOK'
  BY <1>2 DEF ProgressInv, TypeOK, StartRun
<1>3. ASSUME NEW b \in Batch, GetPR(b) PROVE TypeOK'
  BY <1>3 DEF ProgressInv, TypeOK, GetPR
<1>4. ASSUME NEW b \in Batch, HitMemory(b) PROVE TypeOK'
  <2>1. mem[at[b]] \in Cached /\ Resolve(b, mem[at[b]])
    BY <1>4 DEF ProgressInv, TypeOK, HitMemory
  <2>2. QED
    BY <1>4, <2>1, ResolveTypes DEF ProgressInv, TypeOK, HitMemory
<1>5. ASSUME NEW b \in Batch, MissMemory(b) PROVE TypeOK'
  BY <1>5 DEF ProgressInv, TypeOK, MissMemory
<1>6. ASSUME NEW b \in Batch, ReadRows(b) PROVE TypeOK'
  <2>1. rows[at[b]] \in Snapshot
    BY DEF ProgressInv, TypeOK
  <2>2. read' \in [Batch -> Snapshot]
    BY <1>6, <2>1 DEF ProgressInv, TypeOK, ReadRows
  <2>3. QED
    BY <1>6, <2>2 DEF ProgressInv, TypeOK, ReadRows
<1>7. ASSUME NEW b \in Batch, TrustRows(b) PROVE TypeOK'
  <2>1. read[b] \in Cached /\ Resolve(b, read[b])
    BY <1>7 DEF ProgressInv, TypeOK, Cached, TrustRows
  <2>2. mem' \in [Kind -> Cached]
    BY <1>7, <2>1 DEF ProgressInv, TypeOK, TrustRows
  <2>3. QED
    BY <1>7, <2>1, <2>2, ResolveTypes DEF ProgressInv, TypeOK, TrustRows
<1>8. ASSUME NEW b \in Batch, DistrustRows(b) PROVE TypeOK'
  BY <1>8 DEF ProgressInv, TypeOK, DistrustRows
<1>9. ASSUME NEW b \in Batch, Fetch(b) PROVE TypeOK'
  <2>1. OnGitHub(at[b]) \in Cached /\ Resolve(b, OnGitHub(at[b]))
    BY <1>9 DEF OnGitHub, Snapshot, Cached, Fetch
  <2>2. mem' \in [Kind -> Cached]
    BY <1>9, <2>1 DEF ProgressInv, TypeOK, Fetch
  <2>3. QED
    BY <1>9, <2>1, <2>2, ResolveTypes DEF ProgressInv, TypeOK, Fetch
<1>10. ASSUME NEW b \in Batch, BatchFails(b) PROVE TypeOK'
  BY <1>10 DEF ProgressInv, TypeOK, BatchFails
<1>11. ASSUME NEW b \in Batch, TakeJob(b) PROVE TypeOK'
  BY <1>11 DEF ProgressInv, TypeOK, Kind, TakeJob
<1>12. ASSUME UpsertRows PROVE TypeOK'
  <2>1. writing \in Batch /\ got[writing] \in [Kind -> Cached] /\ got[writing][stmt] # "miss"
    BY <1>12 DEF ProgressInv, TypeOK, CompleteInv, Kind, UpsertRows
  <2>2. rows' \in [Kind -> Snapshot]
    BY <1>12, <2>1 DEF ProgressInv, TypeOK, Cached, UpsertRows
  <2>3. QED
    BY <1>12, <2>2 DEF ProgressInv, TypeOK, Kind, After, UpsertRows
<1>13. ASSUME UpsertPullRequests PROVE TypeOK'
  BY <1>13 DEF ProgressInv, TypeOK, UpsertPullRequests
<1>14. ASSUME StatementFails PROVE TypeOK'
  BY <1>14 DEF ProgressInv, TypeOK, StatementFails
<1>15. ASSUME UpsertAuditResults PROVE TypeOK'
  BY <1>15 DEF ProgressInv, TypeOK, Kind, Snapshot, Cached, UpsertAuditResults
<1>16. ASSUME RunFails PROVE TypeOK'
  BY <1>16 DEF ProgressInv, TypeOK, Kind, Snapshot, Cached, RunFails
<1>17. ASSUME Crash PROVE TypeOK'
  <2>1. crashes' \in Nat
    BY <1>17 DEF ProgressInv, TypeOK, Crash
  <2>2. got' \in [Batch -> [Kind -> Cached]] /\ mem' \in [Kind -> Cached]
    BY <1>17 DEF Crash, Cached
  <2>3. QED
    BY <1>17, <2>1, <2>2 DEF ProgressInv, TypeOK, Kind, Snapshot, Crash
<1>18. ASSUME UNCHANGED vars PROVE TypeOK'
  BY <1>18 DEF ProgressInv, vars, TypeOK
<1>19. QED
  BY <1>1, <1>2, <1>3, <1>4, <1>5, <1>6, <1>7, <1>8, <1>9, <1>10, <1>11, <1>12,
     <1>13, <1>14, <1>15, <1>16, <1>17, <1>18
    DEF Next, BatchStep, WriterStep

\* The PR row vouches for these kinds.
Vouches(S) == prRow => \A k \in S : rows[k] # "absent"

\* The PR row is never stored before the rows it vouches for, and they stay.
LEMMA VouchesStep ==
  ASSUME ProgressInv, [Next]_vars, NEW K \in SUBSET Truth, Vouches(K)
  PROVE  Vouches(K)'
<1>1. ASSUME CIDone PROVE Vouches(K)'
  BY <1>1 DEF ProgressInv, Vouches, CIDone
<1>2. ASSUME NEW S \in SUBSET Batch, StartRun(S) PROVE Vouches(K)'
  BY <1>2 DEF ProgressInv, Vouches, StartRun
<1>3. ASSUME NEW b \in Batch, GetPR(b) PROVE Vouches(K)'
  BY <1>3 DEF ProgressInv, Vouches, GetPR
<1>4. ASSUME NEW b \in Batch, HitMemory(b) PROVE Vouches(K)'
  BY <1>4 DEF ProgressInv, Vouches, HitMemory
<1>5. ASSUME NEW b \in Batch, MissMemory(b) PROVE Vouches(K)'
  BY <1>5 DEF ProgressInv, Vouches, MissMemory
<1>6. ASSUME NEW b \in Batch, ReadRows(b) PROVE Vouches(K)'
  BY <1>6 DEF ProgressInv, Vouches, ReadRows
<1>7. ASSUME NEW b \in Batch, TrustRows(b) PROVE Vouches(K)'
  BY <1>7 DEF ProgressInv, Vouches, TrustRows
<1>8. ASSUME NEW b \in Batch, DistrustRows(b) PROVE Vouches(K)'
  BY <1>8 DEF ProgressInv, Vouches, DistrustRows
<1>9. ASSUME NEW b \in Batch, Fetch(b) PROVE Vouches(K)'
  BY <1>9 DEF ProgressInv, Vouches, Fetch
<1>10. ASSUME NEW b \in Batch, BatchFails(b) PROVE Vouches(K)'
  BY <1>10 DEF ProgressInv, Vouches, BatchFails
<1>11. ASSUME NEW b \in Batch, TakeJob(b) PROVE Vouches(K)'
  BY <1>11 DEF ProgressInv, Vouches, TakeJob
<1>12. ASSUME UpsertRows PROVE Vouches(K)'
  BY <1>12, FreezeAssumption DEF ProgressInv, TypeOK, Vouches, UpsertRows
<1>13. ASSUME UpsertPullRequests PROVE Vouches(K)'
  BY <1>13, FreezeAssumption DEF ProgressInv, Vouches, WriteInv, Written, UpsertPullRequests
<1>14. ASSUME StatementFails PROVE Vouches(K)'
  BY <1>14 DEF ProgressInv, Vouches, StatementFails
<1>15. ASSUME UpsertAuditResults PROVE Vouches(K)'
  BY <1>15 DEF ProgressInv, Vouches, UpsertAuditResults
<1>16. ASSUME RunFails PROVE Vouches(K)'
  BY <1>16 DEF ProgressInv, Vouches, RunFails
<1>17. ASSUME Crash PROVE Vouches(K)'
  BY <1>17 DEF ProgressInv, Vouches, Crash
<1>18. ASSUME UNCHANGED vars PROVE Vouches(K)'
  BY <1>18 DEF ProgressInv, vars, Vouches
<1>19. QED
  BY <1>1, <1>2, <1>3, <1>4, <1>5, <1>6, <1>7, <1>8, <1>9, <1>10, <1>11, <1>12,
     <1>13, <1>14, <1>15, <1>16, <1>17, <1>18
    DEF Next, BatchStep, WriterStep

\* Every action keeps AbsentInv.
LEMMA AbsentStep ==
  ASSUME ProgressInv, [Next]_vars
  PROVE  AbsentInv'
<1>1. ASSUME CIDone PROVE AbsentInv'
  BY <1>1, FreezeAssumption DEF ProgressInv, TypeOK, AbsentInv, Kind, CIDone
<1>2. ASSUME NEW S \in SUBSET Batch, StartRun(S) PROVE AbsentInv'
  BY <1>2 DEF ProgressInv, AbsentInv, StartRun
<1>3. ASSUME NEW b \in Batch, GetPR(b) PROVE AbsentInv'
  BY <1>3 DEF ProgressInv, AbsentInv, GetPR
<1>4. ASSUME NEW b \in Batch, HitMemory(b) PROVE AbsentInv'
  BY <1>4 DEF ProgressInv, AbsentInv, HitMemory, Resolve
<1>5. ASSUME NEW b \in Batch, MissMemory(b) PROVE AbsentInv'
  BY <1>5 DEF ProgressInv, AbsentInv, MissMemory
<1>6. ASSUME NEW b \in Batch, ReadRows(b) PROVE AbsentInv'
  BY <1>6 DEF ProgressInv, AbsentInv, ReadRows
<1>7. ASSUME NEW b \in Batch, TrustRows(b) PROVE AbsentInv'
  BY <1>7 DEF AbsentInv, TrustRows
<1>8. ASSUME NEW b \in Batch, DistrustRows(b) PROVE AbsentInv'
  BY <1>8 DEF ProgressInv, AbsentInv, DistrustRows
<1>9. ASSUME NEW b \in Batch, Fetch(b) PROVE AbsentInv'
  BY <1>9 DEF ProgressInv, AbsentInv, OnGitHub, Fetch, Resolve
<1>10. ASSUME NEW b \in Batch, BatchFails(b) PROVE AbsentInv'
  BY <1>10 DEF ProgressInv, AbsentInv, BatchFails
<1>11. ASSUME NEW b \in Batch, TakeJob(b) PROVE AbsentInv'
  BY <1>11 DEF ProgressInv, AbsentInv, TakeJob
<1>12. ASSUME UpsertRows PROVE AbsentInv'
  BY <1>12 DEF ProgressInv, AbsentInv, UpsertRows
<1>13. ASSUME UpsertPullRequests PROVE AbsentInv'
  BY <1>13 DEF AbsentInv, UpsertPullRequests
<1>14. ASSUME StatementFails PROVE AbsentInv'
  BY <1>14 DEF ProgressInv, AbsentInv, StatementFails
<1>15. ASSUME UpsertAuditResults PROVE AbsentInv'
  BY <1>15, FreezeAssumption DEF ProgressInv, AbsentInv, UpsertAuditResults
<1>16. ASSUME RunFails PROVE AbsentInv'
  BY <1>16, FreezeAssumption DEF ProgressInv, AbsentInv, RunFails
<1>17. ASSUME Crash PROVE AbsentInv'
  BY <1>17, FreezeAssumption DEF ProgressInv, AbsentInv, Crash
<1>18. ASSUME UNCHANGED vars PROVE AbsentInv'
  BY <1>18 DEF ProgressInv, vars, AbsentInv
<1>19. QED
  BY <1>1, <1>2, <1>3, <1>4, <1>5, <1>6, <1>7, <1>8, <1>9, <1>10, <1>11, <1>12,
     <1>13, <1>14, <1>15, <1>16, <1>17, <1>18
    DEF Next, BatchStep, WriterStep

\* Every action keeps CompleteInv.
LEMMA CompleteStep ==
  ASSUME ProgressInv, [Next]_vars
  PROVE  CompleteInv'
<1>1. ASSUME CIDone PROVE CompleteInv'
  BY <1>1 DEF ProgressInv, CompleteInv, CIDone
<1>2. ASSUME NEW S \in SUBSET Batch, StartRun(S) PROVE CompleteInv'
  BY <1>2 DEF ProgressInv, CompleteInv, StartRun
<1>3. ASSUME NEW b \in Batch, GetPR(b) PROVE CompleteInv'
  BY <1>3 DEF ProgressInv, CompleteInv, GetPR
<1>4. ASSUME NEW b \in Batch, HitMemory(b) PROVE CompleteInv'
  BY <1>4 DEF ProgressInv, TypeOK, CompleteInv, Kind, After, HitMemory, Resolve
<1>5. ASSUME NEW b \in Batch, MissMemory(b) PROVE CompleteInv'
  BY <1>5 DEF ProgressInv, CompleteInv, MissMemory
<1>6. ASSUME NEW b \in Batch, ReadRows(b) PROVE CompleteInv'
  BY <1>6 DEF ProgressInv, TypeOK, CompleteInv, ReadRows
<1>7. ASSUME NEW b \in Batch, TrustRows(b) PROVE CompleteInv'
  BY <1>7 DEF ProgressInv, TypeOK, CompleteInv, Kind, Snapshot, After, TrustRows, Resolve
<1>8. ASSUME NEW b \in Batch, DistrustRows(b) PROVE CompleteInv'
  BY <1>8 DEF ProgressInv, CompleteInv, DistrustRows
<1>9. ASSUME NEW b \in Batch, Fetch(b) PROVE CompleteInv'
  BY <1>9 DEF ProgressInv, TypeOK, CompleteInv, Kind, After, OnGitHub, Fetch, Resolve
<1>10. ASSUME NEW b \in Batch, BatchFails(b) PROVE CompleteInv'
  BY <1>10 DEF ProgressInv, CompleteInv, BatchFails
<1>11. ASSUME NEW b \in Batch, TakeJob(b) PROVE CompleteInv'
  BY <1>11 DEF ProgressInv, CompleteInv, TakeJob
<1>12. ASSUME UpsertRows PROVE CompleteInv'
  BY <1>12 DEF ProgressInv, CompleteInv, UpsertRows
<1>13. ASSUME UpsertPullRequests PROVE CompleteInv'
  BY <1>13, FreezeAssumption DEF ProgressInv, TypeOK, CompleteInv, UpsertPullRequests
<1>14. ASSUME StatementFails PROVE CompleteInv'
  BY <1>14, FreezeAssumption DEF ProgressInv, TypeOK, CompleteInv, StatementFails
<1>15. ASSUME UpsertAuditResults PROVE CompleteInv'
  BY <1>15, FreezeAssumption DEF CompleteInv, UpsertAuditResults
<1>16. ASSUME RunFails PROVE CompleteInv'
  BY <1>16, FreezeAssumption DEF CompleteInv, RunFails
<1>17. ASSUME Crash PROVE CompleteInv'
  BY <1>17, FreezeAssumption DEF CompleteInv, Crash
<1>18. ASSUME UNCHANGED vars PROVE CompleteInv'
  BY <1>18 DEF ProgressInv, vars, CompleteInv
<1>19. QED
  BY <1>1, <1>2, <1>3, <1>4, <1>5, <1>6, <1>7, <1>8, <1>9, <1>10, <1>11, <1>12,
     <1>13, <1>14, <1>15, <1>16, <1>17, <1>18
    DEF Next, BatchStep, WriterStep

\* Every action keeps WriteInv.
LEMMA WriteStep ==
  ASSUME ProgressInv, [Next]_vars
  PROVE  WriteInv'
<1>1. ASSUME CIDone PROVE WriteInv'
  BY <1>1 DEF ProgressInv, WriteInv, Written, CIDone
<1>2. ASSUME NEW S \in SUBSET Batch, StartRun(S) PROVE WriteInv'
  BY <1>2 DEF ProgressInv, WriteInv, Written, StartRun
<1>3. ASSUME NEW b \in Batch, GetPR(b) PROVE WriteInv'
  BY <1>3 DEF ProgressInv, WriteInv, Written, GetPR
<1>4. ASSUME NEW b \in Batch, HitMemory(b) PROVE WriteInv'
  BY <1>4 DEF ProgressInv, WriteInv, Written, HitMemory
<1>5. ASSUME NEW b \in Batch, MissMemory(b) PROVE WriteInv'
  BY <1>5 DEF ProgressInv, WriteInv, Written, MissMemory
<1>6. ASSUME NEW b \in Batch, ReadRows(b) PROVE WriteInv'
  BY <1>6 DEF ProgressInv, WriteInv, Written, ReadRows
<1>7. ASSUME NEW b \in Batch, TrustRows(b) PROVE WriteInv'
  BY <1>7 DEF WriteInv, TrustRows
<1>8. ASSUME NEW b \in Batch, DistrustRows(b) PROVE WriteInv'
  BY <1>8 DEF ProgressInv, WriteInv, Written, DistrustRows
<1>9. ASSUME NEW b \in Batch, Fetch(b) PROVE WriteInv'
  BY <1>9 DEF ProgressInv, WriteInv, Written, Fetch
<1>10. ASSUME NEW b \in Batch, BatchFails(b) PROVE WriteInv'
  BY <1>10 DEF ProgressInv, WriteInv, Written, BatchFails
<1>11. ASSUME NEW b \in Batch, TakeJob(b) PROVE WriteInv'
  BY <1>11 DEF WriteInv, Written, TakeJob
<1>12. ASSUME UpsertRows PROVE WriteInv'
  BY <1>12 DEF ProgressInv, TypeOK, WriteInv, Written, Kind, AbsentInv, After, UpsertRows
<1>13. ASSUME UpsertPullRequests PROVE WriteInv'
  BY <1>13 DEF WriteInv, UpsertPullRequests
<1>14. ASSUME StatementFails PROVE WriteInv'
  BY <1>14 DEF WriteInv, StatementFails
<1>15. ASSUME UpsertAuditResults PROVE WriteInv'
  BY <1>15 DEF WriteInv, UpsertAuditResults
<1>16. ASSUME RunFails PROVE WriteInv'
  BY <1>16 DEF WriteInv, RunFails
<1>17. ASSUME Crash PROVE WriteInv'
  BY <1>17 DEF WriteInv, Crash
<1>18. ASSUME UNCHANGED vars PROVE WriteInv'
  BY <1>18 DEF ProgressInv, vars, WriteInv, Written
<1>19. QED
  BY <1>1, <1>2, <1>3, <1>4, <1>5, <1>6, <1>7, <1>8, <1>9, <1>10, <1>11, <1>12,
     <1>13, <1>14, <1>15, <1>16, <1>17, <1>18
    DEF Next, BatchStep, WriterStep

\* A run that began after CI was over has nothing in flight in hand.
LEMMA FreshStep ==
  ASSUME ProgressInv, [Next]_vars
  PROVE  FreshInv'
<1>1. ASSUME CIDone PROVE FreshInv'
  BY <1>1 DEF ProgressInv, FreshInv, CIDone
<1>2. ASSUME NEW S \in SUBSET Batch, StartRun(S) PROVE FreshInv'
  BY <1>2 DEF ProgressInv, FreshInv, CompleteInv, StartRun
<1>3. ASSUME NEW b \in Batch, GetPR(b) PROVE FreshInv'
  BY <1>3 DEF ProgressInv, FreshInv, GetPR
<1>4. ASSUME NEW b \in Batch, HitMemory(b) PROVE FreshInv'
  BY <1>4 DEF ProgressInv, FreshInv, TypeOK, Resolve, HitMemory
<1>5. ASSUME NEW b \in Batch, MissMemory(b) PROVE FreshInv'
  BY <1>5 DEF ProgressInv, FreshInv, MissMemory
<1>6. ASSUME NEW b \in Batch, ReadRows(b) PROVE FreshInv'
  BY <1>6 DEF ProgressInv, FreshInv, ReadRows
<1>7. ASSUME NEW b \in Batch, TrustRows(b) PROVE FreshInv'
  BY <1>7 DEF ProgressInv, FreshInv, TypeOK, Kind, Resolve, TrustRows
<1>8. ASSUME NEW b \in Batch, DistrustRows(b) PROVE FreshInv'
  BY <1>8 DEF ProgressInv, FreshInv, DistrustRows
<1>9. ASSUME NEW b \in Batch, Fetch(b) PROVE FreshInv'
  <2>1. ciBefore => OnGitHub("checks") # "inflight"
    BY DEF ProgressInv, FreshInv, OnGitHub
  <2>2. run # {} /\ UNCHANGED <<run, ciBefore, ciDone>>
    BY <1>9 DEF ProgressInv, CompleteInv, Fetch, ci
  <2>3. QED
    BY <1>9, <2>1, <2>2 DEF ProgressInv, FreshInv, TypeOK, Kind, Resolve, Fetch
<1>10. ASSUME NEW b \in Batch, BatchFails(b) PROVE FreshInv'
  BY <1>10 DEF ProgressInv, FreshInv, BatchFails
<1>11. ASSUME NEW b \in Batch, TakeJob(b) PROVE FreshInv'
  BY <1>11 DEF ProgressInv, FreshInv, TakeJob
<1>12. ASSUME UpsertRows PROVE FreshInv'
  BY <1>12 DEF ProgressInv, FreshInv, UpsertRows
<1>13. ASSUME UpsertPullRequests PROVE FreshInv'
  BY <1>13 DEF ProgressInv, FreshInv, UpsertPullRequests
<1>14. ASSUME StatementFails PROVE FreshInv'
  BY <1>14 DEF ProgressInv, FreshInv, StatementFails
<1>15. ASSUME UpsertAuditResults PROVE FreshInv'
  BY <1>15 DEF ProgressInv, FreshInv, Kind, UpsertAuditResults
<1>16. ASSUME RunFails PROVE FreshInv'
  BY <1>16 DEF ProgressInv, FreshInv, Kind, RunFails
<1>17. ASSUME Crash PROVE FreshInv'
  BY <1>17 DEF ProgressInv, FreshInv, Kind, Crash
<1>18. ASSUME UNCHANGED vars PROVE FreshInv'
  BY <1>18 DEF ProgressInv, vars, FreshInv
<1>19. QED
  BY <1>1, <1>2, <1>3, <1>4, <1>5, <1>6, <1>7, <1>8, <1>9, <1>10, <1>11, <1>12,
     <1>13, <1>14, <1>15, <1>16, <1>17, <1>18
    DEF Next, BatchStep, WriterStep

\* Every action keeps all of them.
LEMMA ProgressStep ==
  ASSUME ProgressInv, [Next]_vars
  PROVE  ProgressInv'
<1>1. TypeOK' /\ AbsentInv' /\ CompleteInv' /\ WriteInv' /\ FreshInv'
  BY FreezeTypeStep, AbsentStep, CompleteStep, WriteStep, FreshStep
<1>2. QED
  BY <1>1 DEF ProgressInv

\* FreezeInv is inductive.
THEOREM FreezeInductive == Spec => []FreezeInv
<1>1. Init => FreezeInv
  <2> SUFFICES ASSUME Init PROVE FreezeInv
    OBVIOUS
  <2>1. TypeOK
    BY FreezeAssumption DEF Init, TypeOK, Kind, Snapshot, Cached
  <2>2. AbsentInv
    BY FreezeAssumption DEF Init, AbsentInv
  <2>3. CompleteInv
    BY FreezeAssumption DEF Init, CompleteInv
  <2>4. QED
    BY <2>1, <2>2, <2>3 DEF Init, FreezeInv, ProgressInv, FreezeSound, WriteInv, FreshInv, Kind
<1>2. FreezeInv /\ [Next]_vars => FreezeInv'
  <2> SUFFICES ASSUME FreezeInv, [Next]_vars PROVE FreezeInv'
    OBVIOUS
  <2>1. ProgressInv'
    BY ProgressStep DEF FreezeInv
  <2>2. FreezeSound'
    BY VouchesStep DEF FreezeInv, FreezeSound, Vouches
  <2>3. QED
    BY <2>1, <2>2 DEF FreezeInv
<1>3. QED
  BY <1>1, <1>2, PTL DEF Spec

\* A merged PR row always vouches for complete sub-rows, whatever the batches,
\* the writer, failures and crashes do.
THEOREM FreezeIsSound == Spec => []FreezeSound
<1>1. FreezeInv => FreezeSound
  BY DEF FreezeInv
<1>2. QED
  BY <1>1, FreezeInductive, PTL

\* A verdict that missed rows can be repaired from the tables.
THEOREM RepairIsPossible == Spec => []ReauditCanRepair
<1>1. FreezeInv => ReauditCanRepair
  BY DEF FreezeInv, ProgressInv, FreezeSound, AbsentInv, ReauditCanRepair
<1>2. QED
  BY <1>1, FreezeInductive, PTL

\* A run that begins after CI is over judges no commit on check runs in flight.
THEOREM ChecksAreFollowed == Spec => ChecksFollowCI
<1>1. FreezeInv /\ [Next]_vars =>
        [\A b \in Batch : ciBefore /\ verdict'[b] # verdict[b]
                            => verdict'[b]["checks"] # "inflight"]_verdict
  <2> SUFFICES ASSUME FreezeInv, [Next]_vars, verdict' # verdict, NEW b \in Batch, ciBefore,
                      verdict'[b] # verdict[b]
               PROVE  verdict'[b]["checks"] # "inflight"
    OBVIOUS
  <2>1. UpsertAuditResults
    BY DEF Next, vars, BatchStep, WriterStep, CIDone, StartRun, GetPR, HitMemory, MissMemory,
           ReadRows, TrustRows, DistrustRows, Fetch, BatchFails, TakeJob, UpsertRows,
           UpsertPullRequests, StatementFails, RunFails, Crash
  <2>2. verdict'[b] = got[b] /\ run # {}
    BY <2>1 DEF UpsertAuditResults
  <2> QED
    BY <2>2 DEF FreezeInv, ProgressInv, FreshInv
<1>2. QED
  BY <1>1, FreezeInductive, PTL DEF Spec, ChecksFollowCI

-----------------------------------------------------------------------------
(* BackfillPR: its safety properties hold for any number of batches and    *)
(* any budget of failures and crashes.  A backfill stores the PR row       *)
(* first, so while one runs, and after a torn one, the row vouches for     *)
(* nothing.  What is shown above of the batches and the writer does not    *)
(* need it to, and a backfill that gets to its end has stored reviews and  *)
(* check runs on the way.                                                  *)

Listed == Truth \ {"commits"}

\* What the steps of a backfill have passed is stored.
BackfillInv ==
    /\ bf \in {"off", "reviews", "checks", "commits", "link"}
    /\ bf # "off" => run = {}
    /\ bf \in {"checks", "commits", "link"} /\ "reviews" \in Truth => rows["reviews"] # "absent"
    /\ bf \in {"commits", "link"} /\ "checks" \in Truth => rows["checks"] # "absent"

\* The inductive invariant.
BInv == ProgressInv /\ BackfillInv /\ BackfillRepairs

-----------------------------------------------------------------------------
\* The candidate's verdict rests on rows.
Recovered == recovered # None => \A k \in Listed : recovered[k] # "absent"

LEMMA RepairsIsVouches ==
    BackfillRepairs <=> (bf = "off" /\ ~torn => Vouches(Listed)) /\ Recovered
BY DEF BackfillRepairs, Vouches, Listed, Recovered

LEMMA BInitInv == BInit => BInv
<1> SUFFICES ASSUME BInit PROVE BInv
  OBVIOUS
<1>1. TypeOK
  BY FreezeAssumption DEF BInit, Init, TypeOK, Kind, Snapshot, Cached
<1>2. AbsentInv /\ CompleteInv
  BY FreezeAssumption DEF BInit, Init, AbsentInv, CompleteInv
<1>3. WriteInv /\ FreshInv /\ BackfillInv /\ BackfillRepairs
  BY DEF BInit, Init, WriteInv, FreshInv, Kind, BackfillInv, BackfillRepairs
<1> QED
  BY <1>1, <1>2, <1>3 DEF BInv, ProgressInv

\* The batches, and CI, beside it.
LEMMA SyncSteps ==
    ASSUME BInv, UNCHANGED backfill, [Next]_vars, bf = "off" \/ CIDone \/ UNCHANGED vars
    PROVE  BInv'
<1>1. ProgressInv'
  BY ProgressStep DEF BInv
<1>2. BackfillInv'
  <2>1. CASE bf = "off"
    BY <2>1 DEF BInv, BackfillInv, backfill
  <2>2. CASE CIDone \/ UNCHANGED vars
    BY <2>2 DEF BInv, BackfillInv, backfill, CIDone, vars
  <2> QED
    BY <2>1, <2>2
<1>3. Listed \subseteq Truth
  BY DEF Listed
<1>4. BackfillRepairs'
  <2>1. ASSUME bf = "off", ~torn PROVE Vouches(Listed)'
    BY <1>3, <2>1, VouchesStep, RepairsIsVouches DEF BInv
  <2>2. bf' = bf /\ torn' = torn
    BY DEF backfill
  <2> QED
    <3>1. Recovered'
      BY RepairsIsVouches DEF BInv, Recovered, backfill
    <3> QED
      BY <2>1, <2>2, <3>1 DEF BackfillRepairs, Vouches, Listed, Recovered
<1> QED
  BY <1>1, <1>2, <1>4 DEF BInv

\* Beside a backfill nobody holds rows, so storing some disturbs nobody.
LEMMA QuietStep ==
    ASSUME ProgressInv, run = {},
           UNCHANGED <<ci, verdict, run, caches, batches, writer>>,
           rows' \in [Kind -> Snapshot], prRow' \in BOOLEAN, prRow => prRow',
           faults' \in Nat, crashes' = crashes
    PROVE  ProgressInv'
<1>1. TypeOK'
  BY DEF ProgressInv, TypeOK
<1>2. AbsentInv'
  BY DEF ProgressInv, AbsentInv
<1>3. CompleteInv'
  BY DEF ProgressInv, CompleteInv
<1>4. WriteInv'
  BY DEF ProgressInv, CompleteInv, WriteInv
<1>5. FreshInv'
  BY DEF ProgressInv, FreshInv
<1> QED
  BY <1>1, <1>2, <1>3, <1>4, <1>5 DEF ProgressInv

LEMMA BackfillSteps ==
    ASSUME BInv, BackfillStep
    PROVE  BInv'
<1>t. rows \in [Kind -> Snapshot] /\ prRow \in BOOLEAN /\ faults \in Nat
  BY DEF BInv, ProgressInv, TypeOK
<1>1. CASE BackfillPullRequest
  <2>1. ProgressInv'
    BY <1>1, <1>t, QuietStep DEF BInv, BackfillPullRequest
  <2>2. BackfillInv' /\ BackfillRepairs'
    BY <1>1 DEF BackfillPullRequest, BInv, BackfillInv, BackfillRepairs
  <2> QED
    BY <2>1, <2>2 DEF BInv
<1>2. CASE BackfillRows
  <2>1. bf \in Kind /\ run = {} /\ bf # "commits"
    BY <1>2 DEF BackfillRows, BInv, BackfillInv, Kind
  <2>2. OnGitHub(bf) \in Snapshot /\ (bf \in Truth => OnGitHub(bf) # "absent")
    BY <2>1 DEF OnGitHub, Snapshot
  <2>3. /\ rows' \in [Kind -> Snapshot]
        /\ \A k \in Kind : rows[k] # "absent" => rows'[k] # "absent"
        /\ bf \in Truth => rows'[bf] # "absent"
    BY <1>2, <1>t, <2>1, <2>2 DEF BackfillRows
  <2>4. ProgressInv'
    BY <1>2, <1>t, <2>1, <2>3, QuietStep DEF BInv, BackfillRows
  <2>5. BackfillInv'
    BY <1>2, <2>1, <2>3 DEF BInv, BackfillInv, BackfillRows, AfterBackfill, After, Kind
  <2>6. BackfillRepairs'
    BY <1>2 DEF BackfillRows, AfterBackfill, After, BInv, BackfillRepairs
  <2> QED
    BY <2>4, <2>5, <2>6 DEF BInv
<1>3. CASE BackfillCommits
  <2>1. ProgressInv'
    BY <1>3, <1>t, QuietStep DEF BInv, BackfillInv, BackfillCommits, vars
  <2>2. BackfillInv' /\ BackfillRepairs'
    BY <1>3 DEF BackfillCommits, AfterBackfill, vars, BInv, BackfillInv, BackfillRepairs
  <2> QED
    BY <2>1, <2>2 DEF BInv
<1>4. CASE BackfillLink
  <2>1. ProgressInv'
    BY <1>4, <1>t, QuietStep DEF BInv, BackfillInv, BackfillLink, vars
  <2>2. \A k \in Listed : rows[k] # "absent"
    BY <1>4, FreezeAssumption DEF BackfillLink, BInv, BackfillInv, Listed, Kind
  <2>3. BackfillInv' /\ BackfillRepairs'
    BY <1>4, <2>2 DEF BackfillLink, vars, Listed, BackfillInv, BackfillRepairs
  <2> QED
    BY <2>1, <2>3 DEF BInv
<1>5. CASE BackfillFails
  <2>1. ProgressInv'
    BY <1>5, <1>t, QuietStep DEF BInv, BackfillInv, BackfillFails
  <2>2. BackfillInv' /\ BackfillRepairs'
    BY <1>5 DEF BackfillFails, BInv, BackfillInv, BackfillRepairs
  <2> QED
    BY <2>1, <2>2 DEF BInv
<1> QED
  BY <1>1, <1>2, <1>3, <1>4, <1>5 DEF BackfillStep

\* Every step preserves the invariant.
THEOREM BNextInv == BInv /\ [BNext]_bvars => BInv'
<1> SUFFICES ASSUME BInv, [BNext]_bvars PROVE BInv'
  OBVIOUS
<1>1. CASE UNCHANGED bvars
  BY <1>1, SyncSteps DEF bvars
<1>2. CASE CIDone /\ UNCHANGED backfill
  BY <1>2, SyncSteps DEF Next
<1>3. CASE bf = "off" /\ Next /\ UNCHANGED backfill
  BY <1>3, SyncSteps
<1> QED
  BY <1>1, <1>2, <1>3, BackfillSteps DEF BNext

\* The invariant holds in every reachable state.
THEOREM BackfillInvariant == BSpec => []BInv
BY BInitInv, BNextInv, PTL DEF BSpec

-----------------------------------------------------------------------------
\* A backfill that completes leaves no hole behind its PR row, not even one an
\* earlier torn one left, and the candidate's new verdict rests on such rows
\* (backfill.go persistBackfilledPR).
THEOREM Repairs == BSpec => []BackfillRepairs
<1>1. BInv => BackfillRepairs
  BY DEF BInv
<1> QED
  BY <1>1, BackfillInvariant, PTL
=============================================================================
