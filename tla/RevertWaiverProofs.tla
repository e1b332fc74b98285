------------------------- MODULE RevertWaiverProofs -------------------------
(***************************************************************************)
(* RevertWaiver's invariants, for any number of repositories, of failures  *)
(* and of process deaths.                                                  *)
(*                                                                         *)
(* None of the three is inductive alone: what re-audit, backfill and       *)
(* annotate-commits store was computed steps before, so the results they   *)
(* hold (work) must obey the same rules as the rows, and a deleted row     *)
(* lives on only in them.                                                  *)
(***************************************************************************)
EXTENDS RevertWaiver, TLAPS

Held == {"evaluated", "staged", "deleted"}

\* A clean mark was proved by the diff or is a bot's that reclassify made.
SoundClass(c, class) ==
  /\ class.clean => \/ class.ver = "diff-verified" /\ diff[c] = "inverse"
                    \/ class.ver = "message-only" /\ kind[c] = "auto"
  /\ class.ver = "diff-verified" => class.clean

SoundResult(c, result) ==
  /\ SoundClass(c, result.class)
  /\ result.compliant => result.class.clean \/ c \in reviewed

Quiet == command = "none" => \A c \in Commit : pc[c] = "idle"
RowsSound == \A c \in Commit : row[c] # None => SoundResult(c, row[c])
WorkSound == \A c \in Commit : pc[c] \in Held => work[c] # None /\ SoundResult(c, work[c])

\* Of re-audit's results the verdict is the one of their classification.
WorkExact ==
  \A c \in Commit : pc[c] \in Held /\ command \in {"all", "failures"} =>
    work[c].compliant = (work[c].class.clean \/ c \in reviewed)

VerifiedHeld ==
  \A c \in proved \ shaken :
    /\ pc[c] \in Held => work[c].class.ver = "diff-verified"
    /\ pc[c] # "deleted" => row[c] # None /\ row[c].class.ver = "diff-verified"

IInv == TypeOK /\ Quiet /\ RowsSound /\ WorkSound /\ WorkExact /\ VerifiedHeld /\ ReauditReconciles

-----------------------------------------------------------------------------

LEMMA ClassifySound ==
  ASSUME NEW c \in Commit, NEW found \in BOOLEAN, NEW fetched \in BOOLEAN, TypeOK
  PROVE  /\ classifyRevertAndMerge(c, found, fetched) \in Class
         /\ SoundClass(c, classifyRevertAndMerge(c, found, fetched))
BY DEF classifyRevertAndMerge, RevertClass, Class, Verification, SoundClass, IsRevert, Manual,
       ParsedSHA, IsCleanRevertDiff, TypeOK

LEMMA NoClassSound ==
  ASSUME NEW c \in Commit
  PROVE  NoClass \in Class /\ SoundClass(c, NoClass)
BY DEF NoClass, Class, Verification, SoundClass

\* What is evaluated on a sound class is a sound and exact result.
LEMMA EvaluateSound ==
  ASSUME NEW c \in Commit, NEW class \in Class, SoundClass(c, class)
  PROVE  /\ EvaluateCommit(c, class) \in Row /\ EvaluateCommit(c, class) # None
         /\ EvaluateCommit(c, class).class = class
         /\ SoundResult(c, EvaluateCommit(c, class))
         /\ EvaluateCommit(c, class).compliant = (class.clean \/ c \in reviewed)
<1>1. class.clean \in BOOLEAN
  BY DEF Class
<1>2. EvaluateCommit(c, class) \in Row
  BY <1>1 DEF EvaluateCommit, Row
<1> QED
  BY <1>2, WaiverAssumption DEF EvaluateCommit, SoundResult

LEMMA StoredSound ==
  ASSUME IInv, NEW c \in Commit
  PROVE  StoredClass(c) \in Class /\ SoundClass(c, StoredClass(c))
BY NoClassSound DEF IInv, TypeOK, RowsSound, SoundResult, StoredClass, Row

LEMMA ClassRecord ==
  ASSUME NEW clean, clean \in BOOLEAN, NEW ver, ver \in Verification, NEW sha, sha \in BOOLEAN
  PROVE  [clean |-> clean, ver |-> ver, sha |-> sha, merge |-> TRUE] \in Class
BY DEF Class

\* reclassify makes a class sound and touches neither a verified one nor its mark.
LEMMA RefilledSound ==
  ASSUME NEW c \in Commit, NEW class \in Class, SoundClass(c, class), TypeOK
  PROVE  /\ Refilled(c, class) \in Class /\ SoundClass(c, Refilled(c, class))
         /\ class.ver = "diff-verified" <=> Refilled(c, class).ver = "diff-verified"
         /\ class.clean => Refilled(c, class).clean
<1>1. CASE class.ver # ""
  BY <1>1 DEF Refilled, Class, SoundClass
<1>2. CASE class.ver = ""
  <2> DEFINE auto == kind[c] = "auto"
             ver == IF IsRevert(c) THEN "message-only" ELSE "none"
             sha == ParsedSHA(c)
  <2>1. Refilled(c, class) = [clean |-> auto, ver |-> ver, sha |-> sha, merge |-> TRUE]
    BY <1>2 DEF Refilled
  <2>2. auto \in BOOLEAN /\ sha \in BOOLEAN /\ ver \in {"message-only", "none"}
    BY DEF ParsedSHA
  <2>3. auto => ver = "message-only"
    BY DEF IsRevert
  <2> HIDE DEF auto, ver, sha
  <2>4. Refilled(c, class) \in Class
    <3>1. ver \in Verification
      BY <2>2 DEF Verification
    <3> QED
      BY ONLY <2>1, <2>2, <3>1, ClassRecord
  <2>5. Refilled(c, class).clean => auto /\ Refilled(c, class).ver = "message-only"
    BY <2>1, <2>2, <2>3
  <2>6. auto => kind[c] = "auto"
    BY DEF auto
  <2>7. Refilled(c, class).ver # "diff-verified"
    BY <2>1, <2>2
  <2>8. ~class.clean
    BY <1>2 DEF SoundClass
  <2> QED
    BY <1>2, <2>4, <2>5, <2>6, <2>7, <2>8 DEF SoundClass
<1> QED
  BY <1>1, <1>2

-----------------------------------------------------------------------------

\* A sound result that keeps what was verified may be stored by any command.
LEMMA StoreSound ==
  ASSUME IInv, NEW c \in Commit, NEW result \in Row, Store(c, result),
         SoundResult(c, result), UNCHANGED <<facts, reviewed>>,
         c \in proved \ shaken => result.class.ver = "diff-verified"
  PROVE  /\ row' \in [Commit -> Row \cup {None}]
         /\ proved' \in SUBSET Commit /\ shaken' \in SUBSET Commit
         /\ RowsSound'
         /\ row'[c] = result /\ \A d \in Commit \ {c} : row'[d] = row[d]
         /\ \A d \in Commit \ {c} : d \in (proved \ shaken)' => d \in proved \ shaken
         /\ c \in (proved \ shaken)' => result.class.ver = "diff-verified"
<1>1. row' = [row EXCEPT ![c] = result] /\ row \in [Commit -> Row \cup {None}]
  BY DEF Store, IInv, TypeOK
<1>2. row' \in [Commit -> Row \cup {None}] /\ row'[c] = result
      /\ \A d \in Commit \ {c} : row'[d] = row[d]
  BY <1>1
<1>3. RowsSound'
  BY <1>2 DEF IInv, RowsSound, SoundResult, SoundClass, facts
<1>4. /\ proved' \in SUBSET Commit /\ shaken' \in SUBSET Commit
      /\ \A d \in Commit \ {c} : d \in (proved \ shaken)' => d \in proved \ shaken
      /\ c \in (proved \ shaken)' => result.class.ver = "diff-verified"
  BY DEF Store, IInv, TypeOK, history
<1> QED
  BY <1>2, <1>3, <1>4

LEMMA InitIInv == Init => IInv
<1> SUFFICES ASSUME Init PROVE IInv
  OBVIOUS
<1> DEFINE Old(c, fetched) == [classifyRevertAndMerge(c, TRUE, fetched) EXCEPT !.merge = FALSE]
<1>1. PICK old \in SUBSET Commit, fetched \in BOOLEAN :
        row = [c \in Commit |-> IF c \notin old THEN None ELSE EvaluateCommit(c, Old(c, fetched))]
  BY DEF Init
<1>2. ASSUME NEW c \in Commit
      PROVE  Old(c, fetched) \in Class /\ SoundClass(c, Old(c, fetched))
  BY DEF Init, classifyRevertAndMerge, RevertClass, Class, Verification, SoundClass, IsRevert,
         Manual, ParsedSHA, IsCleanRevertDiff
<1> HIDE DEF Old
<1>3. ASSUME NEW c \in Commit, row[c] # None
      PROVE  row[c] \in Row /\ SoundResult(c, row[c])
  BY <1>1, <1>2, <1>3, EvaluateSound
<1>4. row \in [Commit -> Row \cup {None}]
  BY <1>1, <1>3
<1>5. TypeOK
  <2>1. proved \in SUBSET Commit /\ shaken \in SUBSET Commit /\ faults \in 0..MaxFault
    BY WaiverAssumption DEF Init
  <2>2. command \in Commands /\ pc \in [Commit -> Stages] /\ work \in [Commit -> Row \cup {None}]
    BY DEF Init, Commands, Stages
  <2> QED
    BY <1>4, <2>1, <2>2 DEF Init, TypeOK
<1>6. RowsSound
  BY <1>3 DEF RowsSound
<1>7. VerifiedHeld
  BY DEF Init, VerifiedHeld, Held, StoredClass, NoClass
<1> QED
  BY <1>5, <1>6, <1>7 DEF Init, IInv, Quiet, WorkSound, WorkExact, ReauditReconciles, Held

LEMMA StepIInv == IInv /\ [Next]_vars => IInv'
<1> SUFFICES ASSUME IInv, [Next]_vars PROVE IInv'
  OBVIOUS
<1> USE DEF IInv
<1>1. ASSUME NEW c \in Commit, Sync(c) PROVE IInv'
  <2>1. PICK found \in BOOLEAN, fetched \in BOOLEAN :
          /\ Fault(IF found /\ fetched THEN 0 ELSE 1)
          /\ Store(c, EvaluateCommit(c, classifyRevertAndMerge(c, found, fetched)))
    BY <1>1 DEF Sync
  <2> DEFINE result == EvaluateCommit(c, classifyRevertAndMerge(c, found, fetched))
  <2>2. result \in Row /\ result # None /\ SoundResult(c, result)
    BY ClassifySound, EvaluateSound
  <2> HIDE DEF result
  <2>3. c \notin proved \ shaken
    BY <1>1 DEF Sync, VerifiedHeld, Quiet
  <2>4. faults' \in 0..MaxFault
    BY <2>1, WaiverAssumption DEF Fault, TypeOK
  <2> USE StoreSound, <2>1, <2>2, <2>3
  <2>5. /\ TypeOK' /\ RowsSound'
    BY <1>1, <2>4 DEF Sync, TypeOK, facts, result
  <2>6. Quiet' /\ WorkSound' /\ WorkExact' /\ ReauditReconciles'
    BY <1>1 DEF Sync, Quiet, WorkSound, WorkExact, ReauditReconciles, Held, SoundResult,
                SoundClass, facts
  <2>7. VerifiedHeld'
    BY <1>1 DEF Sync, VerifiedHeld, Quiet, Held, result
  <2> QED
    BY <2>5, <2>6, <2>7
<1>2. ASSUME NEW c \in Commit, Evaluate(c) PROVE IInv'
  <2> DEFINE result == EvaluateCommit(c, StoredClass(c))
  <2>1. /\ result \in Row /\ result # None /\ SoundResult(c, result)
        /\ result.class = StoredClass(c)
        /\ result.compliant = (result.class.clean \/ c \in reviewed)
    BY StoredSound, EvaluateSound
  <2>2. c \in proved \ shaken => result.class.ver = "diff-verified"
    BY <1>2, <2>1 DEF Evaluate, VerifiedHeld, StoredClass
  <2> HIDE DEF result
  <2>3. work' = [work EXCEPT ![c] = result]
    BY <1>2 DEF Evaluate, result
  <2>4. TypeOK'
    BY <1>2, <2>1, <2>3 DEF Evaluate, TypeOK, Goto, Stages, facts, history
  <2>5. Quiet' /\ RowsSound' /\ WorkSound' /\ WorkExact' /\ VerifiedHeld' /\ ReauditReconciles'
    BY <1>2, <2>1, <2>2, <2>3 DEF Evaluate, TypeOK, Quiet, RowsSound, WorkSound, WorkExact,
                                  VerifiedHeld, ReauditReconciles, SoundResult, SoundClass,
                                  Goto, facts, history, Held
  <2> QED
    BY <2>4, <2>5
<1>3. ASSUME NEW c \in Commit, Skip(c) PROVE IInv'
  <2>1. TypeOK'
    BY <1>3, WaiverAssumption DEF Skip, TypeOK, Goto, Stages, Commands, facts, history,
                                  Candidate
  <2>2. Quiet' /\ RowsSound' /\ WorkSound' /\ WorkExact'
    BY <1>3 DEF Skip, Quiet, RowsSound, WorkSound, WorkExact, SoundResult, SoundClass, Goto,
                facts, Held
  <2>3. VerifiedHeld'
    BY <1>3 DEF Skip, VerifiedHeld, Goto, history, Held
  <2>4. ReauditReconciles'
    BY <1>3 DEF Skip, TypeOK, RowsSound, ReauditReconciles, SoundResult, Goto, Commands,
                Candidate
  <2> QED
    BY <2>1, <2>2, <2>3, <2>4
<1>4. ASSUME NEW c \in Commit, Stage(c) PROVE IInv'
  <2>1. TypeOK'
    BY <1>4, WaiverAssumption DEF Stage, TypeOK, Goto, Stages, Commands, facts, history
  <2>2. Quiet' /\ RowsSound' /\ WorkSound' /\ WorkExact'
    BY <1>4 DEF Stage, Quiet, RowsSound, WorkSound, WorkExact, SoundResult, SoundClass, Goto,
                facts, Held
  <2>3. VerifiedHeld'
    BY <1>4 DEF Stage, VerifiedHeld, Goto, history, Held
  <2>4. ReauditReconciles'
    BY <1>4 DEF Stage, ReauditReconciles, Goto
  <2> QED
    BY <2>1, <2>2, <2>3, <2>4
<1>5. ASSUME NEW c \in Commit, DeleteColliding(c) PROVE IInv'
  <2>1. TypeOK'
    BY <1>5, WaiverAssumption DEF DeleteColliding, TypeOK, Goto, Stages, Commands, facts,
                                  history
  <2>2. Quiet' /\ RowsSound' /\ WorkSound' /\ WorkExact'
    BY <1>5 DEF DeleteColliding, Quiet, RowsSound, WorkSound, WorkExact, SoundResult,
                SoundClass, Goto, facts, Held
  <2>3. VerifiedHeld'
    BY <1>5 DEF DeleteColliding, TypeOK, VerifiedHeld, Goto, history, Held
  <2>4. ReauditReconciles'
    BY <1>5 DEF DeleteColliding, ReauditReconciles, Goto
  <2> QED
    BY <2>1, <2>2, <2>3, <2>4
<1>6. ASSUME NEW c \in Commit, Fail(c) PROVE IInv'
  <2>1. TypeOK'
    BY <1>6, WaiverAssumption DEF Fail, TypeOK, Goto, Stages, Commands, facts, history, Fault,
                                  Running, Torn
  <2>2. Quiet' /\ RowsSound' /\ WorkSound' /\ WorkExact'
    BY <1>6 DEF Fail, TypeOK, Quiet, RowsSound, WorkSound, WorkExact, SoundResult, SoundClass,
                Goto, facts, Held, Running
  <2>3. VerifiedHeld'
    BY <1>6 DEF Fail, TypeOK, VerifiedHeld, Goto, Held, Torn
  <2>4. ReauditReconciles'
    BY <1>6 DEF Fail, ReauditReconciles, Goto
  <2> QED
    BY <2>1, <2>2, <2>3, <2>4
<1>7. ASSUME NEW c \in Commit, Backfill(c) PROVE IInv'
  <2>1. TypeOK'
    BY <1>7, WaiverAssumption DEF Backfill, TypeOK, Goto, Stages, Commands, facts, history
  <2>2. Quiet' /\ RowsSound' /\ WorkSound' /\ WorkExact'
    BY <1>7 DEF Backfill, Quiet, RowsSound, WorkSound, WorkExact, SoundResult, SoundClass, Goto,
                facts, Held
  <2>3. VerifiedHeld'
    BY <1>7 DEF Backfill, Quiet, VerifiedHeld, Goto, history, Held
  <2>4. ReauditReconciles'
    BY <1>7 DEF Backfill, ReauditReconciles
  <2> QED
    BY <2>1, <2>2, <2>3, <2>4
<1>8. ASSUME NEW c \in Commit, Annotate(c) PROVE IInv'
  <2>1. TypeOK'
    BY <1>8, WaiverAssumption DEF Annotate, TypeOK, Goto, Stages, Commands, facts, history
  <2>2. Quiet' /\ RowsSound' /\ WorkSound' /\ WorkExact'
    BY <1>8 DEF Annotate, TypeOK, Quiet, RowsSound, WorkSound, WorkExact, SoundResult,
                SoundClass, Goto, facts, Held
  <2>3. VerifiedHeld'
    BY <1>8 DEF Annotate, TypeOK, Quiet, VerifiedHeld, Goto, history, Held
  <2>4. ReauditReconciles'
    BY <1>8 DEF Annotate, TypeOK, ReauditReconciles, WorkExact, Goto, facts, Held
  <2> QED
    BY <2>1, <2>2, <2>3, <2>4
<1>9. ASSUME NEW c \in Commit, Merge(c) PROVE IInv'
  <2>1. work[c] \in Row /\ SoundResult(c, work[c]) /\ pc[c] \in Held
    BY <1>9 DEF Merge, TypeOK, WorkSound, Held
  <2>2. c \in proved \ shaken => work[c].class.ver = "diff-verified"
    BY <2>1 DEF VerifiedHeld
  <2> USE StoreSound, <2>1, <2>2
  <2>3. TypeOK' /\ RowsSound'
    BY <1>9 DEF Merge, TypeOK, Goto, Stages, facts
  <2>4. Quiet' /\ WorkSound' /\ WorkExact'
    BY <1>9 DEF Merge, TypeOK, Quiet, WorkSound, WorkExact, SoundResult, SoundClass, Goto,
                facts, Held
  <2>5. VerifiedHeld'
    BY <1>9, WaiverAssumption DEF Merge, TypeOK, Quiet, VerifiedHeld, history, Goto, facts, Held
  <2>6. ReauditReconciles'
    <3>1. row'[c] = work[c] /\ \A d \in Commit \ {c} : row'[d] = row[d]
      BY <1>9 DEF Merge
    <3>2. \A d \in Commit \ {c} : pc'[d] = pc[d]
      BY <1>9 DEF Merge, Goto, TypeOK
    <3>3. work[c] # None /\ UNCHANGED <<command, reviewed>>
      BY <1>9, WaiverAssumption DEF Merge
    <3>4. command \in {"all", "failures"} =>
            work[c].compliant = (work[c].class.clean \/ c \in reviewed)
      BY <2>1 DEF WorkExact
    <3> QED
      BY ONLY IInv, <3>1, <3>2, <3>3, <3>4 DEF IInv, ReauditReconciles
  <2> QED
    BY <2>3, <2>4, <2>5, <2>6
<1>10. ASSUME NEW c \in Commit, InsertStaged(c) PROVE IInv'
  <2>1. work[c] \in Row /\ SoundResult(c, work[c]) /\ pc[c] \in Held
    BY <1>10 DEF InsertStaged, TypeOK, WorkSound, Held
  <2>2. c \in proved \ shaken => work[c].class.ver = "diff-verified"
    BY <2>1 DEF VerifiedHeld
  <2> USE StoreSound, <2>1, <2>2
  <2>3. TypeOK' /\ RowsSound'
    BY <1>10 DEF InsertStaged, TypeOK, Goto, Stages, facts
  <2>4. Quiet' /\ WorkSound' /\ WorkExact'
    BY <1>10 DEF InsertStaged, TypeOK, Quiet, WorkSound, WorkExact, SoundResult, SoundClass,
                 Goto, facts, Held
  <2>5. VerifiedHeld'
    BY <1>10, WaiverAssumption DEF InsertStaged, TypeOK, Quiet, VerifiedHeld, history, Goto,
                                   facts, Held
  <2>6. ReauditReconciles'
    <3>1. row'[c] = work[c] /\ \A d \in Commit \ {c} : row'[d] = row[d]
      BY <1>10 DEF InsertStaged
    <3>2. \A d \in Commit \ {c} : pc'[d] = pc[d]
      BY <1>10 DEF InsertStaged, Goto, TypeOK
    <3>3. work[c] # None /\ UNCHANGED <<command, reviewed>>
      BY <1>10, WaiverAssumption DEF InsertStaged
    <3>4. command \in {"all", "failures"} =>
            work[c].compliant = (work[c].class.clean \/ c \in reviewed)
      BY <2>1 DEF WorkExact
    <3> QED
      BY ONLY IInv, <3>1, <3>2, <3>3, <3>4 DEF IInv, ReauditReconciles
  <2> QED
    BY <2>3, <2>4, <2>5, <2>6
<1>11. ASSUME NEW c \in Commit, reauditSingleCommit(c) PROVE IInv'
  <2>1. PICK class \in {StoredClass(c), NoClass} :
          /\ work' = [work EXCEPT ![c] = EvaluateCommit(c, class)]
          /\ \/ class = StoredClass(c) /\ UNCHANGED <<shaken, faults>>
             \/ shaken' = shaken \cup {c} /\ Fault(1)
    BY <1>11 DEF reauditSingleCommit
  <2> DEFINE result == EvaluateCommit(c, class)
  <2>2. /\ result \in Row /\ result # None /\ SoundResult(c, result) /\ result.class = class
        /\ result.compliant = (result.class.clean \/ c \in reviewed)
    BY StoredSound, NoClassSound, EvaluateSound
  <2>3. c \in proved \ shaken /\ class = StoredClass(c) => result.class.ver = "diff-verified"
    BY <1>11, <2>2 DEF reauditSingleCommit, VerifiedHeld, StoredClass
  <2>4. work' = [work EXCEPT ![c] = result]
    BY <2>1
  <2> HIDE DEF result
  <2>5. TypeOK'
    BY <1>11, <2>1, <2>2, <2>4, WaiverAssumption
       DEF reauditSingleCommit, TypeOK, Goto, Stages, facts, Fault
  <2>6. Quiet' /\ RowsSound' /\ WorkSound' /\ WorkExact' /\ ReauditReconciles'
    BY <1>11, <2>2, <2>4 DEF reauditSingleCommit, TypeOK, Quiet, WorkSound, WorkExact,
                             RowsSound, ReauditReconciles, SoundResult, SoundClass, Goto, facts,
                             Held
  <2>7. VerifiedHeld'
    BY <1>11, <2>1, <2>2, <2>3, <2>4 DEF reauditSingleCommit, TypeOK, Quiet, VerifiedHeld,
                                         history, Goto, facts, Held
  <2> QED
    BY <2>5, <2>6, <2>7
<1>12. ASSUME NEW c \in Commit, Reclassify(c) PROVE IInv'
  <2> DEFINE class == Refilled(c, row[c].class)
             result == [row[c] EXCEPT !.class = class]
  <2>1. row[c] \in Row /\ SoundResult(c, row[c]) /\ row[c].class \in Class
    BY <1>12 DEF Reclassify, TypeOK, RowsSound, Row
  <2>2. /\ class \in Class /\ SoundClass(c, class)
        /\ row[c].class.ver = "diff-verified" <=> class.ver = "diff-verified"
        /\ row[c].class.clean => class.clean
    BY <2>1, RefilledSound DEF SoundResult
  <2>3. Store(c, result)
    BY <1>12 DEF Reclassify
  <2> HIDE DEF class
  <2>4. result \in Row /\ result.class = class /\ result.compliant = row[c].compliant
    BY <2>1, <2>2 DEF Row
  <2>5. SoundResult(c, result)
    BY <2>1, <2>2, <2>4 DEF SoundResult
  <2>6. c \in proved \ shaken => result.class.ver = "diff-verified"
    BY <1>12, <2>2, <2>4 DEF Reclassify, VerifiedHeld, Quiet
  <2> HIDE DEF result
  <2> USE StoreSound, <2>3, <2>4, <2>5, <2>6
  <2>7. TypeOK' /\ RowsSound'
    BY <1>12 DEF Reclassify, TypeOK, facts
  <2>8. Quiet' /\ WorkSound' /\ WorkExact' /\ ReauditReconciles'
    <3>1. command' = "none" /\ \A d \in Commit : pc'[d] = "idle"
      BY <1>12 DEF Reclassify, Quiet
    <3> QED
      BY ONLY <3>1 DEF Quiet, WorkSound, WorkExact, ReauditReconciles, Held
  <2>9. VerifiedHeld'
    <3>1. \A d \in Commit : pc'[d] = "idle" /\ pc[d] = "idle"
      BY <1>12 DEF Reclassify, Quiet
    <3>2. result # None /\ UNCHANGED <<facts, reviewed>>
      BY <1>12, WaiverAssumption DEF Reclassify
    <3>3. /\ proved' \in SUBSET Commit /\ row'[c] = result
          /\ \A d \in Commit \ {c} : row'[d] = row[d]
          /\ \A d \in Commit \ {c} : d \in (proved \ shaken)' => d \in proved \ shaken
          /\ c \in (proved \ shaken)' => result.class.ver = "diff-verified"
      BY <3>2
    <3> QED
      BY ONLY IInv, <3>1, <3>2, <3>3 DEF IInv, VerifiedHeld, Held
  <2> QED
    BY <2>7, <2>8, <2>9
<1>13. ASSUME NEW c \in Commit, VerifyRevert(c) PROVE IInv'
  <2> DEFINE clean == IsCleanRevertDiff(c)
             ver == IF clean THEN "diff-verified" ELSE "diff-mismatch"
             result == [row[c] EXCEPT !.class.clean = clean, !.class.ver = ver]
  <2>1. row[c] \in Row /\ SoundResult(c, row[c]) /\ row[c].class \in Class
    BY <1>13 DEF VerifyRevert, TypeOK, RowsSound, Row
  <2>2. ~row[c].class.clean
    BY <1>13, <2>1 DEF VerifyRevert, SoundResult, SoundClass, Manual
  <2>3. Store(c, result)
    BY <1>13 DEF VerifyRevert
  <2>4. clean \in BOOLEAN /\ ver \in Verification
    BY DEF IsCleanRevertDiff, Verification
  <2>5. /\ clean => ver = "diff-verified" /\ diff[c] = "inverse"
        /\ ver = "diff-verified" => clean
    BY DEF IsCleanRevertDiff
  <2> HIDE DEF clean, ver
  <2>6. /\ result \in Row /\ result.class.clean = clean /\ result.class.ver = ver
        /\ result.compliant = row[c].compliant
    BY <2>1, <2>4 DEF Row, Class
  <2>7. SoundResult(c, result)
    BY <2>1, <2>2, <2>5, <2>6 DEF SoundResult, SoundClass
  <2>8. c \notin proved \ shaken
    BY <1>13 DEF VerifyRevert, VerifiedHeld, Quiet
  <2> HIDE DEF result
  <2> USE StoreSound, <2>3, <2>6, <2>7, <2>8
  <2>9. /\ command' \in {"none", "single"} /\ pc' \in [Commit -> Stages]
        /\ \A d \in Commit : pc'[d] \in {"idle", "single"}
        /\ command' = "none" => \A d \in Commit : pc'[d] = "idle"
    BY <1>13 DEF VerifyRevert, Goto, TypeOK, Stages, Quiet
  <2>10. TypeOK' /\ RowsSound'
    <3>1. UNCHANGED <<facts, reviewed, work, cancelled, faults>>
      BY <1>13 DEF VerifyRevert
    <3> QED
      BY <2>9, <3>1 DEF TypeOK, facts, Commands
  <2>11. Quiet'
    BY <2>9 DEF Quiet
  <2>12. WorkSound' /\ WorkExact' /\ ReauditReconciles'
    BY ONLY <2>9 DEF WorkSound, WorkExact, ReauditReconciles, Held
  <2>13. VerifiedHeld'
    BY <1>13, <2>9, WaiverAssumption DEF VerifiedHeld, Held, Quiet, VerifyRevert
  <2> QED
    BY <2>10, <2>11, <2>12, <2>13
<1>14. ASSUME ReAudit PROVE IInv'
  <2>1. TypeOK'
    BY <1>14, WaiverAssumption DEF ReAudit, TypeOK, Stages, Commands, facts, history
  <2>2. Quiet' /\ RowsSound' /\ WorkSound' /\ WorkExact' /\ ReauditReconciles'
    BY <1>14 DEF ReAudit, TypeOK, Quiet, WorkSound, WorkExact, RowsSound, ReauditReconciles,
                 SoundResult, SoundClass, Goto, facts, Held
  <2>3. VerifiedHeld'
    BY <1>14 DEF ReAudit, TypeOK, Quiet, VerifiedHeld, history, Goto, facts, Held
  <2> QED
    BY <2>1, <2>2, <2>3
<1>15. ASSUME Finish PROVE IInv'
  <2>1. TypeOK'
    BY <1>15, WaiverAssumption DEF Finish, TypeOK, Stages, Commands, facts, history, Stop,
                                   Running
  <2>2. Quiet' /\ RowsSound' /\ WorkSound' /\ WorkExact' /\ ReauditReconciles'
    BY <1>15 DEF Finish, TypeOK, Quiet, WorkSound, WorkExact, RowsSound, ReauditReconciles,
                 SoundResult, SoundClass, Goto, facts, Held, Stop, Running
  <2>3. VerifiedHeld'
    BY <1>15 DEF Finish, TypeOK, Quiet, VerifiedHeld, history, Goto, facts, Held, Stop, Running
  <2> QED
    BY <2>1, <2>2, <2>3
<1>16. ASSUME Crash PROVE IInv'
  <2>1. TypeOK'
    <3>1. faults' \in 0..MaxFault /\ shaken' \in SUBSET Commit
      BY <1>16, WaiverAssumption DEF Crash, Fault, Torn, TypeOK
    <3> QED
      BY <1>16, <3>1 DEF Crash, Stop, TypeOK, Stages, Commands, facts
  <2>2. Quiet' /\ RowsSound' /\ WorkSound' /\ WorkExact' /\ ReauditReconciles'
    BY <1>16 DEF Crash, TypeOK, Quiet, WorkSound, WorkExact, RowsSound, ReauditReconciles,
                 SoundResult, SoundClass, Goto, facts, Held, Stop, Fault, Torn
  <2>3. VerifiedHeld'
    BY <1>16 DEF Crash, TypeOK, Quiet, VerifiedHeld, history, Goto, facts, Held, Stop, Fault,
                 Torn
  <2> QED
    BY <2>1, <2>2, <2>3
<1>17. CASE UNCHANGED vars
  BY <1>17 DEF vars, TypeOK, Quiet, RowsSound, WorkSound, WorkExact, VerifiedHeld,
     ReauditReconciles, SoundResult, SoundClass, facts, history, Held
<1> QED
  BY <1>1, <1>2, <1>3, <1>4, <1>5, <1>6, <1>7, <1>8, <1>9, <1>10, <1>11, <1>12, <1>13, <1>14, <1>15, <1>16, <1>17
     DEF Next

\* Every variable stays in its domain: faults within their budget, one stage per
\* repository, no verification word outside the vocabulary.
THEOREM TypeCorrect == Spec => []TypeOK
<1>1. IInv => TypeOK
  BY DEF IInv
<1> QED
  BY <1>1, InitIInv, StepIInv, PTL DEF Spec

\* However commands, failures and process deaths follow one another, a commit without
\* a review is compliant only with a proved diff or as the bot's revert of reclassify.
THEOREM WaiversAreProven == Spec => []UnreviewedIsProven
<1>1. IInv => UnreviewedIsProven
  BY DEF IInv, RowsSound, SoundResult, SoundClass, UnreviewedIsProven, Waived, IsCleanRevertDiff
<1> QED
  BY <1>1, InitIInv, StepIInv, PTL DEF Spec

\* A stored verification is lost only with its row, between DELETE and INSERT, or by a
\* failed read of it.
THEOREM VerificationsAreKept == Spec => []VerifiedKept
<1>1. IInv => VerifiedKept
  <2> SUFFICES ASSUME IInv, NEW c \in proved \ shaken
               PROVE \/ pc[c] = "deleted" /\ work[c].class.ver = "diff-verified"
                     \/ row[c] # None /\ row[c].class.ver = "diff-verified" /\ row[c].class.clean
    BY DEF VerifiedKept
  <2>1. c \in Commit
    BY DEF IInv, TypeOK
  <2> QED
    BY <2>1 DEF IInv, VerifiedHeld, RowsSound, SoundResult, SoundClass, Held
<1> QED
  BY <1>1, InitIInv, StepIInv, PTL DEF Spec

\* What re-audit has done agrees with the classification it carried over.
THEOREM ReauditsReconcile == Spec => []ReauditReconciles
<1>1. IInv => ReauditReconciles
  BY DEF IInv
<1> QED
  BY <1>1, InitIInv, StepIInv, PTL DEF Spec

=============================================================================
