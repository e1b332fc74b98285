----------------------------- MODULE DBWriterProofs -----------------------------
(***************************************************************************)
(* The safety properties of DBWriter hold for any number of workers and    *)
(* Writes, any capacity of the channel, and any failures and hangs.        *)
(*                                                                         *)
(* The argument: the requests taken are at all times the executed ones,    *)
(* the one that runs and the queue, in that order; a reply of nil stands   *)
(* for committed statements; and the channel is closed only when every     *)
(* worker has left, so that nothing enters the queue any more.             *)
(***************************************************************************)
EXTENDS DBWriter, SequenceTheorems, TLAPS

\* The request that runs, as a sequence.
Running == IF current = None THEN <<>> ELSE <<current>>

\* Every Write but the one worker c is in, if any, is in the database.
EarlierCommitted(c, n) == \A i \in 1..n : <<c, i>> \in committed

\* What a worker knows of its own Writes, and what a reply says.
RepliesTrue ==
    /\ \A c \in Worker :
        /\ pc[c] \in {"submit", "wait"} =>
              outcome[c] = "nil" /\ calls[c] > 0 /\ EarlierCommitted(c, calls[c] - 1)
        /\ pc[c] \in {"out", "left", "direct"} /\ outcome[c] = "nil" =>
              EarlierCommitted(c, calls[c])
    /\ \A r \in Request : reply[r] = "nil" => r \in committed

\* Close comes after the last worker, the end of the goroutine after the last
\* request.
ClosedInOrder ==
    /\ closed <=> closing # "no"
    /\ closed => \A c \in Worker : pc[c] = "left"
    /\ done => closed /\ requests = <<>> /\ current = None
    /\ closing = "drained" => done

\* The inductive invariant.
WInv == TypeOK /\ Accounted /\ RepliesTrue /\ ClosedInOrder

-----------------------------------------------------------------------------
LEMMA RequestsArePairs ==
    ASSUME NEW c \in Worker, NEW n \in 1..MaxWrite
    PROVE  <<c, n>> \in Request /\ <<c, n>> # None
BY WriterAssumption DEF Request

LEMMA NoneIsNoRequest == None \notin Request
BY WriterAssumption DEF Request

\* Queueing a request extends all that was accepted.
LEMMA QueueOne ==
    ASSUME NEW P \in Seq(Request), NEW R \in Seq(Request), NEW x \in Request
    PROVE  Append(P \o R, x) = P \o Append(R, x)
<1>1. <<x>> \in Seq(Request)
  OBVIOUS
<1>2. P \o R \in Seq(Request)
  BY ConcatProperties
<1>3. Append(P \o R, x) = (P \o R) \o <<x>>
  BY <1>2, AppendIsConcat
<1>4. (P \o R) \o <<x>> = P \o (R \o <<x>>)
  BY <1>1, ConcatAssociative
<1>5. R \o <<x>> = Append(R, x)
  BY AppendIsConcat
<1> QED
  BY <1>3, <1>4, <1>5

\* A request goes from the head of the queue to the end of what was executed in
\* two steps.
LEMMA MoveOne ==
    ASSUME NEW E \in Seq(Request), NEW R \in Seq(Request), NEW x \in Request
    PROVE  /\ R # <<>> => (E \o <<>>) \o R = (E \o <<Head(R)>>) \o Tail(R)
           /\ (E \o <<x>>) \o R = (Append(E, x) \o <<>>) \o R
<1>1. E \o <<>> = E
  BY ConcatEmptySeq
<1>2. ASSUME R # <<>> PROVE E \o R = (E \o <<Head(R)>>) \o Tail(R)
  <2>1. Head(R) \in Request /\ Tail(R) \in Seq(Request) /\ Len(Tail(R)) = Len(R) - 1
    BY <1>2, HeadTailProperties
  <2>2. <<Head(R)>> \in Seq(Request) /\ <<Head(R)>> \o Tail(R) = R
    BY <1>2, <2>1
  <2>3. (E \o <<Head(R)>>) \o Tail(R) = E \o (<<Head(R)>> \o Tail(R))
    BY <2>1, <2>2, ConcatAssociative
  <2> QED
    BY <2>2, <2>3
<1>3. Append(E, x) = E \o <<x>> /\ Append(E, x) \in Seq(Request)
  BY AppendIsConcat, AppendProperties
<1>4. Append(E, x) \o <<>> = Append(E, x)
  BY <1>3, ConcatEmptySeq
<1> QED
  BY <1>1, <1>2, <1>3, <1>4

\* WInv gives what the run checks.
THEOREM WriterInvariants ==
    WInv => Accounted /\ NilMeansCommitted /\ DrainedMeansAnswered /\ NoSendOnClosed
<1> SUFFICES ASSUME WInv
             PROVE  Accounted /\ NilMeansCommitted /\ DrainedMeansAnswered /\ NoSendOnClosed
  OBVIOUS
<1>1. NilMeansCommitted
  BY DEF WInv, RepliesTrue, EarlierCommitted, NilMeansCommitted
<1>2. DrainedMeansAnswered
  <2> SUFFICES ASSUME closing = "drained" PROVE executed = accepted /\ current = None
    BY DEF DrainedMeansAnswered
  <2>1. requests = <<>> /\ current = None
    BY DEF WInv, ClosedInOrder
  <2>2. accepted = (executed \o <<>>) \o <<>>
    BY <2>1 DEF WInv, Accounted
  <2>3. executed \o <<>> = executed
    BY ConcatEmptySeq DEF WInv, TypeOK
  <2> QED
    BY <2>1, <2>2, <2>3
<1>3. NoSendOnClosed
  BY DEF WInv, ClosedInOrder, NoSendOnClosed
<1> QED
  BY <1>1, <1>2, <1>3 DEF WInv

LEMMA InitInv == Init => WInv
<1> SUFFICES ASSUME Init PROVE WInv
  OBVIOUS
<1>1. TypeOK
  <2>1. <<>> \in Seq(Request) /\ Len(<<>>) = 0 /\ 0 <= Cap
    BY WriterAssumption, EmptySeq
  <2>2. pc \in [Worker -> {"out", "submit", "wait", "direct", "left"}]
        /\ calls \in [Worker -> 0..MaxWrite] /\ outcome \in [Worker -> {"nil", "error", "ctx"}]
        /\ reply \in [Request -> {"empty", "nil", "error"}]
    BY WriterAssumption DEF Init
  <2> QED
    BY <2>1, <2>2 DEF Init, TypeOK
<1>2. Accounted
  <2>1. <<>> \in Seq(Request) /\ (<<>> \o <<>>) \o <<>> = <<>>
    BY ConcatEmptySeq
  <2> QED
    BY <2>1 DEF Init, Accounted
<1>3. RepliesTrue /\ ClosedInOrder
  BY DEF Init, RepliesTrue, ClosedInOrder, EarlierCommitted
<1> QED
  BY <1>1, <1>2, <1>3 DEF WInv

-----------------------------------------------------------------------------
(* The workers. *)

\* A worker's step that neither queues nor executes.
LEMMA WorkerTypes ==
    ASSUME WInv, NEW c \in Worker,
           Call(c) \/ SubmitCancelled(c) \/ Receive(c) \/ WaitCancelled(c)
             \/ Recorded(c) \/ Leave(c) \/ RecordHistoryRewrite(c)
    PROVE  TypeOK' /\ Accounted' /\ ClosedInOrder'
<1> USE DEF channel, writer, close
<1>1. CASE Call(c)
  BY <1>1, WriterAssumption DEF WInv, TypeOK, Accounted, ClosedInOrder, Call, Goto
<1>2. CASE SubmitCancelled(c)
  BY <1>2 DEF WInv, TypeOK, Accounted, ClosedInOrder, SubmitCancelled, Return, Goto
<1>3. CASE Receive(c)
  <2>1. reply[Id(c)] \in {"nil", "error"}
    BY <1>3, RequestsArePairs DEF WInv, TypeOK, RepliesTrue, Receive, Id
  <2> QED
    BY <1>3, <2>1 DEF WInv, TypeOK, Accounted, ClosedInOrder, Receive, Return, Goto
<1>4. CASE WaitCancelled(c)
  BY <1>4 DEF WInv, TypeOK, Accounted, ClosedInOrder, WaitCancelled, Return, Goto
<1>5. CASE Recorded(c)
  BY <1>5 DEF WInv, TypeOK, Accounted, ClosedInOrder, Recorded, Goto
<1>6. CASE Leave(c)
  BY <1>6 DEF WInv, TypeOK, Accounted, ClosedInOrder, Leave, Goto, Cancel
<1>7. CASE RecordHistoryRewrite(c)
  BY <1>7 DEF WInv, TypeOK, Accounted, ClosedInOrder, RecordHistoryRewrite, Goto
<1> QED
  BY <1>1, <1>2, <1>3, <1>4, <1>5, <1>6, <1>7

LEMMA WorkerReplies ==
    ASSUME WInv, NEW c \in Worker,
           Call(c) \/ SubmitCancelled(c) \/ Receive(c) \/ WaitCancelled(c)
             \/ Recorded(c) \/ Leave(c) \/ RecordHistoryRewrite(c)
    PROVE  RepliesTrue'
<1> USE DEF channel, writer, close
<1>t. calls \in [Worker -> 0..MaxWrite] /\ MaxWrite \in Nat
  BY WriterAssumption DEF WInv, TypeOK
<1>1. CASE Call(c)
  BY <1>1, <1>t DEF WInv, TypeOK, RepliesTrue, EarlierCommitted, Call, Goto
<1>2. CASE SubmitCancelled(c)
  BY <1>2 DEF WInv, TypeOK, RepliesTrue, EarlierCommitted, SubmitCancelled, Return, Goto
<1>3. CASE Receive(c)
  <2>1. Id(c) \in Request /\ (reply[Id(c)] = "nil" => <<c, calls[c]>> \in committed)
    BY <1>3, <1>t, RequestsArePairs DEF WInv, RepliesTrue, Receive, Id
  <2>2. reply[Id(c)] = "nil" => EarlierCommitted(c, calls[c])
    BY <1>3, <1>t, <2>1 DEF WInv, RepliesTrue, EarlierCommitted, Receive
  <2> QED
    BY <1>3, <2>2 DEF WInv, TypeOK, RepliesTrue, EarlierCommitted, Receive, Return, Goto
<1>4. CASE WaitCancelled(c)
  BY <1>4 DEF WInv, TypeOK, RepliesTrue, EarlierCommitted, WaitCancelled, Return, Goto
<1>5. CASE Recorded(c)
  BY <1>5 DEF WInv, TypeOK, RepliesTrue, EarlierCommitted, Recorded, Goto
<1>6. CASE Leave(c)
  BY <1>6 DEF WInv, TypeOK, RepliesTrue, EarlierCommitted, Leave, Goto, Cancel
<1>7. CASE RecordHistoryRewrite(c)
  BY <1>7 DEF WInv, TypeOK, RepliesTrue, EarlierCommitted, RecordHistoryRewrite, Goto
<1> QED
  BY <1>1, <1>2, <1>3, <1>4, <1>5, <1>6, <1>7

LEMMA SubmitStep ==
    ASSUME WInv, NEW c \in Worker, Submit(c)
    PROVE  WInv'
<1> USE DEF Submit, writer, close
<1>1. Id(c) \in Request
  BY RequestsArePairs DEF WInv, TypeOK, RepliesTrue, Id
<1>2. requests \in Seq(Request) /\ accepted \in Seq(Request) /\ executed \in Seq(Request)
  BY DEF WInv, TypeOK
<1>3. /\ requests' \in Seq(Request) /\ Len(requests') <= Cap /\ accepted' \in Seq(Request)
  BY <1>1, <1>2, WriterAssumption, AppendProperties, LenProperties
<1>4. TypeOK'
  BY <1>3 DEF WInv, TypeOK, Goto
<1>5. Accounted'
  <2> DEFINE prefix == executed \o Running
  <2>1. Running \in Seq(Request)
    BY DEF Running, WInv, TypeOK
  <2>2. prefix \in Seq(Request)
    BY <1>2, <2>1, ConcatProperties
  <2>3. accepted = prefix \o requests
    BY DEF WInv, Accounted, Running
  <2>4. accepted' = prefix \o requests'
    <3> HIDE DEF prefix
    <3> QED
      BY <1>1, <1>2, <2>2, <2>3, QueueOne
  <2> QED
    BY <2>4 DEF Accounted, Running
<1>6. RepliesTrue'
  BY DEF WInv, TypeOK, RepliesTrue, EarlierCommitted, Goto
<1>7. ClosedInOrder'
  BY DEF WInv, TypeOK, ClosedInOrder, Goto
<1> QED
  BY <1>4, <1>5, <1>6, <1>7 DEF WInv

-----------------------------------------------------------------------------
(* The writer. *)

LEMMA TakeStep ==
    ASSUME WInv, Take
    PROVE  WInv'
<1> USE DEF Take, workers, close
<1>1. requests \in Seq(Request) /\ executed \in Seq(Request) /\ cancelled \in BOOLEAN
  BY DEF WInv, TypeOK
<1>2. /\ Head(requests) \in Request /\ Head(requests) # None
      /\ Tail(requests) \in Seq(Request) /\ Len(Tail(requests)) = Len(requests) - 1
  BY <1>1, HeadTailProperties, NoneIsNoRequest
<1>3. TypeOK'
  BY <1>1, <1>2, WriterAssumption, LenProperties DEF WInv, TypeOK
<1>4. Accounted'
  BY <1>1, <1>2, MoveOne DEF WInv, Accounted
<1>5. RepliesTrue'
  BY DEF WInv, RepliesTrue, EarlierCommitted
<1>6. ClosedInOrder'
  BY DEF WInv, ClosedInOrder
<1> QED
  BY <1>3, <1>4, <1>5, <1>6 DEF WInv

LEMMA ExecuteStep ==
    ASSUME WInv, Execute
    PROVE  WInv'
<1> USE DEF Execute, workers, channel, close
<1>1. current \in Request /\ requests \in Seq(Request) /\ executed \in Seq(Request)
  BY DEF WInv, TypeOK
<1>2. executed' \in Seq(Request)
  BY <1>1, AppendProperties
<1>3. PICK a \in {"nil", "error"} : /\ reply' = [reply EXCEPT ![current] = a]
                                    /\ a = "nil" => committed' = committed \cup {current}
                                    /\ committed' \in {committed, committed \cup {current}}
  OBVIOUS
<1>4. faults' \in Nat
  BY DEF WInv, TypeOK, MayFail
<1>5. TypeOK'
  BY <1>1, <1>2, <1>3, <1>4 DEF WInv, TypeOK
<1>6. Accounted'
  BY <1>1, MoveOne, NoneIsNoRequest DEF WInv, Accounted
<1>7. RepliesTrue'
  BY <1>1, <1>3 DEF WInv, TypeOK, RepliesTrue, EarlierCommitted
<1>8. ClosedInOrder'
  BY DEF WInv, ClosedInOrder
<1> QED
  BY <1>5, <1>6, <1>7, <1>8 DEF WInv

\* The end of the goroutine, hangs, Close, and the user.
LEMMA OtherStep ==
    ASSUME WInv, ExitRun \/ Hang \/ Unhang \/ CloseStep \/ Interrupt \/ UNCHANGED vars
    PROVE  WInv'
<1> USE DEF ExitRun, Hang, Unhang, CloseStep, CloseChannel, CloseDrained, CloseTimesOut, CloseDB,
            Interrupt, Cancel, vars, workers, channel, writer, close
<1>1. TypeOK'
  <2>1. UNCHANGED <<pc, calls, outcome, requests, current, reply, committed, accepted, executed, faults>>
    OBVIOUS
  <2>2. cancelled' \in BOOLEAN /\ closed' \in BOOLEAN /\ stuck' \in BOOLEAN /\ doomed' \in BOOLEAN
    BY ZenonT(30) DEF WInv, TypeOK
  <2>3. done' \in BOOLEAN /\ dbOpen' \in BOOLEAN
    BY ZenonT(30) DEF WInv, TypeOK
  <2>4. closing' \in {"no", "waiting", "drained", "abandoned"} /\ hangs' \in Nat
    BY DEF WInv, TypeOK
  <2> QED
    BY <2>1, <2>2, <2>3, <2>4 DEF WInv, TypeOK
<1>2. Accounted'
  BY DEF WInv, Accounted
<1>3. RepliesTrue'
  BY DEF WInv, RepliesTrue, EarlierCommitted
<1>4. ClosedInOrder'
  BY DEF WInv, ClosedInOrder
<1> QED
  BY <1>1, <1>2, <1>3, <1>4 DEF WInv

\* Every step preserves the invariant.
THEOREM NextInv == WInv /\ [Next]_vars => WInv'
<1> SUFFICES ASSUME WInv, [Next]_vars PROVE WInv'
  OBVIOUS
<1>1. ASSUME NEW c \in Worker, WorkerStep(c) \/ RecordHistoryRewrite(c) PROVE WInv'
  <2>1. CASE Submit(c)
    BY <2>1, SubmitStep
  <2>2. CASE ~Submit(c)
    BY <1>1, <2>2, WorkerTypes, WorkerReplies DEF WorkerStep, WInv
  <2> QED
    BY <2>1, <2>2
<1> QED
  BY <1>1, TakeStep, ExecuteStep, OtherStep DEF Next, WriterStep

\* The invariant holds in every reachable state.
THEOREM Invariant == Spec => []WInv
BY InitInv, NextInv, PTL DEF Spec

-----------------------------------------------------------------------------
\* The variables keep their types; the queue never exceeds bufferSize.
THEOREM TypeCorrect == Spec => []TypeOK
<1>1. WInv => TypeOK
  BY DEF WInv
<1> QED
  BY <1>1, Invariant, PTL

\* Every request taken is executed once, in order, or still on its way
\* (dbwriter.go run).
THEOREM RequestsAccounted == Spec => []Accounted
BY WriterInvariants, Invariant, PTL

\* A Write that returned nil is in the database (dbwriter.go Write).
THEOREM NilIsCommitted == Spec => []NilMeansCommitted
BY WriterInvariants, Invariant, PTL

\* A Close that returned nil left nothing behind (dbwriter.go Close).
THEOREM DrainedIsAnswered == Spec => []DrainedMeansAnswered
BY WriterInvariants, Invariant, PTL

\* No worker stands before a closed channel (Pipeline.Run's g.Wait before Close).
THEOREM NeverSendsOnClosed == Spec => []NoSendOnClosed
BY WriterInvariants, Invariant, PTL
=============================================================================
