------------------------------- MODULE DBWriter -------------------------------
(***************************************************************************)
(* internal/sync/dbwriter.go: the goroutine all writes of a sync run go    *)
(* through, its buffered channel, Write with its two selects, Close with   *)
(* its 30 s limit, and the way Pipeline.Run uses them: the repository      *)
(* workers share one context that the first error cancels, the writer is   *)
(* closed when all of them have returned, and the database after that.     *)
(*                                                                         *)
(* A request is <<c, n>>, the n-th Write of worker c.  Its errc has room   *)
(* for one reply, so the writer never waits for a worker that has left.    *)
(* The worker of a rewritten branch also writes past the writer            *)
(* (history.go recordIfRewritten).                                         *)
(***************************************************************************)
EXTENDS Naturals, Sequences, SequencesExt, FiniteSets

CONSTANTS
  Worker,
  None,      \* no request
  Cap,       \* bufferSize
  MaxWrite,  \* bound: Writes per worker
  MaxFault,  \* bound: failing statements
  MaxHang    \* bound: statements that hang for longer than Close waits

ASSUME WriterAssumption ==
  /\ None \notin Worker \X Nat
  /\ Cap \in Nat \ {0} /\ MaxWrite \in Nat /\ MaxFault \in Nat /\ MaxHang \in Nat

VARIABLES
  pc,         \* where each worker stands in Write, "left" when it returned
  calls,      \* how many Writes each worker has begun
  outcome,    \* what its last Write returned
  cancelled,  \* the workers' context is done
  requests,   \* the channel
  closed,     \* the channel is closed
  current,    \* the request whose fn runs
  stuck,      \* that fn hangs
  doomed,     \* that fn began under a context that was done
  reply,      \* errc of every request: none, or fn's error
  done,       \* run has returned
  closing,    \* Close: not called, waiting, drained, abandoned
  dbOpen,
  committed,  \* requests whose statements are in the database
  accepted,   \* history: requests in the order the channel took them
  executed,   \* history: requests in the order their fn returned
  faults, hangs

workers == <<pc, calls, outcome, cancelled>>
channel == <<requests, closed, accepted>>
writer  == <<current, stuck, doomed, reply, done, executed, hangs>>
close   == <<closing, dbOpen>>
vars    == <<workers, channel, writer, close, committed, faults>>

Request == Worker \X (1..MaxWrite)
Id(c) == <<c, calls[c]>>

TypeOK ==
  /\ pc \in [Worker -> {"out", "submit", "wait", "direct", "left"}]
  /\ calls \in [Worker -> 0..MaxWrite]
  /\ outcome \in [Worker -> {"nil", "error", "ctx"}]
  /\ cancelled \in BOOLEAN /\ closed \in BOOLEAN /\ stuck \in BOOLEAN /\ doomed \in BOOLEAN
  /\ done \in BOOLEAN /\ dbOpen \in BOOLEAN
  /\ requests \in Seq(Request) /\ Len(requests) <= Cap
  /\ current \in Request \cup {None}
  /\ reply \in [Request -> {"empty", "nil", "error"}]
  /\ closing \in {"no", "waiting", "drained", "abandoned"}
  /\ committed \subseteq Request
  /\ accepted \in Seq(Request) /\ executed \in Seq(Request)
  /\ faults \in Nat /\ hangs \in Nat

Init ==
  /\ pc = [c \in Worker |-> "out"]
  /\ calls = [c \in Worker |-> 0]
  /\ outcome = [c \in Worker |-> "nil"]
  /\ cancelled = FALSE /\ closed = FALSE /\ stuck = FALSE /\ doomed = FALSE /\ done = FALSE
  /\ requests = <<>> /\ accepted = <<>> /\ executed = <<>>
  /\ current = None
  /\ reply = [r \in Request |-> "empty"]
  /\ closing = "no" /\ dbOpen = TRUE
  /\ committed = {}
  /\ faults = 0 /\ hangs = 0

Goto(c, step) == pc' = [pc EXCEPT ![c] = step]
Return(c, result) == Goto(c, "out") /\ outcome' = [outcome EXCEPT ![c] = result]

-----------------------------------------------------------------------------
(* Write, called by a repository worker *)

\* The context may already be done: Write does not look before its select.
Call(c) ==
  /\ pc[c] = "out" /\ outcome[c] = "nil"
  /\ calls[c] < MaxWrite
  /\ calls' = [calls EXCEPT ![c] = @ + 1]
  /\ Goto(c, "submit")
  /\ UNCHANGED <<outcome, cancelled, channel, writer, close, committed, faults>>

Submit(c) ==
  /\ pc[c] = "submit"
  /\ Len(requests) < Cap
  /\ requests' = Append(requests, Id(c))
  /\ accepted' = Append(accepted, Id(c))
  /\ Goto(c, "wait")
  /\ UNCHANGED <<calls, outcome, cancelled, closed, writer, close, committed, faults>>

\* Mutant: a Write that cannot be queued any more reports success.
SubmitCancelled_Nil(c) ==
  /\ pc[c] = "submit"
  /\ cancelled
  /\ Return(c, "nil")
  /\ UNCHANGED <<calls, cancelled, channel, writer, close, committed, faults>>

SubmitCancelled(c) ==
  /\ pc[c] = "submit"
  /\ cancelled
  /\ Return(c, "ctx")
  /\ UNCHANGED <<calls, cancelled, channel, writer, close, committed, faults>>

Receive(c) ==
  /\ pc[c] = "wait"
  /\ reply[Id(c)] # "empty"
  /\ Return(c, reply[Id(c)])
  /\ UNCHANGED <<calls, cancelled, channel, writer, close, committed, faults>>

\* The reply may be there as well: select picks either.
WaitCancelled(c) ==
  /\ pc[c] = "wait"
  /\ cancelled
  /\ Return(c, "ctx")
  /\ UNCHANGED <<calls, cancelled, channel, writer, close, committed, faults>>

\* recordIfRewritten calls the store itself.
RecordHistoryRewrite(c) ==
  /\ pc[c] = "out" /\ outcome[c] = "nil"
  /\ calls[c] = 0
  /\ Goto(c, "direct")
  /\ UNCHANGED <<calls, outcome, cancelled, channel, writer, close, committed, faults>>

\* A failed record is logged, never fatal.
Recorded(c) ==
  /\ pc[c] = "direct"
  /\ Goto(c, "out")
  /\ UNCHANGED <<calls, outcome, cancelled, channel, writer, close, committed, faults>>

-----------------------------------------------------------------------------
(* The errgroup of Pipeline.Run *)

Cancel == cancelled' = TRUE

\* A worker returns; an error cancels the context of the others.
Leave(c) ==
  /\ pc[c] = "out"
  /\ Goto(c, "left")
  /\ IF outcome[c] = "nil" THEN UNCHANGED cancelled ELSE Cancel
  /\ UNCHANGED <<calls, outcome, channel, writer, close, committed, faults>>

\* An API call of some worker fails, or the user interrupts the run.
Interrupt ==
  /\ ~cancelled
  /\ Cancel
  /\ UNCHANGED <<pc, calls, outcome, channel, writer, close, committed, faults>>

-----------------------------------------------------------------------------
(* The writer goroutine *)

Take ==
  /\ current = None /\ requests # <<>>
  /\ current' = Head(requests)
  /\ requests' = Tail(requests)
  /\ doomed' = cancelled
  /\ UNCHANGED <<workers, closed, accepted, stuck, reply, done, executed, hangs, close,
                 committed, faults>>

\* fn fails by itself, because the context it captured is done, or because the
\* database is closed under it.
MayFail == faults < MaxFault \/ cancelled \/ ~dbOpen

\* Mutant: errc without room: the writer hands the reply to a worker that waits.
Execute_Rendezvous ==
  /\ current # None /\ ~stuck
  /\ pc[current[1]] = "wait" /\ Id(current[1]) = current
  /\ \/ /\ dbOpen /\ ~doomed
        /\ committed' = committed \cup {current}
        /\ reply' = [reply EXCEPT ![current] = "nil"]
        /\ UNCHANGED faults
     \/ /\ MayFail
        /\ reply' = [reply EXCEPT ![current] = "error"]
        /\ faults' = IF cancelled \/ ~dbOpen THEN faults ELSE faults + 1
        /\ UNCHANGED committed
  /\ executed' = Append(executed, current)
  /\ current' = None
  /\ UNCHANGED <<workers, channel, stuck, doomed, done, hangs, close>>

\* Mutant: only a success is answered.
Execute_NoReplyOnError ==
  /\ current # None /\ ~stuck
  /\ \/ /\ dbOpen /\ ~doomed
        /\ committed' = committed \cup {current}
        /\ reply' = [reply EXCEPT ![current] = "nil"]
        /\ UNCHANGED faults
     \/ /\ MayFail
        /\ faults' = IF cancelled \/ ~dbOpen THEN faults ELSE faults + 1
        /\ UNCHANGED <<committed, reply>>
  /\ executed' = Append(executed, current)
  /\ current' = None
  /\ UNCHANGED <<workers, channel, stuck, doomed, done, hangs, close>>

\* fn returns, and the reply goes to the request's errc.
Execute ==
  /\ current # None /\ ~stuck
  /\ \/ /\ dbOpen /\ ~doomed
        /\ committed' = committed \cup {current}
        /\ reply' = [reply EXCEPT ![current] = "nil"]
        /\ UNCHANGED faults
     \/ /\ MayFail
        /\ reply' = [reply EXCEPT ![current] = "error"]
        /\ faults' = IF cancelled \/ ~dbOpen THEN faults ELSE faults + 1
        /\ UNCHANGED committed
  /\ executed' = Append(executed, current)
  /\ current' = None
  /\ UNCHANGED <<workers, channel, stuck, doomed, done, hangs, close>>

\* A statement hangs, for good or until later.
Hang ==
  /\ current # None /\ ~stuck
  /\ hangs < MaxHang
  /\ stuck' = TRUE /\ hangs' = hangs + 1
  /\ UNCHANGED <<workers, channel, current, doomed, reply, done, executed, close, committed, faults>>

Unhang ==
  /\ stuck
  /\ stuck' = FALSE
  /\ UNCHANGED <<workers, channel, current, doomed, reply, done, executed, hangs, close, committed, faults>>

\* Mutant: the goroutine ends with the context, whatever is still queued.
ExitRun_OnCancel ==
  /\ closed \/ cancelled
  /\ current = None /\ ~done
  /\ done' = TRUE
  /\ UNCHANGED <<workers, channel, current, stuck, doomed, reply, executed, hangs, close, committed, faults>>

\* range over a closed channel ends when it is empty.
ExitRun ==
  /\ closed /\ requests = <<>> /\ current = None /\ ~done
  /\ done' = TRUE
  /\ UNCHANGED <<workers, channel, current, stuck, doomed, reply, executed, hangs, close, committed, faults>>

-----------------------------------------------------------------------------
(* Close, deferred by Pipeline.Run, and the process's db.Close after it *)

\* Mutant: Close at the first error, without g.Wait.
CloseChannel_NoWait ==
  /\ closing = "no"
  /\ cancelled \/ \A c \in Worker : pc[c] = "left"
  /\ closed' = TRUE /\ closing' = "waiting"
  /\ UNCHANGED <<workers, requests, accepted, writer, dbOpen, committed, faults>>

CloseChannel ==
  /\ closing = "no"
  /\ \A c \in Worker : pc[c] = "left"
  /\ closed' = TRUE /\ closing' = "waiting"
  /\ UNCHANGED <<workers, requests, accepted, writer, dbOpen, committed, faults>>

CloseDrained ==
  /\ closing = "waiting" /\ done
  /\ closing' = "drained"
  /\ UNCHANGED <<workers, channel, writer, dbOpen, committed, faults>>

CloseTimesOut ==
  /\ closing = "waiting" /\ stuck
  /\ closing' = "abandoned"
  /\ UNCHANGED <<workers, channel, writer, dbOpen, committed, faults>>

CloseDB ==
  /\ closing \in {"drained", "abandoned"} /\ dbOpen
  /\ dbOpen' = FALSE
  /\ UNCHANGED <<workers, channel, writer, closing, committed, faults>>

WorkerStep(c) ==
  Call(c) \/ Submit(c) \/ SubmitCancelled(c) \/ Receive(c) \/ WaitCancelled(c)
    \/ Recorded(c) \/ Leave(c)

WriterStep == Take \/ Execute \/ ExitRun
CloseStep == CloseChannel \/ CloseDrained \/ CloseTimesOut \/ CloseDB

Next ==
  \/ \E c \in Worker : WorkerStep(c) \/ RecordHistoryRewrite(c)
  \/ WriterStep \/ CloseStep
  \/ Interrupt \/ Hang \/ Unhang

Spec == Init /\ [][Next]_vars

\* Goroutines that can run do.  Nothing interrupts, hangs or recovers for sure.
Fairness ==
  /\ \A c \in Worker : WF_vars(WorkerStep(c))
  /\ WF_vars(WriterStep)
  /\ WF_vars(CloseStep)

FairSpec == Spec /\ Fairness

-----------------------------------------------------------------------------
(* Properties *)

\* dbwriter.go: whatever is cancelled, fails or hangs, every request the channel
\* took is executed once, in the order it was taken, or is still on its way, the
\* requests whose workers stopped waiting included.
Accounted ==
  accepted = executed \o (IF current = None THEN <<>> ELSE <<current>>) \o requests

\* Write returned nil: all that worker ever wrote is in the database.
NilMeansCommitted ==
  \A c \in Worker :
    pc[c] \in {"out", "left"} /\ outcome[c] = "nil"
      => \A n \in 1..calls[c] : <<c, n>> \in committed

\* Close "drains pending writes": after a Close that returned nil, nothing that
\* was queued is unanswered and nothing can run any more, so the database may be
\* closed; after any other Close at most the queue of that moment is lost.
DrainedMeansAnswered ==
  closing = "drained" => executed = accepted /\ current = None

\* Close "All callers must have finished submitting": no worker ever stands
\* before a closed channel, where Write panics.
NoSendOnClosed == closed => \A c \in Worker : pc[c] # "submit"

\* A worker is never left in Write, unless a hung statement holds the writer and
\* nobody cancels.
WriteReturns == \A c \in Worker : pc[c] \in {"submit", "wait"} ~> (pc[c] = "out" \/ stuck)

\* Close "must not hang shutdown forever".
CloseReturns == closing = "waiting" ~> closing \in {"drained", "abandoned"}
=============================================================================
