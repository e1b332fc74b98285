----------------------------- MODULE MCTokenPool -----------------------------
(***************************************************************************)
(* An instance of TokenPool for TLC: three calls over two tokens, one that *)
(* the first token only may serve, one that both may, one that none may.   *)
(***************************************************************************)
EXTENDS TokenPool, SequencesExt

MCOrder  == SetToSeq(Token)
MCCaller == SetToSeq(Request)

MCMatching ==
  [r \in Request |-> CASE r = MCCaller[1] -> <<MCOrder[1]>>
                       [] r = MCCaller[2] -> MCOrder
                       [] OTHER           -> <<>>]

\* The first call's repository has moved to where both tokens serve; elsewhere the new
\* URL has a number in place of the repository, which no scope matches.
MCMoved == [r \in Request |-> IF r = MCCaller[1] THEN MCOrder ELSE <<>>]

\* The call that no token may serve changes nothing the others read, so it can
\* go first.
Unserved == MCCaller[3]

MCNext ==
  /\ Next
  /\ ~Stage(Unserved, "done") =>
        \A r \in Request \ {Unserved} : call'[r] = call[r] /\ UNCHANGED <<now, left>>

MCSpec == Init /\ [][MCNext]_vars /\ WF_vars(Tick) /\ \A r \in Request : WF_vars(CallStep(r))
=============================================================================
