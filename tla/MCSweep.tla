------------------------------- MODULE MCSweep -------------------------------
(* A small instance of Sweep; nothing but its name tells A from the others. *)
EXTENDS Sweep

CONSTANT A

MCInit == Init /\ config = A

MCSpec == MCInit /\ [][Next]_vars /\ Fairness
=============================================================================
