------------------------- MODULE MCPendingTurnQueue -------------------------
(* TLC instance of PendingTurnQueue. *)
EXTENDS PendingTurnQueue, TLC

\* Turns are interchangeable in the safety runs.
Symmetry == Permutations(Turns)
=============================================================================
