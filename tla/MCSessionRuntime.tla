-------------------------- MODULE MCSessionRuntime --------------------------
(* TLC instance of SessionRuntime. *)
EXTENDS SessionRuntime, TLC

\* Hosts and turns are interchangeable in the safety runs.
Symmetry == Permutations(Hosts) \cup Permutations(Turns)
=============================================================================
