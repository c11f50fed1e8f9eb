------------------------- MODULE MCProcessSupervisor -------------------------
(***************************************************************************)
(* Two callers, two process ids of one session.  The symmetry is used by the  *)
(* larger instance only, which checks no liveness.                            *)
(***************************************************************************)
EXTENDS ProcessSupervisor, TLC

CONSTANTS i1, i2, s1

MCSessionOf == (i1 :> s1) @@ (i2 :> s1)

Symmetric == Permutations(Callers) \cup Permutations(Launches) \cup Permutations(Ids)
=============================================================================
