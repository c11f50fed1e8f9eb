------------------------ MODULE MCEvolutionSupervisor ------------------------
(***************************************************************************)
(* Small instances of EvolutionSupervisor.                                   *)
(***************************************************************************)
EXTENDS EvolutionSupervisor, TLC

MCReleases == Bootstraps \cup Candidates
Symmetry == Permutations(Procs) \cup Permutations(Candidates) \cup Permutations(Epochs)
=============================================================================
