----------------------- MODULE MCObservationRecorder -----------------------
(***************************************************************************)
(* Instances of ObservationRecorder: one or two keys, a handful of           *)
(* observations and limits small enough to be reached.                        *)
(***************************************************************************)
EXTENDS ObservationRecorder, TLC

Symmetry == Permutations(StreamKeys) \cup Permutations(ProgressKeys)
=============================================================================
