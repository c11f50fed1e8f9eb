--------------------------- MODULE MCReleaseStore ---------------------------
(***************************************************************************)
(* Instances of ReleaseStore: two processes, two releases, a few             *)
(* deployments, and processes that stop at any write.                         *)
(***************************************************************************)
EXTENDS ReleaseStore
=============================================================================
