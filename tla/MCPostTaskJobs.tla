--------------------------- MODULE MCPostTaskJobs ---------------------------
(* TLC instance of PostTaskJobs: one task, two workers, three attempts.       *)
EXTENDS PostTaskJobs
=============================================================================
