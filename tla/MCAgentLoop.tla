----------------------------- MODULE MCAgentLoop -----------------------------
(***************************************************************************)
(* A best-effort contract, an objective one and one with a verifier; a batch  *)
(* of reads and one of writes, and a check before and after a write.          *)
(***************************************************************************)
EXTENDS AgentLoop

MCCallLists ==
    {<<"read", "read">>, <<"write", "write">>, <<"check">>, <<"write", "check">>, <<"check", "write">>}

MCContracts ==
    {[bestEffort |-> TRUE, objective |-> FALSE, external |-> FALSE, deferred |-> FALSE],
     [bestEffort |-> FALSE, objective |-> TRUE, external |-> FALSE, deferred |-> FALSE],
     [bestEffort |-> FALSE, objective |-> FALSE, external |-> TRUE, deferred |-> TRUE]}
=============================================================================
