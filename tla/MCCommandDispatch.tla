------------------------- MODULE MCCommandDispatch --------------------------
(* TLC instance of CommandDispatch: a command that is delivered twice, and    *)
(* another one that uses its key.                                            *)
EXTENDS CommandDispatch

CONSTANTS r1, r2, r3, c1, c2, k

MCRequests == {r1, r2, r3}
MCCommands == {c1, c2}
MCKeys == {k}
MCCommandOf == [r \in {r1, r2, r3} |-> IF r = r3 THEN c2 ELSE c1]
MCKeyOf == [c \in {c1, c2} |-> k]
=============================================================================
