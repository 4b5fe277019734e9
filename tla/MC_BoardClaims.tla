--------------------------- MODULE MC_BoardClaims ---------------------------
(***************************************************************************)
(* A loop that follows the board and a second process, --loop or --task,   *)
(* on two tasks of which the urgent one waits for the other.               *)
(***************************************************************************)
EXTENDS BoardClaims

CONSTANTS w1, w2

MCWorkers == {w1, w2}
MCFollowers == {w1}
MCRequests == {0, 1}
MCTasks == {1, 2}
MCPriority == [t \in MCTasks |-> IF t = 2 THEN 0 ELSE 1]
MCBlockedBy == [t \in MCTasks |-> IF t = 2 THEN {1} ELSE {}]
=============================================================================
