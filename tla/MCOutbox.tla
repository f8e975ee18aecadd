----------------------------- MODULE MCOutbox ------------------------------
(***************************************************************************)
(* One chat, so that every message can be in the way of every other: a     *)
(* turn shows a tool's start block (1) and its end in its place (2), and   *)
(* replies with two messages (3, 4); a command is answered with message 5. *)
(***************************************************************************)
EXTENDS Outbox

CONSTANTS t1, chat

MCMessages == 1 .. 5
MCTurnOf   == [m \in MCMessages |-> IF m = 5 THEN NoTurn ELSE t1]
MCProgress == {1, 2}
MCSourceOf == [m \in MCMessages |-> IF m = 2 THEN 1 ELSE NoMessage]
MCStreamOf == [m \in MCMessages |-> chat]
=============================================================================
