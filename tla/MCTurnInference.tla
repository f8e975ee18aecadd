-------------------------- MODULE MCTurnInference --------------------------
(***************************************************************************)
(* Up to three inputs: two messages of one user in one conversation, the   *)
(* second of which may steer, and an occurrence of that user's schedule in *)
(* the same conversation or in another one.                                *)
(***************************************************************************)
EXTENDS TurnInference

CONSTANTS c1, c2, u1

MCOneConversation == [i \in Inputs |-> c1]

(* The scheduled input is the first, in the second one's conversation; the *)
(* third is in a conversation of its own.                                  *)
MCTwoConversations == [i \in Inputs |-> IF i = 3 THEN c2 ELSE c1]

MCOneUser == [i \in Inputs |-> u1]
=============================================================================
