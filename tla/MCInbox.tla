------------------------------ MODULE MCInbox ------------------------------
(* Two updates of one conversation, the second of which must wait.        *)
EXTENDS Inbox

CONSTANTS c1

MCOneConversation == <<c1, c1>>
=============================================================================
