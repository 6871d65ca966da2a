----------------------------- MODULE MCSession ------------------------------
(* Small instances of the room and its conversation.                       *)
EXTENDS Session

CONSTANTS ua, ub
=============================================================================
