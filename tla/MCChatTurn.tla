----------------------------- MODULE MCChatTurn -----------------------------
(* Constants for model checking ChatTurn. *)
EXTENDS ChatTurn
=============================================================================
