--------------------------- MODULE MCConversation ---------------------------
(***************************************************************************)
(* An instance of Conversation for TLC: three calls, so that a question is *)
(* prepared and executed and one more call is on its way.                  *)
(***************************************************************************)
EXTENDS Conversation, TLC

=============================================================================
