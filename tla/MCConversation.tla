--------------------------- MODULE MCConversation ---------------------------
(* Three turns, so that compaction can happen twice and a cut-off turn can be *)
(* followed by it; two rounds a turn, a response asking for no tool call or    *)
(* for two, so that a batch can be left half answered; one retry.              *)
EXTENDS Conversation

=============================================================================
