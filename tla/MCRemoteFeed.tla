--------------------------- MODULE MCRemoteFeed ---------------------------
(* One phone that may connect twice while the session runs a command or a   *)
(* turn with one approval: the history is short enough to forget the turn's *)
(* message and its request, and both threads may be publishing at once.     *)
EXTENDS RemoteFeed

CONSTANTS phone

MCPhones == {phone}

=============================================================================
