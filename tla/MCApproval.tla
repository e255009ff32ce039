---------------------------- MODULE MCApproval ----------------------------
(* Two requests for two tools: enough for a helper thread of one request to *)
(* outlive it, and for a session approval to be used afterwards.            *)
EXTENDS Approval

CONSTANTS shell, edit

MCTools == {shell, edit}

=============================================================================
