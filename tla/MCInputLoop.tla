---------------------------- MODULE MCInputLoop ----------------------------
(* Three messages from phones, so that one can arrive while the notification *)
(* of another is still under way, and two typed lines.                       *)
EXTENDS InputLoop

=============================================================================
