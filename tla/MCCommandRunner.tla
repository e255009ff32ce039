--------------------------- MODULE MCCommandRunner ---------------------------
(* Two commands, so that the second runs beside what the first has left; the *)
(* engine may be lost at any time.                                           *)
EXTENDS CommandRunner

=============================================================================
