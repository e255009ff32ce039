---------------------------- MODULE MCSnapshots ----------------------------
(* Two files; one text with either kind of line ends, next to a text too big *)
(* to keep and no file at all; two turns that both change files, so that a    *)
(* group can be undone and its index taken again; three changes, so that a    *)
(* turn can change a file twice or change both; one change by somebody else.  *)
EXTENDS Snapshots, TLC

CONSTANTS a, b, unix, dos

MCFiles == {a, b}
MCContents == {unix, dos}
MCAsRead == [c \in MCContents |-> IF c = dos THEN unix ELSE c]
Symmetric == Permutations(MCFiles)

=============================================================================
