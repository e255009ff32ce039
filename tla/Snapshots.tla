----------------------------- MODULE Snapshots -----------------------------
(***************************************************************************)
(* write_file and edit_file with the snapshot store behind /undo, for one  *)
(* session: a change is previewed, waits for approval, and is applied by   *)
(* capturing the file as it is then and overwriting it.  The captures of a *)
(* turn form a group, one file on disk, rewritten at every capture; /undo  *)
(* restores the newest group file by file and removes it.                  *)
(*                                                                         *)
(* Other programs (an editor, run_command, another session) change files   *)
(* at any moment, and the process can die between any two steps.           *)
(***************************************************************************)
EXTENDS Integers, Sequences, FiniteSets, SequencesExt

CONSTANTS Files,
          Contents,   \* the bytes of files the store keeps
          AsRead,     \* what read_text makes of them: line ends become "\n"
          Big,        \* a text over max_bytes, which it does not
          Absent,     \* no such file
          Torn,       \* a group file cut short by a crash
          MaxTurns, MaxChanges, MaxOthers  \* bounds: turns, previews, others' changes

ASSUME SnapshotAssumption ==
    /\ Big \notin Contents /\ Absent \notin Contents /\ Big # Absent
    /\ AsRead \in [Contents -> Contents]
    /\ \A c \in Contents : AsRead[AsRead[c]] = AsRead[c]
    /\ MaxTurns \in Nat /\ MaxChanges \in Nat /\ MaxOthers \in Nat

VARIABLES
    files,      \* the workspace
    groups,     \* group files: from an index to its entries, or Torn
    \* SnapshotStore._current
    current,    \* [index, entries], index 0 for None; or Nobody
    \* the session thread
    pc, call,   \* where it is, and the change in hand
    todo,       \* entries /undo has still to restore
    skipped,    \* files /undo could not restore
    turns, changes, others,  \* counters of the bounds
    \* history: what a reader of the workspace saw
    captured,   \* this turn has captured a file
    replaced,   \* per undoable turn: what the agent's first write replaced
    meddled     \* files others changed since the capture, or since /undo began

storeVars == <<groups, current>>
undoVars == <<todo, skipped>>
countVars == <<turns, changes, others>>
historyVars == <<captured, replaced, meddled>>
vars == <<files, storeVars, pc, call, undoVars, countVars, historyVars>>

States == Contents \cup {Big, Absent}
Nobody == [index |-> -1, entries |-> <<>>]
FreshTurn == [index |-> 0, entries |-> <<>>]
NoCall == [path |-> "none"]

\* Path.read_text, and write_text of that on a POSIX system: the newlines of a
\* file are translated on the way in and stay translated on the way out.
Text(s) == IF s \in Contents THEN AsRead[s] ELSE s

Init ==
    /\ files \in [Files -> Contents \cup {Absent}]
    /\ groups = <<>> /\ current = Nobody
    /\ pc = "idle" /\ call = NoCall
    /\ todo = <<>> /\ skipped = {}
    /\ turns = 0 /\ changes = 0 /\ others = 0
    /\ captured = FALSE /\ replaced = <<>> /\ meddled = {}

-----------------------------------------------------------------------------
(* The store: start_turn and capture. *)

\* Bug: the group of the last turn goes on.
CurrentKept == IF current = Nobody THEN FreshTurn ELSE current

CurrentOfNewTurn == FreshTurn

StartTurn ==
    /\ pc = "idle" /\ turns < MaxTurns
    /\ turns' = turns + 1
    /\ current' = CurrentOfNewTurn
    /\ captured' = FALSE
    /\ pc' = "turn"
    /\ UNCHANGED <<files, groups, call, undoVars, changes, others, replaced, meddled>>

EndTurn ==
    /\ pc = "turn"
    /\ pc' = "idle"
    /\ UNCHANGED <<files, storeVars, call, undoVars, countVars, historyVars>>

Paths(entries) == {e.path : e \in ToSet(entries)}

\* Bug: the first index is 0.
IndexFromZero == IF DOMAIN groups = {} THEN 0 ELSE Max(DOMAIN groups) + 1

\* _next_index: one more than the last group file.
NextIndex == IF DOMAIN groups = {} THEN 1 ELSE Max(DOMAIN groups) + 1

\* Bug: what the preview read is recorded.
SeenByPreview(f) == call.old

SeenByCapture(f) == Text(files[f])

EntryFor(f) == [path |-> f, existed |-> SeenByCapture(f) # Absent,
                content |-> SeenByCapture(f)]

Captured(f) ==
    LET before == IF current = Nobody THEN FreshTurn ELSE current
    IN IF f \in Paths(before.entries) THEN before
       ELSE [index |-> IF before.index = 0 THEN NextIndex ELSE before.index,
             entries |-> Append(before.entries, EntryFor(f))]

\* The group files once current has been flushed, or while its file is written.
Flushed(cur, body) == [i \in DOMAIN groups \cup {cur.index} |->
                          IF i = cur.index THEN body ELSE groups[i]]

\* History: the first capture of a turn makes it undoable.
NoteCapture ==
    /\ replaced' = IF captured THEN replaced ELSE Append(replaced, <<>>)
    /\ captured' = TRUE

-----------------------------------------------------------------------------
(* MutatingTool.execute for the two file tools. *)

Preview(f, new) ==
    /\ pc = "turn" /\ changes < MaxChanges
    /\ new # Text(files[f])
    /\ changes' = changes + 1
    /\ call' = [path |-> f, old |-> Text(files[f]), new |-> new]
    /\ pc' = "approval"
    /\ UNCHANGED <<files, storeVars, undoVars, turns, others, historyVars>>

Reject ==
    /\ pc = "approval"
    /\ call' = NoCall
    /\ pc' = "turn"
    /\ UNCHANGED <<files, storeVars, undoVars, countVars, historyVars>>

\* Approved: capture, the first half of _apply.
Capture ==
    /\ pc = "approval"
    /\ current' = Captured(call.path)
    /\ groups' = Flushed(current', current'.entries)
    /\ NoteCapture
    /\ meddled' = IF current' = current THEN meddled ELSE meddled \ {call.path}
    /\ pc' = "write"
    /\ UNCHANGED <<files, call, undoVars, countVars>>

\* The history of a write that leaves s behind.  A content somebody slipped in
\* after the capture is gone for good and not the store's to give back.
Overwrite(s) ==
    LET f == call.path
        top == Last(replaced)
    IN /\ files' = [files EXCEPT ![f] = s]
       /\ replaced' = IF f \in DOMAIN top \/ f \in meddled THEN replaced
                      ELSE Append(Front(replaced),
                                  [g \in DOMAIN top \cup {f} |->
                                      IF g = f THEN files[f] ELSE top[g]])

Write ==
    /\ pc = "write"
    /\ Overwrite(call.new)
    /\ call' = NoCall
    /\ pc' = "turn"
    /\ UNCHANGED <<storeVars, undoVars, countVars, captured, meddled>>

-----------------------------------------------------------------------------
(* undo_last. *)

\* Bug: the sorted names are taken from the wrong end.
Oldest == Min(DOMAIN groups)

\* The last of the sorted file names.
Newest == Max(DOMAIN groups)

BeginUndo ==
    /\ pc = "idle"
    /\ DOMAIN groups # {} /\ groups[Newest] # Torn
    /\ todo' = Reverse(groups[Newest])
    /\ skipped' = {}
    /\ meddled' = {}
    /\ pc' = "undo"
    /\ UNCHANGED <<files, storeVars, call, countVars, captured, replaced>>

\* A group that cannot be parsed raises out of /undo and ends the process.
UndoFails ==
    /\ pc = "idle"
    /\ DOMAIN groups # {} /\ groups[Newest] = Torn
    /\ current' = Nobody
    /\ pc' = "down"
    /\ UNCHANGED <<files, groups, call, undoVars, countVars, historyVars>>

\* Bug: a file the turn created is left behind.
RestoredButNotDeleted(e) == IF e.existed THEN e.content ELSE files[e.path]

Restored(e) == IF e.existed THEN e.content ELSE Absent

Restorable(e) == e.content # Big

\* One entry: deleted, rewritten, or skipped when it was too big or on OSError.
RestoreEntry ==
    /\ pc = "undo" /\ todo # <<>>
    /\ LET e == Head(todo)
       IN \/ /\ Restorable(e)
             /\ files' = [files EXCEPT ![e.path] = Restored(e)]
             /\ UNCHANGED skipped
          \/ /\ skipped' = skipped \cup {e.path}
             /\ UNCHANGED files
    /\ todo' = Tail(todo)
    /\ UNCHANGED <<storeVars, pc, call, countVars, historyVars>>

\* The group is removed whatever was skipped.
EndUndo ==
    /\ pc = "undo" /\ todo = <<>>
    /\ groups' = [i \in DOMAIN groups \ {Newest} |-> groups[i]]
    /\ current' = IF current.index = Newest THEN Nobody ELSE current
    /\ replaced' = Front(replaced)
    /\ pc' = "idle"
    /\ UNCHANGED <<files, call, undoVars, countVars, captured, meddled>>

-----------------------------------------------------------------------------
(* The rest of the world. *)

OtherChange(f, s) ==
    /\ others < MaxOthers
    /\ files[f] # s
    /\ others' = others + 1
    /\ files' = [files EXCEPT ![f] = s]
    /\ meddled' = meddled \cup {f}
    /\ UNCHANGED <<storeVars, pc, call, undoVars, turns, changes, captured,
                   replaced>>

\* The step that was under way when the session thread was cut off, as far as it
\* got: a group file may be cut short, a workspace file may hold anything.
HalfDone(cur) ==
    \/ /\ cur = current
       /\ UNCHANGED <<files, groups, captured, replaced>>
    \/ /\ pc = "approval"
       /\ cur = Captured(call.path) /\ cur # current
       /\ groups' = Flushed(cur, Torn)
       /\ NoteCapture
       /\ UNCHANGED files
    \/ /\ pc = "write"
       /\ cur = current
       /\ \E s \in Contents : Overwrite(s)
       /\ UNCHANGED <<groups, captured>>

Cuttable == {current} \cup (IF pc = "approval" THEN {Captured(call.path)} ELSE {})

\* Ctrl-C in a turn; the store lives on.
Interrupt ==
    /\ pc \in {"turn", "approval", "write"}
    /\ \E cur \in Cuttable : HalfDone(cur) /\ current' = cur
    /\ pc' = "idle"
    /\ call' = NoCall
    /\ UNCHANGED <<undoVars, countVars, meddled>>

\* The process dies, also of Ctrl-C in /undo or an OSError in a tool.
Crash ==
    /\ pc # "down"
    /\ \E cur \in Cuttable : HalfDone(cur)
    /\ current' = Nobody
    /\ pc' = "down"
    /\ call' = NoCall
    /\ UNCHANGED <<undoVars, countVars, meddled>>

\* A new process resumes the session with a new store on the same directory.
Restart ==
    /\ pc = "down"
    /\ pc' = "idle"
    /\ UNCHANGED <<files, storeVars, call, undoVars, countVars, historyVars>>

-----------------------------------------------------------------------------

Next ==
    \/ StartTurn \/ EndTurn
    \/ \E f \in Files, s \in Contents \cup {Big} : Preview(f, s)
    \/ Reject \/ Capture \/ Write
    \/ BeginUndo \/ UndoFails \/ RestoreEntry \/ EndUndo
    \/ \E f \in Files, s \in States : OtherChange(f, s)
    \/ Interrupt \/ Crash \/ Restart

Spec == Init /\ [][Next]_vars

-----------------------------------------------------------------------------
(* Properties. *)

Entries == [path : Files, existed : BOOLEAN, content : States]

TypeOK ==
    /\ files \in [Files -> States]
    /\ DOMAIN groups = 1 .. Len(replaced)
    /\ \A i \in DOMAIN groups : groups[i] \in Seq(Entries) \cup {Torn}
    /\ current.index \in -1 .. MaxTurns
    /\ current.entries \in Seq(Entries)
    /\ pc \in {"idle", "turn", "approval", "write", "undo", "down"}
    /\ todo \in Seq(Entries)
    /\ captured \in BOOLEAN /\ skipped \subseteq Files /\ meddled \subseteq Files
    /\ turns \in 0 .. MaxTurns /\ changes \in 0 .. MaxChanges
    /\ others \in 0 .. MaxOthers

\* Every turn of the session that touched files and was not undone has a group of
\* its own, in order, and the group gives back what the turn's first write to each
\* file replaced: not what the preview had read, not what a later write replaced,
\* and not another turn's, through undo, crashes and restarts.
UndoableTurns ==
    \A i \in DOMAIN replaced :
        /\ i \in DOMAIN groups
        /\ groups[i] # Torn =>
              \A f \in DOMAIN replaced[i] :
                  \E e \in ToSet(groups[i]) :
                      /\ e.path = f
                      /\ e.content = Text(replaced[i][f])

\* An undo reverts every file the agent changed in its most recent undoable turn,
\* created files included, also when an earlier /undo died half way; only what it
\* reports as skipped, what somebody else changed meanwhile, and line ends may
\* differ (snapshots/store.py:3-6).
UndoRevertsTurn ==
    [][(pc = "undo" /\ pc' = "idle") =>
          \A f \in DOMAIN Last(replaced) \ (skipped \cup meddled) :
              Text(files'[f]) = Text(Last(replaced)[f])]_vars

\* /undo touches no file beyond those of the turn it reverts, and no turn but the
\* newest loses its snapshots.
UndoIsConfined ==
    [][pc = "undo" =>
          LET top == Len(replaced)
          IN /\ \A i \in 1 .. top - 1 :
                   i \in DOMAIN groups' /\ groups'[i] = groups[i]
             /\ \A f \in Files :
                   (files'[f] # files[f] /\ others' = others) =>
                       groups[top] # Torn /\ f \in Paths(groups[top])]_vars

=============================================================================
