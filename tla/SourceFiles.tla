----------------------------- MODULE SourceFiles -----------------------------
(***************************************************************************)
(* The workspace as the repository map and the semantic index see it: the  *)
(* files below the root, which editors, commands and the agent's own tools *)
(* change at any time, and the walk that finds the source files.           *)
(*                                                                         *)
(* A file's modification time is the clock's reading, and the clock need   *)
(* not have moved since the last write.                                    *)
(***************************************************************************)
EXTENDS Naturals, Sequences, SequencesExt

CONSTANTS Process,      \* the termcoder processes at work in the workspace
          Walk,         \* the paths of the workspace in the order of os.walk
          Supported,    \* the paths whose suffix is in LANGUAGES
          Ignored,      \* the paths below an ignored or hidden directory
          Text,         \* contents a file can have
          SizeOf,       \* their sizes
          Initially,    \* the contents of the files that exist at first
          MaxFileBytes, MaxFiles,  \* _MAX_FILE_BYTES, _MAX_FILES
          MaxEdits, MaxClock,      \* bounds on the changes made by others
          MaxJobs                  \* bound on the builds and searches

Paths == ToSet(Walk)
Missing == [text |-> "missing", mtime |-> 0]
Empty == [f \in {} |-> 0]
Idle == [step |-> "idle"]

\* A table with an entry for x, in the place of the one it had, if any.
Updated(table, x, y) == [z \in DOMAIN table \cup {x} |-> IF z = x THEN y ELSE table[z]]

ASSUME SourceFilesAssumption ==
    /\ Walk \in Seq(Paths)
    /\ Supported \subseteq Paths /\ Ignored \subseteq Paths
    /\ SizeOf \in [Text -> Nat]
    /\ DOMAIN Initially \subseteq Paths
    /\ \A f \in DOMAIN Initially : Initially[f] \in Text
    /\ {MaxFileBytes, MaxFiles, MaxEdits, MaxClock, MaxJobs} \subseteq Nat
    /\ MaxFiles > 0 /\ MaxClock > 0
    /\ Missing.text \notin Text

VARIABLES
    files,    \* what is on disk at each path
    clock, edits,
    stamps,   \* the stamps a file has had at the clock's present reading
    recurred, \* the files that came back to a stamp they had had
    jobs      \* builds and searches begun

fileVars == <<files, clock, edits, stamps, recurred>>

\* What path.stat() tells of a file.
Stamp(f) == [mtime |-> files[f].mtime, size |-> SizeOf[files[f].text]]
Exists(f) == files[f] # Missing

FilesInit ==
    /\ files = [f \in Paths |->
          IF f \in DOMAIN Initially THEN [text |-> Initially[f], mtime |-> 0] ELSE Missing]
    /\ clock = 1 /\ edits = 0
    /\ stamps = [f \in Paths |-> {}]
    /\ recurred = {}
    /\ jobs = 0

FilesTypeOK ==
    /\ files \in [Paths -> [text : Text, mtime : 0..MaxClock] \cup {Missing}]
    /\ clock \in 1..MaxClock /\ edits \in 0..MaxEdits
    /\ recurred \subseteq Paths
    /\ jobs \in 0..MaxJobs

\* Somebody writes a file; the clock may have moved on since the last write.
WriteFile(f, t) ==
    LET had == IF clock' = clock THEN stamps[f] ELSE {}
        stamp == [mtime |-> clock', size |-> SizeOf[t]]
    IN /\ edits < MaxEdits
       /\ edits' = edits + 1
       /\ clock' \in {clock, clock + 1} \cap 1..MaxClock
       /\ files' = [files EXCEPT ![f] = [text |-> t, mtime |-> clock']]
       /\ stamps' = [g \in Paths |->
            IF g = f THEN had \cup {stamp} ELSE IF clock' = clock THEN stamps[g] ELSE {}]
       /\ recurred' = IF stamp \in had THEN recurred \cup {f} ELSE recurred

DeleteFile(f) ==
    /\ edits < MaxEdits
    /\ Exists(f)
    /\ edits' = edits + 1
    /\ files' = [files EXCEPT ![f] = Missing]
    /\ UNCHANGED <<clock, stamps, recurred>>

\* A build or a search begins.
BeginJob == jobs < MaxJobs /\ jobs' = jobs + 1

\* Changes to files the walk does not look at are left out.
FilesNext ==
    /\ \/ \E f \in Supported \ Ignored, t \in Text : WriteFile(f, t)
       \/ \E f \in Supported \ Ignored : DeleteFile(f)
    /\ UNCHANGED jobs

\* What the walk collects of the wanted files; it returns once it has MaxFiles.
Found(wanted) ==
    LET found[i \in 0..Len(Walk)] ==
          IF i = 0 THEN <<>>
          ELSE LET before == found[i - 1]
               IN IF Walk[i] \in wanted /\ Len(before) < MaxFiles
                  THEN Append(before, Walk[i]) ELSE before
    IN found[Len(Walk)]

SmallEnough == {f \in Paths : Exists(f) /\ SizeOf[files[f].text] <= MaxFileBytes}

\* Bug: ignored directories are walked.
DiscoverIgnored == Found(Supported \cap SmallEnough)

\* _discover and discover_source_files: the two walks are the same.
Discover == Found((Supported \ Ignored) \cap SmallEnough)

=============================================================================
