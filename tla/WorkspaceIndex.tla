---------------------------- MODULE WorkspaceIndex ---------------------------
(***************************************************************************)
(* The repository map and the semantic index of one workspace, with the    *)
(* termcoder processes that build and query them and the files changing    *)
(* under both.  The session thread of a process does one thing at a time.  *)
(***************************************************************************)
EXTENDS RepoMap, SemanticIndex

vars == <<fileVars, jobs, mapVars, indexVars>>

Init == FilesInit /\ MapInit /\ IndexInit

Next ==
    \/ FilesNext /\ UNCHANGED <<mapVars, indexVars>>
    \/ \E p \in Process :
         \/ indexJob[p] = Idle /\ MapStep(p) /\ UNCHANGED <<fileVars, indexVars>>
         \/ mapJob[p] = Idle /\ IndexStep(p) /\ UNCHANGED <<fileVars, mapVars>>

Spec == Init /\ [][Next]_vars

\* Types of the shared files, of the cache and of the jobs; only source files
\* outside of ignored directories get into the cache and the index, and a
\* process works on the map or on the index, never on both.
TypeOK ==
    /\ FilesTypeOK
    /\ \A f \in DOMAIN cacheFile : f \in Supported \ Ignored /\ cacheFile[f].text \in Text
    /\ table # NoTable => DOMAIN table.texts \subseteq Supported \ Ignored
    /\ \A p \in Process :
         /\ mapJob[p].step \in {"idle", "stat", "read", "save", "write", "rank"}
         /\ indexJob[p].step \in {"idle", "read", "embed", "drop", "create", "query"}
         /\ mapJob[p] = Idle \/ indexJob[p] = Idle

=============================================================================
