--------------------------- MODULE MCWorkspaceIndex --------------------------
\* Two source files, one of which exists at first, and one in an ignored
\* directory; texts of equal size, one too large for the map.
EXTENDS WorkspaceIndex

CONSTANTS p, q, a, b, vendored, alpha, beta, blank, big

MCWalk == <<a, b, vendored>>
\* The walk lists a file of the root before those of its directories.
MCSorted == <<b, a, vendored>>
MCInitially == (a :> alpha) @@ (vendored :> beta)
MCSizeOf == (alpha :> 1) @@ (beta :> 1) @@ (blank :> 2) @@ (big :> 3)

Capture(kind, name, line) == [capture |-> kind, name |-> name, line |-> line]
MCCapturesOf ==
    (alpha :> <<Capture("definition", "run_all_jobs", 1), Capture("definition", "_own", 2),
                Capture("doc", "comment", 2), Capture("reference", "Go", 4)>>)
    @@ (beta :> <<Capture("definition", "Go", 1), Capture("reference", "run_all_jobs", 2),
                  Capture("reference", "_own", 3)>>)
    @@ (blank :> <<>>) @@ (big :> Unparseable)
MCNameKind ==
    ("run_all_jobs" :> "well_named") @@ ("_own" :> "private") @@ ("Go" :> "plain")

Symmetry == Permutations({p, q})

T == TRUE
F == FALSE
MCLinesOf ==
    (alpha :> <<T, T, F, T, T, T>>) @@ (beta :> <<T, F, F, F, F, F, T>>)
    @@ (blank :> <<F, F>>) @@ (big :> <<T>>)

=============================================================================
