---------------------------- MODULE SemanticIndex ----------------------------
(***************************************************************************)
(* The semantic index: a build reads the source files, cuts each into      *)
(* overlapping windows of lines, has the embedding model turn them into    *)
(* vectors batch by batch, and replaces the table of the database; a       *)
(* search opens the table, embeds the query and asks for the nearest rows. *)
(*                                                                         *)
(* The model can fail at any batch, the database at any call, and a        *)
(* process can die between any two steps.  Several processes share the     *)
(* database.  A vector is named by the chunk it was made from.             *)
(***************************************************************************)
EXTENDS SourceFiles, Integers, FiniteSets

CONSTANTS LinesOf,       \* the lines of a text: TRUE for one that is not blank
          ChunkLines, ChunkOverlap,  \* _CHUNK_LINES, _CHUNK_OVERLAP
          BatchSize,     \* _EMBED_BATCH
          Limit          \* max_results of a search

ASSUME SemanticIndexAssumption ==
    /\ LinesOf \in [Text -> Seq(BOOLEAN)]
    /\ ChunkLines \in Nat \ {0} /\ ChunkOverlap \in 0..(ChunkLines - 1)
    /\ BatchSize \in Nat \ {0} /\ Limit \in Nat \ {0}

VARIABLES
    table,     \* the table code_chunks, or NoTable
    indexJob,  \* a build or a search in progress, by process
    answer     \* what the last one of a process reported

indexVars == <<table, indexJob, answer>>

NoTable == [id |-> 0]

-----------------------------------------------------------------------------
(* chunker.py *)

Chunk(f, text, first, last) == [file |-> f, text |-> text, first |-> first, last |-> last]

\* chunk_text: windows that overlap, without those that are blank, up to the
\* first that reaches the end.
ChunkText(f, text) ==
    LET lines == LinesOf[text]
        advance == Max({1, ChunkLines - ChunkOverlap})
        windows[start \in Nat] ==
          LET end == Min({start + ChunkLines, Len(lines)})
              window == IF \E i \in (start + 1)..end : lines[i]
                        THEN <<Chunk(f, text, start + 1, end)>> ELSE <<>>
          IN IF start >= Len(lines) THEN <<>>
             ELSE IF end = Len(lines) THEN window
             ELSE window \o windows[start + advance]
    IN windows[0]

-----------------------------------------------------------------------------
(* SemanticIndex.build *)

\* The table of a build that nothing disturbed.
TableOf(id, found) ==
    LET chunks == FlattenSeq([i \in DOMAIN found |-> ChunkText(found[i], files[found[i]].text)])
    IN [id |-> id, rows |-> [i \in DOMAIN chunks |-> [chunk |-> chunks[i], vector |-> chunks[i]]],
        texts |-> [f \in ToSet(found) |-> files[f].text]]

\* An earlier session may have left a table, if it found anything to index.
IndexInit ==
    /\ table \in {NoTable} \cup {t \in {TableOf(MaxJobs + 1, Discover)} : t.rows # <<>>}
    /\ indexJob = [p \in Process |-> Idle]
    /\ answer = [p \in Process |-> [hits |-> 0, reason |-> "not asked"]]

\* A job ends with what it reports: "indexed", "found" or the reason why not.
EndJob(p, hits, reason) ==
    /\ indexJob' = [indexJob EXCEPT ![p] = Idle]
    /\ answer' = [answer EXCEPT ![p] = [hits |-> hits, reason |-> reason]]

Continue(p, job) == indexJob' = [indexJob EXCEPT ![p] = job] /\ UNCHANGED answer

BeginIndex(p) ==
    /\ indexJob[p] = Idle
    /\ BeginJob
    /\ IF Discover = <<>> THEN EndJob(p, 0, "no source files")
       ELSE Continue(p, [step |-> "read", id |-> jobs + 1, todo |-> Discover,
                         texts |-> Empty, chunks |-> <<>>, start |-> 0, vectors |-> <<>>])
    /\ UNCHANGED table

\* Bug: nothing looks whether there is anything to index.
EmbedAnyway(job) == "embed"

\* What follows the last file: nothing can be built of no chunks.
AfterReading(job) == IF job.chunks = <<>> THEN "no content" ELSE "embed"

\* path.read_text() and chunk_text; a file that has gone is skipped.
ReadChunks(p) ==
    LET job == indexJob[p]
        f == Head(job.todo)
        read == IF Exists(f)
                THEN [job EXCEPT !.todo = Tail(@), !.chunks = @ \o ChunkText(f, files[f].text),
                                 !.texts = Updated(@, f, files[f].text)]
                ELSE [job EXCEPT !.todo = Tail(@)]
    IN /\ job.step = "read"
       /\ IF read.todo # <<>> THEN Continue(p, read)
          ELSE IF AfterReading(read) = "embed" THEN Continue(p, [read EXCEPT !.step = "embed"])
          ELSE EndJob(p, 0, "no content")
       /\ UNCHANGED <<table, jobs>>

\* Bug: a batch is one text short.
ShortBatch(chunks, start) == SubSeq(chunks, start + 1, Min({start + BatchSize - 1, Len(chunks)}))

\* texts[start : start + _EMBED_BATCH]
Batch(chunks, start) == SubSeq(chunks, start + 1, Min({start + BatchSize, Len(chunks)}))

\* Bug: the old table goes as soon as embedding has begun.
DropEarly(job) == "drop"

\* What follows a batch: the write, when it was the last.
AfterBatch(job) == IF job.start >= Len(job.chunks) THEN "drop" ELSE "embed"

\* _embed: one vector for each text of the batch, as the embedding interface has
\* it; a shorter answer is not noticed by the code, and is left out.
EmbedBatch(p) ==
    LET job == indexJob[p]
        done == [job EXCEPT !.vectors = @ \o Batch(job.chunks, job.start), !.start = @ + BatchSize]
    IN /\ job.step = "embed"
       /\ Continue(p, [done EXCEPT !.step = AfterBatch(done)])
       /\ UNCHANGED <<table, jobs>>

\* _EmbeddingError ends a build or a search.
EmbeddingFails(p) ==
    /\ indexJob[p].step \in {"embed", "query"}
    /\ EndJob(p, 0, "no embeddings")
    /\ UNCHANGED <<table, jobs>>

\* _write_table: the old table goes first.
DropTable(p) ==
    /\ indexJob[p].step = "drop"
    /\ table' = NoTable
    /\ Continue(p, [indexJob[p] EXCEPT !.step = "create"])
    /\ UNCHANGED jobs

\* zip(chunks, vectors) stops at the shorter of the two.
Rows(job) ==
    [i \in 1..Min({Len(job.chunks), Len(job.vectors)}) |->
        [chunk |-> job.chunks[i], vector |-> job.vectors[i]]]

\* create_table, which refuses a table another process has made meanwhile.
CreateTable(p) ==
    LET job == indexJob[p]
    IN /\ job.step = "create"
       /\ table = NoTable
       /\ table' = [id |-> job.id, rows |-> Rows(job), texts |-> job.texts]
       /\ EndJob(p, 0, "indexed")
       /\ UNCHANGED jobs

WriteFails(p) ==
    /\ indexJob[p].step \in {"drop", "create"}
    /\ EndJob(p, 0, "could not write")
    /\ UNCHANGED <<table, jobs>>

-----------------------------------------------------------------------------
(* SemanticIndex.search *)

BeginSearch(p) ==
    /\ indexJob[p] = Idle
    /\ BeginJob
    /\ IF table = NoTable THEN EndJob(p, 0, "no index")
       ELSE Continue(p, [step |-> "query", id |-> table.id])
    /\ UNCHANGED table

\* The query: an opened table that was dropped since cannot be read.
Query(p) ==
    /\ indexJob[p].step = "query"
    /\ IF table.id # indexJob[p].id THEN EndJob(p, 0, "search failed")
       ELSE EndJob(p, Min({Limit, Len(table.rows)}), "found")
    /\ UNCHANGED <<table, jobs>>

IndexCrash(p) ==
    /\ indexJob[p] # Idle
    /\ EndJob(p, 0, "not asked")
    /\ UNCHANGED <<table, jobs>>

IndexStep(p) ==
    \/ BeginIndex(p) \/ ReadChunks(p) \/ EmbedBatch(p) \/ EmbeddingFails(p)
    \/ DropTable(p) \/ CreateTable(p) \/ WriteFails(p)
    \/ BeginSearch(p) \/ Query(p) \/ IndexCrash(p)

-----------------------------------------------------------------------------
(* Properties *)

\* Every row has the vector of its own text, and every stretch of up to
\* ChunkOverlap + 1 lines of a file that was read, unless it is blank, lies
\* whole in one row: neither the windows nor the batches lose or shift a line.
IndexIsComplete ==
    table # NoTable =>
        /\ \A i \in DOMAIN table.rows : table.rows[i].vector = table.rows[i].chunk
        /\ \A f \in DOMAIN table.texts :
             LET lines == LinesOf[table.texts[f]]
             IN \A first \in DOMAIN lines :
                  LET last == Min({first + ChunkOverlap, Len(lines)})
                  IN (\E i \in first..last : lines[i]) =>
                        \E i \in DOMAIN table.rows :
                           LET chunk == table.rows[i].chunk
                           IN chunk.file = f /\ chunk.first <= first /\ last <= chunk.last

\* The old index goes only when a build has all its vectors: a build that
\* finds nothing, or whose embedding model fails, leaves the index searchable.
OldIndexKept ==
    [][(table # NoTable /\ table' = NoTable) =>
          \E p \in Process : /\ indexJob[p].step = "drop"
                             /\ Len(indexJob[p].vectors) = Len(indexJob[p].chunks)]_indexVars

\* Nothing found always has a reason: a search comes back empty-handed only
\* because something failed, since an index without rows is never built.
EmptyIsExplained == \A p \in Process : answer[p].hits = 0 => answer[p].reason # "found"

=============================================================================
