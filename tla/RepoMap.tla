------------------------------- MODULE RepoMap -------------------------------
(***************************************************************************)
(* The repository map: RepoMapBuilder with its tag cache.  A build walks   *)
(* the workspace, takes each file's tags from the cache when the file's    *)
(* modification time and size are those of the entry and parses the file   *)
(* otherwise, writes the cache back, ranks the definitions by PageRank     *)
(* over the references between files, and shows the longest prefix of them *)
(* that fits the token budget.                                             *)
(*                                                                         *)
(* Several termcoder processes may work in one workspace: they share the   *)
(* cache file, which is rewritten in place.  Files change between a stat   *)
(* and the read after it, and a process can die between any two steps.     *)
(*                                                                         *)
(* The tags of a text are a function of the text, so the cache holds the   *)
(* text an entry was parsed from in their place.  Ranks are integers, in   *)
(* units of 1/Scale.                                                       *)
(***************************************************************************)
EXTENDS SourceFiles, Integers, FiniteSets

CONSTANTS CapturesOf,   \* what the tag query finds in a text, or Unparseable
          Unparseable,
          NameKind,     \* "private", "plain" or "well_named", by name
          HeaderTokens, LineTokens,  \* tokens of a file's header and of a line
          Budget,       \* budget_tokens; a build with none returns at once
          Sorted,       \* the paths in the order of their names
          Iterations    \* rounds of the power iteration

ASSUME RepoMapAssumption ==
    /\ DOMAIN CapturesOf = Text
    /\ \A text \in Text : CapturesOf[text] = Unparseable
                            \/ CapturesOf[text] \in Seq(ToSet(CapturesOf[text]))
    /\ {HeaderTokens, LineTokens, Budget, Iterations} \subseteq Nat
    /\ Budget > 0
    /\ ToSet(Sorted) = Paths

VARIABLES
    cacheFile,  \* repomap.json as _load takes it: no entries if it cannot be read
    mapJob,     \* a build in progress, by process
    map         \* the map a process shows, by process

mapVars == <<cacheFile, mapJob, map>>

Scale == 10000
NoMap == [reason |-> "not built"]

-----------------------------------------------------------------------------
(* tags.py *)

Tag(f, capture, kind) ==
    [file |-> f, name |-> capture.name, kind |-> kind, line |-> capture.line]

\* extract_tags: definitions and references, nothing else, nothing on failure.
ExtractTags(f, text) ==
    IF CapturesOf[text] = Unparseable THEN <<>>
    ELSE LET tags(c) == IF c.capture = "definition" THEN <<Tag(f, c, "def")>>
                        ELSE IF c.capture = "reference" THEN <<Tag(f, c, "ref")>> ELSE <<>>
         IN FlattenSeq([i \in DOMAIN CapturesOf[text] |-> tags(CapturesOf[text][i])])

-----------------------------------------------------------------------------
(* Ranking: _rank, _ident_weight, _pagerank.  Weights are in hundredths. *)

SumOver(S, F(_)) == FoldSet(LAMBDA x, acc : acc + F(x), 0, S)

IdentWeight(name, count) ==
    count * CASE NameKind[name] = "private" -> 10
              [] NameKind[name] = "well_named" -> 1000
              [] OTHER -> 100

\* The definitions: the first of its name in a file stands for the rest.
DefinitionsOf(tags) ==
    {tags[i] : i \in {i \in DOMAIN tags :
        /\ tags[i].kind = "def"
        /\ \A j \in 1..(i - 1) :
              ~(tags[j].kind = "def" /\ tags[j].file = tags[i].file /\ tags[j].name = tags[i].name)}}

References(tags, f, name) ==
    Cardinality({i \in DOMAIN tags : tags[i] \in [file : {f}, name : {name}, kind : {"ref"}, line : Nat]})

NodesOf(tags) == {tags[i].file : i \in DOMAIN tags}

\* How much the other files refer to a definition.
InWeight(tags, d) ==
    SumOver(NodesOf(tags) \ {d.file}, LAMBDA f : IdentWeight(d.name, References(tags, f, d.name)))

\* The weight of the edges, from the referring file to the defining one.
EdgesOf(tags) ==
    LET defs == DefinitionsOf(tags)
    IN [f, g \in NodesOf(tags) |->
          IF f = g THEN 0
          ELSE SumOver({d \in defs : d.file = g},
                       LAMBDA d : IdentWeight(d.name, References(tags, f, d.name)))]

\* One round of the power iteration, without the mass of dangling nodes.
FlowOnly(nodes, edges, rank) ==
    LET out == [f \in nodes |-> SumOver(nodes, LAMBDA g : edges[f, g])]
        count == Cardinality(nodes)
    IN [g \in nodes |->
          (15 * Scale) \div (100 * count)
          + (85 * SumOver({f \in nodes : out[f] > 0},
                          LAMBDA f : (rank[f] * edges[f, g]) \div out[f])) \div 100]

\* Bug: the rank of files that refer to nothing is lost.
DanglingLost(nodes, edges, rank) == FlowOnly(nodes, edges, rank)

\* One round: the rank of a file without references is spread over all.
NextRank(nodes, edges, rank) ==
    LET flow == FlowOnly(nodes, edges, rank)
        dangling == SumOver({f \in nodes : \A g \in nodes : edges[f, g] = 0}, LAMBDA f : rank[f])
    IN [g \in nodes |-> flow[g] + (85 * dangling) \div (100 * Cardinality(nodes))]

PageRank(nodes, edges) ==
    LET rank[i \in 0..Iterations] ==
          IF i = 0 THEN [f \in nodes |-> Scale \div Cardinality(nodes)]
          ELSE NextRank(nodes, edges, rank[i - 1])
    IN rank[Iterations]

\* The rank of each definition: its share, by weight, of the rank of its file.
RankOf(tags) ==
    LET ranks == PageRank(NodesOf(tags), EdgesOf(tags))
        defs == DefinitionsOf(tags)
        weight == [d \in defs |-> InWeight(tags, d) + 1]
    IN [d \in defs |-> (ranks[d.file] * weight[d])
                         \div SumOver({e \in defs : e.file = d.file}, LAMBDA e : weight[e])]

\* The order the map lists definitions in: by rank, path and line, and as they
\* were found if these agree (sorted is stable).
Precedes(tags, rank, d, e) ==
    LET path(x) == SelectInSeq(Sorted, LAMBDA f : f = x.file)
        found(x) == SelectInSeq(tags, LAMBDA t : t = x)
    IN \/ rank[d] > rank[e]
       \/ /\ rank[d] = rank[e]
          /\ \/ path(d) < path(e)
             \/ path(d) = path(e) /\ d.line < e.line
             \/ path(d) = path(e) /\ d.line = e.line /\ found(d) < found(e)

Ordered(tags, rank) ==
    [i \in 1..Cardinality(DOMAIN rank) |-> CHOOSE d \in DOMAIN rank :
        Cardinality({e \in DOMAIN rank : Precedes(tags, rank, e, d)}) = i - 1]

-----------------------------------------------------------------------------
(* Fitting: _render and _fit. *)

\* _render groups the definitions by file under one header each.
RenderedTokens(shown) ==
    HeaderTokens * Cardinality({shown[i].file : i \in DOMAIN shown}) + LineTokens * Len(shown)

Prefix(s, n) == SubSeq(s, 1, n)
Fits(s) == RenderedTokens(s) <= Budget

\* Bug: a middle that fits is not kept.
FitOneShort(defs) ==
    LET search[range \in (0..Len(defs)) \X (0..Len(defs))] ==
          LET low == range[1]
              high == range[2]
              middle == (low + high) \div 2
          IN IF low >= high THEN low
             ELSE IF Fits(Prefix(defs, middle)) /\ middle > low THEN search[<<middle, high>>]
             ELSE search[<<low, middle>>]
    IN search[<<0, Len(defs)>>]

\* _fit: binary search of the longest prefix within the budget; 0 for none.
Fit(defs) ==
    LET search[range \in (0..Len(defs)) \X (0..Len(defs))] ==
          LET low == range[1]
              high == range[2]
              middle == (low + high + 1) \div 2
          IN IF low >= high THEN low
             ELSE IF Fits(Prefix(defs, middle)) THEN search[<<middle, high>>]
             ELSE search[<<low, middle - 1>>]
    IN search[<<0, Len(defs)>>]

-----------------------------------------------------------------------------
(* What a build shows for the texts it has tags of. *)

TagsOf(parsed) ==
    FlattenSeq([i \in DOMAIN Walk |->
        IF Walk[i] \in DOMAIN parsed THEN ExtractTags(Walk[i], parsed[Walk[i]]) ELSE <<>>])

\* _rank and _fit: the definitions in rank order and how many are shown.
Rank(parsed) ==
    LET tags == TagsOf(parsed)
        rank == IF DefinitionsOf(tags) = {} THEN Empty ELSE RankOf(tags)
        defs == Ordered(tags, rank)
    IN [parsed |-> parsed, nodes |-> NodesOf(tags), rank |-> rank, defs |-> defs,
        shown |-> Fit(defs)]

\* The same for all texts the source files can have, as a table.
Rankings == {Rank(parsed) : parsed \in UNION {[S -> Text] : S \in SUBSET (Supported \ Ignored)}}
Ranking(parsed) == CHOOSE ranking \in Rankings : ranking.parsed = parsed

\* build: what it returns, with the reason when there is no map, and the files
\* that nobody changed meanwhile.
MapResult(parsed, found, untouched) ==
    [parsed |-> parsed, untouched |-> untouched,
     reason |-> IF found = {} THEN "no source files"
                ELSE IF Ranking(parsed).defs = <<>> THEN "no definitions"
                ELSE IF Ranking(parsed).shown = 0 THEN "nothing fits"
                ELSE "none"]

-----------------------------------------------------------------------------
(* TagCache *)

\* Bug: the size is not looked at.
CachedByTime(cache, f, stamp) == f \in DOMAIN cache /\ cache[f].stamp.mtime = stamp.mtime

\* get: an entry counts when modification time and size are the file's.
Cached(cache, f, stamp) == f \in DOMAIN cache /\ cache[f].stamp = stamp

Put(cache, f, stamp, text) == Updated(cache, f, [stamp |-> stamp, text |-> text])
Prune(cache, keep) == [f \in DOMAIN cache \cap keep |-> cache[f]]

-----------------------------------------------------------------------------
(* RepoMapBuilder.build *)

MapInit ==
    /\ cacheFile = Empty
    /\ mapJob = [p \in Process |-> Idle]
    /\ map = [p \in Process |-> NoMap]

\* The walk, and the load of the cache; without files the build ends here.
BeginMap(p) ==
    LET found == ToSet(Discover)
    IN /\ mapJob[p] = Idle
       /\ BeginJob
       /\ IF found = {}
          THEN /\ map' = [map EXCEPT ![p] = MapResult(Empty, {}, Empty)]
               /\ UNCHANGED mapJob
          ELSE /\ mapJob' = [mapJob EXCEPT ![p] =
                     [step |-> "stat", todo |-> Discover, found |-> found, cache |-> cacheFile,
                      stamp |-> Stamp(Head(Discover)), parsed |-> Empty,
                      seen |-> [f \in found |-> files[f]]]]
               /\ UNCHANGED map
       /\ UNCHANGED cacheFile

\* The job with its first file dealt with.
Advance(job) ==
    LET rest == Tail(job.todo)
    IN [job EXCEPT !.todo = rest, !.step = IF rest = <<>> THEN "save" ELSE "stat"]

Skip(p) == mapJob' = [mapJob EXCEPT ![p] = Advance(@)]
UseTags(job, text) == Advance([job EXCEPT !.parsed = Updated(@, Head(job.todo), text)])

\* _extract_all, path.stat() and the look-up.  A file that has gone is skipped.
StatFile(p) ==
    LET job == mapJob[p]
        f == Head(job.todo)
    IN /\ job.step = "stat"
       /\ IF ~Exists(f) THEN Skip(p)
          ELSE IF Cached(job.cache, f, Stamp(f))
          THEN mapJob' = [mapJob EXCEPT ![p] = UseTags(job, job.cache[f].text)]
          ELSE mapJob' = [mapJob EXCEPT ![p].step = "read", ![p].stamp = Stamp(f)]
       /\ UNCHANGED <<cacheFile, map, jobs>>

\* _extract_all, path.read_bytes() and put, under the stamp from before the read.
ReadFile(p) ==
    LET job == mapJob[p]
        f == Head(job.todo)
    IN /\ job.step = "read"
       /\ IF ~Exists(f) THEN Skip(p)
          ELSE mapJob' = [mapJob EXCEPT ![p] =
                 UseTags([job EXCEPT !.cache = Put(@, f, job.stamp, files[f].text)],
                         files[f].text)]
       /\ UNCHANGED <<cacheFile, map, jobs>>

\* prune, and save as far as opening the file: write_text empties it first.
\* An OSError is swallowed.
TruncateCache(p) ==
    /\ mapJob[p].step = "save"
    /\ mapJob' = [mapJob EXCEPT ![p].step = "write", ![p].cache = Prune(@, mapJob[p].found)]
    /\ cacheFile' = Empty
    /\ UNCHANGED <<map, jobs>>

SaveFails(p) ==
    /\ mapJob[p].step \in {"save", "write"}
    /\ mapJob' = [mapJob EXCEPT ![p].step = "rank"]
    /\ UNCHANGED <<cacheFile, map, jobs>>

\* save: two processes that write at once can leave something unreadable.
WriteCache(p) ==
    /\ mapJob[p].step = "write"
    /\ mapJob' = [mapJob EXCEPT ![p].step = "rank"]
    /\ cacheFile' \in {mapJob[p].cache}
                       \cup {Empty : q \in {q \in Process \ {p} : mapJob[q].step = "write"}}
    /\ UNCHANGED <<map, jobs>>

\* _rank, _fit and the result.
FinishMap(p) ==
    LET job == mapJob[p]
        untouched == {f \in job.found : files[f] = job.seen[f]}
    IN /\ job.step = "rank"
       /\ map' = [map EXCEPT ![p] = MapResult(job.parsed, job.found,
                                             [f \in untouched |-> files[f].text])]
       /\ mapJob' = [mapJob EXCEPT ![p] = Idle]
       /\ UNCHANGED <<cacheFile, jobs>>

\* The process dies in the middle of a build; the next one starts afresh.
MapCrash(p) ==
    /\ mapJob[p] # Idle
    /\ mapJob' = [mapJob EXCEPT ![p] = Idle]
    /\ map' = [map EXCEPT ![p] = NoMap]
    /\ UNCHANGED <<cacheFile, jobs>>

MapStep(p) ==
    \/ BeginMap(p) \/ StatFile(p) \/ ReadFile(p)
    \/ TruncateCache(p) \/ WriteCache(p) \/ SaveFails(p) \/ FinishMap(p)
    \/ MapCrash(p)

-----------------------------------------------------------------------------
(* Properties *)

\* A file that nobody changed while a build ran is in its map, as it is on
\* disk: no crash, torn cache file, second process or change between stat and
\* read leaves a stale entry behind.  Exempt are the files that came back to a
\* modification time and size they had had.
MapIsFresh ==
    \A p \in Process : map[p] # NoMap =>
        \A f \in DOMAIN map[p].untouched \ recurred :
            f \in DOMAIN map[p].parsed /\ map[p].parsed[f] = map[p].untouched[f]

\* The map fits the budget and the next definition would not have fitted:
\* the binary search of _fit neither overshoots nor stops early.
MapIsLargest ==
    \A p \in Process : map[p] # NoMap =>
        LET ranking == Ranking(map[p].parsed)
        IN /\ ranking.shown > 0 => Fits(Prefix(ranking.defs, ranking.shown))
           /\ \A n \in (ranking.shown + 1)..Len(ranking.defs) : ~Fits(Prefix(ranking.defs, n))

\* The definitions share the rank of all files that have one: none is lost on
\* files that refer to nothing (up to rounding, one unit a division).
RankIsShared ==
    \A p \in Process : (map[p] # NoMap /\ map[p].reason \in {"none", "nothing fits"}) =>
        LET ranking == Ranking(map[p].parsed)
        IN ranking.nodes = {d.file : d \in DOMAIN ranking.rank} =>
             SumOver(DOMAIN ranking.rank, LAMBDA d : ranking.rank[d])
               \in (Scale - 100 * Cardinality(ranking.nodes))..Scale

=============================================================================
