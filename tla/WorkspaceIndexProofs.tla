------------------------ MODULE WorkspaceIndexProofs ------------------------
(***************************************************************************)
(* What holds of WorkspaceIndex, the repository map and the semantic index *)
(* of one workspace, for any files, processes, edits and bounds, and for   *)
(* any sizes of windows, batches and budgets.                              *)
(***************************************************************************)
EXTENDS WorkspaceIndex, SequenceTheorems, FiniteSetTheorems,
        WellFoundedInduction, TLAPS

-----------------------------------------------------------------------------
(* Recursive functions.  A definition by recursion is a choice of a function *)
(* that satisfies its equation: one exists when each step makes a measure    *)
(* smaller.                                                                  *)

LEMMA LeastNumber ==
    ASSUME NEW S \in SUBSET Nat, S # {}
    PROVE  \E x \in S : \A y \in S : x <= y
<1> DEFINE R == OpToRel(<, Nat)
<1>1. IsWellFoundedOn(R, Nat)
  BY NatLessThanWellFounded
<1>2. \A x, y \in Nat : y < x => <<y, x>> \in R
  BY DEF OpToRel
<1> HIDE DEF R
<1>3. PICK x \in S : \A y \in S : ~ (<<y, x>> \in R)
  BY <1>1, WFMin
<1>4. ASSUME NEW y \in S PROVE x <= y
  <2>1. x \in Nat /\ y \in Nat
    OBVIOUS
  <2>2. ~(y < x)
    BY <1>2, <1>3, <2>1
  <2> QED
    BY <2>1, <2>2
<1> QED
  BY <1>4

\* What holds of an argument when it holds of all that measure less, holds of
\* all arguments.
LEMMA ByMeasure ==
    ASSUME NEW D, NEW measure \in [D -> Nat], NEW S,
           \A x \in D : (\A y \in D : measure[y] < measure[x] => y \in S) => x \in S
    PROVE  D \subseteq S
<1> SUFFICES ASSUME NEW a \in D, a \notin S PROVE FALSE
  OBVIOUS
<1> DEFINE Bad == {measure[x] : x \in {y \in D : y \notin S}}
<1>1. Bad \in SUBSET Nat /\ Bad # {}
  OBVIOUS
<1> HIDE DEF Bad
<1>2. PICK n \in Bad : \A k \in Bad : n <= k
  BY <1>1, LeastNumber
<1>3. PICK x \in D : x \notin S /\ n = measure[x]
  BY <1>2 DEF Bad
<1>4. ASSUME NEW y \in D, measure[y] < measure[x] PROVE y \in S
  <2>1. SUFFICES ASSUME y \notin S PROVE FALSE
    OBVIOUS
  <2>2. measure[y] \in Bad
    BY <2>1 DEF Bad
  <2>3. measure[x] <= measure[y] /\ measure[x] \in Nat /\ measure[y] \in Nat
    BY <1>2, <1>3, <2>2
  <2> QED
    BY <1>4, <2>3
<1> QED
  BY <1>3, <1>4

\* A recursion: at the ends a base, elsewhere what is made of the result for the
\* next argument, which measures less; the results are in Val.
Recursion(D, bound, measure, Val, Ends, base, next, after) ==
    /\ bound \in Nat /\ measure \in [D -> 0..bound]
    /\ \A x \in D \ Ends : next[x] \in D /\ measure[next[x]] < measure[x]
    /\ \A x \in D \cap Ends : base[x] \in Val
    /\ \A x \in D \ Ends : \A v \in Val : after[<<x, v>>] \in Val

Solves(f, D, Val, Ends, base, next, after) ==
    /\ f \in [D -> Val]
    /\ \A x \in D : f[x] = IF x \in Ends THEN base[x] ELSE after[<<x, f[next[x]]>>]

LEMMA RecursionExists ==
    ASSUME NEW D, NEW bound, NEW measure, NEW Val, NEW Ends, NEW base, NEW next, NEW after,
           Recursion(D, bound, measure, Val, Ends, base, next, after)
    PROVE  \E f : Solves(f, D, Val, Ends, base, next, after)
<1> DEFINE Below(n) == {x \in D : measure[x] <= n}
           Solution(f, n) == Solves(f, Below(n), Val, Ends, base, next, after)
           Solved == {n \in 0..bound : \E f : Solution(f, n)}
<1>0. /\ bound \in Nat /\ measure \in [D -> 0..bound]
      /\ \A x \in D \ Ends : next[x] \in D /\ measure[next[x]] < measure[x]
      /\ \A x \in D \cap Ends : base[x] \in Val
      /\ \A x \in D \ Ends : \A v \in Val : after[<<x, v>>] \in Val
  BY DEF Recursion
<1>1. ASSUME NEW n \in 0..bound, \A k \in 0..bound : k < n => k \in Solved
      PROVE  n \in Solved
  <2>1. \A x \in Below(n) \ Ends : n > 0 /\ next[x] \in Below(n - 1)
    <3> SUFFICES ASSUME NEW x \in Below(n) \ Ends PROVE n > 0 /\ next[x] \in Below(n - 1)
      OBVIOUS
    <3>1. x \in D /\ next[x] \in D /\ measure[next[x]] < measure[x] /\ measure[x] <= n
      BY <1>0
    <3>2. measure[x] \in Nat /\ measure[next[x]] \in Nat /\ n \in Nat
      BY <1>0, <3>1
    <3> QED
      BY <3>1, <3>2
  <2>2. PICK f : n > 0 => Solution(f, n - 1)
    <3>1. CASE n = 0
      BY <3>1
    <3>2. CASE n # 0
      <4>1. n - 1 \in 0..bound /\ n - 1 < n
        BY <1>0, <3>2
      <4> QED
        BY <1>1, <4>1
    <3> QED
      BY <3>1, <3>2
  <2> DEFINE g == [x \in Below(n) |-> IF x \in Ends THEN base[x] ELSE after[<<x, f[next[x]]>>]]
  <2>3. ASSUME NEW x \in Below(n) \ Ends
        PROVE  f[next[x]] \in Val /\ g[next[x]] = f[next[x]]
    <3>1. n > 0 /\ next[x] \in Below(n - 1) /\ next[x] \in Below(n)
      <4>1. n > 0 /\ next[x] \in Below(n - 1) /\ measure[next[x]] \in Nat /\ n \in Nat
        BY <1>0, <2>1
      <4> QED
        BY <4>1
    <3>2. /\ f \in [Below(n - 1) -> Val]
          /\ \A y \in Below(n - 1) : f[y] = IF y \in Ends THEN base[y] ELSE after[<<y, f[next[y]]>>]
      BY <2>2, <3>1 DEF Solves
    <3> HIDE DEF Below
    <3> QED
      BY <3>1, <3>2
  <2>4. ASSUME NEW x \in Below(n)
        PROVE  /\ g[x] \in Val
               /\ g[x] = IF x \in Ends THEN base[x] ELSE after[<<x, g[next[x]]>>]
    <3>1. CASE x \in Ends
      BY <1>0, <3>1
    <3>2. CASE x \notin Ends
      BY <1>0, <2>3, <3>2
    <3> QED
      BY <3>1, <3>2
  <2>5. Solution(g, n)
    <3> HIDE DEF Below
    <3>1. g \in [Below(n) -> Val]
      BY <2>4
    <3> HIDE DEF g
    <3> QED
      BY <2>4, <3>1 DEF Solves
  <2> QED
    BY <2>5
<1>2. bound \in Solved
  <2> HIDE DEF Solved
  <2> DEFINE D0 == 0..bound
             id == [n \in D0 |-> n]
  <2>1. id \in [D0 -> Nat] /\ bound \in D0 /\ \A n \in D0 : id[n] = n
    BY <1>0
  <2>2. \A n \in D0 : (\A k \in D0 : id[k] < id[n] => k \in Solved) => n \in Solved
    BY <1>1
  <2> HIDE DEF id, D0
  <2>3. \A n \in D0 : (\A k \in D0 : id[k] < id[n] => k \in Solved) => n \in Solved
    BY <2>2
  <2>4. id \in [D0 -> Nat]
    BY <2>1
  <2>5. D0 \subseteq Solved
    BY <2>3, <2>4, ByMeasure
  <2> QED
    BY <2>1, <2>5
<1>3. Below(bound) = D
  BY <1>0
<1> QED
  BY <1>2, <1>3

-----------------------------------------------------------------------------
(* Sequences. *)

LEMMA HeadAndTail ==
    ASSUME NEW S, NEW s \in Seq(S), s # <<>>
    PROVE  /\ Head(s) \in S /\ Tail(s) \in Seq(S)
           /\ ToSet(s) = ToSet(Tail(s)) \cup {Head(s)}
<1> DEFINE n == Len(s)
           t == Tail(s)
<1>1. /\ n \in Nat \ {0} /\ DOMAIN s = 1 .. n /\ Head(s) = s[1] /\ 1 \in 1 .. n
      /\ t \in Seq(S) /\ DOMAIN t = 1 .. n - 1
      /\ \A i \in 1 .. n - 1 : t[i] = s[i + 1] /\ i + 1 \in 1 .. n
      /\ Head(s) \in S
  OBVIOUS
<1> HIDE DEF n, t
<1>2. \A i \in 2 .. n : s[i] = t[i - 1] /\ i - 1 \in 1 .. n - 1
  <2> TAKE i \in 2 .. n
  <2>1. i - 1 \in 1 .. n - 1 /\ (i - 1) + 1 = i
    BY <1>1
  <2> QED
    BY <1>1, <2>1
<1>3. \A i \in 1 .. n : i = 1 \/ i \in 2 .. n
  BY <1>1
<1>4. ASSUME NEW e \in ToSet(s) PROVE e \in ToSet(t) \cup {Head(s)}
  <2>1. PICK i \in 1 .. n : e = s[i]
    BY <1>1 DEF ToSet
  <2>2. CASE i = 1
    BY <1>1, <2>1, <2>2
  <2>3. CASE i \in 2 .. n
    BY <1>1, <1>2, <2>1, <2>3 DEF ToSet
  <2> QED
    BY <1>3, <2>2, <2>3
<1>5. ToSet(t) \cup {Head(s)} \subseteq ToSet(s)
  BY <1>1 DEF ToSet
<1> QED
  BY <1>1, <1>4, <1>5 DEF t

LEMMA Concatenated ==
    ASSUME NEW S, NEW s \in Seq(S), NEW t \in Seq(S)
    PROVE  /\ s \o t \in Seq(S) /\ Len(s \o t) = Len(s) + Len(t)
           /\ Len(s) \in Nat /\ Len(t) \in Nat
           /\ DOMAIN s = 1 .. Len(s) /\ DOMAIN t = 1 .. Len(t)
           /\ \A i \in 1 .. Len(s) : (s \o t)[i] = s[i]
           /\ \A i \in 1 .. Len(t) : (s \o t)[Len(s) + i] = t[i]
           /\ ToSet(s \o t) = ToSet(s) \cup ToSet(t)
<1> DEFINE m == Len(s)
           n == Len(t)
           st == s \o t
<1>1. /\ st \in Seq(S) /\ Len(st) = m + n /\ m \in Nat /\ n \in Nat
      /\ DOMAIN s = 1 .. m /\ DOMAIN t = 1 .. n /\ DOMAIN st = 1 .. m + n
      /\ \A i \in 1 .. m : st[i] = s[i]
      /\ \A i \in m + 1 .. m + n : st[i] = t[i - m]
  BY ConcatProperties
<1> HIDE DEF m, n, st
<1>2. \A i \in 1 .. n : m + i \in m + 1 .. m + n /\ m + i \in 1 .. m + n /\ (m + i) - m = i
  BY <1>1
<1>3. \A i \in 1 .. n : st[m + i] = t[i]
  BY <1>1, <1>2
<1>4. \A i \in 1 .. m + n : i \in 1 .. m \/ \E j \in 1 .. n : i = m + j
  <2> TAKE i \in 1 .. m + n
  <2>1. CASE i <= m
    BY <1>1, <2>1
  <2>2. CASE ~(i <= m)
    <3>1. i - m \in 1 .. n /\ i = m + (i - m)
      BY <1>1, <2>2
    <3> QED
      BY <3>1
  <2> QED
    BY <2>1, <2>2
<1>5. 1 .. m \subseteq 1 .. m + n
  BY <1>1
<1>6. /\ ToSet(st) = {st[i] : i \in 1 .. m + n}
      /\ ToSet(s) = {s[i] : i \in 1 .. m} /\ ToSet(t) = {t[i] : i \in 1 .. n}
  BY <1>1 DEF ToSet
<1>7. ToSet(st) = ToSet(s) \cup ToSet(t)
  <2>1. ASSUME NEW i \in 1 .. m + n PROVE st[i] \in ToSet(s) \cup ToSet(t)
    <3>1. CASE i \in 1 .. m
      <4>1. st[i] = s[i]
        BY <1>1, <3>1
      <4> QED
        BY <1>6, <3>1, <4>1
    <3>2. CASE i \notin 1 .. m
      <4>1. PICK j \in 1 .. n : i = m + j
        BY <1>4, <3>2
      <4> QED
        BY <1>3, <1>6, <4>1
    <3> QED
      BY <3>1, <3>2
  <2>2. ASSUME NEW i \in 1 .. m PROVE s[i] \in ToSet(st)
    BY <1>1, <1>5, <1>6
  <2>3. ASSUME NEW i \in 1 .. n PROVE t[i] \in ToSet(st)
    BY <1>2, <1>3, <1>6
  <2> QED
    BY <1>6, <2>1, <2>2, <2>3
<1> QED
  BY <1>1, <1>3, <1>7 DEF m, n, st

LEMMA ElementsOf ==
    ASSUME NEW S, NEW s \in Seq(S)
    PROVE  /\ ToSet(s) \subseteq S /\ s \in Seq(ToSet(s))
           /\ \A T : ToSet(s) \subseteq T => s \in Seq(T)
<1>1. s \in [1 .. Len(s) -> S] /\ Len(s) \in Nat /\ DOMAIN s = 1 .. Len(s)
  BY LenProperties
<1>2. s \in [1 .. Len(s) -> ToSet(s)] /\ ToSet(s) \subseteq S
  BY <1>1 DEF ToSet
<1>3. \A T : ToSet(s) \subseteq T => s \in [1 .. Len(s) -> T]
  BY <1>2
<1> QED
  BY <1>1, <1>2, <1>3, SeqDef

-----------------------------------------------------------------------------
(* The walk. *)

\* The walk finds wanted paths only.
LEMMA FoundAreWanted ==
    ASSUME NEW wanted
    PROVE  Found(wanted) \in Seq(wanted \cap Paths)
<1> DEFINE n == Len(Walk)
           D == 0 .. n
           Val == Seq(wanted \cap Paths)
           More(i, before) == IF Walk[i] \in wanted /\ Len(before) < MaxFiles
                              THEN Append(before, Walk[i]) ELSE before
           Body(found, i) == IF i = 0 THEN <<>> ELSE More(i, found[i - 1])
           F == CHOOSE found : found = [i \in D |-> Body(found, i)]
           Ends == {0}
           measure == [i \in D |-> i]
           base == [i \in Ends |-> <<>>]
           next == [i \in D \ Ends |-> i - 1]
           after == [xv \in (D \ Ends) \X Val |-> More(xv[1], xv[2])]
<1>1. n \in Nat /\ \A i \in D \ {0} : Walk[i] \in Paths
  BY SourceFilesAssumption
<1>2. ASSUME NEW i \in D \ {0}, NEW v \in Val PROVE More(i, v) \in Val
  <2>1. Walk[i] \in wanted => Append(v, Walk[i]) \in Val
    BY <1>1
  <2> QED
    BY <2>1
<1>3. ASSUME NEW i \in D \ {0} PROVE i - 1 \in D /\ i - 1 < i
  BY <1>1, <1>3
<1>4. \E f : Solves(f, D, Val, Ends, base, next, after)
  <2>1. measure \in [D -> 0 .. n] /\ n \in Nat
    BY <1>1
  <2>2. \A i \in D \ Ends : next[i] \in D /\ measure[next[i]] < measure[i]
    BY <1>3
  <2>3. \A i \in D \cap Ends : base[i] \in Val
    OBVIOUS
  <2>4. \A i \in D \ Ends : \A v \in Val : after[<<i, v>>] \in Val
    BY <1>2
  <2> HIDE DEF D, n, Val, Ends, measure, base, next, after
  <2> QED
    BY <2>1, <2>2, <2>3, <2>4, RecursionExists DEF Recursion
<1>5. PICK f \in [D -> Val] :
         \A i \in D : f[i] = IF i \in Ends THEN base[i] ELSE after[<<i, f[next[i]]>>]
  BY <1>4 DEF Solves
<1>6. ASSUME NEW i \in D PROVE f[i] = Body(f, i)
  <2>1. CASE i = 0
    BY <1>5, <2>1
  <2>2. CASE i # 0
    <3>1. f[i - 1] \in Val /\ next[i] = i - 1
      BY <1>3, <1>5, <2>2
    <3>2. f[i] = after[<<i, f[i - 1]>>] /\ <<i, f[i - 1]>> \in (D \ {0}) \X Val
      BY <1>5, <2>2, <3>1
    <3> QED
      BY <2>2, <3>2
  <2> QED
    BY <2>1, <2>2
<1>7. F = [i \in D |-> Body(F, i)]
  <2>1. f = [i \in D |-> Body(f, i)]
    BY <1>6
  <2> HIDE DEF D, Body
  <2> QED
    BY <2>1
<1>8. D \subseteq {i \in D : F[i] \in Val}
  <2> DEFINE S == {i \in D : F[i] \in Val}
  <2> HIDE DEF F
  <2>1. \A x \in D : (\A y \in D : measure[y] < measure[x] => y \in S) => x \in S
    <3> SUFFICES ASSUME NEW x \in D, \A y \in D : y < x => F[y] \in Val
                 PROVE  F[x] \in Val
      OBVIOUS
    <3>1. CASE x = 0
      <4>1. F[x] = <<>>
        BY <1>7, <3>1
      <4> QED
        BY <4>1
    <3>2. CASE x # 0
      <4>1. F[x] = More(x, F[x - 1]) /\ F[x - 1] \in Val
        BY <1>3, <1>7, <3>2
      <4> HIDE DEF More, Val
      <4> QED
        BY <1>2, <3>2, <4>1
    <3> QED
      BY <3>1, <3>2
  <2>2. measure \in [D -> Nat]
    OBVIOUS
  <2> HIDE DEF S, measure, D
  <2>3. D \subseteq S
    BY <2>1, <2>2, ByMeasure
  <2> QED
    BY <2>3 DEF S
<1>9. Found(wanted) = F[n]
  BY DEF Found
<1> QED
  <2>1. n \in D
    BY <1>1
  <2> HIDE DEF F, D, n
  <2> QED
    BY <1>8, <1>9, <2>1

LEMMA DiscoverFinds == Discover \in Seq(Supported \ Ignored) /\ \A f \in ToSet(Discover) : f \in Paths /\ Exists(f)
<1>1. Discover \in Seq(((Supported \ Ignored) \cap SmallEnough) \cap Paths)
  BY FoundAreWanted DEF Discover
<1>2. ToSet(Discover) \subseteq ((Supported \ Ignored) \cap SmallEnough) \cap Paths
  BY <1>1, ElementsOf
<1> QED
  BY <1>1, <1>2, ElementsOf DEF SmallEnough

-----------------------------------------------------------------------------
(* The files: what a stamp taken earlier tells of a file now. *)

Sources == Supported \ Ignored
Files == [text : Text, mtime : 0..MaxClock]
Stamps == [mtime : 0..MaxClock, size : Nat]
StampOf(file) == [mtime |-> file.mtime, size |-> SizeOf[file.text]]

\* The files, the clock, the stamps and the recurrences as one value.
WorldOf(disk, now, had, back) == [disk |-> disk, now |-> now, had |-> had, back |-> back]
World == WorldOf(files, clock, stamps, recurred)
NextWorld == WorldOf(files', clock', stamps', recurred')

\* A stamp a file has had: an older one, or one of those of this reading.
Known(w, f, stamp) ==
    /\ stamp.mtime <= w.now
    /\ stamp.mtime = w.now => stamp \in w.had[f]

\* What a change of the files does: each is as it was, or gone, or has a stamp
\* of the clock's present reading, and recurs if it had that one.
Moved(w, v) ==
    /\ w.now \in Nat /\ v.now \in Nat /\ w.now <= v.now
    /\ w.back \subseteq v.back
    /\ \A f \in Paths :
         /\ v.now = w.now => w.had[f] \subseteq v.had[f]
         /\ \/ v.disk[f] = w.disk[f]
            \/ v.disk[f] = Missing
            \/ /\ v.disk[f].mtime = v.now /\ StampOf(v.disk[f]) \in v.had[f]
               /\ (v.now = w.now /\ StampOf(v.disk[f]) \in w.had[f]) => f \in v.back

FilesKnown(w) ==
    /\ w.disk \in [Paths -> Files \cup {Missing}]
    /\ w.had \in [Paths -> SUBSET Stamps]
    /\ \A f \in Paths : w.disk[f] # Missing => Known(w, f, StampOf(w.disk[f]))

FilesInv == FilesTypeOK /\ FilesKnown(World)

LEMMA WorldIs ==
    ASSUME NEW disk, NEW now, NEW had, NEW back
    PROVE  /\ WorldOf(disk, now, had, back).disk = disk
           /\ WorldOf(disk, now, had, back).now = now
           /\ WorldOf(disk, now, had, back).had = had
           /\ WorldOf(disk, now, had, back).back = back
BY DEF WorldOf

LEMMA SourcesArePaths == Sources \subseteq Paths
BY SourceFilesAssumption DEF Sources

LEMMA StampTypes ==
    /\ \A file \in Files : StampOf(file) \in Stamps /\ StampOf(file).mtime = file.mtime
    /\ \A file \in Files : file # Missing /\ file.text \in Text /\ file.mtime \in 0..MaxClock
    /\ \A stamp \in Stamps : stamp.mtime \in Nat
    /\ MaxClock \in Nat
<1>1. SizeOf \in [Text -> Nat] /\ MaxClock \in Nat /\ Missing.text \notin Text
  BY SourceFilesAssumption
<1> QED
  BY <1>1 DEF Files, Stamps, StampOf

LEMMA KnownMoves ==
    ASSUME NEW w, NEW v, Moved(w, v), NEW f \in Paths, NEW stamp \in Stamps, Known(w, f, stamp)
    PROVE  Known(v, f, stamp)
<1>1. /\ w.now \in Nat /\ v.now \in Nat /\ w.now <= v.now
      /\ v.now = w.now => w.had[f] \subseteq v.had[f]
  BY DEF Moved
<1>2. /\ stamp.mtime \in Nat /\ stamp.mtime <= w.now
      /\ stamp.mtime = w.now => stamp \in w.had[f]
  BY StampTypes DEF Known
<1>3. stamp.mtime <= v.now
  BY <1>1, <1>2
<1>4. stamp.mtime = v.now => v.now = w.now
  BY <1>1, <1>2
<1> QED
  BY <1>1, <1>2, <1>3, <1>4 DEF Known

\* A file with a stamp it has had is the file it was, unless it recurred.
LEMMA OnlyRecurring ==
    ASSUME NEW w, NEW v, Moved(w, v), NEW f \in Paths, NEW stamp \in Stamps, Known(w, f, stamp),
           f \notin v.back, v.disk[f] # Missing, v.disk[f].mtime = stamp.mtime,
           StampOf(v.disk[f]) = stamp
    PROVE  f \notin w.back /\ v.disk[f] = w.disk[f]
<1>1. /\ w.now \in Nat /\ v.now \in Nat /\ w.now <= v.now /\ w.back \subseteq v.back
      /\ \/ v.disk[f] = w.disk[f]
         \/ v.disk[f] = Missing
         \/ /\ v.disk[f].mtime = v.now /\ StampOf(v.disk[f]) \in v.had[f]
            /\ (v.now = w.now /\ StampOf(v.disk[f]) \in w.had[f]) => f \in v.back
  BY DEF Moved
<1>2. /\ stamp.mtime \in Nat /\ stamp.mtime <= w.now
      /\ stamp.mtime = w.now => stamp \in w.had[f]
  BY StampTypes DEF Known
<1>3. v.disk[f].mtime = v.now => v.now = w.now /\ stamp.mtime = w.now
  BY <1>1, <1>2
<1>4. v.disk[f] = w.disk[f] \/ f \in v.back
  BY <1>1, <1>2, <1>3
<1> QED
  BY <1>1, <1>4

LEMMA FilesStart == FilesInit => FilesInv /\ FilesTypeOK
<1> SUFFICES ASSUME FilesInit PROVE FilesTypeOK /\ FilesKnown(World)
  BY DEF FilesInv
<1>1. /\ \A f \in DOMAIN Initially : Initially[f] \in Text
      /\ {MaxEdits, MaxClock, MaxJobs} \subseteq Nat /\ MaxClock > 0
  BY SourceFilesAssumption
<1>2. files \in [Paths -> Files \cup {Missing}] /\ \A f \in Paths : Exists(f) => files[f].mtime = 0
  <2>1. \A f \in DOMAIN Initially : [text |-> Initially[f], mtime |-> 0] \in Files
    BY <1>1 DEF Files
  <2> QED
    BY <2>1 DEF FilesInit, Exists
<1>3. FilesTypeOK
  BY <1>1, <1>2 DEF FilesInit, FilesTypeOK, Files
<1>4. ASSUME NEW f \in Paths, files[f] # Missing PROVE Known(World, f, StampOf(files[f]))
  <2>1. files[f].mtime = 0 /\ World.now = 1
    BY <1>2, <1>4, WorldIs DEF World, FilesInit, Exists
  <2> QED
    BY <2>1 DEF Known, StampOf
<1>5. stamps \in [Paths -> SUBSET Stamps]
  BY DEF FilesInit
<1>6. World.disk = files /\ World.had = stamps
  BY WorldIs DEF World
<1> QED
  BY <1>2, <1>3, <1>4, <1>5, <1>6 DEF FilesKnown

LEMMA FilesStep ==
    ASSUME FilesInv, FilesNext
    PROVE  FilesInv' /\ Moved(World, NextWorld)
<1> DEFINE w == World
           v == NextWorld
<1>0. /\ w.disk = files /\ w.now = clock /\ w.had = stamps /\ w.back = recurred
      /\ v.disk = files' /\ v.now = clock' /\ v.had = stamps' /\ v.back = recurred'
  BY WorldIs DEF World, NextWorld
<1>1. /\ files \in [Paths -> Files \cup {Missing}] /\ stamps \in [Paths -> SUBSET Stamps]
      /\ clock \in 1..MaxClock /\ edits \in 0..MaxEdits /\ jobs \in 0..MaxJobs
      /\ recurred \subseteq Paths
      /\ \A f \in Paths : files[f] # Missing => Known(w, f, StampOf(files[f]))
      /\ MaxEdits \in Nat /\ MaxClock \in Nat /\ clock \in Nat
  BY <1>0, SourceFilesAssumption DEF FilesInv, FilesTypeOK, FilesKnown, Files
<1> HIDE DEF w, v
<1>2. SUFFICES /\ files' \in [Paths -> Files \cup {Missing}] /\ stamps' \in [Paths -> SUBSET Stamps]
               /\ clock' \in 1..MaxClock /\ edits' \in 0..MaxEdits /\ jobs' \in 0..MaxJobs
               /\ recurred' \subseteq Paths
               /\ \A f \in Paths : files'[f] # Missing => Known(v, f, StampOf(files'[f]))
               /\ Moved(w, v)
  <2> HIDE DEF FilesNext
  <2>1. v = World'
    BY DEF v, World, NextWorld
  <2> QED
    BY <1>0, <1>2, <2>1 DEF FilesInv, FilesTypeOK, FilesKnown, Files, w, v
<1>3. ASSUME NEW f \in Sources, NEW t \in Text, WriteFile(f, t), UNCHANGED jobs
      PROVE  /\ files' \in [Paths -> Files \cup {Missing}] /\ stamps' \in [Paths -> SUBSET Stamps]
             /\ clock' \in 1..MaxClock /\ edits' \in 0..MaxEdits /\ jobs' \in 0..MaxJobs
             /\ recurred' \subseteq Paths
             /\ \A g \in Paths : files'[g] # Missing => Known(v, g, StampOf(files'[g]))
             /\ Moved(w, v)
  <2> DEFINE had == IF clock' = clock THEN stamps[f] ELSE {}
             stamp == [mtime |-> clock', size |-> SizeOf[t]]
             new == [text |-> t, mtime |-> clock']
  <2>1. f \in Paths
    BY SourcesArePaths
  <2>2. /\ edits < MaxEdits /\ edits' = edits + 1
        /\ clock' \in {clock, clock + 1} /\ clock' \in 1..MaxClock
        /\ files' = [files EXCEPT ![f] = new]
        /\ stamps' = [g \in Paths |->
             IF g = f THEN had \cup {stamp} ELSE IF clock' = clock THEN stamps[g] ELSE {}]
        /\ recurred' = IF stamp \in had THEN recurred \cup {f} ELSE recurred
    BY <1>3 DEF WriteFile
  <2>3. new \in Files /\ stamp \in Stamps /\ StampOf(new) = stamp /\ new.mtime = clock'
    <3>1. SizeOf[t] \in Nat /\ clock' \in 0..MaxClock
      BY <1>1, <2>2, SourceFilesAssumption
    <3> QED
      BY <3>1 DEF Files, Stamps, StampOf
  <2> HIDE DEF new, stamp
  <2>4. /\ files' \in [Paths -> Files \cup {Missing}]
        /\ files'[f] = new /\ \A g \in Paths : g # f => files'[g] = files[g]
    BY <1>1, <2>1, <2>2, <2>3
  <2>5. /\ had \subseteq Stamps /\ stamps' \in [Paths -> SUBSET Stamps]
        /\ stamps'[f] = had \cup {stamp}
        /\ clock' = clock => had = stamps[f]
        /\ \A g \in Paths : clock' = clock => stamps[g] \subseteq stamps'[g]
    <3>1. had \subseteq Stamps
      BY <1>1, <2>1
    <3>2. stamps' \in [Paths -> SUBSET Stamps]
      BY <1>1, <2>2, <2>3, <3>1
    <3> QED
      BY <2>1, <2>2, <3>1, <3>2
  <2>6. clock <= clock' /\ clock' \in Nat
    BY <1>1, <2>2
  <2>7. edits' \in 0..MaxEdits /\ jobs' \in 0..MaxJobs /\ recurred' \subseteq Paths /\ recurred \subseteq recurred'
    BY <1>1, <1>3, <2>1, <2>2
  <2>8. stamp \in stamps'[f] /\ ((clock' = clock /\ stamp \in stamps[f]) => f \in recurred')
    BY <2>2, <2>5
  <2>9. Moved(w, v)
    <3> SUFFICES ASSUME NEW g \in Paths
                 PROVE  /\ clock' = clock => stamps[g] \subseteq stamps'[g]
                        /\ \/ files'[g] = files[g]
                           \/ files'[g] = Missing
                           \/ /\ files'[g].mtime = clock' /\ StampOf(files'[g]) \in stamps'[g]
                              /\ (clock' = clock /\ StampOf(files'[g]) \in stamps[g]) => g \in recurred'
      BY <1>0, <1>1, <2>6, <2>7 DEF Moved
    <3> QED
      BY <2>3, <2>4, <2>5, <2>8
  <2>10. ASSUME NEW g \in Paths, files'[g] # Missing PROVE Known(v, g, StampOf(files'[g]))
    <3>1. CASE g = f
      <4>1. StampOf(files'[g]) = stamp /\ stamp.mtime = clock'
        BY <2>3, <2>4, <3>1, StampTypes
      <4> QED
        BY <1>0, <2>6, <2>8, <3>1, <4>1 DEF Known
    <3>2. CASE g # f
      <4>1. files'[g] = files[g] /\ files[g] \in Files
        BY <1>1, <2>4, <2>10, <3>2
      <4>2. Known(w, g, StampOf(files[g])) /\ StampOf(files[g]) \in Stamps
        BY <1>1, <2>10, <4>1, StampTypes
      <4> QED
        BY <2>9, <4>1, <4>2, KnownMoves
    <3> QED
      BY <3>1, <3>2
  <2> QED
    BY <2>2, <2>4, <2>5, <2>7, <2>9, <2>10
<1>4. ASSUME NEW f \in Sources, DeleteFile(f), UNCHANGED jobs
      PROVE  /\ files' \in [Paths -> Files \cup {Missing}] /\ stamps' \in [Paths -> SUBSET Stamps]
             /\ clock' \in 1..MaxClock /\ edits' \in 0..MaxEdits /\ jobs' \in 0..MaxJobs
             /\ recurred' \subseteq Paths
             /\ \A g \in Paths : files'[g] # Missing => Known(v, g, StampOf(files'[g]))
             /\ Moved(w, v)
  <2>1. /\ edits < MaxEdits /\ edits' = edits + 1
        /\ files' = [files EXCEPT ![f] = Missing]
        /\ clock' = clock /\ stamps' = stamps /\ recurred' = recurred
    BY <1>4 DEF DeleteFile
  <2>2. edits' \in 0..MaxEdits
    BY <1>1, <2>1
  <2>3. /\ files' \in [Paths -> Files \cup {Missing}]
        /\ \A g \in Paths : files'[g] = files[g] \/ files'[g] = Missing
    BY <1>1, <2>1
  <2>4. Moved(w, v)
    BY <1>0, <1>1, <2>1, <2>3 DEF Moved
  <2>5. ASSUME NEW g \in Paths, files'[g] # Missing PROVE Known(v, g, StampOf(files'[g]))
    <3>1. files'[g] = files[g] /\ files[g] \in Files
      BY <1>1, <2>3, <2>5
    <3>2. Known(w, g, StampOf(files[g])) /\ StampOf(files[g]) \in Stamps
      BY <1>1, <2>5, <3>1, StampTypes
    <3> QED
      BY <2>4, <3>1, <3>2, KnownMoves
  <2> QED
    BY <1>1, <1>4, <2>1, <2>2, <2>3, <2>4, <2>5
<1> QED
  BY <1>3, <1>4 DEF FilesNext, Sources

-----------------------------------------------------------------------------
(* The repository map: what the cache and a build know of the files. *)

Entries == [stamp : Stamps, text : Text]
Partial(S, V) == UNION {[T -> V] : T \in SUBSET S}
Caches == Partial(Sources, Entries)
Texts == Partial(Sources, Text)
Sights == Partial(Sources, Files)
MapJobs ==
    [step : {"stat", "read", "save", "write", "rank"}, todo : Seq(Sources),
     found : SUBSET Sources, cache : Caches, stamp : Stamps, parsed : Texts, seen : Sights]

\* An entry was made of a stamp the file has had, and while the file has that
\* stamp, of its text, unless the file recurred.
Honest(w, f, entry) ==
    /\ Known(w, f, entry.stamp)
    /\ (w.disk[f] # Missing /\ f \notin w.back /\ entry.stamp = StampOf(w.disk[f]))
         => entry.text = w.disk[f].text

HonestCache(w, cache) == \A f \in DOMAIN cache : Honest(w, f, cache[f])

\* A file that is as the walk saw it is among the parsed ones, as it is.
AsSeen(w, f, seen, parsed) ==
    (f \notin w.back /\ w.disk[f] = seen) => f \in DOMAIN parsed /\ parsed[f] = seen.text

MapJobGood(w, job) ==
    /\ job.step \in {"stat", "read"} <=> job.todo # <<>>
    /\ ToSet(job.todo) \subseteq job.found
    /\ HonestCache(w, job.cache)
    /\ job.step = "read" => Known(w, Head(job.todo), job.stamp)
    /\ DOMAIN job.seen = job.found
    /\ \A f \in job.found : Known(w, f, StampOf(job.seen[f]))
    /\ \A f \in job.found : f \notin ToSet(job.todo) => AsSeen(w, f, job.seen[f], job.parsed)

\* The same for a map that is shown.
MapGood(w, shown) ==
    shown # NoMap =>
       /\ shown.parsed \in Texts
       /\ \A f \in DOMAIN shown.untouched : f \notin w.back =>
            f \in DOMAIN shown.parsed /\ shown.parsed[f] = shown.untouched[f]

MapPart(w, cache, job, shown) ==
    /\ cache \in Caches /\ HonestCache(w, cache)
    /\ job \in [Process -> MapJobs \cup {Idle}]
    /\ \A p \in Process : job[p] # Idle => MapJobGood(w, job[p])
    /\ DOMAIN shown = Process
    /\ \A p \in Process : MapGood(w, shown[p])

MapInv == MapPart(World, cacheFile, mapJob, map)

LEMMA HonestMoves ==
    ASSUME NEW w, NEW v, Moved(w, v), FilesKnown(v),
           NEW f \in Paths, NEW entry \in Entries, Honest(w, f, entry)
    PROVE  Honest(v, f, entry)
<1>1. entry.stamp \in Stamps /\ Known(w, f, entry.stamp)
  BY DEF Entries, Honest
<1>2. Known(v, f, entry.stamp)
  BY <1>1, KnownMoves
<1>3. ASSUME v.disk[f] # Missing, f \notin v.back, entry.stamp = StampOf(v.disk[f])
      PROVE  entry.text = v.disk[f].text
  <2>1. v.disk[f] \in Files
    BY <1>3 DEF FilesKnown
  <2>2. v.disk[f].mtime = entry.stamp.mtime
    BY <1>3, <2>1, StampTypes
  <2>3. f \notin w.back /\ v.disk[f] = w.disk[f]
    BY <1>1, <1>3, <2>2, OnlyRecurring
  <2> QED
    BY <1>3, <2>3 DEF Honest
<1> QED
  BY <1>2, <1>3 DEF Honest

LEMMA HonestCacheMoves ==
    ASSUME NEW w, NEW v, Moved(w, v), FilesKnown(v), NEW cache \in Caches, HonestCache(w, cache)
    PROVE  HonestCache(v, cache)
<1>1. \A f \in DOMAIN cache : f \in Paths /\ cache[f] \in Entries
  BY SourcesArePaths DEF Caches, Partial
<1> QED
  BY <1>1, HonestMoves DEF HonestCache

LEMMA SightTypes ==
    ASSUME NEW job \in MapJobs
    PROVE  /\ job.found \subseteq Paths /\ job.found \subseteq Sources
           /\ DOMAIN job.seen = job.found => \A f \in job.found : job.seen[f] \in Files
           /\ job.todo # <<>> => /\ Head(job.todo) \in Sources /\ Head(job.todo) \in Paths
                                 /\ Head(job.todo) \in ToSet(job.todo)
                                 /\ Tail(job.todo) \in Seq(Sources)
                                 /\ ToSet(job.todo) = ToSet(Tail(job.todo)) \cup {Head(job.todo)}
<1>1. job.found \subseteq Sources /\ job.seen \in Sights /\ job.todo \in Seq(Sources)
  BY DEF MapJobs
<1>2. DOMAIN job.seen = job.found => \A f \in job.found : job.seen[f] \in Files
  BY <1>1 DEF Sights, Partial
<1>3. job.todo # <<>> => /\ Head(job.todo) \in Sources /\ Tail(job.todo) \in Seq(Sources)
                         /\ ToSet(job.todo) = ToSet(Tail(job.todo)) \cup {Head(job.todo)}
  BY <1>1, HeadAndTail
<1> QED
  BY <1>1, <1>2, <1>3, SourcesArePaths

LEMMA MapJobMoves ==
    ASSUME NEW w, NEW v, Moved(w, v), FilesKnown(v), NEW job \in MapJobs, MapJobGood(w, job)
    PROVE  MapJobGood(v, job)
<1>1. job.cache \in Caches /\ job.stamp \in Stamps
  BY DEF MapJobs
<1>2. HonestCache(v, job.cache)
  BY <1>1, HonestCacheMoves DEF MapJobGood
<1>3. job.step = "read" => Known(v, Head(job.todo), job.stamp)
  <2>1. job.step = "read" => Head(job.todo) \in Paths
    BY SightTypes DEF MapJobGood
  <2> QED
    BY <1>1, <2>1, KnownMoves DEF MapJobGood
<1>4. ASSUME NEW f \in job.found
      PROVE  /\ Known(v, f, StampOf(job.seen[f]))
             /\ f \notin ToSet(job.todo) => AsSeen(v, f, job.seen[f], job.parsed)
  <2>1. /\ f \in Paths /\ job.seen[f] \in Files /\ job.seen[f] # Missing
        /\ StampOf(job.seen[f]) \in Stamps /\ StampOf(job.seen[f]).mtime = job.seen[f].mtime
        /\ Known(w, f, StampOf(job.seen[f]))
    BY SightTypes, StampTypes DEF MapJobGood
  <2>2. Known(v, f, StampOf(job.seen[f]))
    BY <2>1, KnownMoves
  <2>3. ASSUME f \notin v.back, v.disk[f] = job.seen[f]
        PROVE  f \notin w.back /\ w.disk[f] = job.seen[f]
    BY <2>1, <2>3, OnlyRecurring
  <2>4. f \notin ToSet(job.todo) => AsSeen(w, f, job.seen[f], job.parsed)
    BY DEF MapJobGood
  <2> QED
    BY <2>2, <2>3, <2>4 DEF AsSeen
<1> QED
  BY <1>2, <1>3, <1>4 DEF MapJobGood

LEMMA MapPartMoves ==
    ASSUME NEW w, NEW v, Moved(w, v), FilesKnown(v), NEW cache, NEW job, NEW shown,
           MapPart(w, cache, job, shown)
    PROVE  MapPart(v, cache, job, shown)
<1>1. cache \in Caches /\ HonestCache(v, cache)
  BY HonestCacheMoves DEF MapPart
<1>2. ASSUME NEW p \in Process, job[p] # Idle PROVE MapJobGood(v, job[p])
  <2>1. job[p] \in MapJobs /\ MapJobGood(w, job[p])
    BY <1>2 DEF MapPart
  <2> QED
    BY <2>1, MapJobMoves
<1>3. ASSUME NEW p \in Process PROVE MapGood(v, shown[p])
  <2>1. w.back \subseteq v.back
    BY DEF Moved
  <2>2. MapGood(w, shown[p])
    BY DEF MapPart
  <2> QED
    BY <2>1, <2>2 DEF MapGood
<1> QED
  BY <1>1, <1>2, <1>3 DEF MapPart

LEMMA Inserted ==
    ASSUME NEW S, NEW V, NEW g \in Partial(S, V), NEW x \in S, NEW y \in V
    PROVE  Updated(g, x, y) \in Partial(S, V)
<1> DEFINE T == DOMAIN g
<1>1. T \subseteq S /\ g \in [T -> V]
  BY DEF Partial
<1>2. Updated(g, x, y) \in [T \cup {x} -> V] /\ T \cup {x} \subseteq S
  BY <1>1 DEF Updated
<1> QED
  BY <1>2 DEF Partial

\* What replaces a job or a map keeps the rest.
LEMMA JobReplaced ==
    ASSUME NEW w, NEW cache, NEW old, NEW new, NEW shown, MapPart(w, cache, old, shown),
           NEW p \in Process, NEW job, job \in MapJobs, MapJobGood(w, job),
           new = [old EXCEPT ![p] = job]
    PROVE  MapPart(w, cache, new, shown)
<1>1. old \in [Process -> MapJobs \cup {Idle}]
  BY DEF MapPart
<1>2. new \in [Process -> MapJobs \cup {Idle}]
  BY <1>1
<1>3. \A q \in Process : new[q] = IF q = p THEN job ELSE old[q]
  BY <1>1
<1> QED
  BY <1>2, <1>3 DEF MapPart

LEMMA JobEnded ==
    ASSUME NEW w, NEW cache, NEW old, NEW new, NEW shown, MapPart(w, cache, old, shown),
           NEW p \in Process, new = [old EXCEPT ![p] = Idle]
    PROVE  MapPart(w, cache, new, shown)
<1>1. old \in [Process -> MapJobs \cup {Idle}]
  BY DEF MapPart
<1>2. new \in [Process -> MapJobs \cup {Idle}]
  BY <1>1
<1>3. \A q \in Process : new[q] = IF q = p THEN Idle ELSE old[q]
  BY <1>1
<1> QED
  BY <1>2, <1>3 DEF MapPart

LEMMA MapReplaced ==
    ASSUME NEW w, NEW cache, NEW jobs0, NEW old, NEW new, MapPart(w, cache, jobs0, old),
           NEW p \in Process, NEW one, MapGood(w, one), new = [old EXCEPT ![p] = one]
    PROVE  MapPart(w, cache, jobs0, new)
<1>1. DOMAIN old = Process
  BY DEF MapPart
<1>2. DOMAIN new = Process /\ \A q \in Process : new[q] = IF q = p THEN one ELSE old[q]
  BY <1>1
<1> QED
  BY <1>2 DEF MapPart

LEMMA CacheReplaced ==
    ASSUME NEW w, NEW cache, NEW jobs0, NEW shown, MapPart(w, cache, jobs0, shown),
           NEW one \in Caches, HonestCache(w, one)
    PROVE  MapPart(w, one, jobs0, shown)
BY DEF MapPart

LEMMA EmptyIsPartial ==
    /\ \A S, V : Empty \in Partial(S, V)
    /\ Empty \in Caches /\ Empty \in Texts /\ DOMAIN Empty = {}
    /\ \A w : HonestCache(w, Empty)
<1>1. DOMAIN Empty = {} /\ \A V : Empty \in [{} -> V]
  BY DEF Empty
<1>2. \A S, V : Empty \in Partial(S, V)
  BY <1>1 DEF Partial
<1> QED
  BY <1>1, <1>2 DEF Caches, Texts, HonestCache

LEMMA ParseGood ==
    ASSUME NEW w, NEW job \in MapJobs, MapJobGood(w, job), job.todo # <<>>, NEW text \in Text
    PROVE  LET next == [job EXCEPT !.parsed = Updated(@, Head(job.todo), text)]
           IN /\ next \in MapJobs /\ MapJobGood(w, next)
              /\ next.todo = job.todo /\ next.seen = job.seen
              /\ Head(job.todo) \in DOMAIN next.parsed /\ next.parsed[Head(job.todo)] = text
<1> DEFINE f == Head(job.todo)
           parsed == Updated(job.parsed, f, text)
           next == [job EXCEPT !.parsed = parsed]
<1>1. f \in Sources /\ f \in ToSet(job.todo)
  BY SightTypes
<1>2. /\ parsed \in Texts /\ DOMAIN parsed = DOMAIN job.parsed \cup {f}
      /\ parsed[f] = text
      /\ \A g \in DOMAIN job.parsed : g # f => parsed[g] = job.parsed[g]
  <2>1. job.parsed \in Partial(Sources, Text)
    BY DEF MapJobs, Texts
  <2> HIDE DEF f
  <2>2. Updated(job.parsed, f, text) \in Partial(Sources, Text)
    BY <1>1, <2>1, Inserted
  <2>3. /\ DOMAIN Updated(job.parsed, f, text) = DOMAIN job.parsed \cup {f}
        /\ Updated(job.parsed, f, text)[f] = text
        /\ \A g \in DOMAIN job.parsed : g # f => Updated(job.parsed, f, text)[g] = job.parsed[g]
    BY DEF Updated
  <2> QED
    BY <2>2, <2>3 DEF Texts
<1> HIDE DEF parsed, f
<1>3. /\ next \in MapJobs /\ next.parsed = parsed
      /\ next.step = job.step /\ next.todo = job.todo /\ next.found = job.found
      /\ next.cache = job.cache /\ next.stamp = job.stamp /\ next.seen = job.seen
  BY <1>2 DEF MapJobs
<1> HIDE DEF next
<1>4. ASSUME NEW g \in job.found, g \notin ToSet(job.todo)
      PROVE  AsSeen(w, g, job.seen[g], parsed)
  <2>1. AsSeen(w, g, job.seen[g], job.parsed) /\ g # f
    BY <1>1, <1>4 DEF MapJobGood
  <2> QED
    BY <1>2, <2>1 DEF AsSeen
<1>5. MapJobGood(w, next)
  BY <1>3, <1>4 DEF MapJobGood
<1> QED
  BY <1>2, <1>3, <1>5 DEF next, parsed, f

LEMMA PutGood ==
    ASSUME NEW w, NEW job \in MapJobs, MapJobGood(w, job), job.step = "read",
           w.disk[Head(job.todo)].text \in Text
    PROVE  LET f == Head(job.todo)
               next == [job EXCEPT !.cache = Put(@, f, job.stamp, w.disk[f].text)]
           IN /\ next \in MapJobs /\ MapJobGood(w, next)
              /\ next.todo = job.todo /\ next.seen = job.seen
<1> DEFINE f == Head(job.todo)
           text == w.disk[f].text
           entry == [stamp |-> job.stamp, text |-> text]
           cache == Updated(job.cache, f, entry)
           next == [job EXCEPT !.cache = cache]
<1>1. f \in Sources /\ job.todo # <<>> /\ Known(w, f, job.stamp)
  BY SightTypes DEF MapJobGood
<1>2. entry \in Entries
  BY DEF Entries, MapJobs
<1>3. Honest(w, f, entry)
  BY <1>1 DEF Honest
<1> HIDE DEF entry
<1>4. /\ cache \in Caches /\ DOMAIN cache = DOMAIN job.cache \cup {f}
      /\ cache[f] = entry
      /\ \A g \in DOMAIN job.cache : g # f => cache[g] = job.cache[g]
  <2>1. job.cache \in Partial(Sources, Entries)
    BY DEF MapJobs, Caches
  <2> HIDE DEF f
  <2>2. Updated(job.cache, f, entry) \in Partial(Sources, Entries)
    BY <1>1, <1>2, <2>1, Inserted
  <2>3. /\ DOMAIN Updated(job.cache, f, entry) = DOMAIN job.cache \cup {f}
        /\ Updated(job.cache, f, entry)[f] = entry
        /\ \A g \in DOMAIN job.cache : g # f => Updated(job.cache, f, entry)[g] = job.cache[g]
    BY DEF Updated
  <2> QED
    BY <2>2, <2>3 DEF Caches
<1> HIDE DEF cache
<1>5. HonestCache(w, cache)
  <2>1. HonestCache(w, job.cache)
    BY DEF MapJobGood
  <2> HIDE DEF f
  <2> QED
    BY <1>3, <1>4, <2>1 DEF HonestCache
<1>6. /\ next \in MapJobs /\ next.cache = cache
      /\ next.step = job.step /\ next.todo = job.todo /\ next.found = job.found
      /\ next.parsed = job.parsed /\ next.stamp = job.stamp /\ next.seen = job.seen
  BY <1>4 DEF MapJobs
<1> HIDE DEF next
<1>7. MapJobGood(w, next)
  BY <1>5, <1>6 DEF MapJobGood
<1> QED
  BY <1>6, <1>7 DEF next, cache, entry, Put, f, text

LEMMA AdvanceGood ==
    ASSUME NEW w, NEW job \in MapJobs, MapJobGood(w, job), job.todo # <<>>,
           AsSeen(w, Head(job.todo), job.seen[Head(job.todo)], job.parsed)
    PROVE  Advance(job) \in MapJobs /\ MapJobGood(w, Advance(job)) /\ Advance(job) # Idle
<1> DEFINE rest == Tail(job.todo)
           step == IF rest = <<>> THEN "save" ELSE "stat"
           next == [job EXCEPT !.todo = rest, !.step = step]
<1>1. /\ rest \in Seq(Sources)
      /\ ToSet(job.todo) = ToSet(rest) \cup {Head(job.todo)}
  BY SightTypes
<1>2. next = Advance(job)
  BY DEF Advance
<1> HIDE DEF rest
<1>3. /\ next \in MapJobs /\ next.todo = rest /\ next.step = step
      /\ next.found = job.found /\ next.cache = job.cache /\ next.stamp = job.stamp
      /\ next.parsed = job.parsed /\ next.seen = job.seen
  BY <1>1 DEF MapJobs
<1> HIDE DEF next
<1>4. next.step # "read" /\ next.step # "idle" /\ (next.step \in {"stat", "read"} <=> rest # <<>>)
  BY <1>3
<1>5. ToSet(rest) \subseteq job.found
  BY <1>1 DEF MapJobGood
<1>6. \A f \in job.found : f \notin ToSet(rest) => AsSeen(w, f, job.seen[f], job.parsed)
  BY <1>1 DEF MapJobGood
<1>7. MapJobGood(w, next)
  BY <1>3, <1>4, <1>5, <1>6 DEF MapJobGood
<1> QED
  BY <1>2, <1>3, <1>4, <1>7 DEF Idle

LEMMA ResultGood ==
    ASSUME NEW w, NEW parsed \in Texts, NEW found, NEW untouched,
           \A f \in DOMAIN untouched : f \notin w.back =>
              f \in DOMAIN parsed /\ parsed[f] = untouched[f]
    PROVE  MapGood(w, MapResult(parsed, found, untouched))
BY DEF MapGood, MapResult

LEMMA PruneGood ==
    ASSUME NEW w, NEW cache \in Caches, HonestCache(w, cache), NEW keep
    PROVE  Prune(cache, keep) \in Caches /\ HonestCache(w, Prune(cache, keep))
<1>1. DOMAIN cache \subseteq Sources /\ cache \in [DOMAIN cache -> Entries]
  BY DEF Caches, Partial
<1>2. /\ Prune(cache, keep) \in [DOMAIN cache \cap keep -> Entries]
      /\ DOMAIN Prune(cache, keep) = DOMAIN cache \cap keep
      /\ \A f \in DOMAIN cache \cap keep : Prune(cache, keep)[f] = cache[f]
  BY <1>1 DEF Prune
<1>3. Prune(cache, keep) \in Caches
  BY <1>1, <1>2 DEF Caches, Partial
<1> QED
  BY <1>2, <1>3 DEF HonestCache

\* A build that begins has everything before it, and the cache file is honest.
LEMMA BegunGood ==
    ASSUME NEW w, FilesKnown(w), NEW cache \in Caches, HonestCache(w, cache),
           NEW todo \in Seq(Sources), todo # <<>>, \A f \in ToSet(todo) : w.disk[f] # Missing
    PROVE  LET job == [step |-> "stat", todo |-> todo, found |-> ToSet(todo), cache |-> cache,
                       stamp |-> StampOf(w.disk[Head(todo)]), parsed |-> Empty,
                       seen |-> [f \in ToSet(todo) |-> w.disk[f]]]
           IN job \in MapJobs /\ MapJobGood(w, job) /\ job # Idle
<1> DEFINE found == ToSet(todo)
           seen == [f \in found |-> w.disk[f]]
           stamp == StampOf(w.disk[Head(todo)])
           job == [step |-> "stat", todo |-> todo, found |-> found, cache |-> cache,
                   stamp |-> stamp, parsed |-> Empty, seen |-> seen]
<1>1. found \subseteq Sources /\ Head(todo) \in found
  BY ElementsOf, HeadAndTail
<1>2. \A f \in found : w.disk[f] \in Files /\ w.disk[f] # Missing /\ Known(w, f, StampOf(w.disk[f]))
  BY <1>1, SourcesArePaths DEF FilesKnown
<1> HIDE DEF found
<1>3. seen \in [found -> Files] /\ DOMAIN seen = found /\ \A f \in found : seen[f] = w.disk[f]
  BY <1>2
<1>4. seen \in Sights /\ stamp \in Stamps /\ Empty \in Texts
  BY <1>1, <1>2, <1>3, StampTypes, EmptyIsPartial DEF Sights, Partial
<1> HIDE DEF seen, stamp
<1>5. job \in MapJobs
  BY <1>1, <1>4 DEF MapJobs
<1>6. /\ job.step = "stat" /\ job.todo = todo /\ job.found = found /\ job.cache = cache
      /\ job.seen = seen /\ job.parsed = Empty
  OBVIOUS
<1> HIDE DEF job
<1>7. MapJobGood(w, job)
  <2>1. ToSet(job.todo) = found
    BY <1>6 DEF found
  <2> QED
    BY <1>2, <1>3, <1>6, <2>1 DEF MapJobGood
<1> QED
  BY <1>5, <1>6, <1>7 DEF job, found, seen, stamp, Idle

LEMMA MapStepKeeps ==
    ASSUME FilesInv, MapInv, NEW p \in Process, MapStep(p)
    PROVE  MapPart(World, cacheFile', mapJob', map')
<1> DEFINE w == World
           job == mapJob[p]
           f == Head(job.todo)
<1> SUFFICES MapPart(w, cacheFile', mapJob', map')
  OBVIOUS
<1>0. /\ w.disk = files /\ w.back = recurred
      /\ FilesKnown(w) /\ MapPart(w, cacheFile, mapJob, map)
  BY WorldIs DEF World, FilesInv, MapInv
<1>1. /\ cacheFile \in Caches /\ HonestCache(w, cacheFile)
      /\ mapJob \in [Process -> MapJobs \cup {Idle}] /\ job \in MapJobs \cup {Idle}
      /\ job # Idle => job \in MapJobs /\ MapJobGood(w, job)
  BY <1>0 DEF MapPart
<1> HIDE DEF w, job
<1>2. job.step # "idle" => job # Idle
  BY DEF Idle
<1>3. ASSUME job # Idle, job.todo # <<>>
      PROVE  /\ f \in job.found /\ f \in Paths
             /\ job.seen[f] # Missing
             /\ Exists(f) => files[f] \in Files /\ files[f].text \in Text
                             /\ Known(w, f, Stamp(f)) /\ Stamp(f) = StampOf(files[f])
                             /\ Stamp(f) \in Stamps
  <2>1. f \in ToSet(job.todo) /\ f \in Paths /\ f \in job.found
    BY <1>1, <1>3, SightTypes DEF MapJobGood
  <2>2. job.seen[f] # Missing
    BY <1>1, <1>3, <2>1, SightTypes, StampTypes DEF MapJobGood
  <2>3. Exists(f) => files[f] \in Files /\ files[f] # Missing /\ Stamp(f) = StampOf(files[f])
    BY <1>0, <2>1 DEF Exists, Stamp, StampOf, FilesKnown
  <2> QED
    BY <1>0, <2>1, <2>2, <2>3, StampTypes DEF FilesKnown
<1>4. ASSUME job # Idle, job.todo # <<>>, ~Exists(f), Skip(p), cacheFile' = cacheFile, map' = map
      PROVE  MapPart(w, cacheFile', mapJob', map')
  <2>1. AsSeen(w, f, job.seen[f], job.parsed)
    BY <1>0, <1>3, <1>4 DEF AsSeen, Exists
  <2>2. Advance(job) \in MapJobs /\ MapJobGood(w, Advance(job))
    BY <1>1, <1>4, <2>1, AdvanceGood
  <2>3. mapJob' = [mapJob EXCEPT ![p] = Advance(job)]
    BY <1>4 DEF Skip, job
  <2> QED
    BY <1>0, <1>4, <2>2, <2>3, JobReplaced
<1>5. ASSUME NEW one \in MapJobs, MapJobGood(w, one), one.todo = job.todo, one.seen = job.seen,
             job # Idle, job.todo # <<>>, Exists(f), NEW text \in Text,
             f \notin recurred => text = files[f].text,
             mapJob' = [mapJob EXCEPT ![p] = UseTags(one, text)], cacheFile' = cacheFile, map' = map
      PROVE  MapPart(w, cacheFile', mapJob', map')
  <2> DEFINE next == [one EXCEPT !.parsed = Updated(@, f, text)]
  <2>1. /\ next \in MapJobs /\ MapJobGood(w, next)
        /\ next.todo = job.todo /\ next.seen = job.seen
        /\ f \in DOMAIN next.parsed /\ next.parsed[f] = text
    BY <1>5, ParseGood
  <2>2. UseTags(one, text) = Advance(next)
    BY <1>5 DEF UseTags
  <2> HIDE DEF next
  <2>3. AsSeen(w, f, next.seen[f], next.parsed)
    BY <1>0, <1>5, <2>1 DEF AsSeen
  <2>4. Advance(next) \in MapJobs /\ MapJobGood(w, Advance(next))
    BY <1>5, <2>1, <2>3, AdvanceGood
  <2> QED
    BY <1>0, <1>5, <2>2, <2>4, JobReplaced
<1>6. CASE BeginMap(p)
  <2>1. /\ Discover \in Seq(Sources)
        /\ \A g \in ToSet(Discover) : g \in Paths /\ files[g] # Missing
    BY DiscoverFinds DEF Sources, Exists
  <2>2. CASE ToSet(Discover) = {}
    <3>1. /\ map' = [map EXCEPT ![p] = MapResult(Empty, {}, Empty)]
          /\ mapJob' = mapJob /\ cacheFile' = cacheFile
      BY <1>6, <2>2 DEF BeginMap
    <3>2. MapGood(w, MapResult(Empty, {}, Empty))
      BY EmptyIsPartial, ResultGood
    <3>3. MapPart(w, cacheFile, mapJob, map')
      BY <1>0, <3>1, <3>2, MapReplaced
    <3> QED
      BY <3>1, <3>3
  <2>3. CASE ToSet(Discover) # {}
    <3> DEFINE found == ToSet(Discover)
               new == [step |-> "stat", todo |-> Discover, found |-> found, cache |-> cacheFile,
                       stamp |-> StampOf(files[Head(Discover)]), parsed |-> Empty,
                       seen |-> [g \in found |-> files[g]]]
    <3>1. Discover # <<>>
      BY <2>3 DEF ToSet
    <3>2. new \in MapJobs /\ MapJobGood(w, new)
      BY <1>0, <1>1, <2>1, <3>1, BegunGood
    <3>3. /\ mapJob' = [mapJob EXCEPT ![p] = new]
          /\ map' = map /\ cacheFile' = cacheFile
      BY <1>6, <2>3 DEF BeginMap, Stamp, StampOf
    <3> HIDE DEF new
    <3>4. MapPart(w, cacheFile, mapJob', map)
      BY <1>0, <3>2, <3>3, JobReplaced
    <3> QED
      BY <3>3, <3>4
  <2> QED
    BY <2>2, <2>3
<1>7. CASE StatFile(p)
  <2>1. /\ job.step = "stat" /\ job # Idle /\ job.todo # <<>>
        /\ cacheFile' = cacheFile /\ map' = map
    BY <1>1, <1>2, <1>7 DEF StatFile, job, MapJobGood
  <2>2. CASE ~Exists(f)
    <3>1. Skip(p)
      BY <1>7, <2>2 DEF StatFile, job
    <3> QED
      BY <1>4, <2>1, <2>2, <3>1
  <2>3. CASE Exists(f) /\ Cached(job.cache, f, Stamp(f))
    <3>1. mapJob' = [mapJob EXCEPT ![p] = UseTags(job, job.cache[f].text)]
      BY <1>7, <2>3 DEF StatFile, job
    <3>2. f \in DOMAIN job.cache /\ job.cache[f].stamp = Stamp(f)
      BY <2>3 DEF Cached
    <3>3. job.cache[f] \in Entries /\ Honest(w, f, job.cache[f])
      BY <1>1, <2>1, <3>2 DEF MapJobGood, HonestCache, MapJobs, Caches, Partial
    <3>4. job.cache[f].text \in Text
      BY <3>3 DEF Entries
    <3>5. f \notin recurred => job.cache[f].text = files[f].text
      BY <1>0, <1>3, <2>1, <2>3, <3>2, <3>3 DEF Honest, Exists
    <3> QED
      BY <1>1, <1>5, <2>1, <2>3, <3>1, <3>4, <3>5
  <2>4. CASE Exists(f) /\ ~Cached(job.cache, f, Stamp(f))
    <3> DEFINE next == [job EXCEPT !.step = "read", !.stamp = Stamp(f)]
    <3>1. mapJob' = [mapJob EXCEPT ![p] = next]
      BY <1>1, <1>7, <2>1, <2>4 DEF StatFile, job
    <3>2. Stamp(f) \in Stamps /\ Known(w, f, Stamp(f))
      BY <1>3, <2>1, <2>4
    <3>3. /\ next \in MapJobs /\ next.step = "read" /\ next.stamp = Stamp(f)
          /\ next.todo = job.todo /\ next.found = job.found /\ next.cache = job.cache
          /\ next.parsed = job.parsed /\ next.seen = job.seen
      BY <1>1, <2>1, <3>2 DEF MapJobs
    <3> HIDE DEF next
    <3>4. MapJobGood(w, next)
      BY <1>1, <2>1, <3>2, <3>3 DEF MapJobGood
    <3>5. MapPart(w, cacheFile, mapJob', map)
      BY <1>0, <3>1, <3>3, <3>4, JobReplaced
    <3> QED
      BY <2>1, <3>5
  <2> QED
    BY <2>2, <2>3, <2>4
<1>8. CASE ReadFile(p)
  <2>1. /\ job.step = "read" /\ job # Idle /\ job.todo # <<>>
        /\ cacheFile' = cacheFile /\ map' = map
    BY <1>1, <1>2, <1>8 DEF ReadFile, job, MapJobGood
  <2>2. CASE ~Exists(f)
    <3>1. Skip(p)
      BY <1>8, <2>2 DEF ReadFile, job
    <3> QED
      BY <1>4, <2>1, <2>2, <3>1
  <2>3. CASE Exists(f)
    <3> DEFINE one == [job EXCEPT !.cache = Put(@, f, job.stamp, files[f].text)]
    <3>1. mapJob' = [mapJob EXCEPT ![p] = UseTags(one, files[f].text)]
      BY <1>8, <2>3 DEF ReadFile, job
    <3>2. files[f].text \in Text
      BY <1>3, <2>1, <2>3
    <3>3. one \in MapJobs /\ MapJobGood(w, one) /\ one.todo = job.todo /\ one.seen = job.seen
      BY <1>0, <1>1, <2>1, <3>2, PutGood
    <3> HIDE DEF one
    <3> QED
      BY <1>5, <2>1, <2>3, <3>1, <3>2, <3>3
  <2> QED
    BY <2>2, <2>3
<1>9. ASSUME job # Idle, job.step \in {"save", "write"}, NEW step \in {"write", "rank"},
             NEW cache \in Caches, HonestCache(w, cache)
      PROVE  LET next == [job EXCEPT !.step = step, !.cache = cache]
             IN next \in MapJobs /\ MapJobGood(w, next)
  <2> DEFINE next == [job EXCEPT !.step = step, !.cache = cache]
  <2>1. /\ next \in MapJobs /\ next.step = step /\ next.stamp = job.stamp
        /\ next.todo = job.todo /\ next.found = job.found /\ next.cache = cache
        /\ next.parsed = job.parsed /\ next.seen = job.seen
    BY <1>1, <1>9 DEF MapJobs
  <2> HIDE DEF next
  <2>2. MapJobGood(w, next)
    BY <1>1, <1>9, <2>1 DEF MapJobGood
  <2> QED
    BY <2>1, <2>2 DEF next
<1>10. job # Idle => job.cache \in Caches /\ HonestCache(w, job.cache)
  BY <1>1 DEF MapJobs, MapJobGood
<1>11. CASE TruncateCache(p)
  <2>1. /\ job.step = "save" /\ job # Idle
        /\ mapJob' = [mapJob EXCEPT ![p] = [job EXCEPT !.step = "write", !.cache = Prune(@, job.found)]]
        /\ cacheFile' = Empty /\ map' = map
    BY <1>1, <1>2, <1>11 DEF TruncateCache, job
  <2>2. Prune(job.cache, job.found) \in Caches /\ HonestCache(w, Prune(job.cache, job.found))
    BY <1>10, <2>1, PruneGood
  <2> DEFINE next == [job EXCEPT !.step = "write", !.cache = Prune(job.cache, job.found)]
  <2>3. next \in MapJobs /\ MapJobGood(w, next)
    BY <1>9, <2>1, <2>2
  <2>4. mapJob' = [mapJob EXCEPT ![p] = next]
    BY <2>1
  <2> HIDE DEF next
  <2>5. MapPart(w, cacheFile, mapJob', map')
    BY <1>0, <2>1, <2>3, <2>4, JobReplaced
  <2>6. MapPart(w, Empty, mapJob', map')
    BY <2>5, EmptyIsPartial, CacheReplaced
  <2> QED
    BY <2>1, <2>6
<1>12. ASSUME job # Idle, job.step \in {"save", "write"},
              mapJob' = [mapJob EXCEPT ![p].step = "rank"], map' = map
       PROVE  MapPart(w, cacheFile, mapJob', map')
  <2> DEFINE next == [job EXCEPT !.step = "rank", !.cache = job.cache]
  <2>1. next \in MapJobs /\ MapJobGood(w, next)
    BY <1>9, <1>10, <1>12
  <2>2. next = [job EXCEPT !.step = "rank"]
    BY <1>1, <1>12 DEF MapJobs
  <2>3. mapJob' = [mapJob EXCEPT ![p] = next]
    BY <1>12, <2>2 DEF job
  <2> HIDE DEF next
  <2> QED
    BY <1>0, <1>12, <2>1, <2>3, JobReplaced
<1>13. CASE SaveFails(p)
  <2>1. /\ job.step \in {"save", "write"} /\ job # Idle
        /\ mapJob' = [mapJob EXCEPT ![p].step = "rank"] /\ map' = map /\ cacheFile' = cacheFile
    BY <1>2, <1>13 DEF SaveFails, job
  <2>2. MapPart(w, cacheFile, mapJob', map')
    BY <1>12, <2>1
  <2> QED
    BY <2>1, <2>2
<1>14. CASE WriteCache(p)
  <2>1. /\ job.step = "write" /\ job # Idle
        /\ mapJob' = [mapJob EXCEPT ![p].step = "rank"] /\ map' = map
        /\ cacheFile' = job.cache \/ cacheFile' = Empty
    BY <1>2, <1>14 DEF WriteCache, job
  <2>2. MapPart(w, cacheFile, mapJob', map')
    BY <1>12, <2>1
  <2>3. MapPart(w, Empty, mapJob', map') /\ MapPart(w, job.cache, mapJob', map')
    BY <1>10, <2>1, <2>2, EmptyIsPartial, CacheReplaced
  <2> QED
    BY <2>1, <2>3
<1>15. CASE FinishMap(p)
  <2> DEFINE untouched == {g \in job.found : files[g] = job.seen[g]}
             kept == [g \in untouched |-> files[g].text]
  <2>1. /\ job.step = "rank" /\ job # Idle
        /\ map' = [map EXCEPT ![p] = MapResult(job.parsed, job.found, kept)]
        /\ mapJob' = [mapJob EXCEPT ![p] = Idle] /\ cacheFile' = cacheFile
    BY <1>2, <1>15 DEF FinishMap, job
  <2>2. job.parsed \in Texts /\ job.todo = <<>>
    BY <1>1, <2>1 DEF MapJobs, MapJobGood
  <2>3. ASSUME NEW g \in untouched, g \notin w.back
        PROVE  g \in DOMAIN job.parsed /\ job.parsed[g] = kept[g]
    <3>1. ToSet(job.todo) = {}
      BY <2>2 DEF ToSet
    <3>2. AsSeen(w, g, job.seen[g], job.parsed)
      BY <1>1, <2>1, <3>1 DEF MapJobGood
    <3> QED
      BY <1>0, <2>3, <3>2 DEF AsSeen
  <2>4. DOMAIN kept = untouched
    OBVIOUS
  <2> HIDE DEF kept, untouched
  <2>5. MapGood(w, MapResult(job.parsed, job.found, kept))
    BY <2>2, <2>3, <2>4, ResultGood
  <2>6. MapPart(w, cacheFile, mapJob', map)
    BY <1>0, <2>1, JobEnded
  <2>7. MapPart(w, cacheFile, mapJob', map')
    BY <2>1, <2>5, <2>6, MapReplaced
  <2> QED
    BY <2>1, <2>7
<1>16. CASE MapCrash(p)
  <2>1. /\ mapJob' = [mapJob EXCEPT ![p] = Idle] /\ cacheFile' = cacheFile
        /\ map' = [map EXCEPT ![p] = NoMap]
    BY <1>16 DEF MapCrash
  <2>2. MapPart(w, cacheFile, mapJob', map)
    BY <1>0, <2>1, JobEnded
  <2>3. MapGood(w, NoMap)
    BY DEF MapGood
  <2>4. MapPart(w, cacheFile, mapJob', map')
    BY <2>1, <2>2, <2>3, MapReplaced
  <2> QED
    BY <2>1, <2>4
<1> QED
  BY <1>6, <1>7, <1>8, <1>11, <1>13, <1>14, <1>15, <1>16 DEF MapStep

-----------------------------------------------------------------------------
(* The semantic index: windows of lines. *)

LEMMA MinOfTwo ==
    ASSUME NEW a \in Int, NEW b \in Int
    PROVE  Min({a, b}) = IF a <= b THEN a ELSE b
<1>1. \E x \in {a, b} : \A y \in {a, b} : x <= y
  OBVIOUS
<1>2. Min({a, b}) \in {a, b} /\ \A y \in {a, b} : Min({a, b}) <= y
  BY <1>1 DEF Min
<1> QED
  BY <1>2

LEMMA MaxOfTwo ==
    ASSUME NEW a \in Int, NEW b \in Int
    PROVE  Max({a, b}) = IF a <= b THEN b ELSE a
<1>1. \E x \in {a, b} : \A y \in {a, b} : x >= y
  OBVIOUS
<1>2. Max({a, b}) \in {a, b} /\ \A y \in {a, b} : Max({a, b}) >= y
  BY <1>1 DEF Max
<1> QED
  BY <1>2

LEMMA Flattened ==
    ASSUME NEW S, NEW seqs \in Seq(Seq(S))
    PROVE  /\ FlattenSeq(seqs) \in Seq(S)
           /\ \A i \in 1 .. Len(seqs) : ToSet(seqs[i]) \subseteq ToSet(FlattenSeq(seqs))
<1> DEFINE n == Len(seqs)
           D == 1 .. n
           Val == Seq(S)
           Body(flat, i) == IF i = 1 THEN seqs[i] ELSE flat[i - 1] \o seqs[i]
           F == CHOOSE flat : flat = [i \in D |-> Body(flat, i)]
           Ends == {1}
           measure == [i \in D |-> i]
           base == [i \in Ends |-> seqs[i]]
           next == [i \in D \ Ends |-> i - 1]
           after == [xv \in (D \ Ends) \X Val |-> xv[2] \o seqs[xv[1]]]
<1>1. n \in Nat /\ \A i \in D : seqs[i] \in Val
  OBVIOUS
<1>2. CASE n = 0
  <2>1. seqs = <<>> /\ D = {}
    BY <1>2
  <2> QED
    BY <1>2, <2>1 DEF FlattenSeq
<1>3. CASE n # 0
  <2>1. ASSUME NEW i \in D, i # 1 PROVE i - 1 \in D /\ i - 1 < i
    BY <1>1, <2>1
  <2>2. \E f : Solves(f, D, Val, Ends, base, next, after)
    <3>1. measure \in [D -> 0 .. n] /\ n \in Nat
      BY <1>1
    <3>2. \A i \in D \ Ends : next[i] \in D /\ measure[next[i]] < measure[i]
      BY <2>1
    <3>3. \A i \in D \cap Ends : base[i] \in Val
      BY <1>1
    <3>4. \A i \in D \ Ends : \A v \in Val : after[<<i, v>>] \in Val
      BY <1>1
    <3> HIDE DEF D, n, Val, Ends, measure, base, next, after
    <3> QED
      BY <3>1, <3>2, <3>3, <3>4, RecursionExists DEF Recursion
  <2>3. PICK f \in [D -> Val] :
           \A i \in D : f[i] = IF i \in Ends THEN base[i] ELSE after[<<i, f[next[i]]>>]
    BY <2>2 DEF Solves
  <2>4. ASSUME NEW i \in D PROVE f[i] = Body(f, i)
    <3>1. CASE i = 1
      BY <2>3, <3>1
    <3>2. CASE i # 1
      <4>1. f[i - 1] \in Val /\ next[i] = i - 1
        BY <2>1, <2>3, <3>2
      <4>2. f[i] = after[<<i, f[i - 1]>>] /\ <<i, f[i - 1]>> \in (D \ Ends) \X Val
        BY <2>3, <3>2, <4>1
      <4> QED
        BY <3>2, <4>2
    <3> QED
      BY <3>1, <3>2
  <2>5. F = [i \in D |-> Body(F, i)]
    <3>1. f = [i \in D |-> Body(f, i)]
      BY <2>4
    <3> HIDE DEF D, Body
    <3> QED
      BY <3>1
  <2> DEFINE Gathers(i) == /\ F[i] \in Seq(S)
                           /\ \A j \in 1 .. i : ToSet(seqs[j]) \subseteq ToSet(F[i])
             G == {i \in D : Gathers(i)}
  <2> HIDE DEF F
  <2>6. ASSUME NEW x \in D, \A y \in D : y < x => Gathers(y)
        PROVE  Gathers(x)
    <3>1. CASE x = 1
      BY <1>1, <2>5, <3>1
    <3>2. CASE x # 1
      <4>1. F[x] = F[x - 1] \o seqs[x] /\ Gathers(x - 1)
        BY <2>1, <2>5, <2>6, <3>2
      <4>2. F[x - 1] \in Seq(S) /\ seqs[x] \in Seq(S)
        BY <1>1, <4>1
      <4>3. F[x] \in Seq(S) /\ ToSet(F[x]) = ToSet(F[x - 1]) \cup ToSet(seqs[x])
        BY <4>1, <4>2, Concatenated
      <4>4. \A j \in 1 .. x : j = x \/ j \in 1 .. x - 1
        BY <1>1
      <4> QED
        BY <4>1, <4>3, <4>4
    <3> QED
      BY <3>1, <3>2
  <2>7. D \subseteq G
    <3>1. \A x \in D : (\A y \in D : measure[y] < measure[x] => y \in G) => x \in G
      <4> HIDE DEF Gathers
      <4> QED
        BY <2>6
    <3>2. measure \in [D -> Nat]
      BY <1>1
    <3> HIDE DEF G, measure, D
    <3> QED
      BY <3>1, <3>2, ByMeasure
  <2>8. FlattenSeq(seqs) = F[n]
    BY <1>3 DEF FlattenSeq, F
  <2>9. n \in D
    BY <1>1, <1>3
  <2> HIDE DEF D
  <2> QED
    BY <2>7, <2>8, <2>9
<1> QED
  BY <1>2, <1>3

Chunks == [file : Sources, text : Text, first : Nat, last : Nat]

\* Every stretch of up to ChunkOverlap + 1 lines of a text, from a line after
\* the start on, lies whole in one of the chunks, unless it is blank.
CoveredFrom(start, chunks, f, text) ==
    \A first \in DOMAIN LinesOf[text] : first > start =>
       LET last == Min({first + ChunkOverlap, Len(LinesOf[text])})
       IN (\E i \in first..last : LinesOf[text][i]) =>
             \E chunk \in chunks : chunk.file = f /\ chunk.first <= first /\ last <= chunk.last

LEMMA InnerLine ==
    ASSUME NEW start \in Nat, NEW first \in Nat, NEW end \in Nat, start < first,
           NEW last \in first .. end, NEW i \in first .. last
    PROVE  i \in (start + 1) .. end
OBVIOUS

LEMMA MoreCovers ==
    ASSUME NEW start, NEW A, NEW B, NEW f, NEW text, A \subseteq B, CoveredFrom(start, A, f, text)
    PROVE  CoveredFrom(start, B, f, text)
BY DEF CoveredFrom

LEMMA WindowsCover ==
    ASSUME NEW f \in Sources, NEW text \in Text
    PROVE  /\ ChunkText(f, text) \in Seq(Chunks)
           /\ CoveredFrom(0, ToSet(ChunkText(f, text)), f, text)
<1> DEFINE lines == LinesOf[text]
           n == Len(lines)
           advance == Max({1, ChunkLines - ChunkOverlap})
           End(start) == Min({start + ChunkLines, n})
           Window(start) == IF \E i \in (start + 1)..End(start) : lines[i]
                            THEN <<Chunk(f, text, start + 1, End(start))>> ELSE <<>>
           Body(windows, start) ==
               IF start >= n THEN <<>>
               ELSE IF End(start) = n THEN Window(start)
               ELSE Window(start) \o windows[start + advance]
           F == CHOOSE windows : windows = [start \in Nat |-> Body(windows, start)]
           Val == Seq(Chunks)
           Ends == {start \in Nat : start >= n \/ End(start) = n}
           measure == [start \in Nat |-> IF start >= n THEN 0 ELSE n - start]
           base == [start \in Ends |-> IF start >= n THEN <<>> ELSE Window(start)]
           next == [start \in Nat \ Ends |-> start + advance]
           after == [xv \in (Nat \ Ends) \X Val |-> Window(xv[1]) \o xv[2]]
<1>1. /\ lines \in Seq(BOOLEAN) /\ n \in Nat /\ DOMAIN lines = 1 .. n
      /\ ChunkLines \in Nat \ {0} /\ ChunkOverlap \in Nat /\ ChunkOverlap < ChunkLines
  BY SemanticIndexAssumption
<1>2. advance = ChunkLines - ChunkOverlap /\ advance \in Nat \ {0}
  BY <1>1, MaxOfTwo
<1> HIDE DEF advance, lines, n
<1>3. ASSUME NEW start \in Nat
      PROVE  /\ End(start) = IF start + ChunkLines <= n THEN start + ChunkLines ELSE n
             /\ End(start) \in Nat
  BY <1>1, MinOfTwo
<1> HIDE DEF End
<1>4. ASSUME NEW start \in Nat PROVE Window(start) \in Val
  <2>1. Chunk(f, text, start + 1, End(start)) \in Chunks
    BY <1>3 DEF Chunk, Chunks
  <2> QED
    BY <2>1
<1>5. ASSUME NEW start \in Nat \ Ends
      PROVE  /\ start + advance \in Nat /\ start < n /\ start + ChunkLines < n
             /\ End(start) = start + ChunkLines /\ start + advance < n
  BY <1>1, <1>2, <1>3
<1>6. \E g : Solves(g, Nat, Val, Ends, base, next, after)
  <2>1. measure \in [Nat -> 0 .. n] /\ n \in Nat
    BY <1>1
  <2>2. \A x \in Nat \ Ends : next[x] \in Nat /\ measure[next[x]] < measure[x]
    <3> TAKE x \in Nat \ Ends
    <3>1. next[x] = x + advance /\ x + advance \in Nat /\ x < n /\ x + advance < n
      BY <1>5
    <3>2. measure[x] = n - x /\ measure[x + advance] = n - (x + advance)
      BY <1>1, <3>1
    <3> HIDE DEF next, measure
    <3> QED
      BY <1>1, <1>2, <3>1, <3>2
  <2>3. \A x \in Nat \cap Ends : base[x] \in Val
    <3> HIDE DEF Window
    <3> QED
      BY <1>4
  <2>4. \A x \in Nat \ Ends : \A v \in Val : after[<<x, v>>] \in Val
    <3> HIDE DEF Window
    <3> QED
      BY <1>4
  <2> HIDE DEF Val, Ends, measure, base, next, after
  <2> QED
    BY <2>1, <2>2, <2>3, <2>4, RecursionExists DEF Recursion
<1>7. PICK g \in [Nat -> Val] :
         \A x \in Nat : g[x] = IF x \in Ends THEN base[x] ELSE after[<<x, g[next[x]]>>]
  BY <1>6 DEF Solves
<1> HIDE DEF Window
<1>8. ASSUME NEW x \in Nat PROVE g[x] = Body(g, x)
  <2>1. CASE x \in Ends
    BY <1>7, <2>1
  <2>2. CASE x \notin Ends
    <3>1. g[x + advance] \in Val /\ next[x] = x + advance
      BY <1>5, <1>7, <2>2
    <3>2. g[x] = after[<<x, g[x + advance]>>] /\ <<x, g[x + advance]>> \in (Nat \ Ends) \X Val
      BY <1>7, <2>2, <3>1
    <3> QED
      BY <2>2, <3>2
  <2> QED
    BY <2>1, <2>2
<1>9. F = [x \in Nat |-> Body(F, x)]
  <2>1. g = [x \in Nat |-> Body(g, x)]
    BY <1>8
  <2> HIDE DEF Body
  <2> QED
    BY <2>1
<1> HIDE DEF F
<1> DEFINE Covers(x) == F[x] \in Seq(Chunks) /\ CoveredFrom(x, ToSet(F[x]), f, text)
           G == {x \in Nat : Covers(x)}
<1>10. ASSUME NEW start \in Nat, start < n, NEW first \in 1 .. n, first > start,
              NEW last \in first .. End(start), \E i \in first .. last : lines[i]
       PROVE  \E chunk \in ToSet(Window(start)) :
                 chunk.file = f /\ chunk.first <= first /\ last <= chunk.last
  <2> DEFINE chunk == Chunk(f, text, start + 1, End(start))
  <2>1. \E i \in (start + 1)..End(start) : lines[i]
    <3> SUFFICES ASSUME NEW i \in first .. last, lines[i]
                 PROVE  \E j \in (start + 1)..End(start) : lines[j]
      BY <1>10
    <3>1. End(start) \in Nat /\ first \in Nat
      BY <1>1, <1>3
    <3>2. start < first
      BY <1>10, <3>1
    <3>3. i \in (start + 1)..End(start)
      BY <3>1, <3>2, InnerLine
    <3> QED
      BY <3>3
  <2>2. chunk \in ToSet(Window(start))
    <3>1. Window(start) = <<chunk>>
      BY <2>1 DEF Window
    <3> HIDE DEF chunk
    <3>2. DOMAIN <<chunk>> = 1 .. 1 /\ <<chunk>>[1] = chunk
      OBVIOUS
    <3> QED
      BY <3>1, <3>2 DEF ToSet
  <2>3. chunk.file = f /\ chunk.first <= first /\ last <= chunk.last
    BY <1>1, <1>3, <1>10 DEF Chunk
  <2> QED
    BY <2>2, <2>3
<1>11. ASSUME NEW x \in Nat, \A y \in Nat : measure[y] < measure[x] => Covers(y)
       PROVE  Covers(x)
  <2>1. CASE x >= n
    <3>1. F[x] = <<>>
      BY <1>9, <2>1
    <3>2. CoveredFrom(x, ToSet(F[x]), f, text)
      BY <1>1, <2>1 DEF CoveredFrom, lines
    <3> QED
      BY <3>1, <3>2
  <2>2. CASE x < n /\ End(x) = n
    <3>1. F[x] = Window(x)
      BY <1>1, <1>9, <2>2
    <3>2. ASSUME NEW first \in 1 .. n, first > x
          PROVE  Min({first + ChunkOverlap, n}) \in first .. End(x)
      <4>1. first + ChunkOverlap \in Int /\ n \in Int
        BY <1>1
      <4>2. Min({first + ChunkOverlap, n}) =
              IF first + ChunkOverlap <= n THEN first + ChunkOverlap ELSE n
        BY <4>1, MinOfTwo
      <4> QED
        BY <1>1, <2>2, <4>2
    <3>3. CoveredFrom(x, ToSet(F[x]), f, text)
      <4> SUFFICES ASSUME NEW first \in 1 .. n, first > x,
                          \E i \in first .. Min({first + ChunkOverlap, n}) : lines[i]
                   PROVE  \E chunk \in ToSet(Window(x)) :
                             /\ chunk.file = f /\ chunk.first <= first
                             /\ Min({first + ChunkOverlap, n}) <= chunk.last
        BY <1>1, <3>1 DEF CoveredFrom, lines, n
      <4> QED
        BY <1>10, <2>2, <3>2
    <3> QED
      BY <1>4, <3>1, <3>3
  <2>3. CASE x < n /\ End(x) # n
    <3>1. x \in Nat \ Ends
      BY <1>1, <2>3
    <3>2. /\ F[x] = Window(x) \o F[x + advance]
          /\ x + advance \in Nat /\ x + advance < n /\ End(x) = x + ChunkLines /\ x + ChunkLines < n
      BY <1>1, <1>5, <1>9, <2>3, <3>1
    <3>3. Covers(x + advance)
      <4>1. measure[x] = n - x /\ measure[x + advance] = n - (x + advance)
        BY <1>1, <2>3, <3>2
      <4>2. measure[x + advance] < measure[x]
        BY <1>1, <1>2, <3>2, <4>1
      <4> HIDE DEF Covers
      <4> QED
        BY <1>11, <3>2, <4>2
    <3>4. F[x] \in Seq(Chunks) /\ ToSet(F[x]) = ToSet(Window(x)) \cup ToSet(F[x + advance])
      <4>1. Window(x) \in Seq(Chunks) /\ F[x + advance] \in Seq(Chunks)
        BY <1>4, <3>3
      <4>2. /\ Window(x) \o F[x + advance] \in Seq(Chunks)
            /\ ToSet(Window(x) \o F[x + advance]) = ToSet(Window(x)) \cup ToSet(F[x + advance])
        BY <4>1, Concatenated
      <4> QED
        BY <3>2, <4>2
    <3>5. ASSUME NEW first \in 1 .. n, first > x, ~(first > x + advance)
          PROVE  Min({first + ChunkOverlap, n}) \in first .. End(x)
      <4>1. Min({first + ChunkOverlap, n}) =
              IF first + ChunkOverlap <= n THEN first + ChunkOverlap ELSE n
        <5>1. first + ChunkOverlap \in Int /\ n \in Int
          BY <1>1
        <5> QED
          BY <5>1, MinOfTwo
      <4>2. CASE first + ChunkOverlap <= n
        BY <1>1, <1>2, <3>2, <3>5, <4>1, <4>2
      <4>3. CASE ~(first + ChunkOverlap <= n)
        BY <1>1, <1>2, <3>2, <3>5, <4>1, <4>3
      <4> QED
        BY <4>2, <4>3
    <3>6. CoveredFrom(x, ToSet(F[x]), f, text)
      <4> SUFFICES ASSUME NEW first \in 1 .. n, first > x,
                          \E i \in first .. Min({first + ChunkOverlap, n}) : lines[i]
                   PROVE  \E chunk \in ToSet(F[x]) :
                             /\ chunk.file = f /\ chunk.first <= first
                             /\ Min({first + ChunkOverlap, n}) <= chunk.last
        BY <1>1 DEF CoveredFrom, lines, n
      <4>1. CASE first > x + advance
        <5>1. CoveredFrom(x + advance, ToSet(F[x + advance]), f, text)
          BY <3>3
        <5>2. \E chunk \in ToSet(F[x + advance]) :
                 /\ chunk.file = f /\ chunk.first <= first
                 /\ Min({first + ChunkOverlap, n}) <= chunk.last
          BY <1>1, <4>1, <5>1 DEF CoveredFrom, lines, n
        <5> QED
          BY <3>4, <5>2
      <4>2. CASE ~(first > x + advance)
        <5>1. \E chunk \in ToSet(Window(x)) :
                 /\ chunk.file = f /\ chunk.first <= first
                 /\ Min({first + ChunkOverlap, n}) <= chunk.last
          BY <1>10, <2>3, <3>5, <4>2
        <5> QED
          BY <3>4, <5>1
      <4> QED
        BY <4>1, <4>2
    <3> QED
      BY <3>4, <3>6
  <2> QED
    BY <1>1, <2>1, <2>2, <2>3
<1>12. Nat \subseteq G
  <2>1. \A x \in Nat : (\A y \in Nat : measure[y] < measure[x] => y \in G) => x \in G
    <3> HIDE DEF Covers, measure
    <3> QED
      BY <1>11
  <2>2. measure \in [Nat -> Nat]
    BY <1>1
  <2> HIDE DEF G, measure
  <2> QED
    BY <2>1, <2>2, ByMeasure
<1>13. ChunkText(f, text) = F[0]
  BY DEF ChunkText, F, Window, End, advance, lines, n
<1> QED
  BY <1>12, <1>13

-----------------------------------------------------------------------------
(* The semantic index: builds, searches and the table. *)

Rowset == [chunk : Chunks, vector : Chunks]
Tables == [id : Nat, rows : Seq(Rowset), texts : Texts]
BuildJobs ==
    [step : {"read", "embed", "drop", "create"}, id : Nat, todo : Seq(Sources),
     texts : Texts, chunks : Seq(Chunks), start : Nat, vectors : Seq(Chunks)]
SearchJobs == [step : {"query"}, id : Nat]

CoversAll(chunks, texts) == \A f \in DOMAIN texts : CoveredFrom(0, chunks, f, texts[f])

\* A build has the chunks of what it has read, and the vectors of those it has
\* embedded: all of them when it comes to the table.
BuildGood(job) ==
    /\ job.id > 0
    /\ job.step = "read" <=> job.todo # <<>>
    /\ job.step = "read" => job.start = 0
    /\ job.step # "read" => job.chunks # <<>>
    /\ Len(job.vectors) = IF job.start <= Len(job.chunks) THEN job.start ELSE Len(job.chunks)
    /\ \A i \in 1 .. Len(job.vectors) : job.vectors[i] = job.chunks[i]
    /\ job.step \in {"drop", "create"} => Len(job.vectors) = Len(job.chunks)
    /\ CoversAll(ToSet(job.chunks), job.texts)

IndexJobGood(job) ==
    /\ job \in BuildJobs \cup SearchJobs \cup {Idle}
    /\ job \in BuildJobs => BuildGood(job)
    /\ job \in SearchJobs => job.id > 0

TableGood(t) ==
    t # NoTable =>
       /\ t \in Tables /\ t.id > 0 /\ t.rows # <<>>
       /\ \A i \in DOMAIN t.rows : t.rows[i].vector = t.rows[i].chunk
       /\ CoversAll({t.rows[i].chunk : i \in DOMAIN t.rows}, t.texts)

\* Nothing found has a reason.
Explained(one) == one.hits = 0 => one.reason # "found"

IndexPart(t, job, answers) ==
    /\ TableGood(t)
    /\ DOMAIN job = Process /\ \A p \in Process : IndexJobGood(job[p])
    /\ DOMAIN answers = Process /\ \A p \in Process : Explained(answers[p])

IndexInv == IndexPart(table, indexJob, answer)

LEMMA IndexJobReplaced ==
    ASSUME NEW t, NEW old, NEW new, NEW answers, IndexPart(t, old, answers),
           NEW p \in Process, NEW job, IndexJobGood(job), new = [old EXCEPT ![p] = job]
    PROVE  IndexPart(t, new, answers)
<1>1. DOMAIN old = Process
  BY DEF IndexPart
<1>2. DOMAIN new = Process /\ \A q \in Process : new[q] = IF q = p THEN job ELSE old[q]
  BY <1>1
<1> QED
  BY <1>2 DEF IndexPart

LEMMA AnswerReplaced ==
    ASSUME NEW t, NEW jobs0, NEW old, NEW new, IndexPart(t, jobs0, old),
           NEW p \in Process, NEW one, Explained(one), new = [old EXCEPT ![p] = one]
    PROVE  IndexPart(t, jobs0, new)
<1>1. DOMAIN old = Process
  BY DEF IndexPart
<1>2. DOMAIN new = Process /\ \A q \in Process : new[q] = IF q = p THEN one ELSE old[q]
  BY <1>1
<1> QED
  BY <1>2 DEF IndexPart

LEMMA TableReplaced ==
    ASSUME NEW t, NEW u, NEW jobs0, NEW answers, IndexPart(t, jobs0, answers), TableGood(u)
    PROVE  IndexPart(u, jobs0, answers)
BY DEF IndexPart

LEMMA KindsOfJobs ==
    ASSUME NEW job, IndexJobGood(job)
    PROVE  /\ job.step \in {"read", "embed", "drop", "create"} => job \in BuildJobs /\ BuildGood(job)
           /\ job.step = "query" => job \in SearchJobs /\ job.id \in Nat /\ job.id > 0
           /\ job.step \in {"read", "embed", "drop", "create", "query"} => job # Idle
           /\ job.step \in {"idle", "read", "embed", "drop", "create", "query"}
BY DEF IndexJobGood, BuildJobs, SearchJobs, Idle

LEMMA IdleIsGood == IndexJobGood(Idle)
BY DEF IndexJobGood, BuildJobs, SearchJobs, Idle

LEMMA BuildIsGood ==
    ASSUME NEW job \in BuildJobs, BuildGood(job)
    PROVE  IndexJobGood(job)
BY DEF IndexJobGood, BuildJobs, SearchJobs

\* Reading a file adds its chunks.
LEMMA ReadKeeps ==
    ASSUME NEW job \in BuildJobs, BuildGood(job), job.step = "read",
           NEW text \in Text
    PROVE  LET f == Head(job.todo)
               chunks == job.chunks \o ChunkText(f, text)
               texts == Updated(job.texts, f, text)
           IN /\ chunks \in Seq(Chunks) /\ texts \in Texts
              /\ CoversAll(ToSet(chunks), texts)
<1> DEFINE f == Head(job.todo)
           chunks == job.chunks \o ChunkText(f, text)
           texts == Updated(job.texts, f, text)
<1>1. f \in Sources /\ job.chunks \in Seq(Chunks) /\ job.texts \in Texts
      /\ CoversAll(ToSet(job.chunks), job.texts)
  <2>1. job.todo \in Seq(Sources) /\ job.todo # <<>> /\ job.chunks \in Seq(Chunks) /\ job.texts \in Texts
    BY DEF BuildGood, BuildJobs
  <2> QED
    BY <2>1, HeadAndTail DEF BuildGood
<1> HIDE DEF f
<1>2. ChunkText(f, text) \in Seq(Chunks) /\ CoveredFrom(0, ToSet(ChunkText(f, text)), f, text)
  BY <1>1, WindowsCover
<1>3. /\ chunks \in Seq(Chunks)
      /\ ToSet(chunks) = ToSet(job.chunks) \cup ToSet(ChunkText(f, text))
  BY <1>1, <1>2, Concatenated
<1> HIDE DEF chunks
<1>4. texts \in Texts
  <2>1. job.texts \in Partial(Sources, Text)
    BY <1>1 DEF Texts
  <2>2. texts \in Partial(Sources, Text)
    BY <1>1, <2>1, Inserted
  <2> QED
    BY <2>2 DEF Texts
<1>5. /\ DOMAIN texts = DOMAIN job.texts \cup {f} /\ texts[f] = text
      /\ \A g \in DOMAIN job.texts : g # f => texts[g] = job.texts[g]
  BY DEF Updated
<1> HIDE DEF texts
<1>6. CoveredFrom(0, ToSet(chunks), f, text)
  BY <1>2, <1>3, MoreCovers
<1>7. ASSUME NEW g \in DOMAIN job.texts, g # f
      PROVE  CoveredFrom(0, ToSet(chunks), g, texts[g])
  <2>1. CoveredFrom(0, ToSet(job.chunks), g, job.texts[g])
    BY <1>1 DEF CoversAll
  <2>2. CoveredFrom(0, ToSet(chunks), g, job.texts[g])
    BY <1>3, <2>1, MoreCovers
  <2> QED
    BY <1>5, <1>7, <2>2
<1>8. CoversAll(ToSet(chunks), texts)
  BY <1>5, <1>6, <1>7 DEF CoversAll
<1> QED
  BY <1>3, <1>4, <1>8 DEF chunks, texts, f

\* What has been read may be less than what was to be read, but not the chunks.
LEMMA AfterRead ==
    ASSUME NEW job \in BuildJobs, BuildGood(job), job.step = "read",
           NEW read \in BuildJobs, read.todo = Tail(job.todo),
           read.step = "read", read.id = job.id, read.start = job.start, read.vectors = job.vectors,
           CoversAll(ToSet(read.chunks), read.texts)
    PROVE  /\ read.todo # <<>> => IndexJobGood(read)
           /\ (read.todo = <<>> /\ read.chunks # <<>>) => IndexJobGood([read EXCEPT !.step = "embed"])
<1> DEFINE done == [read EXCEPT !.step = "embed"]
<1>1. Tail(job.todo) \in Seq(Sources) /\ Len(read.chunks) \in Nat
  <2>1. job.todo \in Seq(Sources) /\ job.todo # <<>> /\ read.chunks \in Seq(Chunks)
    BY DEF BuildGood, BuildJobs
  <2> QED
    BY <2>1
<1>2. job.start = 0 /\ Len(job.vectors) = 0 /\ job.id > 0
  <2>1. Len(job.chunks) \in Nat /\ job.start = 0
    BY DEF BuildJobs, BuildGood
  <2> QED
    BY <2>1 DEF BuildGood
<1>3. /\ done \in BuildJobs /\ done.step = "embed" /\ done.id = job.id /\ done.todo = Tail(job.todo)
      /\ done.texts = read.texts /\ done.chunks = read.chunks /\ done.start = job.start
      /\ done.vectors = job.vectors
  BY DEF BuildJobs
<1> HIDE DEF done
<1>4. read.todo # <<>> => BuildGood(read)
  BY <1>1, <1>2 DEF BuildGood
<1>5. ASSUME read.todo = <<>>, read.chunks # <<>> PROVE BuildGood(done)
  <2>1. done.todo = <<>> /\ done.step = "embed" /\ done.id > 0 /\ done.chunks # <<>>
    BY <1>2, <1>3, <1>5
  <2>2. Len(done.vectors) = 0 /\ done.start = 0 /\ Len(done.chunks) \in Nat
    BY <1>1, <1>2, <1>3
  <2>3. CoversAll(ToSet(done.chunks), done.texts)
    BY <1>3
  <2> QED
    BY <2>1, <2>2, <2>3 DEF BuildGood
<1> QED
  BY <1>3, <1>4, <1>5, BuildIsGood DEF done

\* A batch adds the vectors of its chunks.
LEMMA BatchKeeps ==
    ASSUME NEW job \in BuildJobs, BuildGood(job), job.step = "embed"
    PROVE  LET done == [job EXCEPT !.vectors = @ \o Batch(job.chunks, job.start),
                                   !.start = @ + BatchSize]
           IN IndexJobGood([done EXCEPT !.step = AfterBatch(done)])
<1> DEFINE c == job.chunks
           n == Len(c)
           s == job.start
           e == IF s + BatchSize <= n THEN s + BatchSize ELSE n
           batch == Batch(c, s)
           vectors == job.vectors \o batch
           done == [job EXCEPT !.vectors = vectors, !.start = s + BatchSize]
           next == [done EXCEPT !.step = AfterBatch(done)]
           m == Len(job.vectors)
<1>1. /\ c \in Seq(Chunks) /\ n \in Nat /\ s \in Nat /\ job.vectors \in Seq(Chunks) /\ c # <<>>
      /\ BatchSize \in Nat \ {0} /\ s + BatchSize \in Nat /\ e \in Nat
      /\ m = IF s <= n THEN s ELSE n
      /\ \A i \in 1 .. m : job.vectors[i] = c[i]
      /\ DOMAIN c = 1 .. n /\ \A i \in 1 .. n : c[i] \in Chunks
      /\ job.todo = <<>>
  BY SemanticIndexAssumption DEF BuildJobs, BuildGood
<1> HIDE DEF c, n, s, m
<1>2. Batch(c, s) = SubSeq(c, s + 1, e)
  <2>1. s + BatchSize \in Int /\ n \in Int
    BY <1>1
  <2>2. Min({s + BatchSize, n}) = e
    BY <2>1, MinOfTwo
  <2> QED
    BY <2>2 DEF Batch, n
<1>3. /\ batch \in Seq(Chunks)
      /\ Len(batch) = IF s + 1 <= e THEN e - s ELSE 0
      /\ \A i \in 1 .. Len(batch) : batch[i] = c[s + i]
  <2>1. \A i \in s + 1 .. e : c[i] \in Chunks
    BY <1>1
  <2>2. /\ SubSeq(c, s + 1, e) \in Seq(Chunks)
        /\ Len(SubSeq(c, s + 1, e)) = IF s + 1 <= e THEN e - (s + 1) + 1 ELSE 0
        /\ \A i \in 1 .. e - (s + 1) + 1 : SubSeq(c, s + 1, e)[i] = c[(s + 1) + i - 1]
    <3> HIDE DEF e
    <3>1. s + 1 \in Int /\ e \in Int
      BY <1>1
    <3> QED
      BY <2>1, <3>1, SubSeqProperties
  <2> HIDE DEF e
  <2>3. /\ e - (s + 1) + 1 = e - s /\ \A i \in Nat : (s + 1) + i - 1 = s + i
        /\ \A i \in 1 .. Len(batch) : i \in Nat
    BY <1>1, <1>2, <2>2
  <2>4. ASSUME NEW i \in 1 .. Len(batch) PROVE batch[i] = c[s + i]
    <3>1. i \in 1 .. e - (s + 1) + 1
      BY <1>1, <1>2, <2>2
    <3> QED
      BY <1>2, <2>2, <2>3, <3>1
  <2> QED
    BY <1>2, <2>2, <2>3, <2>4
<1> HIDE DEF batch
<1>4. m + Len(batch) = e /\ m \in Nat /\ Len(batch) \in Nat /\ (Len(batch) > 0 => m = s)
  <2> DEFINE k == Len(batch)
  <2>1. /\ k = IF s + 1 <= e THEN e - s ELSE 0
        /\ n \in Nat /\ s \in Nat /\ BatchSize \in Nat \ {0}
        /\ m = IF s <= n THEN s ELSE n
    BY <1>1, <1>3
  <2> HIDE DEF k
  <2>2. m + k = e /\ m \in Nat /\ k \in Nat /\ (k > 0 => m = s)
    <3>1. CASE s < n
      <4>1. s + 1 <= e /\ m = s /\ e \in Nat
        BY <2>1, <3>1
      <4> HIDE DEF e
      <4> QED
        BY <2>1, <4>1
    <3>2. CASE ~(s < n)
      <4>1. e = n /\ m = n /\ ~(s + 1 <= e)
        BY <2>1, <3>2
      <4> HIDE DEF e
      <4> QED
        BY <2>1, <4>1
    <3> QED
      BY <3>1, <3>2
  <2> QED
    BY <2>2 DEF k
<1>5. /\ vectors \in Seq(Chunks) /\ Len(vectors) = e
      /\ \A i \in 1 .. m : vectors[i] = job.vectors[i]
      /\ \A i \in 1 .. Len(batch) : vectors[m + i] = batch[i]
  <2>1. job.vectors \in Seq(Chunks) /\ batch \in Seq(Chunks)
    BY <1>1, <1>3
  <2>2. /\ vectors \in Seq(Chunks) /\ Len(vectors) = Len(job.vectors) + Len(batch)
        /\ \A i \in 1 .. Len(job.vectors) : vectors[i] = job.vectors[i]
        /\ \A i \in 1 .. Len(batch) : vectors[Len(job.vectors) + i] = batch[i]
    BY <2>1, Concatenated
  <2> HIDE DEF vectors, e
  <2> QED
    BY <1>4, <2>2 DEF m
<1> HIDE DEF vectors
<1>6. ASSUME NEW i \in 1 .. e PROVE vectors[i] = c[i]
  <2>1. CASE i <= m
    BY <1>1, <1>4, <1>5, <2>1
  <2>2. CASE ~(i <= m)
    <3>1. i - m \in 1 .. Len(batch) /\ i = m + (i - m) /\ m = s
      BY <1>1, <1>4, <2>2
    <3>2. vectors[m + (i - m)] = batch[i - m] /\ batch[i - m] = c[s + (i - m)]
      BY <1>3, <1>5, <3>1
    <3> QED
      BY <3>1, <3>2
  <2> QED
    BY <2>1, <2>2
<1>7. /\ done \in BuildJobs /\ done.id = job.id /\ done.todo = job.todo /\ done.step = job.step
      /\ done.texts = job.texts /\ done.chunks = c /\ done.start = s + BatchSize
      /\ done.vectors = vectors
  BY <1>1, <1>5 DEF BuildJobs, c
<1> HIDE DEF done
<1>8. AfterBatch(done) = IF s + BatchSize >= n THEN "drop" ELSE "embed"
  BY <1>7 DEF AfterBatch, n
<1>9. /\ next \in BuildJobs /\ next.id = job.id /\ next.todo = job.todo
      /\ next.step = AfterBatch(done)
      /\ next.texts = job.texts /\ next.chunks = c /\ next.start = s + BatchSize
      /\ next.vectors = vectors
  BY <1>7, <1>8 DEF BuildJobs
<1> HIDE DEF next
<1>10. next.step \in {"drop", "embed"} /\ (next.step = "drop" => e = n)
  BY <1>1, <1>8, <1>9
<1>11. CoversAll(ToSet(c), job.texts) /\ job.id > 0
  BY DEF BuildGood, c
<1>12. Len(next.vectors) = IF next.start <= Len(next.chunks) THEN next.start ELSE Len(next.chunks)
  BY <1>5, <1>9 DEF n
<1>13. Len(next.vectors) = e /\ \A i \in 1 .. Len(next.vectors) : next.vectors[i] = next.chunks[i]
  BY <1>5, <1>6, <1>9
<1> HIDE DEF e
<1>14. BuildGood(next)
  BY <1>1, <1>9, <1>10, <1>11, <1>12, <1>13 DEF BuildGood, n
<1> QED
  BY <1>9, <1>14, BuildIsGood DEF next, done, vectors, batch, s, c

LEMMA Ended ==
    ASSUME NEW t, IndexPart(t, indexJob, answer), NEW p \in Process, NEW hits, NEW reason,
           EndJob(p, hits, reason), hits = 0 => reason # "found"
    PROVE  IndexPart(t, indexJob', answer')
<1> DEFINE one == [hits |-> hits, reason |-> reason]
<1>1. indexJob' = [indexJob EXCEPT ![p] = Idle] /\ answer' = [answer EXCEPT ![p] = one]
  BY DEF EndJob
<1>2. Explained(one)
  BY DEF Explained
<1> HIDE DEF one
<1>3. IndexPart(t, indexJob', answer)
  BY <1>1, IdleIsGood, IndexJobReplaced
<1> QED
  BY <1>1, <1>2, <1>3, AnswerReplaced

LEMMA Continued ==
    ASSUME NEW t, IndexPart(t, indexJob, answer), NEW p \in Process, NEW job,
           Continue(p, job), IndexJobGood(job)
    PROVE  IndexPart(t, indexJob', answer')
<1>1. indexJob' = [indexJob EXCEPT ![p] = job] /\ answer' = answer
  BY DEF Continue
<1>2. IndexPart(t, indexJob', answer)
  BY <1>1, IndexJobReplaced
<1> QED
  BY <1>1, <1>2

LEMMA NewTableGood ==
    ASSUME NEW job \in BuildJobs, BuildGood(job), job.step = "create"
    PROVE  TableGood([id |-> job.id, rows |-> Rows(job), texts |-> job.texts])
<1> DEFINE n == Len(job.chunks)
           rows == Rows(job)
           t == [id |-> job.id, rows |-> rows, texts |-> job.texts]
<1>1. /\ job.chunks \in Seq(Chunks) /\ job.chunks # <<>> /\ n \in Nat \ {0}
      /\ DOMAIN job.chunks = 1 .. n /\ \A i \in 1 .. n : job.chunks[i] \in Chunks
      /\ Len(job.vectors) = n /\ \A i \in 1 .. n : job.vectors[i] = job.chunks[i]
      /\ job.id \in Nat /\ job.id > 0 /\ job.texts \in Texts
      /\ CoversAll(ToSet(job.chunks), job.texts)
  BY DEF BuildJobs, BuildGood
<1>2. rows = [i \in 1 .. n |-> [chunk |-> job.chunks[i], vector |-> job.vectors[i]]]
  <2>1. Min({Len(job.chunks), Len(job.vectors)}) = n
    BY <1>1, MinOfTwo
  <2> QED
    BY <2>1 DEF Rows
<1> HIDE DEF n, rows
<1>3. rows \in [1 .. n -> Rowset]
  BY <1>1, <1>2 DEF Rowset
<1>4. rows \in Seq(Rowset) /\ DOMAIN rows = 1 .. n /\ rows # <<>>
  <2>1. rows \in Seq(Rowset)
    BY <1>1, <1>3, SeqDef
  <2> QED
    BY <1>1, <1>3, <2>1
<1>5. \A i \in 1 .. n : rows[i].chunk = job.chunks[i] /\ rows[i].vector = rows[i].chunk
  BY <1>1, <1>2
<1>6. {rows[i].chunk : i \in DOMAIN rows} = ToSet(job.chunks)
  <2>1. ToSet(job.chunks) = {job.chunks[i] : i \in 1 .. n}
    BY <1>1 DEF ToSet
  <2> QED
    BY <1>4, <1>5, <2>1
<1>7. t \in Tables /\ t.id > 0
  BY <1>1, <1>4 DEF Tables
<1>8. /\ t.rows # <<>> /\ \A i \in DOMAIN t.rows : t.rows[i].vector = t.rows[i].chunk
      /\ CoversAll({t.rows[i].chunk : i \in DOMAIN t.rows}, t.texts)
  BY <1>1, <1>4, <1>5, <1>6
<1> HIDE DEF t
<1>9. TableGood(t)
  BY <1>7, <1>8 DEF TableGood
<1> QED
  BY <1>9 DEF t, rows

LEMMA BegunBuildGood ==
    ASSUME NEW id \in Nat, id > 0, NEW todo \in Seq(Sources), todo # <<>>
    PROVE  IndexJobGood([step |-> "read", id |-> id, todo |-> todo, texts |-> Empty,
                         chunks |-> <<>>, start |-> 0, vectors |-> <<>>])
<1> DEFINE job == [step |-> "read", id |-> id, todo |-> todo, texts |-> Empty,
                   chunks |-> <<>>, start |-> 0, vectors |-> <<>>]
<1>1. job \in BuildJobs
  BY EmptyIsPartial DEF BuildJobs
<1>2. BuildGood(job)
  <2>1. CoversAll(ToSet(job.chunks), job.texts)
    BY EmptyIsPartial DEF CoversAll
  <2>2. Len(<<>>) = 0
    OBVIOUS
  <2> QED
    BY <2>1, <2>2 DEF BuildGood
<1> HIDE DEF job
<1>3. IndexJobGood(job)
  BY <1>1, <1>2, BuildIsGood
<1> QED
  BY <1>3 DEF job

LEMMA IndexStepKeeps ==
    ASSUME FilesInv, IndexInv, NEW p \in Process, IndexStep(p)
    PROVE  IndexPart(table', indexJob', answer')
<1> DEFINE job == indexJob[p]
           f == Head(job.todo)
<1>0. /\ IndexPart(table, indexJob, answer) /\ TableGood(table) /\ IndexJobGood(job)
      /\ jobs \in Nat
  BY SourceFilesAssumption DEF IndexInv, IndexPart, FilesInv, FilesTypeOK
<1> HIDE DEF job
<1>1. CASE BeginIndex(p)
  <2>1. table' = table
    BY <1>1 DEF BeginIndex
  <2>2. CASE Discover = <<>>
    <3>1. EndJob(p, 0, "no source files")
      BY <1>1, <2>2 DEF BeginIndex
    <3>2. IndexPart(table, indexJob', answer')
      BY <1>0, <3>1, Ended
    <3> QED
      BY <2>1, <3>2
  <2>3. CASE Discover # <<>>
    <3> DEFINE new == [step |-> "read", id |-> jobs + 1, todo |-> Discover, texts |-> Empty,
                       chunks |-> <<>>, start |-> 0, vectors |-> <<>>]
    <3>1. Continue(p, new)
      BY <1>1, <2>3 DEF BeginIndex
    <3>2. IndexJobGood(new)
      <4>1. jobs + 1 \in Nat /\ jobs + 1 > 0 /\ Discover \in Seq(Sources)
        BY <1>0, DiscoverFinds DEF Sources
      <4> QED
        BY <2>3, <4>1, BegunBuildGood
    <3> HIDE DEF new
    <3>3. IndexPart(table, indexJob', answer')
      BY <1>0, <3>1, <3>2, Continued
    <3> QED
      BY <2>1, <3>3
  <2> QED
    BY <2>2, <2>3
<1>2. CASE ReadChunks(p)
  <2>1. job.step = "read" /\ table' = table
    BY <1>2 DEF ReadChunks, job
  <2>2. /\ job \in BuildJobs /\ BuildGood(job) /\ job.todo # <<>>
        /\ job.chunks \in Seq(Chunks) /\ job.texts \in Texts /\ CoversAll(ToSet(job.chunks), job.texts)
    <3>1. job \in BuildJobs /\ BuildGood(job)
      BY <1>0, <2>1, KindsOfJobs
    <3> QED
      BY <2>1, <3>1 DEF BuildJobs, BuildGood
  <2> DEFINE chunks == IF Exists(f) THEN job.chunks \o ChunkText(f, files[f].text) ELSE job.chunks
             texts == IF Exists(f) THEN Updated(job.texts, f, files[f].text) ELSE job.texts
             read == [job EXCEPT !.todo = Tail(@), !.chunks = chunks, !.texts = texts]
             told == IF Exists(f)
                     THEN [job EXCEPT !.todo = Tail(@), !.chunks = @ \o ChunkText(f, files[f].text),
                                      !.texts = Updated(@, f, files[f].text)]
                     ELSE [job EXCEPT !.todo = Tail(@)]
  <2>3. told = read
    <3>1. CASE Exists(f)
      BY <3>1
    <3>2. CASE ~Exists(f)
      <4>1. [job EXCEPT !.todo = Tail(@)] =
              [job EXCEPT !.todo = Tail(@), !.chunks = job.chunks, !.texts = job.texts]
        BY <2>2 DEF BuildJobs
      <4> QED
        BY <3>2, <4>1
    <3> QED
      BY <3>1, <3>2
  <2>4. /\ IF told.todo # <<>> THEN Continue(p, told)
           ELSE IF AfterReading(told) = "embed" THEN Continue(p, [told EXCEPT !.step = "embed"])
           ELSE EndJob(p, 0, "no content")
    BY <1>2 DEF ReadChunks, job
  <2> HIDE DEF told
  <2>5. chunks \in Seq(Chunks) /\ texts \in Texts /\ CoversAll(ToSet(chunks), texts)
    <3>1. CASE Exists(f)
      <4>1. f \in Paths
        <5>1. job.todo \in Seq(Sources)
          BY <2>2 DEF BuildJobs
        <5> QED
          BY <2>2, <5>1, HeadAndTail, SourcesArePaths
      <4>2. files[f].text \in Text
        BY <3>1, <4>1, WorldIs DEF FilesInv, FilesKnown, World, Files, Exists
      <4> QED
        BY <2>1, <2>2, <3>1, <4>2, ReadKeeps
    <3>2. CASE ~Exists(f)
      BY <2>2, <3>2
    <3> QED
      BY <3>1, <3>2
  <2> HIDE DEF chunks, texts
  <2>6. /\ read.chunks = chunks
        /\ read.todo # <<>> => IndexJobGood(read)
        /\ (read.todo = <<>> /\ chunks # <<>>) => IndexJobGood([read EXCEPT !.step = "embed"])
    <3>1. /\ read \in BuildJobs /\ read.todo = Tail(job.todo) /\ read.step = job.step
          /\ read.id = job.id /\ read.start = job.start /\ read.vectors = job.vectors
          /\ read.chunks = chunks /\ read.texts = texts
      <4>1. Tail(job.todo) \in Seq(Sources)
        BY <2>2 DEF BuildJobs
      <4> QED
        BY <2>2, <2>5, <4>1 DEF BuildJobs
    <3> HIDE DEF read
    <3>2. CoversAll(ToSet(read.chunks), read.texts)
      BY <2>5, <3>1
    <3>3. /\ read.todo # <<>> => IndexJobGood(read)
          /\ (read.todo = <<>> /\ read.chunks # <<>>) => IndexJobGood([read EXCEPT !.step = "embed"])
      BY <2>1, <2>2, <3>1, <3>2, AfterRead
    <3> QED
      BY <3>1, <3>3
  <2> HIDE DEF read
  <2>7. CASE read.todo # <<>>
    <3>1. Continue(p, read) /\ IndexJobGood(read)
      BY <2>3, <2>4, <2>6, <2>7
    <3>2. IndexPart(table, indexJob', answer')
      BY <1>0, <3>1, Continued
    <3> QED
      BY <2>1, <3>2
  <2>8. CASE read.todo = <<>> /\ chunks # <<>>
    <3> DEFINE next == [read EXCEPT !.step = "embed"]
    <3>1. Continue(p, next) /\ IndexJobGood(next)
      BY <2>3, <2>4, <2>6, <2>8 DEF AfterReading
    <3> HIDE DEF next
    <3>2. IndexPart(table, indexJob', answer')
      BY <1>0, <3>1, Continued
    <3> QED
      BY <2>1, <3>2
  <2>9. CASE read.todo = <<>> /\ chunks = <<>>
    <3>1. EndJob(p, 0, "no content")
      BY <2>3, <2>4, <2>6, <2>9 DEF AfterReading
    <3>2. IndexPart(table, indexJob', answer')
      BY <1>0, <3>1, Ended
    <3> QED
      BY <2>1, <3>2
  <2> QED
    BY <2>7, <2>8, <2>9
<1>3. CASE EmbedBatch(p)
  <2> DEFINE done == [job EXCEPT !.vectors = @ \o Batch(job.chunks, job.start), !.start = @ + BatchSize]
             next == [done EXCEPT !.step = AfterBatch(done)]
  <2>1. job.step = "embed" /\ table' = table /\ Continue(p, next)
    BY <1>3 DEF EmbedBatch, job
  <2>2. job \in BuildJobs /\ BuildGood(job)
    BY <1>0, <2>1, KindsOfJobs
  <2>3. IndexJobGood(next)
    BY <2>1, <2>2, BatchKeeps
  <2> HIDE DEF next
  <2>4. IndexPart(table, indexJob', answer')
    BY <1>0, <2>1, <2>3, Continued
  <2> QED
    BY <2>1, <2>4
<1>4. CASE EmbeddingFails(p)
  <2>1. EndJob(p, 0, "no embeddings") /\ table' = table
    BY <1>4 DEF EmbeddingFails
  <2>2. IndexPart(table, indexJob', answer')
    BY <1>0, <2>1, Ended
  <2> QED
    BY <2>1, <2>2
<1>5. CASE DropTable(p)
  <2> DEFINE next == [job EXCEPT !.step = "create"]
  <2>1. job.step = "drop" /\ table' = NoTable /\ Continue(p, next)
    BY <1>5 DEF DropTable, job
  <2>2. job \in BuildJobs /\ BuildGood(job)
    BY <1>0, <2>1, KindsOfJobs
  <2>3. /\ next \in BuildJobs /\ next.step = "create" /\ next.id = job.id /\ next.todo = job.todo
        /\ next.texts = job.texts /\ next.chunks = job.chunks /\ next.start = job.start
        /\ next.vectors = job.vectors
    BY <2>2 DEF BuildJobs
  <2> HIDE DEF next
  <2>4. BuildGood(next)
    BY <2>1, <2>2, <2>3 DEF BuildGood
  <2>5. IndexJobGood(next)
    BY <2>3, <2>4, BuildIsGood
  <2>6. IndexPart(table, indexJob', answer')
    BY <1>0, <2>1, <2>5, Continued
  <2>7. TableGood(NoTable)
    BY DEF TableGood
  <2>8. IndexPart(NoTable, indexJob', answer')
    BY <2>6, <2>7, TableReplaced
  <2> QED
    BY <2>1, <2>8
<1>6. CASE CreateTable(p)
  <2> DEFINE t == [id |-> job.id, rows |-> Rows(job), texts |-> job.texts]
  <2>1. job.step = "create" /\ table' = t /\ EndJob(p, 0, "indexed")
    BY <1>6 DEF CreateTable, job
  <2>2. job \in BuildJobs /\ BuildGood(job)
    BY <1>0, <2>1, KindsOfJobs
  <2>3. TableGood(t)
    BY <2>1, <2>2, NewTableGood
  <2> HIDE DEF t
  <2>4. IndexPart(table, indexJob', answer')
    BY <1>0, <2>1, Ended
  <2>5. IndexPart(t, indexJob', answer')
    BY <2>3, <2>4, TableReplaced
  <2> QED
    BY <2>1, <2>5
<1>7. CASE WriteFails(p)
  <2>1. EndJob(p, 0, "could not write") /\ table' = table
    BY <1>7 DEF WriteFails
  <2>2. IndexPart(table, indexJob', answer')
    BY <1>0, <2>1, Ended
  <2> QED
    BY <2>1, <2>2
<1>8. CASE BeginSearch(p)
  <2>1. table' = table
    BY <1>8 DEF BeginSearch
  <2>2. CASE table = NoTable
    <3>1. EndJob(p, 0, "no index")
      BY <1>8, <2>2 DEF BeginSearch
    <3>2. IndexPart(table, indexJob', answer')
      BY <1>0, <3>1, Ended
    <3> QED
      BY <2>1, <3>2
  <2>3. CASE table # NoTable
    <3> DEFINE new == [step |-> "query", id |-> table.id]
    <3>1. Continue(p, new)
      BY <1>8, <2>3 DEF BeginSearch
    <3>2. table.id \in Nat /\ table.id > 0
      BY <1>0, <2>3 DEF TableGood, Tables
    <3>3. IndexJobGood(new)
      BY <3>2 DEF IndexJobGood, BuildJobs, SearchJobs
    <3> HIDE DEF new
    <3>4. IndexPart(table, indexJob', answer')
      BY <1>0, <3>1, <3>3, Continued
    <3> QED
      BY <2>1, <3>4
  <2> QED
    BY <2>2, <2>3
<1>9. CASE Query(p)
  <2>1. table' = table /\ job.step = "query"
    BY <1>9 DEF Query, job
  <2>2. job.id \in Nat /\ job.id > 0
    BY <1>0, <2>1, KindsOfJobs
  <2>3. CASE table.id # job.id
    <3>1. EndJob(p, 0, "search failed")
      BY <1>9, <2>3 DEF Query, job
    <3>2. IndexPart(table, indexJob', answer')
      BY <1>0, <3>1, Ended
    <3> QED
      BY <2>1, <3>2
  <2>4. CASE table.id = job.id
    <3> DEFINE hits == Min({Limit, Len(table.rows)})
    <3>1. EndJob(p, hits, "found")
      BY <1>9, <2>4 DEF Query, job
    <3>2. table # NoTable
      BY <2>2, <2>4 DEF NoTable
    <3>3. table.rows \in Seq(Rowset) /\ table.rows # <<>>
      BY <1>0, <3>2 DEF TableGood, Tables
    <3>4. Len(table.rows) \in Nat \ {0} /\ Limit \in Nat \ {0}
      BY <3>3, SemanticIndexAssumption
    <3>5. hits # 0
      BY <3>4, MinOfTwo
    <3> HIDE DEF hits
    <3>6. IndexPart(table, indexJob', answer')
      BY <1>0, <3>1, <3>5, Ended
    <3> QED
      BY <2>1, <3>6
  <2> QED
    BY <2>3, <2>4
<1>10. CASE IndexCrash(p)
  <2>1. EndJob(p, 0, "not asked") /\ table' = table
    BY <1>10 DEF IndexCrash
  <2>2. IndexPart(table, indexJob', answer')
    BY <1>0, <2>1, Ended
  <2> QED
    BY <2>1, <2>2
<1> QED
  BY <1>1, <1>2, <1>3, <1>4, <1>5, <1>6, <1>7, <1>8, <1>9, <1>10 DEF IndexStep

-----------------------------------------------------------------------------
(* What fits the budget. *)

LEMMA MoreTokens ==
    ASSUME NEW a \in Nat, NEW b \in Nat, NEW c \in Nat, b <= c
    PROVE  a * b \in Nat /\ a * b <= a * c
<1>1. c - b \in Nat /\ c = b + (c - b)
  OBVIOUS
<1>2. a * b \in Nat /\ a * (c - b) \in Nat
  BY <1>1
<1>3. a * c = a * b + a * (c - b)
  BY <1>1
<1> QED
  BY <1>2, <1>3

LEMMA ShorterFits ==
    ASSUME NEW S, NEW defs \in Seq(S), NEW m \in 0 .. Len(defs), NEW n \in 0 .. Len(defs), m <= n,
           Fits(Prefix(defs, n))
    PROVE  Fits(Prefix(defs, m))
<1> DEFINE FilesTo(k) == {defs[i].file : i \in 1 .. k}
<1>1. /\ Len(defs) \in Nat /\ m \in Nat /\ n \in Nat
      /\ HeaderTokens \in Nat /\ LineTokens \in Nat /\ Budget \in Nat
  BY RepoMapAssumption
<1>2. ASSUME NEW k \in 0 .. Len(defs)
      PROVE  /\ IsFiniteSet(FilesTo(k)) /\ Cardinality(FilesTo(k)) \in Nat
             /\ RenderedTokens(Prefix(defs, k)) = HeaderTokens * Cardinality(FilesTo(k)) + LineTokens * k
  <2> DEFINE p == Prefix(defs, k)
  <2>1. /\ p \in Seq(S) /\ Len(p) = k
        /\ \A i \in 1 .. k : p[i] = defs[i]
    <3>1. 1 \in Int /\ k \in Int /\ \A i \in 1 .. k : defs[i] \in S
      BY <1>1
    <3>2. /\ SubSeq(defs, 1, k) \in Seq(S)
          /\ Len(SubSeq(defs, 1, k)) = IF 1 <= k THEN k - 1 + 1 ELSE 0
          /\ \A i \in 1 .. k - 1 + 1 : SubSeq(defs, 1, k)[i] = defs[1 + i - 1]
      BY <3>1, SubSeqProperties
    <3>3. k - 1 + 1 = k /\ \A i \in 1 .. k : 1 + i - 1 = i
      BY <1>1
    <3> QED
      BY <1>1, <3>2, <3>3 DEF Prefix
  <2> HIDE DEF p
  <2>2. DOMAIN p = 1 .. k
    BY <2>1
  <2>3. {p[i].file : i \in DOMAIN p} = FilesTo(k)
    BY <2>1, <2>2
  <2>4. IsFiniteSet(FilesTo(k)) /\ Cardinality(FilesTo(k)) \in Nat
    <3> DEFINE g == [i \in 1 .. k |-> defs[i].file]
    <3>1. IsFiniteSet(1 .. k)
      BY <1>1, FS_Interval
    <3>2. g \in Surjection(1 .. k, FilesTo(k))
      BY DEF Surjection
    <3> HIDE DEF g, FilesTo
    <3>3. IsFiniteSet(FilesTo(k))
      BY <3>1, <3>2, FS_Surjection
    <3> QED
      BY <3>3, FS_CardinalityType
  <2>5. RenderedTokens(p) = HeaderTokens * Cardinality(FilesTo(k)) + LineTokens * k
    <3> HIDE DEF FilesTo
    <3> QED
      BY <2>1, <2>3 DEF RenderedTokens
  <2> QED
    BY <2>4, <2>5 DEF p
<1>3. Cardinality(FilesTo(m)) <= Cardinality(FilesTo(n))
  <2>1. FilesTo(m) \subseteq FilesTo(n)
    BY <1>1
  <2> HIDE DEF FilesTo
  <2> QED
    BY <1>2, <2>1, FS_Subset
<1> HIDE DEF FilesTo
<1> DEFINE few == Cardinality(FilesTo(m))
           many == Cardinality(FilesTo(n))
<1>4. few \in Nat /\ many \in Nat /\ few <= many
  BY <1>2, <1>3
<1> HIDE DEF few, many
<1>5. HeaderTokens * few \in Nat /\ HeaderTokens * few <= HeaderTokens * many
  BY <1>1, <1>4, MoreTokens
<1>6. HeaderTokens * many \in Nat
  BY <1>1, <1>4
<1>7. LineTokens * m \in Nat /\ LineTokens * m <= LineTokens * n
  BY <1>1, MoreTokens
<1>8. LineTokens * n \in Nat
  BY <1>1
<1> DEFINE a == HeaderTokens * few
           b == HeaderTokens * many
           c == LineTokens * m
           d == LineTokens * n
<1>9. /\ RenderedTokens(Prefix(defs, m)) = a + c
      /\ RenderedTokens(Prefix(defs, n)) = b + d
  BY <1>2 DEF few, many
<1>10. /\ a \in Nat /\ b \in Nat /\ a <= b
       /\ c \in Nat /\ d \in Nat /\ c <= d
  BY <1>5, <1>6, <1>7, <1>8
<1> HIDE DEF a, b, c, d
<1>11. b + d <= Budget
  BY <1>9 DEF Fits
<1>12. a + c <= Budget
  BY <1>1, <1>10, <1>11
<1> QED
  BY <1>9, <1>12 DEF Fits

\* The binary search finds the longest prefix that fits, for every list of
\* definitions, every budget and all costs of a header and a line (_fit).
THEOREM FitIsLargest ==
    ASSUME NEW S, NEW defs \in Seq(S)
    PROVE  /\ Fit(defs) \in 0 .. Len(defs)
           /\ Fit(defs) > 0 => Fits(Prefix(defs, Fit(defs)))
           /\ \A n \in (Fit(defs) + 1) .. Len(defs) : ~Fits(Prefix(defs, n))
<1> DEFINE n == Len(defs)
           B == 0 .. n
           D == B \X B
           Ok(k) == Fits(Prefix(defs, k))
           Middle(range) == (range[1] + range[2] + 1) \div 2
           Body(search, range) ==
               IF range[1] >= range[2] THEN range[1]
               ELSE IF Ok(Middle(range)) THEN search[<<Middle(range), range[2]>>]
               ELSE search[<<range[1], Middle(range) - 1>>]
           F == CHOOSE search : search = [range \in D |-> Body(search, range)]
           Ends == {range \in D : range[1] >= range[2]}
           measure == [range \in D |-> IF range[1] >= range[2] THEN 0 ELSE range[2] - range[1]]
           base == [range \in Ends |-> range[1]]
           next == [range \in D |-> IF Ok(Middle(range)) THEN <<Middle(range), range[2]>>
                                    ELSE <<range[1], Middle(range) - 1>>]
           after == [xv \in D \X B |-> xv[2]]
<1>1. n \in Nat
  OBVIOUS
<1>2. \A k \in B : \A m \in B : m <= k /\ Ok(k) => Ok(m)
  BY ShorterFits
<1> HIDE DEF n, Ok
<1>3. ASSUME NEW range \in D, ~(range[1] >= range[2])
      PROVE  /\ Middle(range) \in Nat /\ range[1] < Middle(range) /\ Middle(range) <= range[2]
             /\ range[1] \in Nat /\ range[2] \in Nat /\ range[2] <= n
  BY <1>1, <1>3
<1> HIDE DEF Middle
<1>4. ASSUME NEW range \in D \ Ends
      PROVE  next[range] \in D /\ measure[next[range]] < measure[range]
  <2>1. /\ Middle(range) \in Nat /\ range[1] < Middle(range) /\ Middle(range) <= range[2]
        /\ range[1] \in Nat /\ range[2] \in Nat /\ range[2] <= n
    BY <1>3
  <2>2. measure[range] = range[2] - range[1]
    BY <2>1
  <2>3. CASE Ok(Middle(range))
    <3>1. next[range] = <<Middle(range), range[2]>> /\ next[range] \in D
      BY <1>1, <2>1, <2>3
    <3>2. measure[next[range]] = IF Middle(range) >= range[2] THEN 0 ELSE range[2] - Middle(range)
      BY <3>1
    <3> QED
      BY <2>1, <2>2, <3>1, <3>2
  <2>4. CASE ~Ok(Middle(range))
    <3>1. next[range] = <<range[1], Middle(range) - 1>> /\ next[range] \in D
      BY <1>1, <2>1, <2>4
    <3>2. measure[next[range]] =
            IF range[1] >= Middle(range) - 1 THEN 0 ELSE (Middle(range) - 1) - range[1]
      BY <3>1
    <3> QED
      BY <2>1, <2>2, <3>1, <3>2
  <2> QED
    BY <2>3, <2>4
<1>5. measure \in [D -> 0 .. n]
  BY <1>1
<1>6. PICK f \in [D -> B] :
         \A x \in D : f[x] = IF x \in Ends THEN base[x] ELSE after[<<x, f[next[x]]>>]
  <2>1. \A x \in D \ Ends : next[x] \in D /\ measure[next[x]] < measure[x]
    BY <1>4
  <2>2. \A x \in D \cap Ends : base[x] \in B
    OBVIOUS
  <2>3. \A x \in D \ Ends : \A v \in B : after[<<x, v>>] \in B
    OBVIOUS
  <2> HIDE DEF D, B, Ends, measure, base, next, after
  <2>4. \E f : Solves(f, D, B, Ends, base, next, after)
    BY <1>1, <1>5, <2>1, <2>2, <2>3, RecursionExists DEF Recursion
  <2> QED
    BY <2>4 DEF Solves
<1>7. ASSUME NEW x \in D PROVE f[x] = Body(f, x)
  <2>1. CASE x \in Ends
    BY <1>6, <2>1
  <2>2. CASE x \notin Ends
    <3>1. next[x] \in D /\ f[next[x]] \in B
      BY <1>4, <1>6, <2>2
    <3>2. f[x] = f[next[x]]
      BY <1>6, <2>2, <3>1
    <3> QED
      BY <2>2, <3>2
  <2> QED
    BY <2>1, <2>2
<1>8. F = [x \in D |-> Body(F, x)]
  <2>1. f = [x \in D |-> Body(f, x)]
    BY <1>7
  <2> HIDE DEF Body, D
  <2> QED
    BY <2>1
<1> HIDE DEF F
<1> DEFINE Best(k) == k \in B /\ (k > 0 => Ok(k)) /\ \A j \in (k + 1) .. n : ~Ok(j)
           Holds(x) == (/\ x[1] <= x[2] /\ (x[1] > 0 => Ok(x[1]))
                        /\ \A j \in (x[2] + 1) .. n : ~Ok(j)) => Best(F[x])
           G == {x \in D : Holds(x)}
<1>9. ASSUME NEW x \in D, \A y \in D : measure[y] < measure[x] => Holds(y)
      PROVE  Holds(x)
  <2> SUFFICES ASSUME x[1] <= x[2], x[1] > 0 => Ok(x[1]), \A j \in (x[2] + 1) .. n : ~Ok(j)
               PROVE  Best(F[x])
    OBVIOUS
  <2>1. CASE x[1] >= x[2]
    <3>1. F[x] = x[1] /\ x[1] = x[2] /\ x[1] \in B
      BY <1>1, <1>8, <2>1
    <3> QED
      BY <3>1
  <2>2. CASE ~(x[1] >= x[2])
    <3> DEFINE m == Middle(x)
    <3>1. /\ m \in Nat /\ x[1] < m /\ m <= x[2]
          /\ x[1] \in Nat /\ x[2] \in Nat /\ x[2] <= n
      BY <1>3, <2>2
    <3>2. /\ next[x] \in D /\ measure[next[x]] < measure[x]
      BY <1>4, <2>2
    <3>3. Holds(next[x])
      BY <1>9, <3>2
    <3>4. CASE Ok(m)
      <4>1. next[x] = <<m, x[2]>> /\ F[x] = F[next[x]]
        BY <1>8, <2>2, <3>4
      <4> HIDE DEF next, m, Best
      <4> QED
        BY <3>1, <3>3, <3>4, <4>1
    <3>5. CASE ~Ok(m)
      <4>1. next[x] = <<x[1], m - 1>> /\ F[x] = F[next[x]]
        BY <1>8, <2>2, <3>5
      <4>2. \A j \in ((m - 1) + 1) .. n : ~Ok(j)
        <5> SUFFICES ASSUME NEW j \in ((m - 1) + 1) .. n, Ok(j) PROVE FALSE
          OBVIOUS
        <5>1. j \in B /\ m \in B /\ m <= j
          BY <1>1, <3>1
        <5> QED
          BY <1>2, <3>5, <5>1
      <4>3. x[1] <= m - 1
        BY <3>1
      <4> HIDE DEF next, m, Best
      <4> QED
        BY <3>3, <4>1, <4>2, <4>3
    <3> QED
      BY <3>4, <3>5
  <2> QED
    BY <2>1, <2>2
<1>10. D \subseteq G
  <2>1. \A x \in D : (\A y \in D : measure[y] < measure[x] => y \in G) => x \in G
    <3> HIDE DEF Holds, measure, D
    <3> QED
      BY <1>9
  <2>2. measure \in [D -> Nat]
    BY <1>1, <1>5
  <2> HIDE DEF G, D, measure
  <2> QED
    BY <2>1, <2>2, ByMeasure
<1>11. Best(F[<<0, n>>])
  <2>1. <<0, n>> \in D
    BY <1>1
  <2>2. Holds(<<0, n>>)
    BY <1>10, <2>1
  <2> HIDE DEF Best
  <2>3. \A j \in (n + 1) .. n : ~Ok(j)
    BY <1>1
  <2> QED
    BY <1>1, <2>2, <2>3
<1>12. Fit(defs) = F[<<0, n>>]
  BY DEF Fit, F, Ok, Middle, n
<1> QED
  BY <1>11, <1>12 DEF Ok, n

-----------------------------------------------------------------------------
(* The list of definitions that a build ranks. *)

Captures == UNION {ToSet(CapturesOf[text]) : text \in {t \in Text : CapturesOf[t] # Unparseable}}
Tags == [file : Paths, name : {c.name : c \in Captures}, kind : {"def", "ref"},
         line : {c.line : c \in Captures}]

LEMMA TagsExtracted ==
    ASSUME NEW f \in Paths, NEW text \in Text
    PROVE  ExtractTags(f, text) \in Seq(Tags)
<1>1. CASE CapturesOf[text] = Unparseable
  BY <1>1 DEF ExtractTags
<1>2. CASE CapturesOf[text] # Unparseable
  <2> DEFINE caps == CapturesOf[text]
             one(c) == IF c.capture = "definition" THEN <<Tag(f, c, "def")>>
                       ELSE IF c.capture = "reference" THEN <<Tag(f, c, "ref")>> ELSE <<>>
             seqs == [i \in DOMAIN caps |-> one(caps[i])]
  <2>1. caps \in Seq(ToSet(caps)) /\ ToSet(caps) \subseteq Captures
    BY <1>2, RepoMapAssumption DEF Captures
  <2>2. ASSUME NEW c \in Captures PROVE one(c) \in Seq(Tags)
    <3>1. Tag(f, c, "def") \in Tags /\ Tag(f, c, "ref") \in Tags
      BY DEF Tags, Tag
    <3> QED
      BY <3>1
  <2>3. \A i \in DOMAIN caps : caps[i] \in Captures
    BY <2>1
  <2>4. DOMAIN caps = 1 .. Len(caps) /\ Len(caps) \in Nat
    BY <2>1
  <2>5. ExtractTags(f, text) = FlattenSeq(seqs)
    BY <1>2 DEF ExtractTags
  <2> HIDE DEF caps, one
  <2>6. seqs \in Seq(Seq(Tags))
    BY <2>2, <2>3, <2>4
  <2> HIDE DEF seqs
  <2>7. FlattenSeq(seqs) \in Seq(Tags)
    BY <2>6, Flattened
  <2> QED
    BY <2>5, <2>7
<1> QED
  BY <1>1, <1>2

LEMMA TagsFound ==
    ASSUME NEW parsed \in Texts
    PROVE  TagsOf(parsed) \in Seq(Tags)
<1> DEFINE one(f) == IF f \in DOMAIN parsed THEN ExtractTags(f, parsed[f]) ELSE <<>>
           seqs == [i \in DOMAIN Walk |-> one(Walk[i])]
<1>1. ASSUME NEW f \in Paths PROVE one(f) \in Seq(Tags)
  <2>1. f \in DOMAIN parsed => parsed[f] \in Text
    BY DEF Texts, Partial
  <2>2. f \in DOMAIN parsed => ExtractTags(f, parsed[f]) \in Seq(Tags)
    BY <2>1, TagsExtracted
  <2> QED
    BY <2>2
<1>2. TagsOf(parsed) = FlattenSeq(seqs)
  BY DEF TagsOf
<1> HIDE DEF one
<1>3. seqs \in Seq(Seq(Tags))
  <2>1. Walk \in Seq(Paths)
    BY SourceFilesAssumption
  <2>2. DOMAIN Walk = 1 .. Len(Walk) /\ Len(Walk) \in Nat /\ \A i \in DOMAIN Walk : Walk[i] \in Paths
    BY <2>1
  <2>3. \A i \in 1 .. Len(Walk) : one(Walk[i]) \in Seq(Tags)
    BY <1>1, <2>2
  <2> QED
    BY <2>2, <2>3
<1> HIDE DEF seqs
<1>4. FlattenSeq(seqs) \in Seq(Tags)
  BY <1>3, Flattened
<1> QED
  BY <1>2, <1>4

LEMMA FewDefinitions ==
    ASSUME NEW tags \in Seq(Tags)
    PROVE  IsFiniteSet(DefinitionsOf(tags))
<1> DEFINE I == {i \in DOMAIN tags :
                   /\ tags[i].kind = "def"
                   /\ \A j \in 1..(i - 1) :
                        ~(tags[j].kind = "def" /\ tags[j].file = tags[i].file /\ tags[j].name = tags[i].name)}
           g == [i \in I |-> tags[i]]
<1>1. DefinitionsOf(tags) = {tags[i] : i \in I}
  BY DEF DefinitionsOf
<1>2. I \subseteq 1 .. Len(tags) /\ Len(tags) \in Nat
  OBVIOUS
<1> HIDE DEF I
<1>3. IsFiniteSet(I)
  <2>1. IsFiniteSet(1 .. Len(tags))
    BY <1>2, FS_Interval
  <2> QED
    BY <1>2, <2>1, FS_Subset
<1>4. g \in Surjection(I, DefinitionsOf(tags))
  BY <1>1 DEF Surjection
<1> HIDE DEF g
<1> QED
  BY <1>3, <1>4, FS_Surjection

LEMMA OrderedIsList ==
    ASSUME NEW tags, NEW rank, IsFiniteSet(DOMAIN rank)
    PROVE  \E S : Ordered(tags, rank) \in Seq(S)
<1> DEFINE n == Cardinality(DOMAIN rank)
           at(i) == CHOOSE d \in DOMAIN rank :
                      Cardinality({e \in DOMAIN rank : Precedes(tags, rank, e, d)}) = i - 1
           S == {at(i) : i \in 1 .. n}
<1>1. n \in Nat
  BY FS_CardinalityType
<1>2. Ordered(tags, rank) = [i \in 1 .. n |-> at(i)]
  BY DEF Ordered
<1> HIDE DEF n, at
<1>3. Ordered(tags, rank) \in Seq(S)
  BY <1>1, <1>2
<1> QED
  BY <1>3

LEMMA RankedIsLargest ==
    ASSUME NEW parsed \in Texts
    PROVE  LET ranking == Ranking(parsed)
           IN /\ ranking.shown > 0 => Fits(Prefix(ranking.defs, ranking.shown))
              /\ \A n \in (ranking.shown + 1) .. Len(ranking.defs) : ~Fits(Prefix(ranking.defs, n))
<1>1. Ranking(parsed) = Rank(parsed)
  <2>1. \A other : Rank(other).parsed = other
    BY DEF Rank
  <2>2. Rankings = {Rank(other) : other \in Texts}
    BY DEF Rankings, Texts, Partial, Sources
  <2>3. Rank(parsed) \in Rankings /\ Rank(parsed).parsed = parsed
    BY <2>1, <2>2
  <2>4. \A ranking \in Rankings : ranking.parsed = parsed => ranking = Rank(parsed)
    BY <2>1, <2>2
  <2> QED
    BY <2>3, <2>4 DEF Ranking
<1> DEFINE tags == TagsOf(parsed)
           rank == IF DefinitionsOf(tags) = {} THEN Empty ELSE RankOf(tags)
           defs == Ordered(tags, rank)
<1>2. Rank(parsed).defs = defs /\ Rank(parsed).shown = Fit(defs)
  BY DEF Rank
<1>3. IsFiniteSet(DOMAIN rank)
  <2>1. IsFiniteSet(DefinitionsOf(tags))
    BY TagsFound, FewDefinitions
  <2>2. DOMAIN RankOf(tags) = DefinitionsOf(tags)
    BY DEF RankOf
  <2>3. DOMAIN Empty = {} /\ IsFiniteSet({})
    BY FS_EmptySet DEF Empty
  <2> QED
    BY <2>1, <2>2, <2>3
<1> HIDE DEF rank
<1>4. PICK S : defs \in Seq(S)
  BY <1>3, OrderedIsList
<1> HIDE DEF defs
<1>5. /\ Fit(defs) > 0 => Fits(Prefix(defs, Fit(defs)))
      /\ \A n \in (Fit(defs) + 1) .. Len(defs) : ~Fits(Prefix(defs, n))
  BY <1>4, FitIsLargest
<1> QED
  BY <1>1, <1>2, <1>5

-----------------------------------------------------------------------------
(* The workspace. *)

Inv ==
    /\ FilesInv /\ MapInv /\ IndexInv
    /\ \A p \in Process : mapJob[p] = Idle \/ indexJob[p] = Idle

\* The table an earlier session left.
LEMMA FirstTableGood ==
    ASSUME FilesInv, TableOf(MaxJobs + 1, Discover).rows # <<>>
    PROVE  TableGood(TableOf(MaxJobs + 1, Discover))
<1> DEFINE found == Discover
           parts == [i \in DOMAIN found |-> ChunkText(found[i], files[found[i]].text)]
           chunks == FlattenSeq(parts)
           rows == [i \in DOMAIN chunks |-> [chunk |-> chunks[i], vector |-> chunks[i]]]
           texts == [f \in ToSet(found) |-> files[f].text]
           t == TableOf(MaxJobs + 1, Discover)
           n == Len(found)
<1>1. /\ found \in Seq(Sources) /\ ToSet(found) \subseteq Sources
      /\ \A f \in ToSet(found) : files[f].text \in Text
  <2>1. \A f \in Paths : Exists(f) => files[f].text \in Text
    BY WorldIs DEF FilesInv, FilesKnown, World, Files, Exists
  <2> QED
    BY <2>1, DiscoverFinds, ElementsOf DEF Sources
<1>2. t = [id |-> MaxJobs + 1, rows |-> rows, texts |-> texts]
  BY DEF TableOf
<1> HIDE DEF found, t
<1>3. /\ n \in Nat /\ DOMAIN found = 1 .. n /\ \A i \in 1 .. n : found[i] \in ToSet(found)
      /\ \A f \in ToSet(found) : \E i \in 1 .. n : f = found[i]
  BY <1>1 DEF ToSet
<1> HIDE DEF n
<1>4. \A i \in 1 .. n : parts[i] = ChunkText(found[i], files[found[i]].text) /\ parts[i] \in Seq(Chunks)
  <2> TAKE i \in 1 .. n
  <2>1. found[i] \in Sources /\ files[found[i]].text \in Text
    BY <1>1, <1>3
  <2> QED
    BY <1>3, <2>1, WindowsCover
<1>5. parts \in Seq(Seq(Chunks)) /\ Len(parts) = n
  <2>1. parts \in [1 .. n -> Seq(Chunks)]
    BY <1>3, <1>4
  <2> HIDE DEF parts
  <2> QED
    BY <1>3, <2>1, SeqDef
<1> HIDE DEF parts
<1>6. chunks \in Seq(Chunks) /\ \A i \in 1 .. n : ToSet(parts[i]) \subseteq ToSet(chunks)
  BY <1>5, Flattened
<1> HIDE DEF chunks
<1>7. /\ Len(chunks) \in Nat /\ DOMAIN chunks = 1 .. Len(chunks)
      /\ \A i \in 1 .. Len(chunks) : chunks[i] \in Chunks
  BY <1>6
<1>8. /\ rows \in [1 .. Len(chunks) -> Rowset]
      /\ \A i \in 1 .. Len(chunks) : rows[i].chunk = chunks[i] /\ rows[i].vector = chunks[i]
  BY <1>7 DEF Rowset
<1> HIDE DEF rows
<1>9. rows \in Seq(Rowset) /\ DOMAIN rows = 1 .. Len(chunks)
  BY <1>7, <1>8, SeqDef
<1>10. {rows[i].chunk : i \in DOMAIN rows} = ToSet(chunks)
  <2>1. ToSet(chunks) = {chunks[i] : i \in 1 .. Len(chunks)}
    BY <1>7 DEF ToSet
  <2> QED
    BY <1>8, <1>9, <2>1
<1>11. texts \in Texts /\ DOMAIN texts = ToSet(found) /\ \A f \in ToSet(found) : texts[f] = files[f].text
  <2>1. texts \in [ToSet(found) -> Text]
    BY <1>1
  <2> QED
    BY <1>1, <2>1 DEF Texts, Partial
<1> HIDE DEF texts
<1>12. CoversAll(ToSet(chunks), texts)
  <2> SUFFICES ASSUME NEW f \in ToSet(found) PROVE CoveredFrom(0, ToSet(chunks), f, texts[f])
    BY <1>11 DEF CoversAll
  <2>1. PICK i \in 1 .. n : f = found[i]
    BY <1>3
  <2>2. f \in Sources /\ texts[f] \in Text /\ texts[f] = files[found[i]].text
    BY <1>1, <1>11, <2>1
  <2>3. CoveredFrom(0, ToSet(parts[i]), f, texts[f])
    BY <1>4, <2>1, <2>2, WindowsCover
  <2> QED
    BY <1>6, <2>3, MoreCovers
<1>13. MaxJobs + 1 \in Nat /\ MaxJobs + 1 > 0
  BY SourceFilesAssumption
<1>14. t \in Tables /\ t.id > 0 /\ t.rows = rows /\ t.texts = texts
  BY <1>2, <1>9, <1>11, <1>13 DEF Tables
<1>15. t.rows # <<>>
  BY DEF t
<1>16. TableGood(t)
  BY <1>7, <1>8, <1>9, <1>10, <1>12, <1>14, <1>15 DEF TableGood
<1> QED
  BY <1>16 DEF t

LEMMA InitialState == Init => Inv
<1> SUFFICES ASSUME Init PROVE Inv
  OBVIOUS
<1>1. FilesInv
  BY FilesStart DEF Init
<1>2. /\ cacheFile = Empty /\ mapJob = [p \in Process |-> Idle] /\ map = [p \in Process |-> NoMap]
      /\ table = NoTable \/ (table = TableOf(MaxJobs + 1, Discover) /\ table.rows # <<>>)
      /\ indexJob = [p \in Process |-> Idle]
      /\ answer = [p \in Process |-> [hits |-> 0, reason |-> "not asked"]]
  BY DEF Init, MapInit, IndexInit
<1>3. MapInv
  <2>1. DOMAIN map = Process /\ \A p \in Process : MapGood(World, map[p])
    BY <1>2 DEF MapGood
  <2>2. /\ mapJob \in [Process -> MapJobs \cup {Idle}] /\ \A p \in Process : mapJob[p] = Idle
        /\ cacheFile \in Caches /\ HonestCache(World, cacheFile)
    BY <1>2, EmptyIsPartial
  <2> QED
    BY <2>1, <2>2 DEF MapInv, MapPart
<1>4. TableGood(table)
  <2>1. CASE table = NoTable
    BY <2>1 DEF TableGood
  <2>2. CASE table # NoTable
    <3>1. table = TableOf(MaxJobs + 1, Discover) /\ table.rows # <<>>
      BY <1>2, <2>2
    <3> QED
      BY <1>1, <3>1, FirstTableGood
  <2> QED
    BY <2>1, <2>2
<1>5. IndexInv
  <2>1. DOMAIN indexJob = Process /\ \A p \in Process : IndexJobGood(indexJob[p])
    BY <1>2, IdleIsGood
  <2>2. DOMAIN answer = Process /\ \A p \in Process : Explained(answer[p])
    BY <1>2 DEF Explained
  <2> QED
    BY <1>4, <2>1, <2>2 DEF IndexInv, IndexPart
<1> QED
  BY <1>1, <1>2, <1>3, <1>5 DEF Inv

\* A step of one process leaves the jobs of the others alone, and counts its own.
LEMMA OneMapJob ==
    ASSUME NEW p \in Process, MapStep(p), MapInv, FilesInv
    PROVE  /\ \A q \in Process : q # p => mapJob'[q] = mapJob[q]
           /\ jobs' \in 0..MaxJobs
<1>1. mapJob \in [Process -> MapJobs \cup {Idle}] /\ jobs \in 0..MaxJobs /\ MaxJobs \in Nat
  BY SourceFilesAssumption DEF MapInv, MapPart, FilesInv, FilesTypeOK
<1>2. jobs' = jobs \/ BeginJob
  BY DEF MapStep, BeginMap, StatFile, ReadFile, TruncateCache, WriteCache, SaveFails, FinishMap, MapCrash
<1>3. mapJob' = mapJob \/ \E job : mapJob' = [mapJob EXCEPT ![p] = job]
  BY DEF MapStep, BeginMap, StatFile, ReadFile, TruncateCache, WriteCache, SaveFails, FinishMap,
         MapCrash, Skip
<1>4. jobs' \in 0..MaxJobs
  BY <1>1, <1>2 DEF BeginJob
<1> QED
  BY <1>1, <1>3, <1>4

LEMMA OneIndexJob ==
    ASSUME NEW p \in Process, IndexStep(p), IndexInv, FilesInv
    PROVE  /\ \A q \in Process : q # p => indexJob'[q] = indexJob[q]
           /\ jobs' \in 0..MaxJobs
<1>1. DOMAIN indexJob = Process /\ jobs \in 0..MaxJobs /\ MaxJobs \in Nat
  BY SourceFilesAssumption DEF IndexInv, IndexPart, FilesInv, FilesTypeOK
<1>2. jobs' = jobs \/ BeginJob
  BY DEF IndexStep, BeginIndex, ReadChunks, EmbedBatch, EmbeddingFails, DropTable, CreateTable,
         WriteFails, BeginSearch, Query, IndexCrash
<1>3. \E job : indexJob' = [indexJob EXCEPT ![p] = job]
  <2>1. \E hits, reason, job : EndJob(p, hits, reason) \/ Continue(p, job)
    BY DEF IndexStep, BeginIndex, ReadChunks, EmbedBatch, EmbeddingFails, DropTable, CreateTable,
           WriteFails, BeginSearch, Query, IndexCrash
  <2> QED
    BY <2>1 DEF EndJob, Continue
<1>4. jobs' \in 0..MaxJobs
  BY <1>1, <1>2 DEF BeginJob
<1> QED
  BY <1>1, <1>3, <1>4

LEMMA InvStep == Inv /\ [Next]_vars => Inv'
<1> SUFFICES ASSUME Inv, [Next]_vars PROVE Inv'
  OBVIOUS
<1> USE DEF Inv
<1>1. CASE FilesNext /\ UNCHANGED <<mapVars, indexVars>>
  <2>1. FilesInv' /\ Moved(World, NextWorld)
    BY <1>1, FilesStep
  <2>2. NextWorld = World'
    BY DEF NextWorld, World
  <2>3. FilesKnown(NextWorld)
    BY <2>1, <2>2 DEF FilesInv
  <2>4. MapPart(NextWorld, cacheFile, mapJob, map)
    BY <2>1, <2>3, MapPartMoves DEF MapInv
  <2>5. MapInv'
    BY <1>1, <2>2, <2>4 DEF MapInv, mapVars
  <2>6. IndexInv'
    BY <1>1 DEF IndexInv, indexVars
  <2> QED
    BY <1>1, <2>1, <2>5, <2>6 DEF mapVars, indexVars
<1>2. ASSUME NEW p \in Process, indexJob[p] = Idle, MapStep(p), UNCHANGED <<fileVars, indexVars>>
      PROVE  Inv'
  <2>1. World' = World
    BY <1>2 DEF World, fileVars
  <2>2. FilesInv'
    BY <1>2, <2>1, OneMapJob DEF FilesInv, FilesTypeOK, fileVars
  <2>3. MapInv'
    <3>1. MapPart(World, cacheFile', mapJob', map')
      BY <1>2, MapStepKeeps
    <3> QED
      BY <2>1, <3>1 DEF MapInv
  <2>4. IndexInv'
    BY <1>2 DEF IndexInv, indexVars
  <2>5. \A q \in Process : mapJob'[q] = Idle \/ indexJob'[q] = Idle
    BY <1>2, OneMapJob DEF indexVars
  <2> QED
    BY <2>2, <2>3, <2>4, <2>5
<1>3. ASSUME NEW p \in Process, mapJob[p] = Idle, IndexStep(p), UNCHANGED <<fileVars, mapVars>>
      PROVE  Inv'
  <2>1. World' = World
    BY <1>3 DEF World, fileVars
  <2>2. FilesInv'
    BY <1>3, <2>1, OneIndexJob DEF FilesInv, FilesTypeOK, fileVars
  <2>3. MapInv'
    BY <1>3, <2>1 DEF MapInv, mapVars
  <2>4. IndexInv'
    BY <1>3, IndexStepKeeps DEF IndexInv
  <2>5. \A q \in Process : mapJob'[q] = Idle \/ indexJob'[q] = Idle
    BY <1>3, OneIndexJob DEF mapVars
  <2> QED
    BY <2>2, <2>3, <2>4, <2>5
<1>4. CASE UNCHANGED vars
  <2>1. World' = World
    BY <1>4 DEF World, vars, fileVars
  <2> QED
    BY <1>4, <2>1 DEF vars, fileVars, mapVars, indexVars, FilesInv, FilesTypeOK, MapInv, IndexInv
<1> QED
  BY <1>1, <1>2, <1>3, <1>4 DEF Next

\* The inductive invariant: stamps, caches and builds agree with the files that
\* nobody changed, and builds of the index lose no chunk and no vector.
THEOREM Invariance == Spec => []Inv
BY InitialState, InvStep, PTL DEF Spec

LEMMA TypesFollow == Inv => TypeOK
<1> SUFFICES ASSUME Inv PROVE TypeOK
  OBVIOUS
<1>1. FilesTypeOK
  BY DEF Inv, FilesInv
<1>2. \A f \in DOMAIN cacheFile : f \in Supported \ Ignored /\ cacheFile[f].text \in Text
  <2>1. cacheFile \in Partial(Sources, Entries)
    BY DEF Inv, MapInv, MapPart, Caches
  <2> QED
    BY <2>1 DEF Partial, Entries, Sources
<1>3. table # NoTable => DOMAIN table.texts \subseteq Supported \ Ignored
  <2>1. table # NoTable => table.texts \in Partial(Sources, Text)
    BY DEF Inv, IndexInv, IndexPart, TableGood, Tables, Texts
  <2> QED
    BY <2>1 DEF Partial, Sources
<1>4. ASSUME NEW p \in Process
      PROVE  /\ mapJob[p].step \in {"idle", "stat", "read", "save", "write", "rank"}
             /\ indexJob[p].step \in {"idle", "read", "embed", "drop", "create", "query"}
             /\ mapJob[p] = Idle \/ indexJob[p] = Idle
  <2>1. mapJob[p] \in MapJobs \cup {Idle}
    BY DEF Inv, MapInv, MapPart
  <2>2. mapJob[p].step \in {"idle", "stat", "read", "save", "write", "rank"}
    BY <2>1 DEF MapJobs, Idle
  <2>3. indexJob[p].step \in {"idle", "read", "embed", "drop", "create", "query"}
    BY KindsOfJobs DEF Inv, IndexInv, IndexPart
  <2> QED
    BY <2>2, <2>3 DEF Inv
<1> QED
  BY <1>1, <1>2, <1>3, <1>4 DEF TypeOK

\* Types, and that only source files outside of ignored directories get into
\* the cache and the index, however builds, searches and changes interleave.
THEOREM TypeCorrect == Spec => []TypeOK
BY Invariance, TypesFollow, PTL

\* A build of the map is right about every file that nobody changed while it
\* ran, whatever the cache file held (RepoMapBuilder._extract_all, TagCache).
THEOREM MapStaysFresh == Spec => []MapIsFresh
<1>1. Inv => MapIsFresh
  <2> SUFFICES ASSUME Inv, NEW p \in Process, map[p] # NoMap,
                      NEW f \in DOMAIN map[p].untouched \ recurred
               PROVE  f \in DOMAIN map[p].parsed /\ map[p].parsed[f] = map[p].untouched[f]
    BY DEF MapIsFresh
  <2>1. MapGood(World, map[p]) /\ World.back = recurred
    BY WorldIs DEF Inv, MapInv, MapPart, World
  <2> QED
    BY <2>1 DEF MapGood
<1> QED
  BY <1>1, Invariance, PTL

\* The map fits the budget and the next definition would not have fitted, for
\* every workspace and every budget (RepoMapBuilder._fit).
THEOREM MapStaysLargest == Spec => []MapIsLargest
<1>1. Inv => MapIsLargest
  <2>1. Inv => \A p \in Process : map[p] # NoMap => map[p].parsed \in Texts
    BY DEF Inv, MapInv, MapPart, MapGood
  <2> QED
    BY <2>1, RankedIsLargest DEF MapIsLargest
<1> QED
  BY <1>1, Invariance, PTL

\* Every row has its own vector, and no stretch of lines of a file that was
\* read is lost between two chunks or two batches (chunk_text, _embed,
\* _write_table), for any size of the windows, the overlap and the batches.
THEOREM IndexStaysComplete == Spec => []IndexIsComplete
<1>1. Inv => IndexIsComplete
  <2> SUFFICES ASSUME Inv, table # NoTable
               PROVE  /\ \A i \in DOMAIN table.rows : table.rows[i].vector = table.rows[i].chunk
                      /\ \A f \in DOMAIN table.texts :
                           \A first \in DOMAIN LinesOf[table.texts[f]] :
                             LET last == Min({first + ChunkOverlap, Len(LinesOf[table.texts[f]])})
                             IN (\E i \in first..last : LinesOf[table.texts[f]][i]) =>
                                  \E i \in DOMAIN table.rows :
                                     /\ table.rows[i].chunk.file = f
                                     /\ table.rows[i].chunk.first <= first
                                     /\ last <= table.rows[i].chunk.last
    BY DEF IndexIsComplete
  <2> DEFINE chunks == {table.rows[i].chunk : i \in DOMAIN table.rows}
  <2>1. /\ \A i \in DOMAIN table.rows : table.rows[i].vector = table.rows[i].chunk
        /\ CoversAll(chunks, table.texts) /\ table.texts \in Texts
    BY DEF Inv, IndexInv, IndexPart, TableGood, Tables
  <2>2. ASSUME NEW f \in DOMAIN table.texts, NEW first \in DOMAIN LinesOf[table.texts[f]],
               NEW last, last = Min({first + ChunkOverlap, Len(LinesOf[table.texts[f]])}),
               \E i \in first..last : LinesOf[table.texts[f]][i]
        PROVE  \E i \in DOMAIN table.rows :
                  /\ table.rows[i].chunk.file = f
                  /\ table.rows[i].chunk.first <= first /\ last <= table.rows[i].chunk.last
    <3>1. CoveredFrom(0, chunks, f, table.texts[f])
      BY <2>1 DEF CoversAll
    <3>2. first > 0
      <4>1. table.texts[f] \in Text
        BY <2>1 DEF Texts, Partial
      <4> QED
        BY <4>1, SemanticIndexAssumption
    <3>3. \E chunk \in chunks : chunk.file = f /\ chunk.first <= first /\ last <= chunk.last
      <4> HIDE DEF chunks
      <4> QED
        BY <2>2, <3>1, <3>2 DEF CoveredFrom
    <3> QED
      BY <3>3
  <2>3. \A f \in DOMAIN table.texts : \A first \in DOMAIN LinesOf[table.texts[f]] :
          LET last == Min({first + ChunkOverlap, Len(LinesOf[table.texts[f]])})
          IN (\E i \in first..last : LinesOf[table.texts[f]][i]) =>
               \E i \in DOMAIN table.rows :
                  /\ table.rows[i].chunk.file = f
                  /\ table.rows[i].chunk.first <= first /\ last <= table.rows[i].chunk.last
    <3> TAKE f \in DOMAIN table.texts
    <3> TAKE first \in DOMAIN LinesOf[table.texts[f]]
    <3> DEFINE last == Min({first + ChunkOverlap, Len(LinesOf[table.texts[f]])})
    <3>1. last = Min({first + ChunkOverlap, Len(LinesOf[table.texts[f]])})
      OBVIOUS
    <3> SUFFICES ASSUME \E i \in first..last : LinesOf[table.texts[f]][i]
                 PROVE  \E i \in DOMAIN table.rows :
                           /\ table.rows[i].chunk.file = f
                           /\ table.rows[i].chunk.first <= first
                           /\ last <= table.rows[i].chunk.last
      OBVIOUS
    <3> HIDE DEF last
    <3> QED
      BY <2>2, <3>1
  <2> QED
    BY <2>1, <2>3
<1> QED
  BY <1>1, Invariance, PTL

\* A search that finds nothing says why: an index without rows is never built
\* (SemanticIndex.build, _write_table, search).
THEOREM EmptyStaysExplained == Spec => []EmptyIsExplained
<1>1. Inv => EmptyIsExplained
  BY DEF Inv, IndexInv, IndexPart, Explained, EmptyIsExplained
<1> QED
  BY <1>1, Invariance, PTL

\* The old table goes only when a build has a vector for each of its chunks
\* (SemanticIndex._embed before _write_table).
THEOREM OldIndexStays == Spec => OldIndexKept
<1> DEFINE Kept == (table # NoTable /\ table' = NoTable) =>
                      \E p \in Process : /\ indexJob[p].step = "drop"
                                         /\ Len(indexJob[p].vectors) = Len(indexJob[p].chunks)
<1>1. ASSUME Inv, [Next]_vars PROVE Kept
  <2> SUFFICES ASSUME table # NoTable, table' = NoTable
               PROVE  \E p \in Process : /\ indexJob[p].step = "drop"
                                         /\ Len(indexJob[p].vectors) = Len(indexJob[p].chunks)
    OBVIOUS
  <2>1. PICK p \in Process : IndexStep(p)
    BY <1>1 DEF Next, vars, indexVars
  <2>2. DropTable(p)
    BY <2>1 DEF IndexStep, BeginIndex, ReadChunks, EmbedBatch, EmbeddingFails, CreateTable,
                WriteFails, BeginSearch, Query, IndexCrash
  <2>3. indexJob[p].step = "drop"
    BY <2>2 DEF DropTable
  <2>4. BuildGood(indexJob[p])
    BY <1>1, <2>3, KindsOfJobs DEF Inv, IndexInv, IndexPart
  <2> QED
    BY <2>3, <2>4 DEF BuildGood
<1>2. ASSUME Inv, [Next]_vars PROVE [Kept]_indexVars
  BY <1>1, <1>2
<1> QED
  BY <1>2, Invariance, PTL DEF Spec, OldIndexKept

=============================================================================
