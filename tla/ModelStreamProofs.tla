------------------------- MODULE ModelStreamProofs -------------------------
(***************************************************************************)
(* The stream is sorted as the assembled message is: for any two tags, any *)
(* text and any fragments of it, what the filter has shown, with what      *)
(* strip_thinking would keep of the rest, is what strip_thinking keeps of  *)
(* the whole.                                                              *)
(***************************************************************************)
EXTENDS ModelStream, Integers, SequenceTheorems, FiniteSetTheorems,
        WellFoundedInduction, TLAPS

Text == Seq(Characters)

\* The functions that strip_thinking and the properties go by.
KeptBody(text, kept, i) ==
    LET start == Find(Open, text, i)
        end == Find(Close, text, start + Len(Open))
    IN IF start = 0 THEN From(text, i)
       ELSE SubSeq(text, i, start - 1)
            \o (IF end = 0 THEN <<>> ELSE kept[end + Len(Close)])

Kept(text) == CHOOSE kept : kept = [i \in 1 .. Len(text) + 1 |-> KeptBody(text, kept, i)]

InsideBody(text, inside, i) ==
    LET start == Find(Open, text, i)
        body == start + Len(Open)
        end == Find(Close, text, body)
    IN IF start = 0 THEN <<>>
       ELSE IF end = 0 THEN From(text, body)
       ELSE SubSeq(text, body, end - 1) \o inside[end + Len(Close)]

Inside(text) == CHOOSE inside : inside = [i \in 1 .. Len(text) + 1 |-> InsideBody(text, inside, i)]

TextBody(shown, text, i) ==
    IF i > Len(shown) THEN <<>>
    ELSE (IF shown[i] = Field THEN <<>> ELSE <<shown[i]>>) \o text[i + 1]

TextFrom(shown) == CHOOSE text : text = [i \in 1 .. Len(shown) + 1 |-> TextBody(shown, text, i)]

-----------------------------------------------------------------------------
(* Numbers and sequences. *)

LEMMA LeastNumber ==
    ASSUME NEW S \in SUBSET Nat, S # {}
    PROVE  \E x \in S : \A y \in S : x <= y
<1> DEFINE R == OpToRel(<, Nat)
<1>1. IsWellFoundedOn(R, Nat)
  BY NatLessThanWellFounded
<1>2. \A x, y \in Nat : y < x => <<y, x>> \in R
  BY DEF OpToRel
<1> HIDE DEF R
<1>3. PICK x \in S : \A y \in S : ~ (<<y, x>> \in R)
  BY <1>1, WFMin
<1>4. ASSUME NEW y \in S PROVE x <= y
  <2>1. x \in Nat /\ y \in Nat
    OBVIOUS
  <2>2. ~(y < x)
    BY <1>2, <1>3, <2>1
  <2> QED
    BY <2>1, <2>2
<1> QED
  BY <1>4

LEMMA LeastIsMin ==
    ASSUME NEW S \in SUBSET Nat, S # {}
    PROVE  Min(S) \in S /\ \A y \in S : Min(S) <= y
BY LeastNumber DEF Min

\* A bounded set of numbers has a greatest one.
LEMMA GreatestIsMax ==
    ASSUME NEW S \in SUBSET Nat, S # {}, NEW bound \in Nat, \A s \in S : s <= bound
    PROVE  Max(S) \in S /\ \A y \in S : Max(S) >= y
<1> DEFINE Above == {bound - s : s \in S}
<1>1. Above \in SUBSET Nat /\ Above # {}
  <2>1. \A s \in S : bound - s \in Nat
    OBVIOUS
  <2> QED
    BY <2>1
<1> HIDE DEF Above
<1>2. PICK d \in Above : \A e \in Above : d <= e
  BY <1>1, LeastNumber
<1>3. PICK x \in S : d = bound - x
  BY <1>2 DEF Above
<1>4. ASSUME NEW y \in S PROVE x >= y
  <2>1. bound - y \in Above
    BY DEF Above
  <2>2. d <= bound - y /\ x \in Nat /\ y \in Nat
    BY <1>2, <2>1
  <2> QED
    BY <1>3, <2>2
<1> QED
  BY <1>4 DEF Max

LEMMA MinAndMaxOfTwo ==
    ASSUME NEW a \in Nat, NEW b \in Nat
    PROVE  /\ Max({a, b}) \in Nat /\ Max({a, b}) >= a /\ Max({a, b}) >= b
           /\ Min({a, b}) \in {a, b} /\ Min({a, b}) <= a /\ Min({a, b}) <= b
<1>1. {a, b} \in SUBSET Nat /\ {a, b} # {}
  OBVIOUS
<1>2. PICK bound \in Nat : a <= bound /\ b <= bound
  <2>1. a + b \in Nat /\ a <= a + b /\ b <= a + b
    OBVIOUS
  <2> QED
    BY <2>1
<1> QED
  BY <1>1, <1>2, LeastIsMin, GreatestIsMax

LEMMA PartIs ==
    ASSUME NEW S, NEW s \in Seq(S), NEW i \in 1 .. Len(s) + 1, NEW j \in i - 1 .. Len(s)
    PROVE  /\ SubSeq(s, i, j) \in Seq(S) /\ Len(SubSeq(s, i, j)) = j + 1 - i
           /\ \A k \in 1 .. j + 1 - i : SubSeq(s, i, j)[k] = s[i + k - 1]
<1>1. Len(s) \in Nat /\ i \in Int /\ j \in Int /\ \A k \in i .. j : s[k] \in S
  OBVIOUS
<1>2. /\ SubSeq(s, i, j) \in Seq(S)
      /\ Len(SubSeq(s, i, j)) = IF i <= j THEN j - i + 1 ELSE 0
      /\ \A k \in 1 .. j - i + 1 : SubSeq(s, i, j)[k] = s[i + k - 1]
  BY <1>1, SubSeqProperties
<1> QED
  BY <1>1, <1>2

LEMMA PrefixIs ==
    ASSUME NEW S, NEW s \in Seq(S), NEW n \in 0 .. Len(s)
    PROVE  /\ SubSeq(s, 1, n) \in Seq(S) /\ Len(SubSeq(s, 1, n)) = n
           /\ \A k \in 1 .. n : SubSeq(s, 1, n)[k] = s[k]
<1>1. Len(s) \in Nat /\ n \in Int /\ \A k \in 1 .. n : s[k] \in S
  OBVIOUS
<1>2. /\ SubSeq(s, 1, n) \in Seq(S)
      /\ Len(SubSeq(s, 1, n)) = IF 1 <= n THEN n - 1 + 1 ELSE 0
      /\ \A k \in 1 .. n - 1 + 1 : SubSeq(s, 1, n)[k] = s[1 + k - 1]
  BY <1>1, SubSeqProperties
<1>3. n - 1 + 1 = n /\ \A k \in 1 .. n : 1 + k - 1 = k
  BY <1>1
<1> QED
  BY <1>1, <1>2, <1>3

LEMMA RestIs ==
    ASSUME NEW S, NEW s \in Seq(S), NEW i \in 1 .. Len(s) + 1
    PROVE  /\ From(s, i) \in Seq(S) /\ Len(From(s, i)) = Len(s) + 1 - i
           /\ \A k \in 1 .. Len(s) + 1 - i : From(s, i)[k] = s[i + k - 1]
<1>1. Len(s) \in i - 1 .. Len(s)
  OBVIOUS
<1> QED
  BY <1>1, PartIs DEF From

LEMMA WholeIs ==
    ASSUME NEW S, NEW s \in Seq(S)
    PROVE  SubSeq(s, 1, Len(s)) = s
<1>1. Len(s) \in 0 .. Len(s)
  OBVIOUS
<1>2. /\ SubSeq(s, 1, Len(s)) \in Seq(S) /\ Len(SubSeq(s, 1, Len(s))) = Len(s)
      /\ \A k \in 1 .. Len(s) : SubSeq(s, 1, Len(s))[k] = s[k]
  BY <1>1, PrefixIs
<1> QED
  BY <1>2, SeqEqual

LEMMA Split ==
    ASSUME NEW S, NEW s \in Seq(S), NEW i \in 1 .. Len(s) + 1, NEW j \in i .. Len(s) + 1
    PROVE  /\ SubSeq(s, i, j - 1) \in Seq(S)
           /\ From(s, i) = SubSeq(s, i, j - 1) \o From(s, j)
           /\ \A h \in j - 1 .. Len(s) : SubSeq(s, i, h) = SubSeq(s, i, j - 1) \o SubSeq(s, j, h)
<1> DEFINE k == j - 1
<1>1. Len(s) \in Nat /\ i \in Nat /\ j \in Nat
  OBVIOUS
<1>2. k \in i - 1 .. Len(s) /\ j = k + 1 /\ Len(s) \in k .. Len(s)
  BY <1>1
<1> HIDE DEF k
<1>3. ASSUME NEW h \in k .. Len(s) PROVE SubSeq(s, i, h) = SubSeq(s, i, k) \o SubSeq(s, k + 1, h)
  BY <1>2, ConcatAdjacentSubSeq
<1>4. SubSeq(s, i, k) \in Seq(S)
  BY <1>2, PartIs
<1>5. From(s, i) = SubSeq(s, i, k) \o From(s, k + 1)
  BY <1>2, <1>3 DEF From
<1> QED
  BY <1>2, <1>3, <1>4, <1>5 DEF k

LEMMA FirstAndRest ==
    ASSUME NEW S, NEW s \in Seq(S), NEW i \in 1 .. Len(s)
    PROVE  From(s, i) = <<s[i]>> \o From(s, i + 1)
<1>1. Len(s) \in Nat /\ i \in 1 .. Len(s) + 1 /\ i + 1 \in i .. Len(s) + 1 /\ i \in i - 1 .. Len(s)
      /\ i + 1 - i = 1 /\ (i + 1) - 1 = i /\ i + 1 - 1 = i /\ s[i] \in S
  OBVIOUS
<1> DEFINE part == SubSeq(s, i, i)
<1>2. part \in Seq(S) /\ Len(part) = i + 1 - i /\ \A k \in 1 .. i + 1 - i : part[k] = s[i + k - 1]
  BY <1>1, PartIs
<1> HIDE DEF part
<1>3. part \in Seq(S) /\ Len(part) = 1 /\ part[1] = s[i]
  <2>1. 1 \in 1 .. i + 1 - i
    BY <1>1
  <2>2. part[1] = s[i + 1 - 1]
    BY <1>2, <2>1
  <2> QED
    BY <1>1, <1>2, <2>2
<1>4. <<s[i]>> \in Seq(S) /\ Len(<<s[i]>>) = 1 /\ <<s[i]>>[1] = s[i]
  BY <1>1
<1>5. part = <<s[i]>>
  <2>1. \A k \in 1 .. Len(part) : part[k] = <<s[i]>>[k]
    BY <1>3, <1>4
  <2> QED
    BY <1>3, <1>4, <2>1, SeqEqual
<1>6. From(s, i) = SubSeq(s, i, (i + 1) - 1) \o From(s, i + 1)
  BY <1>1, Split
<1> QED
  BY <1>1, <1>5, <1>6 DEF part

LEMMA Concat ==
    ASSUME NEW s \in Text, NEW t \in Text
    PROVE  s \o t \in Text
BY ConcatProperties DEF Text

Associative(s, t, u) == (s \o t) \o u = s \o (t \o u)

LEMMA ConcatAssoc ==
    ASSUME NEW s \in Text, NEW t \in Text, NEW u \in Text
    PROVE  Associative(s, t, u)
BY ConcatAssociative DEF Text, Associative

LEMMA ConcatEmpty ==
    ASSUME NEW s \in Text
    PROVE  s \o <<>> = s /\ <<>> \o s = s
BY ConcatEmptySeq DEF Text

-----------------------------------------------------------------------------
(* str.find. *)

Hits(marker, text, from) ==
    {i \in from .. Len(text) + 1 - Len(marker) : OccursAt(marker, text, i)}

Matches(marker, text, i) == \A j \in 1 .. Len(marker) : text[i + j - 1] = marker[j]

LEMMA Occurs ==
    ASSUME NEW S, NEW text \in Seq(S), NEW marker \in Seq(S),
           NEW i \in 1 .. Len(text) + 1 - Len(marker)
    PROVE  OccursAt(marker, text, i) <=> Matches(marker, text, i)
<1> DEFINE n == Len(marker)
           part == SubSeq(text, i, i + n - 1)
<1>1. n \in Nat /\ Len(text) \in Nat /\ i \in 1 .. Len(text) + 1
      /\ i + n - 1 \in i - 1 .. Len(text)
  OBVIOUS
<1>2. part \in Seq(S) /\ Len(part) = n /\ \A j \in 1 .. n : part[j] = text[i + j - 1]
  BY <1>1, PartIs
<1> HIDE DEF part
<1>3. (\A j \in 1 .. n : part[j] = marker[j]) => part = marker
  BY <1>2, SeqEqual
<1> QED
  BY <1>2, <1>3 DEF OccursAt, Matches, part

\* It returns the first of the hits, if there is one.
LEMMA Found ==
    ASSUME NEW S, NEW text \in Seq(S), NEW marker \in Seq(S), marker # <<>>,
           NEW from \in Nat \ {0}
    PROVE  \/ Find(marker, text, from) = 0 /\ Hits(marker, text, from) = {}
           \/ /\ Find(marker, text, from) \in Hits(marker, text, from)
              /\ \A h \in Hits(marker, text, from) : Find(marker, text, from) <= h
<1> DEFINE H == Hits(marker, text, from)
<1>1. Find(marker, text, from) = IF H = {} THEN 0 ELSE Min(H)
  BY DEF Find, Hits
<1>2. Len(text) \in Nat /\ Len(marker) \in Nat \ {0}
  BY EmptySeq
<1>3. H \in SUBSET Nat
  BY <1>2 DEF Hits
<1> HIDE DEF H
<1>4. H # {} => Min(H) \in H /\ \A h \in H : Min(H) <= h
  BY <1>3, LeastIsMin
<1> QED
  BY <1>1, <1>4 DEF H

\* Where a found tag ends.
LEMMA FoundInside ==
    ASSUME NEW S, NEW text \in Seq(S), NEW marker \in Seq(S), marker # <<>>,
           NEW from \in Nat \ {0}, Find(marker, text, from) # 0
    PROVE  /\ Find(marker, text, from) \in from .. Len(text)
           /\ Find(marker, text, from) + Len(marker) \in from + 1 .. Len(text) + 1
           /\ Len(marker) \in Nat \ {0}
<1>1. Find(marker, text, from) \in from .. Len(text) + 1 - Len(marker)
  BY Found DEF Hits
<1>2. Len(text) \in Nat /\ Len(marker) \in Nat \ {0}
  BY EmptySeq
<1> QED
  BY <1>1, <1>2

\* Nothing is found before a place no hit comes before.
LEMMA FoundLater ==
    ASSUME NEW S, NEW text \in Seq(S), NEW marker \in Seq(S), marker # <<>>,
           NEW i \in Nat \ {0}, NEW j \in Nat \ {0}, i <= j,
           \A h \in Hits(marker, text, i) : h >= j
    PROVE  Find(marker, text, i) = Find(marker, text, j)
<1>1. Len(text) \in Nat /\ Len(marker) \in Nat \ {0}
  BY EmptySeq
<1>2. Hits(marker, text, i) = Hits(marker, text, j)
  BY <1>1 DEF Hits
<1> QED
  BY <1>2 DEF Find, Hits

-----------------------------------------------------------------------------
(* Functions that go on from one section of a text to the next. *)

ChainBody(next, part, f, i) == IF next[i] = 0 THEN part[i] ELSE part[i] \o f[next[i]]

IsChain(S, n, next, part) ==
    /\ n \in Nat /\ next \in [1 .. n -> 0 .. n] /\ part \in [1 .. n -> Seq(S)]
    /\ \A i \in 1 .. n : next[i] = 0 \/ next[i] > i

Solution(n, next, part, f) == \A i \in 1 .. n : f[i] = ChainBody(next, part, f, i)

\* Such a function exists.
LEMMA ChainExists ==
    ASSUME NEW S, NEW n, NEW next, NEW part, IsChain(S, n, next, part)
    PROVE  \E f \in [1 .. n -> Seq(S)] : Solution(n, next, part, f)
<1>0. /\ n \in Nat /\ next \in [1 .. n -> 0 .. n] /\ part \in [1 .. n -> Seq(S)]
      /\ \A i \in 1 .. n : next[i] = 0 \/ next[i] > i
  BY DEF IsChain
<1> USE <1>0
<1> DEFINE Solves(f, m) == \A i \in 1 .. n : i > n - m => f[i] = ChainBody(next, part, f, i)
           Unsolved == {m \in 0 .. n : ~ \E f \in [1 .. n -> Seq(S)] : Solves(f, m)}
<1>1. n \notin Unsolved
  <2> SUFFICES ASSUME Unsolved # {} PROVE FALSE
    OBVIOUS
  <2>1. PICK m \in Unsolved : \A k \in Unsolved : m <= k
    <3>1. Unsolved \in SUBSET Nat
      OBVIOUS
    <3> HIDE DEF Unsolved
    <3> QED
      BY <3>1, LeastNumber
  <2>2. m \in 0 .. n /\ ~ \E f \in [1 .. n -> Seq(S)] : Solves(f, m)
    OBVIOUS
  <2>3. Solves(part, 0)
    OBVIOUS
  <2>4. m # 0
    BY <2>2, <2>3
  <2> DEFINE at == n - (m - 1)
  <2>5. at \in 1 .. n /\ m - 1 \in 0 .. n /\ m - 1 \notin Unsolved /\ n - m = at - 1
    <3> HIDE DEF Unsolved
    <3>1. m \in 1 .. n
      BY <2>2, <2>4
    <3>2. ~(m <= m - 1)
      BY <3>1
    <3> QED
      BY <2>1, <3>1, <3>2
  <2>6. PICK f \in [1 .. n -> Seq(S)] : Solves(f, m - 1)
    BY <2>5
  <2>7. \A i \in 1 .. n : i > at => f[i] = ChainBody(next, part, f, i)
    BY <2>6
  <2> HIDE DEF at, Solves, Unsolved
  <2> DEFINE g == [f EXCEPT ![at] = ChainBody(next, part, f, at)]
  <2>8. ChainBody(next, part, f, at) \in Seq(S)
    <3>1. part[at] \in Seq(S) /\ next[at] \in 0 .. n
      BY <2>5
    <3>2. next[at] # 0 => f[next[at]] \in Seq(S)
      BY <3>1
    <3> QED
      BY <3>1, <3>2 DEF ChainBody
  <2>9. g \in [1 .. n -> Seq(S)]
    BY <2>8
  <2>10. ASSUME NEW i \in 1 .. n, i >= at PROVE g[i] = ChainBody(next, part, g, i)
    <3>1. next[i] = 0 \/ (next[i] > at /\ next[i] \in 1 .. n)
      <4> DEFINE x == next[i]
      <4>1. x \in 0 .. n /\ (x = 0 \/ x > i)
        BY <1>0
      <4>2. n \in Nat /\ i \in 1 .. n /\ at \in 1 .. n /\ i >= at
        BY <1>0, <2>5, <2>10
      <4> HIDE <1>0
      <4> HIDE DEF x
      <4>3. x = 0 \/ (x > at /\ x \in 1 .. n)
        BY <4>1, <4>2
      <4> QED
        BY <4>3 DEF x
    <3>2. next[i] # 0 => g[next[i]] = f[next[i]]
      BY <2>5, <3>1
    <3>3. ChainBody(next, part, g, i) = ChainBody(next, part, f, i)
      BY <3>2 DEF ChainBody
    <3>4. CASE i = at
      BY <2>5, <3>3, <3>4
    <3>5. CASE i > at
      BY <2>5, <2>7, <3>3, <3>5
    <3> QED
      BY <2>5, <2>10, <3>4, <3>5
  <2> HIDE DEF g
  <2>11. Solves(g, m)
    <3>1. \A i \in 1 .. n : i > n - m => i >= at
      BY <2>5
    <3> QED
      BY <2>10, <3>1 DEF Solves
  <2> QED
    BY <2>2, <2>9, <2>11
<1>2. PICK f \in [1 .. n -> Seq(S)] : Solves(f, n)
  BY <1>1
<1>3. \A i \in 1 .. n : i > n - n
  OBVIOUS
<1> QED
  BY <1>2, <1>3 DEF Solution

\* It is the only one.
LEMMA ChainIsUnique ==
    ASSUME NEW S, NEW n, NEW next, NEW part, IsChain(S, n, next, part)
    PROVE  \A f, g : Solution(n, next, part, f) /\ Solution(n, next, part, g)
                         => \A i \in 1 .. n : f[i] = g[i]
<1> SUFFICES ASSUME NEW f, Solution(n, next, part, f),
                    NEW g, Solution(n, next, part, g)
             PROVE  \A i \in 1 .. n : f[i] = g[i]
  OBVIOUS
<1>0. /\ n \in Nat /\ next \in [1 .. n -> 0 .. n]
      /\ \A i \in 1 .. n : next[i] = 0 \/ next[i] > i
      /\ \A i \in 1 .. n : f[i] = ChainBody(next, part, f, i)
      /\ \A i \in 1 .. n : g[i] = ChainBody(next, part, g, i)
  BY DEF IsChain, Solution
<1> USE <1>0
<1> DEFINE Differ == {m \in 0 .. n : n - m \in 1 .. n /\ f[n - m] # g[n - m]}
<1>1. Differ = {}
  <2> SUFFICES ASSUME Differ # {} PROVE FALSE
    OBVIOUS
  <2>1. PICK m \in Differ : \A k \in Differ : m <= k
    <3>1. Differ \in SUBSET Nat
      OBVIOUS
    <3> HIDE DEF Differ
    <3> QED
      BY <3>1, LeastNumber
  <2> DEFINE i == n - m
  <2>2. i \in 1 .. n /\ f[i] # g[i] /\ m \in 0 .. n
    OBVIOUS
  <2>3. next[i] # 0 /\ f[next[i]] # g[next[i]]
    BY <2>2 DEF ChainBody
  <2>4. next[i] \in 1 .. n /\ next[i] > i
    BY <2>2, <2>3
  <2> DEFINE k == n - next[i]
  <2>5. k \in 0 .. n /\ n - k = next[i] /\ k < m
    <3> DEFINE x == next[i]
    <3>1. n \in Nat /\ m \in 0 .. n /\ x \in 1 .. n /\ x > n - m
      BY <1>0, <2>2, <2>4
    <3> HIDE DEF x
    <3>2. n - x \in 0 .. n /\ n - (n - x) = x /\ n - x < m
      BY <3>1
    <3> QED
      BY <3>2 DEF x
  <2>6. k \in Differ
    BY <2>3, <2>4, <2>5
  <2> HIDE DEF Differ, k
  <2> QED
    BY <2>1, <2>2, <2>5, <2>6
<1>2. ASSUME NEW i \in 1 .. n PROVE f[i] = g[i]
  <2>1. n - i \in 0 .. n /\ n - (n - i) = i
    OBVIOUS
  <2> QED
    BY <1>1, <2>1
<1> QED
  BY <1>2

-----------------------------------------------------------------------------
(* The sections of a text. *)

LEMMA Functions ==
    /\ \A text : StripThinking(text) = Kept(text)[1]
    /\ \A text : ReasoningOf(text) = Inside(text)[1]
    /\ \A shown : TextOf(shown) = TextFrom(shown)[1]
BY DEF StripThinking, Kept, KeptBody, ReasoningOf, Inside, InsideBody, TextOf, TextFrom, TextBody

LEMMA Tags ==
    /\ Open \in Text /\ Open # <<>> /\ Len(Open) \in Nat \ {0}
    /\ Close \in Text /\ Close # <<>> /\ Len(Close) \in Nat \ {0}
<1>1. Open \in Text /\ Open # <<>> /\ Close \in Text /\ Close # <<>>
  BY StreamAssumption DEF Text
<1> QED
  BY <1>1, EmptySeq DEF Text

NextSection(text, i) ==
    LET start == Find(Open, text, i)
        end == Find(Close, text, start + Len(Open))
    IN IF start = 0 \/ end = 0 THEN 0 ELSE end + Len(Close)

KeptPart(text, i) ==
    LET start == Find(Open, text, i)
    IN IF start = 0 THEN From(text, i) ELSE SubSeq(text, i, start - 1)

InsidePart(text, i) ==
    LET start == Find(Open, text, i)
        body == start + Len(Open)
        end == Find(Close, text, body)
    IN IF start = 0 THEN <<>>
       ELSE IF end = 0 THEN From(text, body) ELSE SubSeq(text, body, end - 1)

LEMMA Sections ==
    ASSUME NEW text \in Text, NEW i \in 1 .. Len(text) + 1
    PROVE  /\ NextSection(text, i) \in 0 .. Len(text) + 1
           /\ NextSection(text, i) = 0 \/ NextSection(text, i) > i
           /\ KeptPart(text, i) \in Text /\ InsidePart(text, i) \in Text
           /\ \A k : /\ KeptBody(text, k, i) =
                            IF NextSection(text, i) = 0 THEN KeptPart(text, i)
                            ELSE KeptPart(text, i) \o k[NextSection(text, i)]
                     /\ InsideBody(text, k, i) =
                            IF NextSection(text, i) = 0 THEN InsidePart(text, i)
                            ELSE InsidePart(text, i) \o k[NextSection(text, i)]
<1> DEFINE start == Find(Open, text, i)
           body == start + Len(Open)
           end == Find(Close, text, body)
           n == Len(text)
<1>1. n \in Nat /\ text \in Seq(Characters) /\ i \in Nat \ {0}
  BY DEF Text
<1>2. start # 0 => /\ start \in i .. n /\ body \in i + 1 .. n + 1
                   /\ SubSeq(text, i, start - 1) \in Text
  <2>1. start # 0 => start \in i .. n /\ body \in i + 1 .. n + 1
    BY <1>1, Tags, FoundInside DEF Text
  <2> HIDE DEF start, body
  <2>2. start # 0 => start - 1 \in i - 1 .. n
    BY <1>1, <2>1
  <2> QED
    BY <1>1, <2>1, <2>2, PartIs DEF Text
<1> HIDE DEF start
<1>3. start # 0 /\ end # 0 => /\ end \in body .. n /\ end + Len(Close) \in body + 1 .. n + 1
                              /\ SubSeq(text, body, end - 1) \in Text
  <2> SUFFICES ASSUME start # 0, end # 0
               PROVE  /\ end \in body .. n /\ end + Len(Close) \in body + 1 .. n + 1
                      /\ SubSeq(text, body, end - 1) \in Text
    OBVIOUS
  <2>1. body \in Nat \ {0} /\ body \in 1 .. n + 1
    BY <1>1, <1>2
  <2> HIDE DEF body
  <2>2. end \in body .. n /\ end + Len(Close) \in body + 1 .. n + 1
    BY <1>1, <2>1, Tags, FoundInside DEF Text
  <2> HIDE DEF end
  <2>3. end - 1 \in body - 1 .. n
    BY <1>1, <2>1, <2>2
  <2> QED
    BY <1>1, <2>1, <2>2, <2>3, PartIs DEF Text
<1>4. From(text, i) \in Text /\ (start # 0 => From(text, body) \in Text) /\ <<>> \in Text
  <2>1. start # 0 => body \in 1 .. n + 1
    BY <1>1, <1>2
  <2> HIDE DEF body
  <2> QED
    BY <1>1, <2>1, RestIs DEF Text
<1>5. /\ NextSection(text, i) = IF start = 0 \/ end = 0 THEN 0 ELSE end + Len(Close)
      /\ KeptPart(text, i) = IF start = 0 THEN From(text, i) ELSE SubSeq(text, i, start - 1)
      /\ InsidePart(text, i) = IF start = 0 THEN <<>>
                               ELSE IF end = 0 THEN From(text, body) ELSE SubSeq(text, body, end - 1)
  BY DEF NextSection, KeptPart, InsidePart, start
<1>6. \A k : /\ KeptBody(text, k, i) =
                   IF start = 0 THEN From(text, i)
                   ELSE SubSeq(text, i, start - 1) \o (IF end = 0 THEN <<>> ELSE k[end + Len(Close)])
             /\ InsideBody(text, k, i) =
                   IF start = 0 THEN <<>>
                   ELSE IF end = 0 THEN From(text, body)
                   ELSE SubSeq(text, body, end - 1) \o k[end + Len(Close)]
  BY DEF KeptBody, InsideBody, start
<1>7. start # 0 => SubSeq(text, i, start - 1) \o <<>> = SubSeq(text, i, start - 1)
  BY <1>2, ConcatEmptySeq DEF Text
<1>8. /\ NextSection(text, i) \in 0 .. n + 1
      /\ NextSection(text, i) = 0 \/ NextSection(text, i) > i
  <2> DEFINE after == end + Len(Close)
  <2>1. start # 0 /\ end # 0 => after \in body + 1 .. n + 1
    BY <1>3
  <2> HIDE DEF after, body
  <2>2. start # 0 => body \in i + 1 .. n + 1
    BY <1>2
  <2>3. start # 0 /\ end # 0 => after \in 0 .. n + 1 /\ after > i
    BY <1>1, <2>1, <2>2
  <2>4. NextSection(text, i) = IF start = 0 \/ end = 0 THEN 0 ELSE after
    BY <1>5 DEF after, body
  <2> HIDE DEF end
  <2> QED
    BY <1>1, <2>3, <2>4
<1>9. start # 0 /\ end # 0 => NextSection(text, i) # 0
  <2> DEFINE after == end + Len(Close)
  <2>1. start # 0 /\ end # 0 => after \in body + 1 .. n + 1
    BY <1>3
  <2> HIDE DEF after, body
  <2>2. start # 0 => body \in i + 1 .. n + 1
    BY <1>2
  <2>3. start # 0 /\ end # 0 => after # 0
    BY <1>1, <2>1, <2>2
  <2> QED
    BY <1>5, <2>3 DEF after, body
<1>10. KeptPart(text, i) \in Text /\ InsidePart(text, i) \in Text
  BY <1>2, <1>3, <1>4, <1>5
<1> HIDE DEF end, body
<1>11. CASE start = 0
  BY <1>5, <1>6, <1>8, <1>10, <1>11
<1>12. CASE start # 0 /\ end = 0
  BY <1>5, <1>6, <1>7, <1>8, <1>10, <1>12
<1>13. CASE start # 0 /\ end # 0
  BY <1>5, <1>6, <1>8, <1>9, <1>10, <1>13
<1> QED
  BY <1>11, <1>12, <1>13

\* The recursions are defined at every position, and give texts.
LEMMA Recursion ==
    ASSUME NEW text \in Text
    PROVE  /\ Kept(text) \in [1 .. Len(text) + 1 -> Text]
           /\ \A i \in 1 .. Len(text) + 1 : Kept(text)[i] = KeptBody(text, Kept(text), i)
           /\ Inside(text) \in [1 .. Len(text) + 1 -> Text]
           /\ \A i \in 1 .. Len(text) + 1 : Inside(text)[i] = InsideBody(text, Inside(text), i)
<1> DEFINE n == Len(text) + 1
           next == [i \in 1 .. n |-> NextSection(text, i)]
           kept == [i \in 1 .. n |-> KeptPart(text, i)]
           inside == [i \in 1 .. n |-> InsidePart(text, i)]
<1>1. n \in Nat
  BY DEF Text
<1>2. IsChain(Characters, n, next, kept) /\ IsChain(Characters, n, next, inside)
  BY <1>1, Sections DEF IsChain, Text
<1>3. \A i \in 1 .. n : \A k : /\ KeptBody(text, k, i) = ChainBody(next, kept, k, i)
                               /\ InsideBody(text, k, i) = ChainBody(next, inside, k, i)
  BY Sections DEF ChainBody
<1>4. n = Len(text) + 1
  OBVIOUS
<1> HIDE DEF n, next, kept, inside
<1>5. /\ Kept(text) \in [1 .. n -> Text]
      /\ \A i \in 1 .. n : Kept(text)[i] = KeptBody(text, Kept(text), i)
  <2>1. PICK f \in [1 .. n -> Seq(Characters)] : Solution(n, next, kept, f)
    BY <1>2, ChainExists
  <2>2. f = [i \in 1 .. n |-> KeptBody(text, f, i)]
    BY <1>3, <2>1 DEF Solution
  <2>3. Kept(text) = [i \in 1 .. n |-> KeptBody(text, Kept(text), i)]
    <3>1. \E k : k = [i \in 1 .. Len(text) + 1 |-> KeptBody(text, k, i)]
      BY <1>4, <2>2
    <3> QED
      BY <1>4, <3>1 DEF Kept
  <2> DEFINE g == Kept(text)
  <2> HIDE DEF g
  <2>4. g = [i \in 1 .. n |-> KeptBody(text, g, i)]
    BY <2>3 DEF g
  <2>5. Solution(n, next, kept, g)
    BY <1>3, <2>4 DEF Solution
  <2>6. \A i \in 1 .. n : f[i] = g[i]
    <3>1. \A h, k : Solution(n, next, kept, h) /\ Solution(n, next, kept, k)
                        => \A i \in 1 .. n : h[i] = k[i]
      BY <1>2, ChainIsUnique
    <3> QED
      BY <2>1, <2>5, <3>1
  <2>7. g \in [1 .. n -> Seq(Characters)] /\ \A i \in 1 .. n : g[i] = KeptBody(text, g, i)
    BY <2>1, <2>4, <2>6
  <2> QED
    BY <2>7 DEF g, Text
<1>6. /\ Inside(text) \in [1 .. n -> Text]
      /\ \A i \in 1 .. n : Inside(text)[i] = InsideBody(text, Inside(text), i)
  <2>1. PICK f \in [1 .. n -> Seq(Characters)] : Solution(n, next, inside, f)
    BY <1>2, ChainExists
  <2>2. f = [i \in 1 .. n |-> InsideBody(text, f, i)]
    BY <1>3, <2>1 DEF Solution
  <2>3. Inside(text) = [i \in 1 .. n |-> InsideBody(text, Inside(text), i)]
    <3>1. \E k : k = [i \in 1 .. Len(text) + 1 |-> InsideBody(text, k, i)]
      BY <1>4, <2>2
    <3> QED
      BY <1>4, <3>1 DEF Inside
  <2> DEFINE g == Inside(text)
  <2> HIDE DEF g
  <2>4. g = [i \in 1 .. n |-> InsideBody(text, g, i)]
    BY <2>3 DEF g
  <2>5. Solution(n, next, inside, g)
    BY <1>3, <2>4 DEF Solution
  <2>6. \A i \in 1 .. n : f[i] = g[i]
    <3>1. \A h, k : Solution(n, next, inside, h) /\ Solution(n, next, inside, k)
                        => \A i \in 1 .. n : h[i] = k[i]
      BY <1>2, ChainIsUnique
    <3> QED
      BY <2>1, <2>5, <3>1
  <2>7. g \in [1 .. n -> Seq(Characters)] /\ \A i \in 1 .. n : g[i] = InsideBody(text, g, i)
    BY <2>1, <2>4, <2>6
  <2> QED
    BY <2>7 DEF g, Text
<1> QED
  BY <1>4, <1>5, <1>6

-----------------------------------------------------------------------------
(* What is still to come of a text from a position on, in either state of  *)
(* the filter.                                                             *)

Tag(in) == IF in THEN Close ELSE Open

VisibleRest(text, i, in) ==
    LET end == Find(Close, text, i)
    IN IF ~in THEN Kept(text)[i]
       ELSE IF end = 0 THEN <<>> ELSE Kept(text)[end + Len(Close)]

ThinkingRest(text, i, in) ==
    LET end == Find(Close, text, i)
    IN IF ~in THEN Inside(text)[i]
       ELSE IF end = 0 THEN From(text, i)
       ELSE SubSeq(text, i, end - 1) \o Inside(text)[end + Len(Close)]

VisiblePart(in, part) == IF in THEN <<>> ELSE part

ThinkingPart(in, part) == IF in THEN part ELSE <<>>

LEMMA TagIsText ==
    ASSUME NEW in \in BOOLEAN
    PROVE  Tag(in) \in Seq(Characters) /\ Tag(in) # <<>> /\ Len(Tag(in)) \in Nat \ {0}
BY Tags DEF Tag, Text

LEMMA PartsAreTexts ==
    ASSUME NEW in \in BOOLEAN, NEW part \in Text
    PROVE  VisiblePart(in, part) \in Text /\ ThinkingPart(in, part) \in Text
BY DEF VisiblePart, ThinkingPart, Text

\* Both pieces of code take the next tag for the end of the section.
LEMMA AtTag ==
    ASSUME NEW text \in Text, NEW i \in 1 .. Len(text) + 1, NEW in \in BOOLEAN,
           Find(Tag(in), text, i) # 0
    PROVE  LET at == Find(Tag(in), text, i)
               next == at + Len(Tag(in))
           IN /\ at \in i .. Len(text) /\ next \in i + 1 .. Len(text) + 1
              /\ SubSeq(text, i, at - 1) \in Text
              /\ VisibleRest(text, i, in) =
                    VisiblePart(in, SubSeq(text, i, at - 1)) \o VisibleRest(text, next, ~in)
              /\ ThinkingRest(text, i, in) =
                    ThinkingPart(in, SubSeq(text, i, at - 1)) \o ThinkingRest(text, next, ~in)
<1> DEFINE at == Find(Tag(in), text, i)
<1>0. at = Find(Tag(in), text, i) /\ at # 0
  OBVIOUS
<1> HIDE DEF at
<1>1. Len(text) \in Nat /\ i \in Nat \ {0} /\ text \in Seq(Characters)
  BY DEF Text
<1>2. at \in i .. Len(text) /\ at + Len(Tag(in)) \in i + 1 .. Len(text) + 1
  BY <1>0, <1>1, TagIsText, FoundInside
<1>3. SubSeq(text, i, at - 1) \in Text
  <2>1. at - 1 \in i - 1 .. Len(text)
    BY <1>1, <1>2
  <2> QED
    BY <1>1, <2>1, PartIs DEF Text
<1> DEFINE next == at + Len(Tag(in))
<1>4. next \in 1 .. Len(text) + 1
  BY <1>1, <1>2
<1>5. /\ Kept(text)[next] \in Seq(Characters) /\ Inside(text)[next] \in Seq(Characters)
      /\ ThinkingRest(text, next, TRUE) \in Seq(Characters)
  <2>1. Kept(text)[next] \in Seq(Characters) /\ Inside(text)[next] \in Seq(Characters)
    BY <1>4, Recursion DEF Text
  <2>2. ThinkingRest(text, next, TRUE) \in Seq(Characters)
    <3> DEFINE end == Find(Close, text, next)
    <3> HIDE DEF next
    <3>1. end # 0 => end \in next .. Len(text) /\ end + Len(Close) \in 1 .. Len(text) + 1
      BY <1>1, <1>4, Tags, FoundInside DEF Text
    <3> HIDE DEF end
    <3>2. end # 0 => SubSeq(text, next, end - 1) \in Seq(Characters)
      <4>1. end # 0 => end - 1 \in next - 1 .. Len(text)
        BY <1>1, <1>4, <3>1
      <4> QED
        BY <1>1, <1>4, <4>1, PartIs
    <3>3. end # 0 => Inside(text)[end + Len(Close)] \in Seq(Characters)
      BY <3>1, Recursion DEF Text
    <3>4. From(text, next) \in Seq(Characters)
      BY <1>1, <1>4, RestIs
    <3>5. ThinkingRest(text, next, TRUE) =
            IF end = 0 THEN From(text, next)
            ELSE SubSeq(text, next, end - 1) \o Inside(text)[end + Len(Close)]
      BY DEF ThinkingRest, end
    <3>6. end # 0 => SubSeq(text, next, end - 1) \o Inside(text)[end + Len(Close)]
                        \in Seq(Characters)
      BY <3>2, <3>3, ConcatProperties
    <3> QED
      BY <3>4, <3>5, <3>6
  <2> QED
    BY <2>1, <2>2
<1>6. CASE in = FALSE
  <2>1. at = Find(Open, text, i) /\ next = at + Len(Open)
    BY <1>0, <1>6 DEF Tag
  <2>2. VisibleRest(text, i, in) = KeptBody(text, Kept(text), i)
    BY <1>6, Recursion DEF VisibleRest
  <2>3. ThinkingRest(text, i, in) = InsideBody(text, Inside(text), i)
    BY <1>6, Recursion DEF ThinkingRest
  <2>4. KeptBody(text, Kept(text), i) =
          SubSeq(text, i, at - 1) \o VisibleRest(text, at + Len(Open), TRUE)
    BY <1>0, <2>1 DEF KeptBody, VisibleRest
  <2>5. InsideBody(text, Inside(text), i) = ThinkingRest(text, at + Len(Open), TRUE)
    BY <1>0, <2>1 DEF InsideBody, ThinkingRest
  <2>6. <<>> \o ThinkingRest(text, next, TRUE) = ThinkingRest(text, next, TRUE)
    BY <1>5, ConcatEmptySeq
  <2> HIDE DEF next
  <2>7. VisibleRest(text, i, in) =
          VisiblePart(in, SubSeq(text, i, at - 1)) \o VisibleRest(text, next, ~in)
    BY <1>6, <2>1, <2>2, <2>4 DEF VisiblePart
  <2>8. ThinkingRest(text, i, in) =
          ThinkingPart(in, SubSeq(text, i, at - 1)) \o ThinkingRest(text, next, ~in)
    BY <1>6, <2>1, <2>3, <2>5, <2>6 DEF ThinkingPart
  <2> QED
    BY <1>2, <1>3, <2>7, <2>8 DEF next, at
<1>7. CASE in = TRUE
  <2>1. at = Find(Close, text, i) /\ next = at + Len(Close)
    BY <1>0, <1>7 DEF Tag
  <2>2. <<>> \o Kept(text)[next] = Kept(text)[next]
    BY <1>5, ConcatEmptySeq
  <2>3. VisibleRest(text, i, in) = Kept(text)[at + Len(Close)]
    BY <1>0, <1>7, <2>1 DEF VisibleRest
  <2>4. ThinkingRest(text, i, in) =
          SubSeq(text, i, at - 1) \o Inside(text)[at + Len(Close)]
    BY <1>0, <1>7, <2>1 DEF ThinkingRest
  <2>5. /\ VisibleRest(text, next, ~in) = Kept(text)[next]
        /\ ThinkingRest(text, next, ~in) = Inside(text)[next]
    BY <1>7 DEF VisibleRest, ThinkingRest
  <2> HIDE DEF next
  <2>6. VisibleRest(text, i, in) =
          VisiblePart(in, SubSeq(text, i, at - 1)) \o VisibleRest(text, next, ~in)
    BY <1>7, <2>1, <2>2, <2>3, <2>5 DEF VisiblePart
  <2>7. ThinkingRest(text, i, in) =
          ThinkingPart(in, SubSeq(text, i, at - 1)) \o ThinkingRest(text, next, ~in)
    BY <1>7, <2>1, <2>4, <2>5 DEF ThinkingPart
  <2> QED
    BY <1>2, <1>3, <2>6, <2>7 DEF next, at
<1> QED
  BY <1>6, <1>7 DEF at

\* Without one, the rest of the text belongs to the section.
LEMMA NoTag ==
    ASSUME NEW text \in Text, NEW i \in 1 .. Len(text) + 1, NEW in \in BOOLEAN,
           Find(Tag(in), text, i) = 0
    PROVE  /\ VisibleRest(text, i, in) = VisiblePart(in, From(text, i))
           /\ ThinkingRest(text, i, in) = ThinkingPart(in, From(text, i))
<1>1. CASE in = FALSE
  <2>1. Find(Open, text, i) = 0
    BY <1>1 DEF Tag
  <2>2. /\ VisibleRest(text, i, in) = KeptBody(text, Kept(text), i)
        /\ ThinkingRest(text, i, in) = InsideBody(text, Inside(text), i)
    BY <1>1, Recursion DEF VisibleRest, ThinkingRest
  <2> QED
    BY <1>1, <2>1, <2>2 DEF KeptBody, InsideBody, VisiblePart, ThinkingPart
<1>2. CASE in = TRUE
  BY <1>2 DEF Tag, VisibleRest, ThinkingRest, VisiblePart, ThinkingPart
<1> QED
  BY <1>1, <1>2

LEMMA PartOfConcat ==
    ASSUME NEW in \in BOOLEAN, NEW s \in Text, NEW t \in Text
    PROVE  /\ VisiblePart(in, s \o t) = VisiblePart(in, s) \o VisiblePart(in, t)
           /\ ThinkingPart(in, s \o t) = ThinkingPart(in, s) \o ThinkingPart(in, t)
<1>1. <<>> \o <<>> = <<>>
  <2>1. <<>> \in Text
    BY DEF Text
  <2> QED
    BY <2>1, ConcatEmptySeq DEF Text
<1> QED
  BY <1>1 DEF VisiblePart, ThinkingPart

LEMMA RestsAreTexts ==
    ASSUME NEW text \in Text, NEW i \in 1 .. Len(text) + 1, NEW in \in BOOLEAN
    PROVE  VisibleRest(text, i, in) \in Text /\ ThinkingRest(text, i, in) \in Text
<1> DEFINE at == Find(Tag(in), text, i)
           next == at + Len(Tag(in))
<1>1. Len(text) \in Nat /\ 1 \in 1 .. Len(text) + 1
  BY DEF Text
<1>2. CASE in = FALSE
  BY <1>2, Recursion DEF VisibleRest, ThinkingRest
<1>3. CASE in = TRUE /\ at = 0
  <2>1. From(text, i) \in Text
    BY RestIs DEF Text
  <2> DEFINE rest == From(text, i)
  <2>2. /\ VisibleRest(text, i, in) = VisiblePart(in, rest)
        /\ ThinkingRest(text, i, in) = ThinkingPart(in, rest)
    BY <1>3, NoTag
  <2> HIDE DEF rest
  <2>3. VisiblePart(in, rest) \in Text /\ ThinkingPart(in, rest) \in Text
    BY <2>1, PartsAreTexts DEF rest
  <2> QED
    BY <2>2, <2>3
<1>4. CASE in = TRUE /\ at # 0
  <2>1. /\ next \in 1 .. Len(text) + 1 /\ SubSeq(text, i, at - 1) \in Text
        /\ VisibleRest(text, i, in) =
              VisiblePart(in, SubSeq(text, i, at - 1)) \o VisibleRest(text, next, ~in)
        /\ ThinkingRest(text, i, in) =
              ThinkingPart(in, SubSeq(text, i, at - 1)) \o ThinkingRest(text, next, ~in)
    <3>1. next \in i + 1 .. Len(text) + 1
      BY <1>4, AtTag
    <3>2. next \in 1 .. Len(text) + 1
      BY <1>1, <3>1
    <3> QED
      BY <1>4, <3>2, AtTag
  <2> HIDE DEF at, next
  <2>2. VisibleRest(text, next, ~in) \in Text /\ ThinkingRest(text, next, ~in) \in Text
    BY <1>4, <2>1, Recursion DEF VisibleRest, ThinkingRest
  <2> QED
    BY <2>1, <2>2, PartsAreTexts, Concat
<1> QED
  BY <1>2, <1>3, <1>4

\* What no tag begins in may be released before the tag is looked for.
LEMMA NoTagBefore ==
    ASSUME NEW text \in Text, NEW in \in BOOLEAN,
           NEW i \in 1 .. Len(text) + 1, NEW j \in i .. Len(text) + 1,
           \A h \in Hits(Tag(in), text, i) : h >= j
    PROVE  /\ VisibleRest(text, i, in) =
                 VisiblePart(in, SubSeq(text, i, j - 1)) \o VisibleRest(text, j, in)
           /\ ThinkingRest(text, i, in) =
                 ThinkingPart(in, SubSeq(text, i, j - 1)) \o ThinkingRest(text, j, in)
<1> DEFINE at == Find(Tag(in), text, j)
           next == at + Len(Tag(in))
           skipped == SubSeq(text, i, j - 1)
<1>1. /\ Len(text) \in Nat /\ text \in Seq(Characters)
      /\ i \in Nat \ {0} /\ j \in Nat \ {0} /\ i <= j /\ j \in 1 .. Len(text) + 1
      /\ j - 1 \in i - 1 .. Len(text)
  BY DEF Text
<1>2. Find(Tag(in), text, i) = at
  BY <1>1, TagIsText, FoundLater
<1>3. skipped \in Text
  BY <1>1, PartIs DEF Text
<1>4. CASE at = 0
  <2>1. From(text, j) \in Text
    BY <1>1, RestIs DEF Text
  <2>2. From(text, i) = skipped \o From(text, j)
    BY <1>1, Split
  <2> HIDE DEF skipped
  <2> DEFINE rest == From(text, j)
  <2> HIDE DEF rest
  <2>3. /\ VisiblePart(in, skipped \o rest) = VisiblePart(in, skipped) \o VisiblePart(in, rest)
        /\ ThinkingPart(in, skipped \o rest) = ThinkingPart(in, skipped) \o ThinkingPart(in, rest)
    BY <1>3, <2>1, PartOfConcat DEF rest
  <2>4. /\ VisibleRest(text, i, in) = VisiblePart(in, From(text, i))
        /\ ThinkingRest(text, i, in) = ThinkingPart(in, From(text, i))
        /\ VisibleRest(text, j, in) = VisiblePart(in, From(text, j))
        /\ ThinkingRest(text, j, in) = ThinkingPart(in, From(text, j))
    BY <1>1, <1>2, <1>4, NoTag
  <2> QED
    BY <2>2, <2>3, <2>4 DEF skipped, rest
<1>5. CASE at # 0
  <2> DEFINE section == SubSeq(text, j, at - 1)
  <2>1. at \in j .. Len(text) /\ next \in j + 1 .. Len(text) + 1
    BY <1>1, <1>5, AtTag
  <2>2. section \in Text
    BY <1>1, <1>5, AtTag
  <2>3. SubSeq(text, i, at - 1) = skipped \o section
    <3> DEFINE h == at - 1
    <3> HIDE DEF at
    <3>1. h \in j - 1 .. Len(text)
      BY <1>1, <2>1
    <3>2. j \in i .. Len(text) + 1
      BY <1>1
    <3> HIDE DEF h
    <3>3. SubSeq(text, i, h) = SubSeq(text, i, j - 1) \o SubSeq(text, j, h)
      BY <1>1, <3>1, <3>2, Split
    <3> QED
      BY <3>3 DEF h
  <2>4. /\ VisibleRest(text, i, in) =
              VisiblePart(in, SubSeq(text, i, at - 1)) \o VisibleRest(text, next, ~in)
        /\ ThinkingRest(text, i, in) =
              ThinkingPart(in, SubSeq(text, i, at - 1)) \o ThinkingRest(text, next, ~in)
    <3> DEFINE first == Find(Tag(in), text, i)
               after == first + Len(Tag(in))
    <3>1. /\ VisibleRest(text, i, in) =
                VisiblePart(in, SubSeq(text, i, first - 1)) \o VisibleRest(text, after, ~in)
          /\ ThinkingRest(text, i, in) =
                ThinkingPart(in, SubSeq(text, i, first - 1)) \o ThinkingRest(text, after, ~in)
      BY <1>2, <1>5, AtTag
    <3> QED
      BY <1>2, <3>1
  <2>5. /\ VisibleRest(text, j, in) =
              VisiblePart(in, section) \o VisibleRest(text, next, ~in)
        /\ ThinkingRest(text, j, in) =
              ThinkingPart(in, section) \o ThinkingRest(text, next, ~in)
    BY <1>1, <1>5, AtTag
  <2>6. next \in 1 .. Len(text) + 1
    BY <1>1, <2>1
  <2> DEFINE visibleRest == VisibleRest(text, next, ~in)
             thinkingRest == ThinkingRest(text, next, ~in)
  <2> HIDE DEF at, next, section, skipped
  <2>7. visibleRest \in Text /\ thinkingRest \in Text
    BY <2>6, RestsAreTexts
  <2>8. /\ VisiblePart(in, skipped) \in Text /\ VisiblePart(in, section) \in Text
        /\ ThinkingPart(in, skipped) \in Text /\ ThinkingPart(in, section) \in Text
    BY <1>3, <2>2, PartsAreTexts
  <2>9. /\ VisiblePart(in, skipped \o section) = VisiblePart(in, skipped) \o VisiblePart(in, section)
        /\ ThinkingPart(in, skipped \o section) = ThinkingPart(in, skipped) \o ThinkingPart(in, section)
    BY <1>3, <2>2, PartOfConcat
  <2> HIDE DEF visibleRest, thinkingRest
  <2>10. (VisiblePart(in, skipped) \o VisiblePart(in, section)) \o visibleRest
           = VisiblePart(in, skipped) \o (VisiblePart(in, section) \o visibleRest)
    <3> DEFINE s == VisiblePart(in, skipped)
               t == VisiblePart(in, section)
    <3>1. s \in Text /\ t \in Text
      BY <2>8
    <3> HIDE DEF s, t
    <3>2. Associative(s, t, visibleRest)
      BY <2>7, <3>1, ConcatAssoc
    <3> QED
      BY <3>2 DEF Associative, s, t
  <2>11. (ThinkingPart(in, skipped) \o ThinkingPart(in, section)) \o thinkingRest
           = ThinkingPart(in, skipped) \o (ThinkingPart(in, section) \o thinkingRest)
    <3> DEFINE s == ThinkingPart(in, skipped)
               t == ThinkingPart(in, section)
    <3>1. s \in Text /\ t \in Text
      BY <2>8
    <3> HIDE DEF s, t
    <3>2. Associative(s, t, thinkingRest)
      BY <2>7, <3>1, ConcatAssoc
    <3> QED
      BY <3>2 DEF Associative, s, t
  <2> QED
    BY <2>3, <2>4, <2>5, <2>9, <2>10, <2>11 DEF skipped, visibleRest, thinkingRest
<1> QED
  BY <1>4, <1>5

-----------------------------------------------------------------------------
(* The text and the fields among what was shown.                           *)

Shown == Seq(Characters \cup {Field})

LEMMA TextRecursion ==
    ASSUME NEW shown \in Shown
    PROVE  /\ TextFrom(shown) \in [1 .. Len(shown) + 1 -> Text]
           /\ \A i \in 1 .. Len(shown) + 1 :
                 TextFrom(shown)[i] = TextBody(shown, TextFrom(shown), i)
           /\ \A g : (\A i \in 1 .. Len(shown) + 1 : g[i] = TextBody(shown, g, i))
                         => TextOf(shown) = g[1]
<1> DEFINE n == Len(shown) + 1
           next == [i \in 1 .. n |-> IF i = n THEN 0 ELSE i + 1]
           part == [i \in 1 .. n |-> IF i = n \/ shown[i] = Field THEN <<>> ELSE <<shown[i]>>]
<1>1. n \in Nat /\ n = Len(shown) + 1 /\ 1 \in 1 .. n /\ Len(shown) \in Nat
  BY DEF Shown
<1>2. IsChain(Characters, n, next, part)
  <2>1. next \in [1 .. n -> 0 .. n] /\ \A i \in 1 .. n : next[i] = 0 \/ next[i] > i
    BY <1>1
  <2>2. \A i \in 1 .. n : part[i] \in Seq(Characters)
    <3> SUFFICES ASSUME NEW i \in 1 .. n, i # n, shown[i] # Field
                 PROVE  <<shown[i]>> \in Seq(Characters)
      OBVIOUS
    <3>1. i \in 1 .. Len(shown)
      BY <1>1
    <3>2. shown[i] \in Characters
      BY <3>1 DEF Shown
    <3> QED
      BY <3>2
  <2> QED
    BY <1>1, <2>1, <2>2 DEF IsChain
<1>3. \A i \in 1 .. n : \A k : TextBody(shown, k, i) = ChainBody(next, part, k, i)
  <2> SUFFICES ASSUME NEW i \in 1 .. n, NEW k
               PROVE  TextBody(shown, k, i) = ChainBody(next, part, k, i)
    OBVIOUS
  <2>1. i > Len(shown) <=> i = n
    BY <1>1
  <2>2. i # n => i + 1 # 0
    BY <1>1
  <2>3. /\ next[i] = IF i = n THEN 0 ELSE i + 1
        /\ part[i] = IF i = n \/ shown[i] = Field THEN <<>> ELSE <<shown[i]>>
    OBVIOUS
  <2> HIDE DEF n, next, part
  <2> QED
    BY <2>1, <2>2, <2>3 DEF TextBody, ChainBody
<1> HIDE DEF n, next, part
<1>4. PICK f \in [1 .. n -> Seq(Characters)] : Solution(n, next, part, f)
  BY <1>2, ChainExists
<1>5. f = [i \in 1 .. n |-> TextBody(shown, f, i)]
  BY <1>3, <1>4 DEF Solution
<1> DEFINE text == TextFrom(shown)
<1>6. text = [i \in 1 .. n |-> TextBody(shown, text, i)]
  <2>1. \E k : k = [i \in 1 .. Len(shown) + 1 |-> TextBody(shown, k, i)]
    BY <1>1, <1>5
  <2> QED
    BY <1>1, <2>1 DEF TextFrom
<1>7. TextOf(shown) = text[1]
  BY Functions
<1> HIDE DEF text
<1>8. \A g, h : Solution(n, next, part, g) /\ Solution(n, next, part, h)
                  => \A i \in 1 .. n : g[i] = h[i]
  BY <1>2, ChainIsUnique
<1>9. Solution(n, next, part, text)
  BY <1>3, <1>6 DEF Solution
<1>10. \A i \in 1 .. n : text[i] = f[i]
  BY <1>4, <1>8, <1>9
<1>11. text \in [1 .. n -> Seq(Characters)] /\ \A i \in 1 .. n : text[i] = TextBody(shown, text, i)
  BY <1>4, <1>6, <1>10
<1>12. ASSUME NEW g, \A i \in 1 .. n : g[i] = TextBody(shown, g, i)
       PROVE  TextOf(shown) = g[1]
  <2>1. Solution(n, next, part, g)
    BY <1>3, <1>12 DEF Solution
  <2> QED
    BY <1>1, <1>7, <1>8, <1>9, <2>1
<1> QED
  BY <1>1, <1>11, <1>12 DEF text, Text

LEMMA TextOfNone == TextOf(<<>>) = <<>>
<1>1. <<>> \in Shown /\ Len(<<>>) = 0
  BY DEF Shown
<1>2. 1 \in 1 .. Len(<<>>) + 1 /\ 1 > Len(<<>>)
  BY <1>1
<1>3. TextFrom(<<>>)[1] = TextBody(<<>>, TextFrom(<<>>), 1)
  BY <1>1, <1>2, TextRecursion
<1>4. TextBody(<<>>, TextFrom(<<>>), 1) = <<>>
  BY <1>2 DEF TextBody
<1> QED
  BY <1>3, <1>4, Functions

LEMMA TextOfShown ==
    ASSUME NEW shown \in Shown
    PROVE  TextOf(shown) \in Text
<1>1. 1 \in 1 .. Len(shown) + 1
  BY DEF Shown
<1> QED
  BY <1>1, TextRecursion, Functions

\* Text shown after the rest is the end of the text shown.
LEMMA TextIsAppended ==
    ASSUME NEW shown \in Shown, NEW t \in Text
    PROVE  shown \o t \in Shown /\ TextOf(shown \o t) = TextOf(shown) \o t
<1> DEFINE all == shown \o t
           n == Len(all) + 1
           m == Len(shown) + 1
           g == [i \in 1 .. n |-> IF i <= m THEN TextFrom(shown)[i] \o t ELSE From(all, i)]
<1>1. /\ Len(shown) \in Nat /\ Len(t) \in Nat
      /\ all \in Shown /\ Len(all) = Len(shown) + Len(t)
      /\ \A i \in 1 .. Len(shown) + Len(t) :
            all[i] = IF i <= Len(shown) THEN shown[i] ELSE t[i - Len(shown)]
  <2>1. shown \in Shown /\ t \in Shown
    BY DEF Shown, Text
  <2> QED
    BY <2>1, ConcatProperties DEF Shown
<1>2. m \in 1 .. n /\ n \in Nat /\ 1 \in 1 .. m /\ n = Len(all) + 1 /\ m = Len(shown) + 1
  BY <1>1
<1>3. From(all, m) = t
  <2> HIDE DEF all, m, n
  <2>1. From(all, m) \in Shown /\ Len(From(all, m)) = Len(all) + 1 - m
        /\ \A k \in 1 .. Len(all) + 1 - m : From(all, m)[k] = all[m + k - 1]
    <3>1. m \in 1 .. Len(all) + 1 /\ all \in Seq(Characters \cup {Field})
      BY <1>1, <1>2 DEF Shown
    <3> QED
      BY <3>1, RestIs DEF Shown
  <2>2. Len(all) + 1 - m = Len(t)
    BY <1>1, <1>2
  <2>3. \A k \in 1 .. Len(t) : all[m + k - 1] = t[k]
    <3> SUFFICES ASSUME NEW k \in 1 .. Len(t) PROVE all[m + k - 1] = t[k]
      OBVIOUS
    <3> DEFINE at == m + k - 1
    <3>1. at \in 1 .. Len(shown) + Len(t) /\ ~(at <= Len(shown)) /\ at - Len(shown) = k
      BY <1>1, <1>2
    <3> HIDE DEF at
    <3>2. all[at] = t[at - Len(shown)]
      BY <1>1, <3>1
    <3> QED
      BY <3>1, <3>2 DEF at
  <2>4. t \in Shown
    BY DEF Shown, Text
  <2> QED
    BY <2>1, <2>2, <2>3, <2>4, SeqEqual DEF Shown
<1>4. TextFrom(shown)[m] = <<>>
  <2>1. TextFrom(shown)[m] = TextBody(shown, TextFrom(shown), m)
    BY <1>2, TextRecursion
  <2>2. m > Len(shown)
    BY <1>1
  <2> QED
    BY <2>1, <2>2 DEF TextBody
<1>5. /\ \A i \in 1 .. n : i <= m => g[i] = TextFrom(shown)[i] \o t
      /\ \A i \in 1 .. n : i >= m => g[i] = From(all, i)
  <2>1. <<>> \o t = t
    BY ConcatEmpty
  <2> HIDE DEF all, m, n
  <2>2. \A i \in 1 .. n : i <= m /\ i >= m => i = m
    BY <1>2
  <2>3. \A i \in 1 .. n : i >= m /\ i # m => ~(i <= m)
    BY <1>2
  <2>4. TextFrom(shown)[m] \o t = From(all, m)
    BY <1>3, <1>4, <2>1
  <2> QED
    BY <2>2, <2>3, <2>4
<1> HIDE DEF g
<1>6. ASSUME NEW i \in 1 .. n PROVE g[i] = TextBody(all, g, i)
  <2>1. CASE i < m
    <3>1. /\ i \in 1 .. Len(shown) /\ i \in 1 .. m /\ i + 1 \in 1 .. n /\ i + 1 <= m
          /\ i + 1 \in 1 .. m /\ i <= m /\ ~(i > Len(all)) /\ ~(i > Len(shown))
      BY <1>1, <1>2, <2>1
    <3>2. all[i] = shown[i]
      BY <1>1, <3>1
    <3>3. /\ g[i] = TextFrom(shown)[i] \o t
          /\ g[i + 1] = TextFrom(shown)[i + 1] \o t
      BY <1>5, <3>1
    <3> DEFINE first == IF shown[i] = Field THEN <<>> ELSE <<shown[i]>>
               rest == TextFrom(shown)[i + 1]
    <3>4. first \in Text /\ rest \in Text
      <4>1. shown[i] = Field \/ shown[i] \in Characters
        BY <3>1 DEF Shown
      <4>2. first \in Text
        BY <4>1 DEF Text
      <4>3. i + 1 \in 1 .. Len(shown) + 1
        BY <1>2, <3>1
      <4> QED
        BY <4>2, <4>3, TextRecursion
    <3>5. TextFrom(shown)[i] = first \o rest
      <4>1. TextFrom(shown)[i] = TextBody(shown, TextFrom(shown), i)
        BY <1>2, <3>1, TextRecursion
      <4> QED
        BY <3>1, <4>1 DEF TextBody
    <3>6. TextBody(all, g, i) = first \o g[i + 1]
      BY <3>1, <3>2 DEF TextBody
    <3> HIDE DEF first, rest
    <3>7. (first \o rest) \o t = first \o (rest \o t)
      <4>1. Associative(first, rest, t)
        BY <3>4, ConcatAssoc
      <4> QED
        BY <4>1 DEF Associative
    <3> QED
      BY <3>3, <3>5, <3>6, <3>7 DEF rest
  <2>2. CASE i >= m /\ i < n
    <3>1. /\ i \in 1 .. Len(all) + 1 /\ i + 1 \in i .. Len(all) + 1 /\ i + 1 \in 1 .. n
          /\ i + 1 >= m /\ i >= m /\ ~(i > Len(all)) /\ i \in 1 .. Len(shown) + Len(t)
          /\ ~(i <= Len(shown)) /\ i - Len(shown) \in 1 .. Len(t) /\ i + 1 - 1 = i
      BY <1>1, <1>2, <2>2
    <3>2. all[i] # Field
      <4>1. all[i] = t[i - Len(shown)]
        BY <1>1, <3>1
      <4>2. t[i - Len(shown)] \in Characters
        BY <3>1 DEF Text
      <4> QED
        BY <4>1, <4>2, StreamAssumption
    <3>3. From(all, i) = <<all[i]>> \o From(all, i + 1)
      <4>1. i \in 1 .. Len(all)
        BY <1>1, <3>1
      <4> HIDE DEF all
      <4> QED
        BY <1>1, <4>1, FirstAndRest DEF Shown
    <3>5. g[i] = From(all, i) /\ g[i + 1] = From(all, i + 1)
      BY <1>5, <3>1
    <3>6. TextBody(all, g, i) = <<all[i]>> \o g[i + 1]
      BY <3>1, <3>2 DEF TextBody
    <3> HIDE DEF all
    <3> QED
      BY <3>3, <3>5, <3>6
  <2>3. CASE i = n
    <3>1. i > Len(all) /\ i >= m
      BY <1>1, <1>2, <2>3
    <3>2. From(all, i) = <<>>
      <4>1. From(all, i) \in Shown /\ Len(From(all, i)) = 0
        <5>1. i \in 1 .. Len(all) + 1 /\ Len(all) + 1 - i = 0
          BY <1>1, <1>2, <2>3
        <5> QED
          BY <1>1, <5>1, RestIs DEF Shown
      <4> QED
        BY <4>1, EmptySeq DEF Shown
    <3>3. TextBody(all, g, i) = <<>>
      BY <3>1 DEF TextBody
    <3> QED
      BY <1>5, <3>1, <3>2, <3>3
  <2> QED
    BY <1>2, <2>1, <2>2, <2>3
<1>7. TextOf(all) = g[1]
  <2> HIDE DEF all, n
  <2> QED
    BY <1>1, <1>2, <1>6, TextRecursion
<1>8. g[1] = TextFrom(shown)[1] \o t
  BY <1>2, <1>5
<1> QED
  BY <1>1, <1>7, <1>8, Functions

\* A field shown is not.
LEMMA FieldIsSkipped ==
    ASSUME NEW shown \in Shown
    PROVE  shown \o <<Field>> \in Shown /\ TextOf(shown \o <<Field>>) = TextOf(shown)
<1> DEFINE all == shown \o <<Field>>
           n == Len(all) + 1
           m == Len(shown) + 1
           g == [i \in 1 .. n |-> IF i <= m THEN TextFrom(shown)[i] ELSE <<>>]
<1>1. /\ Len(shown) \in Nat
      /\ all \in Shown /\ Len(all) = Len(shown) + 1 /\ all[Len(shown) + 1] = Field
      /\ \A i \in 1 .. Len(shown) : all[i] = shown[i]
  <2>1. Field \in Characters \cup {Field}
    OBVIOUS
  <2>2. all = Append(shown, Field)
    BY <2>1, AppendIsConcat DEF Shown
  <2> HIDE DEF all
  <2> QED
    BY <2>1, <2>2, AppendProperties DEF Shown
<1>2. /\ m \in Nat /\ n \in Nat /\ n = m + 1 /\ n = Len(all) + 1 /\ m = Len(shown) + 1 /\ m = Len(all)
      /\ 1 \in 1 .. n /\ 1 \in 1 .. m
  BY <1>1
<1> HIDE DEF all, n, m
<1>3. TextFrom(shown)[m] = <<>>
  <2>1. m \in 1 .. Len(shown) + 1 /\ m > Len(shown)
    BY <1>1, <1>2
  <2> QED
    BY <2>1, TextRecursion DEF TextBody
<1>4. /\ \A i \in 1 .. n : i <= m => g[i] = TextFrom(shown)[i]
      /\ \A i \in 1 .. n : ~(i <= m) => g[i] = <<>>
  OBVIOUS
<1> HIDE DEF g
<1>5. ASSUME NEW i \in 1 .. n PROVE g[i] = TextBody(all, g, i)
  <2>1. CASE i < m
    <3>1. /\ i \in 1 .. Len(shown) /\ i \in 1 .. Len(shown) + 1 /\ i + 1 \in 1 .. n /\ i + 1 <= m
          /\ i <= m /\ ~(i > Len(all)) /\ ~(i > Len(shown))
      BY <1>1, <1>2, <2>1
    <3>2. all[i] = shown[i]
      BY <1>1, <3>1
    <3>3. g[i] = TextFrom(shown)[i] /\ g[i + 1] = TextFrom(shown)[i + 1]
      BY <1>4, <3>1
    <3>4. TextFrom(shown)[i] = TextBody(shown, TextFrom(shown), i)
      BY <3>1, TextRecursion
    <3> QED
      BY <3>1, <3>2, <3>3, <3>4 DEF TextBody
  <2>2. CASE i = m
    <3>1. ~(i > Len(all)) /\ all[i] = Field /\ i <= m /\ i + 1 \in 1 .. n /\ ~(i + 1 <= m)
      BY <1>1, <1>2, <2>2
    <3>2. g[i] = <<>> /\ g[i + 1] = <<>>
      BY <1>3, <1>4, <2>2, <3>1
    <3>3. <<>> \o <<>> = <<>>
      BY ConcatEmpty DEF Text
    <3> QED
      BY <3>1, <3>2, <3>3 DEF TextBody
  <2>3. CASE i = n
    <3>1. i > Len(all) /\ ~(i <= m)
      BY <1>2, <2>3
    <3> QED
      BY <1>4, <3>1 DEF TextBody
  <2> QED
    BY <1>2, <2>1, <2>2, <2>3
<1>6. TextOf(all) = g[1]
  BY <1>1, <1>2, <1>5, TextRecursion
<1>7. g[1] = TextFrom(shown)[1]
  BY <1>2, <1>4
<1> QED
  BY <1>1, <1>6, <1>7, Functions DEF all

FieldsIn(shown) == {i \in DOMAIN shown : shown[i] = Field}

LEMMA FieldsAreFinite ==
    ASSUME NEW shown \in Shown
    PROVE  IsFiniteSet(FieldsIn(shown)) /\ FieldsIn(shown) \subseteq 1 .. Len(shown)
<1>1. FieldsIn(shown) \subseteq 1 .. Len(shown) /\ Len(shown) \in Nat
  BY DEF FieldsIn, Shown
<1>2. IsFiniteSet(1 .. Len(shown))
  BY <1>1, FS_Interval
<1> QED
  BY <1>1, <1>2, FS_Subset

LEMMA TextHasNoField ==
    ASSUME NEW shown \in Shown, NEW t \in Text
    PROVE  FieldsIn(shown \o t) = FieldsIn(shown)
<1> DEFINE all == shown \o t
<1>1. /\ Len(shown) \in Nat /\ Len(t) \in Nat
      /\ all \in Shown /\ Len(all) = Len(shown) + Len(t)
      /\ \A i \in 1 .. Len(shown) + Len(t) :
            all[i] = IF i <= Len(shown) THEN shown[i] ELSE t[i - Len(shown)]
  <2>1. shown \in Shown /\ t \in Shown
    BY DEF Shown, Text
  <2> QED
    BY <2>1, ConcatProperties DEF Shown
<1> HIDE DEF all
<1>2. DOMAIN all = 1 .. Len(shown) + Len(t) /\ DOMAIN shown = 1 .. Len(shown)
  BY <1>1 DEF Shown
<1>3. ASSUME NEW i \in 1 .. Len(shown) + Len(t), ~(i <= Len(shown)) PROVE all[i] # Field
  <2>1. all[i] = t[i - Len(shown)] /\ i - Len(shown) \in 1 .. Len(t)
    BY <1>1, <1>3
  <2>2. t[i - Len(shown)] \in Characters
    BY <2>1 DEF Text
  <2> QED
    BY <2>1, <2>2, StreamAssumption
<1>4. \A i \in 1 .. Len(shown) + Len(t) : i <= Len(shown) => all[i] = shown[i]
  BY <1>1
<1>5. \A i : i \in 1 .. Len(shown) <=> i \in 1 .. Len(shown) + Len(t) /\ i <= Len(shown)
  BY <1>1
<1>6. FieldsIn(all) = FieldsIn(shown)
  BY <1>2, <1>3, <1>4, <1>5 DEF FieldsIn
<1> QED
  BY <1>6 DEF all

LEMMA FieldIsCounted ==
    ASSUME NEW shown \in Shown
    PROVE  Cardinality(FieldsIn(shown \o <<Field>>)) = Cardinality(FieldsIn(shown)) + 1
<1> DEFINE all == shown \o <<Field>>
           m == Len(shown) + 1
<1>1. /\ Len(shown) \in Nat
      /\ all \in Shown /\ Len(all) = m /\ all[m] = Field
      /\ \A i \in 1 .. Len(shown) : all[i] = shown[i]
  <2>1. Field \in Characters \cup {Field}
    OBVIOUS
  <2>2. all = Append(shown, Field)
    BY <2>1, AppendIsConcat DEF Shown
  <2> HIDE DEF all
  <2> QED
    BY <2>1, <2>2, AppendProperties DEF Shown
<1> HIDE DEF all
<1>2. DOMAIN all = 1 .. m /\ DOMAIN shown = 1 .. Len(shown)
  BY <1>1 DEF Shown
<1>3. /\ \A i : i \in 1 .. m <=> i \in 1 .. Len(shown) \/ i = m
      /\ m \notin 1 .. Len(shown)
  BY <1>1
<1> HIDE DEF m
<1>4. FieldsIn(all) = FieldsIn(shown) \cup {m}
  BY <1>1, <1>2, <1>3 DEF FieldsIn
<1>5. IsFiniteSet(FieldsIn(shown)) /\ m \notin FieldsIn(shown)
  BY <1>3, FieldsAreFinite
<1>6. Cardinality(FieldsIn(shown) \cup {m}) = Cardinality(FieldsIn(shown)) + 1
  BY <1>5, FS_AddElement
<1> QED
  BY <1>4, <1>6 DEF all

-----------------------------------------------------------------------------
(* The buffer is the end of what was fed; more may follow.                 *)

LEMMA Following ==
    ASSUME NEW past \in Text, NEW more \in Text
    PROVE  /\ Len(past) \in Nat /\ Len(more) \in Nat
           /\ past \o more \in Text /\ Len(past \o more) = Len(past) + Len(more)
           /\ \A k \in 1 .. Len(past) : (past \o more)[k] = past[k]
<1>1. Len(past) \in Nat /\ Len(more) \in Nat
  BY DEF Text
<1>2. /\ past \o more \in Text /\ Len(past \o more) = Len(past) + Len(more)
      /\ \A k \in 1 .. Len(past) + Len(more) :
            (past \o more)[k] = IF k <= Len(past) THEN past[k] ELSE more[k - Len(past)]
  BY ConcatProperties DEF Text
<1>3. \A k \in 1 .. Len(past) : k \in 1 .. Len(past) + Len(more) /\ k <= Len(past)
  BY <1>1
<1> QED
  BY <1>1, <1>2, <1>3

LEMMA PartOfRest ==
    ASSUME NEW past \in Text, NEW more \in Text, NEW p \in 1 .. Len(past) + 1,
           NEW k \in 0 .. Len(past) + 1 - p
    PROVE  /\ SubSeq(From(past, p), 1, k) = SubSeq(past \o more, p, p + k - 1)
           /\ SubSeq(From(past, p), 1, k) \in Text
<1> DEFINE rest == From(past, p)
           all == past \o more
           j == p + k - 1
<1>1. /\ Len(past) \in Nat /\ Len(more) \in Nat /\ all \in Text
      /\ Len(all) = Len(past) + Len(more)
      /\ \A i \in 1 .. Len(past) : all[i] = past[i]
  BY Following
<1>2. rest \in Text /\ Len(rest) = Len(past) + 1 - p
      /\ \A i \in 1 .. Len(past) + 1 - p : rest[i] = past[p + i - 1]
  BY RestIs DEF Text
<1>3. /\ p \in Nat \ {0} /\ k \in Nat /\ p \in 1 .. Len(all) + 1 /\ p + k = j + 1
      /\ j \in p - 1 .. Len(all) /\ j + 1 - p = k
      /\ k \in 1 - 1 .. Len(rest) /\ 1 \in 1 .. Len(rest) + 1 /\ k + 1 - 1 = k
      /\ p + k \in 1 .. Len(past) + 1 /\ k + 1 \in 1 .. Len(rest) + 1
  BY <1>1, <1>2
<1> HIDE DEF rest, all, j
<1>4. /\ SubSeq(rest, 1, k) \in Text /\ Len(SubSeq(rest, 1, k)) = k
      /\ \A i \in 1 .. k : SubSeq(rest, 1, k)[i] = rest[i]
  <2>1. k \in 0 .. Len(rest) /\ rest \in Seq(Characters)
    BY <1>2, <1>3 DEF Text
  <2> QED
    BY <2>1, PrefixIs DEF Text
<1>5. /\ SubSeq(all, p, j) \in Text /\ Len(SubSeq(all, p, j)) = k
      /\ \A i \in 1 .. k : SubSeq(all, p, j)[i] = all[p + i - 1]
  <2>1. /\ SubSeq(all, p, j) \in Text /\ Len(SubSeq(all, p, j)) = j + 1 - p
        /\ \A i \in 1 .. j + 1 - p : SubSeq(all, p, j)[i] = all[p + i - 1]
    <3>1. all \in Seq(Characters)
      BY <1>1 DEF Text
    <3>2. p \in 1 .. Len(all) + 1 /\ j \in p - 1 .. Len(all)
      BY <1>3
    <3> QED
      BY <3>1, <3>2, PartIs DEF Text
  <2> QED
    BY <1>3, <2>1
<1>6. SubSeq(rest, 1, k) = SubSeq(all, p, j)
  <2>1. \A i \in 1 .. k : rest[i] = all[p + i - 1]
    <3> SUFFICES ASSUME NEW i \in 1 .. k PROVE rest[i] = all[p + i - 1]
      OBVIOUS
    <3> DEFINE at == p + i - 1
    <3>1. i \in 1 .. Len(past) + 1 - p /\ at \in 1 .. Len(past)
      BY <1>1, <1>3
    <3>2. rest[i] = past[at]
      BY <1>2, <3>1
    <3> HIDE DEF at
    <3>3. all[at] = past[at]
      BY <1>1, <3>1
    <3> QED
      BY <3>2, <3>3 DEF at
  <2> QED
    <3> DEFINE a == SubSeq(rest, 1, k)
               b == SubSeq(all, p, j)
    <3>1. a \in Seq(Characters) /\ b \in Seq(Characters) /\ Len(a) = k /\ Len(b) = k
      BY <1>4, <1>5 DEF Text
    <3>2. \A i \in 1 .. k : a[i] = b[i]
      BY <1>4, <1>5, <2>1
    <3> HIDE DEF a, b
    <3>3. a = b
      BY <3>1, <3>2, SeqEqual
    <3> QED
      BY <3>3 DEF a, b
<1> QED
  BY <1>4, <1>6 DEF rest, all, j

LEMMA RestOfRest ==
    ASSUME NEW past \in Text, NEW p \in 1 .. Len(past) + 1,
           NEW k \in 0 .. Len(past) + 1 - p
    PROVE  From(From(past, p), k + 1) = From(past, p + k)
<1> DEFINE rest == From(past, p)
           n == Len(past) + 1 - (p + k)
           m == k + 1
           q == p + k
<1>1. Len(past) \in Nat /\ past \in Seq(Characters)
  BY DEF Text
<1>2. rest \in Seq(Characters) /\ Len(rest) = Len(past) + 1 - p
      /\ \A i \in 1 .. Len(past) + 1 - p : rest[i] = past[p + i - 1]
  BY RestIs DEF Text
<1>3. /\ n \in Nat /\ Len(rest) + 1 - m = n /\ m \in 1 .. Len(rest) + 1
      /\ q \in 1 .. Len(past) + 1 /\ Len(past) + 1 - q = n
  BY <1>1, <1>2
<1>4. ASSUME NEW i \in 1 .. n PROVE rest[m + i - 1] = past[q + i - 1]
  <2> DEFINE at == m + i - 1
  <2>1. at \in 1 .. Len(past) + 1 - p /\ p + at - 1 = q + i - 1
    BY <1>1, <1>3
  <2> HIDE DEF at, rest
  <2>2. rest[at] = past[p + at - 1]
    BY <1>2, <2>1
  <2> QED
    BY <2>1, <2>2 DEF at
<1> HIDE DEF rest, m, n, q
<1>5. From(rest, m) \in Seq(Characters) /\ Len(From(rest, m)) = n
  BY <1>2, <1>3, RestIs
<1>6. \A i \in 1 .. n : From(rest, m)[i] = rest[m + i - 1]
  <2>1. \A i \in 1 .. Len(rest) + 1 - m : From(rest, m)[i] = rest[m + i - 1]
    BY <1>2, <1>3, RestIs
  <2> QED
    BY <1>3, <2>1
<1>7. From(past, q) \in Seq(Characters) /\ Len(From(past, q)) = n
  BY <1>1, <1>3, RestIs
<1>8. \A i \in 1 .. n : From(past, q)[i] = past[q + i - 1]
  BY <1>1, <1>3, RestIs
<1>9. From(rest, m) = From(past, q)
  BY <1>3, <1>4, <1>5, <1>6, <1>7, <1>8, SeqEqual
<1> QED
  BY <1>9 DEF rest, m, q

\* What the buffer holds of a tag is where the whole text has it.
LEMMA OccursInRest ==
    ASSUME NEW past \in Text, NEW more \in Text, NEW p \in 1 .. Len(past) + 1,
           NEW marker \in Text, marker # <<>>,
           NEW i \in 1 .. Len(past) + 1 - p + 1 - Len(marker)
    PROVE  OccursAt(marker, From(past, p), i) <=> OccursAt(marker, past \o more, p + i - 1)
<1> DEFINE rest == From(past, p)
           all == past \o more
           q == p + i - 1
           n == Len(marker)
<1>1. /\ Len(past) \in Nat /\ Len(more) \in Nat /\ all \in Text
      /\ Len(all) = Len(past) + Len(more)
      /\ \A k \in 1 .. Len(past) : all[k] = past[k]
  BY Following
<1>2. rest \in Text /\ Len(rest) = Len(past) + 1 - p
      /\ \A k \in 1 .. Len(past) + 1 - p : rest[k] = past[p + k - 1]
  BY RestIs DEF Text
<1>3. n \in Nat \ {0} /\ p \in Nat \ {0} /\ i \in Nat \ {0}
  BY EmptySeq DEF Text
<1>4. i \in 1 .. Len(rest) + 1 - n /\ q \in 1 .. Len(all) + 1 - n
  BY <1>1, <1>2, <1>3
<1>5. \A j \in 1 .. n : rest[i + j - 1] = all[q + j - 1]
  <2> SUFFICES ASSUME NEW j \in 1 .. n PROVE rest[i + j - 1] = all[q + j - 1]
    OBVIOUS
  <2> DEFINE k == i + j - 1
             at == q + j - 1
  <2>1. k \in 1 .. Len(past) + 1 - p /\ p + k - 1 = at /\ at \in 1 .. Len(past)
    BY <1>1, <1>2, <1>3, <1>4
  <2> HIDE DEF k, at, rest, all
  <2>2. rest[k] = past[p + k - 1] /\ all[at] = past[at]
    BY <1>1, <1>2, <2>1
  <2> QED
    BY <2>1, <2>2 DEF k, at
<1> HIDE DEF rest, all, q
<1>6. rest \in Seq(Characters) /\ all \in Seq(Characters) /\ marker \in Seq(Characters)
  BY <1>1, <1>2 DEF Text
<1>7. OccursAt(marker, rest, i) <=> Matches(marker, rest, i)
  BY <1>4, <1>6, Occurs
<1>8. OccursAt(marker, all, q) <=> Matches(marker, all, q)
  BY <1>4, <1>6, Occurs
<1>9. Matches(marker, rest, i) <=> Matches(marker, all, q)
  BY <1>5 DEF Matches
<1> QED
  BY <1>7, <1>8, <1>9 DEF rest, all, q

\* A tag the buffer holds is the next one of the text, whatever follows.
LEMMA FoundInRest ==
    ASSUME NEW past \in Text, NEW more \in Text, NEW p \in 1 .. Len(past) + 1,
           NEW marker \in Text, marker # <<>>,
           Find(marker, From(past, p), 1) # 0
    PROVE  /\ Find(marker, past \o more, p) = p + Find(marker, From(past, p), 1) - 1
           /\ Find(marker, From(past, p), 1) \in 1 .. Len(past) + 1 - p
           /\ Find(marker, From(past, p), 1) + Len(marker) \in 1 .. Len(past) + 1 - p + 1
<1> DEFINE rest == From(past, p)
           all == past \o more
           n == Len(marker)
           index == Find(marker, rest, 1)
           f == Find(marker, all, p)
<1>1. /\ Len(past) \in Nat /\ Len(more) \in Nat /\ all \in Text
      /\ Len(all) = Len(past) + Len(more)
  BY Following
<1>2. rest \in Text /\ Len(rest) = Len(past) + 1 - p
  BY RestIs DEF Text
<1>3. n \in Nat \ {0} /\ p \in Nat \ {0} /\ 1 \in Nat \ {0}
  BY EmptySeq DEF Text
<1>4. \A i \in 1 .. Len(past) + 1 - p + 1 - n :
         OccursAt(marker, rest, i) <=> OccursAt(marker, all, p + i - 1)
  BY OccursInRest
<1>5. index # 0
  OBVIOUS
<1> HIDE DEF rest, all, n
<1>6. index \in Hits(marker, rest, 1) /\ \A h \in Hits(marker, rest, 1) : index <= h
  BY <1>2, <1>3, <1>5, Found DEF Text
<1>7. \/ f = 0 /\ Hits(marker, all, p) = {}
      \/ f \in Hits(marker, all, p) /\ \A h \in Hits(marker, all, p) : f <= h
  BY <1>1, <1>3, Found DEF Text
<1> HIDE DEF index, f
<1>8. index \in 1 .. Len(past) + 1 - p + 1 - n /\ OccursAt(marker, rest, index)
  BY <1>2, <1>6 DEF Hits, n
<1>9. p + index - 1 \in Hits(marker, all, p)
  <2>1. OccursAt(marker, all, p + index - 1)
    BY <1>4, <1>8
  <2>2. p + index - 1 \in p .. Len(all) + 1 - n
    BY <1>1, <1>3, <1>8
  <2> QED
    BY <2>1, <2>2 DEF Hits, n
<1>10. f \in p .. Len(all) + 1 - n /\ OccursAt(marker, all, f) /\ f <= p + index - 1
  BY <1>7, <1>9 DEF Hits, n
<1> DEFINE i == f - p + 1
<1>11. i \in 1 .. Len(past) + 1 - p + 1 - n /\ p + i - 1 = f
  BY <1>1, <1>3, <1>8, <1>10
<1> HIDE DEF i
<1>12. i \in Hits(marker, rest, 1)
  BY <1>2, <1>4, <1>10, <1>11 DEF Hits, n
<1>13. index <= i
  BY <1>6, <1>12
<1>14. f = p + index - 1
  BY <1>1, <1>3, <1>8, <1>10, <1>11, <1>13
<1>15. index \in 1 .. Len(past) + 1 - p /\ index + n \in 1 .. Len(past) + 1 - p + 1
  BY <1>1, <1>3, <1>8
<1> QED
  BY <1>14, <1>15 DEF index, f, rest, all, n

\* The tail held back is shorter than the tag, and hides all that may begin one.
LEMMA TailIsHeld ==
    ASSUME NEW past \in Text, NEW p \in 1 .. Len(past) + 1, NEW in \in BOOLEAN,
           buffer = From(past, p), Find(Tag(in), buffer, 1) = 0
    PROVE  LET keep == PartialTailLen(Tag(in))
           IN /\ keep \in 0 .. Len(buffer) /\ keep < Len(Tag(in))
              /\ From(buffer, Len(buffer) - keep + 1) = SubSeq(Tag(in), 1, keep)
              /\ \A more \in Text : \A h \in Hits(Tag(in), past \o more, p) :
                    h >= Len(past) + 1 - keep
<1> DEFINE marker == Tag(in)
           n == Len(marker)
           keep == PartialTailLen(marker)
           longest == Min({Len(buffer), Max({Len(Open), Len(Close)})})
           S == {0} \cup TailSizes(marker, 1)
<1>1. /\ Len(past) \in Nat /\ p \in Nat \ {0}
      /\ buffer \in Text /\ Len(buffer) \in Nat /\ Len(buffer) = Len(past) + 1 - p
  <2>1. Len(past) \in Nat /\ From(past, p) \in Text /\ Len(From(past, p)) = Len(past) + 1 - p
    BY RestIs DEF Text
  <2> QED
    BY <2>1
<1>2. marker \in Text /\ marker # <<>> /\ n \in Nat \ {0} /\ n \in {Len(Open), Len(Close)}
  BY TagIsText DEF Text, Tag
<1>3. longest \in Nat /\ longest <= Len(buffer)
      /\ \A size \in Nat : size <= Len(buffer) /\ size <= n => size <= longest
  <2> DEFINE longer == Max({Len(Open), Len(Close)})
  <2>1. Len(Open) \in Nat /\ Len(Close) \in Nat
    BY Tags
  <2>2. longer \in Nat /\ longer >= Len(Open) /\ longer >= Len(Close)
    BY <2>1, MinAndMaxOfTwo
  <2> HIDE DEF longer
  <2>3. /\ Min({Len(buffer), longer}) \in {Len(buffer), longer}
        /\ Min({Len(buffer), longer}) <= Len(buffer)
    BY <1>1, <2>2, MinAndMaxOfTwo
  <2>4. n <= longer
    BY <1>2, <2>1, <2>2
  <2>5. longest = Min({Len(buffer), longer})
    BY DEF longer
  <2> HIDE DEF longest, n
  <2>6. longest \in {Len(buffer), longer} /\ longest <= Len(buffer)
    BY <2>3, <2>5
  <2>7. n \in Nat
    BY <1>2
  <2>8. ASSUME NEW size \in Nat, size <= Len(buffer), size <= n PROVE size <= longest
    BY <2>2, <2>4, <2>6, <2>7, <2>8
  <2> QED
    BY <1>1, <2>2, <2>6, <2>8
<1>4. /\ \A size : size \in TailSizes(marker, 1) <=>
            /\ size \in 1 .. longest /\ size <= n
            /\ SubSeq(marker, 1, size) = From(buffer, Len(buffer) - size + 1)
      /\ keep = Max(S)
  BY DEF TailSizes, PartialTailLen
<1> HIDE DEF marker, keep, longest
<1>5. S \in SUBSET Nat /\ S # {} /\ \A size \in S : size <= Len(buffer)
  <2>1. \A size \in TailSizes(marker, 1) : size \in Nat /\ size <= Len(buffer)
    <3> SUFFICES ASSUME NEW size \in TailSizes(marker, 1)
                 PROVE  size \in Nat /\ size <= Len(buffer)
      OBVIOUS
    <3>1. size \in 1 .. longest
      BY <1>4
    <3> QED
      BY <1>1, <1>3, <3>1
  <2> QED
    BY <1>1, <2>1
<1>6. keep \in S /\ \A size \in S : keep >= size
  <2> HIDE DEF S
  <2> QED
    BY <1>1, <1>4, <1>5, GreatestIsMax
<1>7. keep \in 0 .. Len(buffer) /\ keep <= n
      /\ (keep # 0 => SubSeq(marker, 1, keep) = From(buffer, Len(buffer) - keep + 1))
  <2>1. CASE keep = 0
    BY <1>1, <1>2, <2>1
  <2>2. CASE keep # 0
    <3>1. keep \in TailSizes(marker, 1)
      BY <1>6, <2>2
    <3>2. keep \in Nat /\ keep <= Len(buffer)
      BY <1>5, <1>6
    <3>3. /\ keep <= n
          /\ SubSeq(marker, 1, keep) = From(buffer, Len(buffer) - keep + 1)
      BY <1>4, <3>1
    <3> QED
      BY <1>1, <3>2, <3>3
  <2> QED
    BY <2>1, <2>2
<1> HIDE DEF S
<1>8. Hits(marker, buffer, 1) = {}
  <2>1. Find(marker, buffer, 1) = 0
    BY DEF marker
  <2>2. \A h \in Hits(marker, buffer, 1) : h # 0
    BY <1>1, <1>2 DEF Hits
  <2> QED
    BY <1>1, <1>2, <2>1, <2>2, Found DEF Text
<1>9. keep # n
  <2> SUFFICES ASSUME keep = n PROVE FALSE
    OBVIOUS
  <2> DEFINE i == Len(buffer) - n + 1
  <2>1. i \in 1 .. Len(buffer) + 1 - n /\ i + n - 1 = Len(buffer)
    BY <1>1, <1>2, <1>7
  <2>2. SubSeq(marker, 1, n) = marker
    BY <1>2, WholeIs DEF Text
  <2>3. SubSeq(buffer, i, Len(buffer)) = marker
    BY <1>2, <1>7, <2>2 DEF From
  <2> HIDE DEF i
  <2>4. OccursAt(marker, buffer, i)
    BY <2>1, <2>3 DEF OccursAt
  <2>5. i \in Hits(marker, buffer, 1)
    BY <2>1, <2>4 DEF Hits
  <2> QED
    BY <1>8, <2>5
<1>10. From(buffer, Len(buffer) - keep + 1) = SubSeq(marker, 1, keep)
  <2>1. CASE keep = 0
    <3>1. SubSeq(marker, 1, 0) = <<>>
      OBVIOUS
    <3>2. From(buffer, Len(buffer) - 0 + 1) = <<>>
      BY <1>1 DEF From
    <3> QED
      BY <2>1, <3>1, <3>2
  <2> QED
    BY <1>7, <2>1
<1>11. ASSUME NEW more \in Text, NEW h \in Hits(marker, past \o more, p)
       PROVE  h >= Len(past) + 1 - keep
  <2> DEFINE all == past \o more
             size == Len(past) + 1 - h
  <2>1. /\ Len(more) \in Nat /\ all \in Text /\ Len(all) = Len(past) + Len(more)
        /\ \A k \in 1 .. Len(past) : all[k] = past[k]
    BY Following
  <2> HIDE DEF all
  <2>2. h \in p .. Len(all) + 1 - n /\ OccursAt(marker, all, h)
    BY DEF Hits, all
  <2> SUFFICES ASSUME h < Len(past) + 1 - keep PROVE FALSE
    BY <1>1, <1>7, <2>1, <2>2
  <2>3. size \in 1 .. Len(buffer) /\ size > keep /\ h \in 1 .. Len(all) + 1 - n /\ size \in Nat
    BY <1>1, <1>2, <1>7, <2>1, <2>2
  <2>4. CASE size >= n
    <3> DEFINE i == h - p + 1
    <3>1. i \in 1 .. Len(past) + 1 - p + 1 - n /\ p + i - 1 = h /\ i \in 1 .. Len(buffer) + 1 - n
      BY <1>1, <1>2, <2>1, <2>2, <2>4
    <3> HIDE DEF i
    <3>2. OccursAt(marker, buffer, i) <=> OccursAt(marker, all, p + i - 1)
      BY <1>2, <3>1, OccursInRest DEF all
    <3>3. i \in Hits(marker, buffer, 1)
      BY <2>2, <3>1, <3>2 DEF Hits
    <3> QED
      BY <1>8, <3>3
  <2>5. CASE size < n
    <3>1. \A k \in 1 .. n : all[h + k - 1] = marker[k]
      <4>1. all \in Seq(Characters) /\ marker \in Seq(Characters)
        BY <1>2, <2>1 DEF Text
      <4>2. Matches(marker, all, h)
        BY <2>2, <2>3, <4>1, Occurs
      <4> QED
        BY <4>2 DEF Matches
    <3> DEFINE start == SubSeq(marker, 1, size)
               end == From(past, h)
    <3>2. start \in Text /\ Len(start) = size /\ \A k \in 1 .. size : start[k] = marker[k]
      <4>1. size \in 0 .. Len(marker) /\ marker \in Seq(Characters)
        BY <1>2, <2>3, <2>5 DEF Text
      <4> HIDE DEF size
      <4> QED
        BY <4>1, PrefixIs DEF Text
    <3>3. end \in Text /\ Len(end) = size /\ \A k \in 1 .. size : end[k] = past[h + k - 1]
      <4>1. h \in 1 .. Len(past) + 1
        BY <1>1, <2>2, <2>3
      <4> QED
        BY <4>1, RestIs DEF Text
    <3>4. \A k \in 1 .. size : past[h + k - 1] = marker[k]
      <4> SUFFICES ASSUME NEW k \in 1 .. size PROVE past[h + k - 1] = marker[k]
        OBVIOUS
      <4>1. k \in 1 .. n /\ h + k - 1 \in 1 .. Len(past)
        BY <1>1, <1>2, <2>2, <2>3, <2>5
      <4> QED
        BY <2>1, <3>1, <4>1
    <3>5. start = end
      <4> HIDE DEF start, end, size
      <4> QED
        BY <2>3, <3>2, <3>3, <3>4, SeqEqual DEF Text
    <3>6. From(buffer, Len(buffer) - size + 1) = end
      <4> DEFINE k == Len(buffer) - size
      <4>1. k \in 0 .. Len(past) + 1 - p /\ p + k = h
        BY <1>1, <2>2, <2>3
      <4> HIDE DEF k
      <4>2. From(From(past, p), k + 1) = From(past, p + k)
        BY <4>1, RestOfRest
      <4> QED
        BY <4>1, <4>2 DEF k
    <3>7. size \in TailSizes(marker, 1)
      <4>1. size \in 1 .. longest /\ size <= n
        BY <1>1, <1>2, <1>3, <2>3, <2>5
      <4> QED
        BY <1>4, <3>5, <3>6, <4>1
    <3>8. keep >= size
      BY <1>6, <3>7 DEF S
    <3> QED
      BY <1>7, <2>3, <3>8
  <2> QED
    BY <1>2, <2>3, <2>4, <2>5
<1>12. keep < n
  BY <1>2, <1>7, <1>9
<1> QED
  BY <1>7, <1>10, <1>11, <1>12 DEF marker, keep

-----------------------------------------------------------------------------
(* The filter is between two positions of the text: what it has shown and  *)
(* what is still to come are together what the whole text gives.           *)

Sorted(text, p, in, shown, thought) ==
    /\ StripThinking(text) = shown \o VisibleRest(text, p, in)
    /\ ReasoningOf(text) = TextOf(thought) \o ThinkingRest(text, p, in)

Position(past, rest) == Len(past) - Len(rest) + 1

\* It is so whatever the provider may still send.
Sorts(past, rest, in, shown, thought) ==
    /\ Len(rest) <= Len(past) /\ rest = From(past, Position(past, rest))
    /\ \A more \in Text : Sorted(past \o more, Position(past, rest), in, shown, thought)

Prompt(rest, in) == Len(rest) < Len(Tag(in)) /\ rest = SubSeq(Tag(in), 1, Len(rest))

Moves(text, p, q, in, next, part) ==
    /\ VisibleRest(text, p, in) = VisiblePart(in, part) \o VisibleRest(text, q, next)
    /\ ThinkingRest(text, p, in) = ThinkingPart(in, part) \o ThinkingRest(text, q, next)

\* Showing one more part moves what was to come to what was shown.
LEMMA SortedPart ==
    ASSUME NEW text \in Text, NEW p, NEW q \in 1 .. Len(text) + 1,
           NEW in \in BOOLEAN, NEW next \in BOOLEAN,
           NEW shown \in Text, NEW thought \in Shown, NEW part \in Text,
           Sorted(text, p, in, shown, thought), Moves(text, p, q, in, next, part)
    PROVE  Sorted(text, q, next, shown \o VisiblePart(in, part), thought \o ThinkingPart(in, part))
<1> DEFINE v == VisiblePart(in, part)
           t == ThinkingPart(in, part)
           visibleRest == VisibleRest(text, q, next)
           thinkingRest == ThinkingRest(text, q, next)
<1>1. v \in Text /\ t \in Text /\ visibleRest \in Text /\ thinkingRest \in Text
  BY PartsAreTexts, RestsAreTexts
<1>2. /\ StripThinking(text) = shown \o (v \o visibleRest)
      /\ ReasoningOf(text) = TextOf(thought) \o (t \o thinkingRest)
  BY DEF Sorted, Moves
<1> HIDE DEF v, t, visibleRest, thinkingRest
<1>3. TextOf(thought) \in Text /\ TextOf(thought \o t) = TextOf(thought) \o t
  BY <1>1, TextOfShown, TextIsAppended
<1>4. (shown \o v) \o visibleRest = shown \o (v \o visibleRest)
  <2>1. Associative(shown, v, visibleRest)
    BY <1>1, ConcatAssoc
  <2> QED
    BY <2>1 DEF Associative
<1>5. (TextOf(thought) \o t) \o thinkingRest = TextOf(thought) \o (t \o thinkingRest)
  <2> DEFINE u == TextOf(thought)
  <2>1. u \in Text
    BY <1>3
  <2> HIDE DEF u
  <2>2. Associative(u, t, thinkingRest)
    BY <1>1, <2>1, ConcatAssoc
  <2> QED
    BY <2>2 DEF u, Associative
<1>6. /\ StripThinking(text) = (shown \o v) \o visibleRest
      /\ ReasoningOf(text) = TextOf(thought \o t) \o thinkingRest
  BY <1>2, <1>3, <1>4, <1>5
<1> QED
  BY <1>6 DEF Sorted, v, t, visibleRest, thinkingRest

LEMMA RestIsText ==
    ASSUME NEW past \in Text, NEW rest, rest = From(past, Position(past, rest)),
           Len(rest) \in Nat, Len(rest) <= Len(past)
    PROVE  /\ rest \in Text /\ Len(past) \in Nat
           /\ Position(past, rest) \in 1 .. Len(past) + 1
           /\ Len(rest) = Len(past) + 1 - Position(past, rest)
<1>1. Len(past) \in Nat
  BY DEF Text
<1>2. Position(past, rest) \in 1 .. Len(past) + 1
      /\ Len(rest) = Len(past) + 1 - Position(past, rest)
  BY <1>1 DEF Position
<1>3. From(past, Position(past, rest)) \in Text
  BY <1>2, RestIs DEF Text
<1> QED
  BY <1>1, <1>2, <1>3

\* At the start everything is to come.
LEMMA NothingFed ==
    Sorts(<<>>, <<>>, FALSE, <<>>, <<>>) /\ Prompt(<<>>, FALSE)
<1>1. <<>> \in Text /\ Len(<<>>) = 0 /\ Position(<<>>, <<>>) = 1 /\ From(<<>>, 1) = <<>>
  BY DEF Text, Position, From
<1>2. ASSUME NEW more \in Text PROVE Sorted(<<>> \o more, 1, FALSE, <<>>, <<>>)
  <2>1. <<>> \o more = more
    BY ConcatEmpty
  <2>2. 1 \in 1 .. Len(more) + 1
    BY DEF Text
  <2>3. Kept(more)[1] \in Text /\ Inside(more)[1] \in Text
    BY <2>2, Recursion
  <2>4. <<>> \o Kept(more)[1] = Kept(more)[1] /\ <<>> \o Inside(more)[1] = Inside(more)[1]
    BY <2>3, ConcatEmpty
  <2> QED
    BY <2>1, <2>4, Functions, TextOfNone DEF Sorted, VisibleRest, ThinkingRest
<1>3. Sorts(<<>>, <<>>, FALSE, <<>>, <<>>)
  <2> DEFINE none == <<>>
             p == Position(none, none)
  <2>1. p = 1 /\ Len(none) <= Len(none) /\ none = From(none, 1)
    BY <1>1
  <2>2. \A more \in Text : Sorted(none \o more, 1, FALSE, none, none)
    BY <1>2
  <2> HIDE DEF none
  <2>3. Sorts(none, none, FALSE, none, none)
    BY <2>1, <2>2 DEF Sorts
  <2> QED
    BY <2>3 DEF none
<1>4. Prompt(<<>>, FALSE)
  <2>1. Tag(FALSE) = Open /\ 0 < Len(Open)
    BY Tags DEF Tag
  <2>2. SubSeq(Open, 1, 0) = <<>>
    OBVIOUS
  <2> QED
    BY <1>1, <2>1, <2>2 DEF Prompt
<1> QED
  BY <1>3, <1>4

\* A fragment is some of what was to come.
LEMMA FragmentFed ==
    ASSUME NEW past \in Text, NEW rest \in Text, NEW in, NEW shown, NEW thought,
           NEW fragment \in Text, Sorts(past, rest, in, shown, thought)
    PROVE  Sorts(past \o fragment, rest \o fragment, in, shown, thought)
<1> DEFINE p == Position(past, rest)
           all == past \o fragment
<1>1. Len(past) \in Nat /\ Len(rest) \in Nat /\ Len(fragment) \in Nat
  BY DEF Text
<1>2. /\ all \in Text /\ Len(all) = Len(past) + Len(fragment)
      /\ rest \o fragment \in Text /\ Len(rest \o fragment) = Len(rest) + Len(fragment)
  BY Following
<1>3. Len(rest) <= Len(past) /\ rest = From(past, p) /\ p \in 1 .. Len(past) + 1
      /\ \A more \in Text : Sorted(past \o more, p, in, shown, thought)
  BY <1>1 DEF Sorts, Position
<1>4. Position(all, rest \o fragment) = p
  BY <1>1, <1>2 DEF Position
<1>5. From(all, p) = rest \o fragment
  <2> DEFINE k == Len(past)
             j == k + 1
  <2>1. /\ k \in p - 1 .. Len(all) /\ p \in 1 .. Len(all) + 1 /\ j \in p .. Len(all) + 1 /\ j - 1 = k
        /\ k \in 0 .. Len(past) /\ 1 \in 1 .. Len(past) + 1
    BY <1>1, <1>2, <1>3
  <2>2. From(all, p) = SubSeq(all, p, j - 1) \o From(all, j)
    <3> HIDE DEF all, j, p
    <3> QED
      BY <1>2, <2>1, Split DEF Text
  <2>3. SubSeq(all, p, k) = rest
    <3> DEFINE size == Len(past) + 1 - p
    <3>1. size \in 0 .. Len(past) + 1 - p /\ p + size - 1 = k /\ size = Len(rest)
      BY <1>1, <1>3 DEF Position
    <3>2. SubSeq(From(past, p), 1, size) = SubSeq(all, p, p + size - 1)
      <4> HIDE DEF p, size
      <4> QED
        BY <1>3, <3>1, PartOfRest
    <3>3. SubSeq(rest, 1, Len(rest)) = rest
      BY WholeIs DEF Text
    <3> HIDE DEF p, size, all, k
    <3> QED
      BY <1>3, <3>1, <3>2, <3>3
  <2>4. From(all, j) = fragment
    <3> HIDE DEF all
    <3>1. j \in 1 .. Len(all) + 1 /\ Len(all) + 1 - j = Len(fragment)
      BY <1>1, <1>2
    <3>2. /\ From(all, j) \in Seq(Characters) /\ Len(From(all, j)) = Len(all) + 1 - j
          /\ \A i \in 1 .. Len(all) + 1 - j : From(all, j)[i] = all[j + i - 1]
      <4> HIDE DEF j
      <4>1. all \in Seq(Characters)
        BY <1>2 DEF Text
      <4>2. From(all, j) \in Seq(Characters) /\ Len(From(all, j)) = Len(all) + 1 - j
        BY <3>1, <4>1, RestIs
      <4>3. \A i \in 1 .. Len(all) + 1 - j : From(all, j)[i] = all[j + i - 1]
        BY <3>1, <4>1, RestIs
      <4> QED
        BY <4>2, <4>3
    <3>3. ASSUME NEW i \in 1 .. Len(fragment) PROVE all[j + i - 1] = fragment[i]
      <4> DEFINE at == j + i - 1
      <4>1. at \in 1 .. Len(past) + Len(fragment) /\ ~(at <= Len(past)) /\ at - Len(past) = i
        BY <1>1
      <4> HIDE DEF at, j
      <4>2. all[at] = fragment[at - Len(past)]
        BY <4>1, ConcatProperties DEF all, Text
      <4> QED
        BY <4>1, <4>2 DEF at
    <3> HIDE DEF j
    <3>4. \A i \in 1 .. Len(fragment) : From(all, j)[i] = fragment[i]
      BY <3>1, <3>2, <3>3
    <3> QED
      BY <3>1, <3>2, <3>4, SeqEqual DEF Text
  <2> HIDE DEF all, j, k, p
  <2> QED
    BY <2>1, <2>2, <2>3, <2>4
<1>6. ASSUME NEW more \in Text PROVE Sorted(all \o more, p, in, shown, thought)
  <2>1. fragment \o more \in Text /\ all \o more = past \o (fragment \o more)
    <3>1. Associative(past, fragment, more)
      BY ConcatAssoc
    <3>2. fragment \o more \in Text
      BY Concat
    <3> QED
      BY <3>1, <3>2 DEF Associative
  <2> HIDE DEF all, p
  <2> QED
    BY <1>3, <2>1
<1>7. Len(rest \o fragment) <= Len(all)
  BY <1>1, <1>2, <1>3
<1> HIDE DEF all, p
<1>8. Sorts(all, rest \o fragment, in, shown, thought)
  BY <1>4, <1>5, <1>6, <1>7 DEF Sorts
<1> QED
  BY <1>8 DEF all

LEMMA FieldShown ==
    ASSUME NEW past \in Text, NEW rest \in Text, NEW in, NEW shown \in Text, NEW thought \in Shown,
           Sorts(past, rest, in, shown, thought)
    PROVE  Sorts(past, rest, in, shown, thought \o <<Field>>)
BY FieldIsSkipped DEF Sorts, Sorted

\* The filter's two ways on.
LEMMA TagDrained ==
    ASSUME NEW past \in Text, NEW rest \in Text, NEW in \in BOOLEAN,
           NEW shown \in Text, NEW thought \in Shown,
           Sorts(past, rest, in, shown, thought),
           Find(Tag(in), rest, 1) # 0
    PROVE  LET index == Find(Tag(in), rest, 1)
               part == SubSeq(rest, 1, index - 1)
               left == From(rest, index + Len(Tag(in)))
           IN /\ part \in Text /\ left \in Text
              /\ Sorts(past, left, ~in, shown \o VisiblePart(in, part),
                       thought \o ThinkingPart(in, part))
<1> DEFINE index == Find(Tag(in), rest, 1)
           part == SubSeq(rest, 1, index - 1)
           left == From(rest, index + Len(Tag(in)))
           n == Len(Tag(in))
           p == Position(past, rest)
           q == p + index - 1 + n
<1>1. Len(past) \in Nat /\ Len(rest) \in Nat
  BY DEF Text
<1>2. Len(rest) <= Len(past) /\ rest = From(past, p) /\ p \in 1 .. Len(past) + 1
      /\ Len(rest) = Len(past) + 1 - p
      /\ \A more \in Text : Sorted(past \o more, p, in, shown, thought)
  BY <1>1 DEF Sorts, Position
<1>3. Tag(in) \in Text /\ Tag(in) # <<>> /\ n \in Nat \ {0}
  BY TagIsText DEF Text
<1> HIDE DEF p
<1>4. index \in 1 .. Len(rest) /\ index + n \in 1 .. Len(rest) + 1
  BY <1>1, <1>3, FoundInside DEF Text
<1>5. ASSUME NEW more \in Text PROVE Find(Tag(in), past \o more, p) = p + index - 1
  BY <1>2, <1>3, FoundInRest
<1> HIDE DEF index, n
<1>6. /\ index - 1 \in 0 .. Len(past) + 1 - p /\ p + (index - 1) - 1 = p + index - 1 - 1
      /\ index + n - 1 \in 0 .. Len(past) + 1 - p /\ (index + n - 1) + 1 = index + n
      /\ p + (index + n - 1) = q /\ q \in p + 1 .. Len(past) + 1 /\ index \in Nat
  BY <1>1, <1>2, <1>3, <1>4
<1>7. part \in Text /\ \A more \in Text : part = SubSeq(past \o more, p, p + index - 1 - 1)
  <2> DEFINE k == index - 1
  <2> SUFFICES ASSUME NEW more \in Text
               PROVE  part \in Text /\ part = SubSeq(past \o more, p, p + index - 1 - 1)
    BY DEF Text
  <2>1. k \in 0 .. Len(past) + 1 - p /\ p + k - 1 = p + index - 1 - 1
    BY <1>6
  <2> HIDE DEF k
  <2>2. /\ SubSeq(From(past, p), 1, k) = SubSeq(past \o more, p, p + k - 1)
        /\ SubSeq(From(past, p), 1, k) \in Text
    BY <1>2, <2>1, PartOfRest
  <2> QED
    BY <1>2, <2>1, <2>2 DEF k
<1>8. left = From(past, q)
  <2> DEFINE k == index + n - 1
  <2>1. k \in 0 .. Len(past) + 1 - p /\ k + 1 = index + n /\ p + k = q
    BY <1>6
  <2> HIDE DEF k, q
  <2>2. From(From(past, p), k + 1) = From(past, p + k)
    BY <1>2, <2>1, RestOfRest
  <2> QED
    BY <1>2, <2>1, <2>2 DEF n
<1> HIDE DEF part, left, q
<1>9. left \in Text /\ Len(left) = Len(past) + 1 - q
  <2>1. q \in 1 .. Len(past) + 1
    BY <1>1, <1>2, <1>6
  <2> QED
    BY <1>8, <2>1, RestIs DEF Text
<1>10. Len(left) <= Len(past) /\ Position(past, left) = q
  BY <1>1, <1>2, <1>6, <1>9 DEF Position
<1>11. ASSUME NEW more \in Text
       PROVE  Sorted(past \o more, q, ~in, shown \o VisiblePart(in, part),
                     thought \o ThinkingPart(in, part))
  <2> DEFINE all == past \o more
             at == Find(Tag(in), all, p)
  <2>1. all \in Text /\ Len(all) = Len(past) + Len(more) /\ Len(more) \in Nat
    BY Following
  <2>2. Sorted(all, p, in, shown, thought) /\ at = p + index - 1
        /\ part = SubSeq(all, p, at - 1)
    <3>1. Sorted(all, p, in, shown, thought) /\ at = p + index - 1
      BY <1>2, <1>5
    <3>2. part = SubSeq(all, p, p + index - 1 - 1)
      BY <1>7
    <3> HIDE DEF all, at
    <3>3. at - 1 = p + index - 1 - 1
      BY <1>1, <1>2, <1>6, <3>1
    <3>4. part = SubSeq(all, p, at - 1)
      BY <3>2, <3>3
    <3> QED
      BY <3>1, <3>4
  <2> HIDE DEF all, at
  <2>3. /\ p \in 1 .. Len(all) + 1 /\ q \in 1 .. Len(all) + 1 /\ at # 0
        /\ at + n = q
    <3>1. p \in Nat \ {0} /\ index \in Nat \ {0} /\ n \in Nat /\ at = p + index - 1
      BY <1>1, <1>2, <1>3, <1>4, <2>2
    <3>2. at # 0
      BY <3>1
    <3>3. at + n = q
      BY <3>1 DEF q
    <3>4. p \in 1 .. Len(all) + 1 /\ q \in 1 .. Len(all) + 1
      BY <1>1, <1>2, <1>6, <2>1
    <3> QED
      BY <3>2, <3>3, <3>4
  <2>4. /\ VisibleRest(all, p, in) =
              VisiblePart(in, SubSeq(all, p, at - 1)) \o VisibleRest(all, at + Len(Tag(in)), ~in)
        /\ ThinkingRest(all, p, in) =
              ThinkingPart(in, SubSeq(all, p, at - 1)) \o ThinkingRest(all, at + Len(Tag(in)), ~in)
    BY <2>1, <2>3, AtTag DEF at
  <2>5. /\ VisibleRest(all, p, in) = VisiblePart(in, part) \o VisibleRest(all, q, ~in)
        /\ ThinkingRest(all, p, in) = ThinkingPart(in, part) \o ThinkingRest(all, q, ~in)
    BY <2>2, <2>3, <2>4 DEF n
  <2> DEFINE next == ~in
  <2>6. part \in Text /\ next \in BOOLEAN /\ Moves(all, p, q, in, next, part)
    BY <1>7, <2>5 DEF Moves
  <2> HIDE DEF next
  <2>7. Sorted(all, q, next, shown \o VisiblePart(in, part), thought \o ThinkingPart(in, part))
    BY <2>1, <2>2, <2>3, <2>6, SortedPart
  <2> QED
    BY <2>7 DEF all, next
<1>12. Sorts(past, left, ~in, shown \o VisiblePart(in, part), thought \o ThinkingPart(in, part))
  BY <1>8, <1>10, <1>11 DEF Sorts
<1> QED
  BY <1>7, <1>9, <1>12 DEF part, left, index

LEMMA RestDrained ==
    ASSUME NEW past \in Text, NEW rest \in Text, NEW in \in BOOLEAN,
           NEW shown \in Text, NEW thought \in Shown,
           Sorts(past, rest, in, shown, thought),
           NEW keep \in 0 .. Len(rest),
           \A more \in Text : \A h \in Hits(Tag(in), past \o more, Position(past, rest)) :
              h >= Len(past) + 1 - keep
    PROVE  LET part == SubSeq(rest, 1, Len(rest) - keep)
               left == From(rest, Len(rest) - keep + 1)
           IN /\ part \in Text /\ left \in Text /\ Len(left) = keep
              /\ Sorts(past, left, in, shown \o VisiblePart(in, part),
                       thought \o ThinkingPart(in, part))
<1> DEFINE k == Len(rest) - keep
           part == SubSeq(rest, 1, k)
           left == From(rest, k + 1)
           p == Position(past, rest)
           q == p + k
<1>1. Len(past) \in Nat /\ Len(rest) \in Nat
  BY DEF Text
<1>2. Len(rest) <= Len(past) /\ rest = From(past, p) /\ p \in 1 .. Len(past) + 1
      /\ Len(rest) = Len(past) + 1 - p
      /\ \A more \in Text : Sorted(past \o more, p, in, shown, thought)
  BY <1>1 DEF Sorts, Position
<1>3. \A more \in Text : \A h \in Hits(Tag(in), past \o more, p) : h >= Len(past) + 1 - keep
  OBVIOUS
<1> HIDE DEF p
<1>4. /\ k \in 0 .. Len(past) + 1 - p /\ q \in p .. Len(past) + 1 /\ q - 1 = p + k - 1
      /\ Len(past) + 1 - keep = q /\ q \in 1 .. Len(past) + 1
  BY <1>1, <1>2
<1> HIDE DEF k, q
<1>5. part \in Text /\ \A more \in Text : part = SubSeq(past \o more, p, q - 1)
  <2> SUFFICES ASSUME NEW more \in Text
               PROVE  part \in Text /\ part = SubSeq(past \o more, p, q - 1)
    BY DEF Text
  <2>1. /\ SubSeq(From(past, p), 1, k) = SubSeq(past \o more, p, p + k - 1)
        /\ SubSeq(From(past, p), 1, k) \in Text
    BY <1>2, <1>4, PartOfRest
  <2> QED
    BY <1>2, <1>4, <2>1
<1>6. left = From(past, q)
  <2>1. From(From(past, p), k + 1) = From(past, p + k)
    BY <1>2, <1>4, RestOfRest
  <2> QED
    BY <1>2, <2>1 DEF q
<1> HIDE DEF part, left
<1>7. left \in Text /\ Len(left) = Len(past) + 1 - q
  BY <1>4, <1>6, RestIs DEF Text
<1>8. Len(left) <= Len(past) /\ Position(past, left) = q /\ Len(left) = keep
  BY <1>1, <1>2, <1>4, <1>7 DEF Position
<1>9. ASSUME NEW more \in Text
      PROVE  Sorted(past \o more, q, in, shown \o VisiblePart(in, part),
                    thought \o ThinkingPart(in, part))
  <2> DEFINE all == past \o more
  <2>1. all \in Text /\ Len(all) = Len(past) + Len(more) /\ Len(more) \in Nat
    BY Following
  <2>2. Sorted(all, p, in, shown, thought) /\ part = SubSeq(all, p, q - 1)
    BY <1>2, <1>5
  <2>3. \A h \in Hits(Tag(in), all, p) : h >= q
    BY <1>3, <1>4
  <2> HIDE DEF all
  <2>4. p \in 1 .. Len(all) + 1 /\ q \in p .. Len(all) + 1 /\ q \in 1 .. Len(all) + 1
    BY <1>1, <1>2, <1>4, <2>1
  <2>5. /\ VisibleRest(all, p, in) =
              VisiblePart(in, SubSeq(all, p, q - 1)) \o VisibleRest(all, q, in)
        /\ ThinkingRest(all, p, in) =
              ThinkingPart(in, SubSeq(all, p, q - 1)) \o ThinkingRest(all, q, in)
    BY <2>1, <2>3, <2>4, NoTagBefore
  <2> DEFINE next == in
  <2>6. next \in BOOLEAN /\ Moves(all, p, q, in, next, part)
    BY <2>2, <2>5 DEF Moves
  <2> HIDE DEF next
  <2>7. Sorted(all, q, next, shown \o VisiblePart(in, part), thought \o ThinkingPart(in, part))
    BY <1>5, <2>1, <2>2, <2>4, <2>6, SortedPart
  <2> QED
    BY <2>7 DEF all, next
<1>10. Sorts(past, left, in, shown \o VisiblePart(in, part), thought \o ThinkingPart(in, part))
  BY <1>6, <1>8, <1>9 DEF Sorts
<1> QED
  BY <1>5, <1>7, <1>8, <1>10 DEF part, left, k

\* At the end of the stream nothing is to come but the buffer.
LEMMA AllDrained ==
    ASSUME NEW past \in Text, NEW rest \in Text, NEW in \in BOOLEAN,
           NEW shown \in Text, NEW thought \in Shown,
           Sorts(past, rest, in, shown, thought),
           Find(Tag(in), rest, 1) = 0
    PROVE  /\ StripThinking(past) = shown \o VisiblePart(in, rest)
           /\ ReasoningOf(past) = TextOf(thought \o ThinkingPart(in, rest))
<1> DEFINE p == Position(past, rest)
<1>1. Len(past) \in Nat /\ Len(rest) \in Nat
  BY DEF Text
<1>2. Len(rest) <= Len(past) /\ rest = From(past, p) /\ p \in 1 .. Len(past) + 1
      /\ Len(rest) = Len(past) + 1 - p
      /\ \A more \in Text : Sorted(past \o more, p, in, shown, thought)
  BY <1>1 DEF Sorts, Position
<1> HIDE DEF p
<1>3. past \o <<>> = past /\ <<>> \in Text
  BY ConcatEmpty DEF Text
<1>4. Sorted(past, p, in, shown, thought)
  BY <1>2, <1>3
<1>5. Tag(in) \in Text /\ Tag(in) # <<>> /\ Len(Tag(in)) \in Nat \ {0}
  BY TagIsText DEF Text
<1>6. Find(Tag(in), past, p) = 0
  <2>1. Hits(Tag(in), rest, 1) = {}
    <3>1. \A h \in Hits(Tag(in), rest, 1) : h # 0
      BY <1>1, <1>5 DEF Hits
    <3> QED
      BY <1>5, <3>1, Found DEF Text
  <2>2. ASSUME NEW h \in Hits(Tag(in), past, p) PROVE FALSE
    <3> DEFINE i == h - p + 1
    <3>1. h \in p .. Len(past) + 1 - Len(Tag(in)) /\ OccursAt(Tag(in), past, h)
      BY DEF Hits
    <3>2. /\ i \in 1 .. Len(past) + 1 - p + 1 - Len(Tag(in)) /\ p + i - 1 = h
          /\ i \in 1 .. Len(rest) + 1 - Len(Tag(in))
      BY <1>1, <1>2, <1>5, <3>1
    <3> HIDE DEF i
    <3>3. OccursAt(Tag(in), From(past, p), i) <=> OccursAt(Tag(in), past \o <<>>, p + i - 1)
      BY <1>2, <1>3, <1>5, <3>2, OccursInRest
    <3>4. i \in Hits(Tag(in), rest, 1)
      BY <1>2, <1>3, <3>1, <3>2, <3>3 DEF Hits
    <3> QED
      BY <2>1, <3>4
  <2>3. p \in Nat \ {0}
    BY <1>1, <1>2
  <2> QED
    BY <1>5, <2>2, <2>3, Found DEF Text
<1>7. /\ VisibleRest(past, p, in) = VisiblePart(in, rest)
      /\ ThinkingRest(past, p, in) = ThinkingPart(in, rest)
  BY <1>2, <1>6, NoTag
<1>8. TextOf(thought \o ThinkingPart(in, rest)) = TextOf(thought) \o ThinkingPart(in, rest)
  <2> DEFINE t == ThinkingPart(in, rest)
  <2>1. t \in Text
    BY PartsAreTexts
  <2> HIDE DEF t
  <2>2. TextOf(thought \o t) = TextOf(thought) \o t
    BY <2>1, TextIsAppended
  <2> QED
    BY <2>2 DEF t
<1> QED
  BY <1>4, <1>7, <1>8 DEF Sorted

-----------------------------------------------------------------------------
(* The invariant.                                                          *)

\* While the response comes in, what the filter has shown and what its position
\* leaves to come make up the whole, whatever comes.
FilterIsAhead ==
    phase \in {"stream", "drain"} => Sorts(content, buffer, inThinking, visible, thinking)

\* Between two fragments the buffer is the beginning of a tag.
BufferIsPartOfTag ==
    phase = "stream" => Prompt(buffer, inThinking)

\* After the flush everything is shown.
ResponseIsShown ==
    phase \in {"assemble", "done"} =>
        visible = StripThinking(content) /\ TextOf(thinking) = ReasoningOf(content)

ResponseIsStored ==
    phase = "done" => stored = StripThinking(content)

FieldsAreShown == Cardinality(FieldsIn(thinking)) = fields

Inv == /\ TypeOK
       /\ FilterIsAhead /\ BufferIsPartOfTag /\ ResponseIsShown /\ ResponseIsStored
       /\ FieldsAreShown

LEMMA NoFieldsYet == Cardinality(FieldsIn(<<>>)) = 0
<1>1. FieldsIn(<<>>) = {}
  BY DEF FieldsIn
<1> QED
  BY <1>1, FS_EmptySet

\* What the parts of a step that release a text do.
LEMMA Released ==
    ASSUME TypeOK, NEW part \in Text, Route(part)
    PROVE  /\ visible' = visible \o VisiblePart(inThinking, part) /\ visible' \in Text
           /\ thinking' = thinking \o ThinkingPart(inThinking, part) /\ thinking' \in Shown
           /\ FieldsIn(thinking') = FieldsIn(thinking)
<1>1. visible \in Text /\ thinking \in Shown /\ inThinking \in BOOLEAN
  BY DEF TypeOK, Text, Shown
<1>2. visible \o <<>> = visible /\ thinking \o <<>> = thinking
  BY <1>1, ConcatEmptySeq DEF Text, Shown
<1>3. visible \o part \in Text /\ thinking \o part \in Shown
      /\ FieldsIn(thinking \o part) = FieldsIn(thinking)
  BY <1>1, Concat, TextIsAppended, TextHasNoField
<1>4. CASE inThinking
  BY <1>1, <1>2, <1>3, <1>4 DEF Route, VisiblePart, ThinkingPart
<1>5. CASE ~inThinking
  BY <1>1, <1>2, <1>3, <1>5 DEF Route, VisiblePart, ThinkingPart
<1> QED
  BY <1>4, <1>5

LEMMA InitInv == Init => Inv
<1> SUFFICES ASSUME Init PROVE Inv
  OBVIOUS
<1> USE DEF Init
<1>1. TypeOK
  <2>1. <<>> \in Seq(Characters) /\ <<>> \in Seq(Characters \cup {Field})
    OBVIOUS
  <2>2. attempt \in 0 .. Retries /\ fields \in 0 .. MaxFields
    BY StreamAssumption
  <2> QED
    BY <2>1, <2>2 DEF TypeOK
<1>2. FilterIsAhead /\ BufferIsPartOfTag
  BY NothingFed DEF FilterIsAhead, BufferIsPartOfTag
<1>3. ResponseIsShown /\ ResponseIsStored
  BY DEF ResponseIsShown, ResponseIsStored
<1>4. FieldsAreShown
  BY NoFieldsYet DEF FieldsAreShown
<1> QED
  BY <1>1, <1>2, <1>3, <1>4 DEF Inv

LEMMA NextInv == Inv /\ [Next]_vars => Inv'
<1> SUFFICES ASSUME Inv, [Next]_vars PROVE Inv'
  OBVIOUS
<1> USE DEF Inv
<1>0. /\ content \in Text /\ chunk \in Text /\ buffer \in Text /\ visible \in Text /\ stored \in Text
      /\ thinking \in Shown /\ inThinking \in BOOLEAN /\ TypeOK
  BY DEF TypeOK, Text, Shown
<1>1. CASE UNCHANGED vars
  BY <1>1 DEF vars, filterVars, shownVars, TypeOK, FilterIsAhead, BufferIsPartOfTag, ResponseIsShown,
              ResponseIsStored, FieldsAreShown
<1>2. ASSUME NEW c \in Characters, Receive(c) PROVE Inv'
  <2> USE <1>2 DEF Receive, filterVars, shownVars
  <2>1. chunk' \in Seq(Characters)
    BY <1>0 DEF Text
  <2>2. TypeOK'
    BY <2>1 DEF TypeOK
  <2>3. FilterIsAhead' /\ BufferIsPartOfTag' /\ ResponseIsShown' /\ ResponseIsStored' /\ FieldsAreShown'
    BY DEF FilterIsAhead, BufferIsPartOfTag, ResponseIsShown, ResponseIsStored, FieldsAreShown
  <2> QED
    BY <2>2, <2>3
<1>3. CASE Feed
  <2> USE <1>3 DEF Feed, shownVars
  <2>1. buffer' \in Text /\ content' \in Text
    BY <1>0, Concat
  <2>2. TypeOK'
    BY <2>1 DEF TypeOK, Text
  <2>3. Sorts(content, buffer, inThinking, visible, thinking)
    BY DEF FilterIsAhead
  <2>4. Sorts(content \o chunk, buffer \o chunk, inThinking, visible, thinking)
    BY <1>0, <2>3, FragmentFed
  <2>5. FilterIsAhead'
    BY <2>4 DEF FilterIsAhead
  <2>6. BufferIsPartOfTag' /\ ResponseIsShown' /\ ResponseIsStored' /\ FieldsAreShown'
    BY DEF BufferIsPartOfTag, ResponseIsShown, ResponseIsStored, FieldsAreShown
  <2> QED
    BY <2>2, <2>5, <2>6
<1>4. CASE ReasoningField
  <2> USE <1>4 DEF ReasoningField, filterVars
  <2>1. visible' = visible /\ thinking' = thinking \o <<Field>> /\ thinking' \in Shown
    <3>1. visible \o <<>> = visible
      BY <1>0, ConcatEmpty
    <3> QED
      BY <1>0, <3>1, FieldIsSkipped DEF FieldFor
  <2>2. fields' \in 0 .. MaxFields
    BY StreamAssumption DEF TypeOK
  <2>3. TypeOK'
    BY <2>1, <2>2 DEF TypeOK, Shown
  <2>4. Sorts(content, buffer, inThinking, visible, thinking)
    BY DEF FilterIsAhead
  <2>5. Sorts(content, buffer, inThinking, visible, thinking \o <<Field>>)
    BY <1>0, <2>4, FieldShown
  <2>6. FilterIsAhead'
    BY <2>1, <2>5 DEF FilterIsAhead
  <2>7. FieldsAreShown'
    BY <1>0, <2>1, FieldIsCounted DEF FieldsAreShown
  <2>8. BufferIsPartOfTag' /\ ResponseIsShown' /\ ResponseIsStored'
    BY DEF BufferIsPartOfTag, ResponseIsShown, ResponseIsStored
  <2> QED
    BY <2>3, <2>6, <2>7, <2>8
<1>5. CASE EndOfStream
  <2> USE <1>5 DEF EndOfStream, shownVars
  <2>1. TypeOK'
    BY DEF TypeOK
  <2>2. FilterIsAhead' /\ BufferIsPartOfTag' /\ ResponseIsShown' /\ ResponseIsStored' /\ FieldsAreShown'
    BY DEF FilterIsAhead, BufferIsPartOfTag, ResponseIsShown, ResponseIsStored, FieldsAreShown
  <2> QED
    BY <2>1, <2>2
<1>6. CASE DrainToTag
  <2> USE <1>6 DEF DrainToTag
  <2> DEFINE index == Find(Tag(inThinking), buffer, 1)
             part == SubSeq(buffer, 1, index - 1)
             left == From(buffer, index + Len(Tag(inThinking)))
  <2>1. /\ index # 0 /\ Route(part) /\ buffer' = left /\ inThinking' = ~inThinking
        /\ phase = "drain" /\ UNCHANGED <<phase, attempt, content, chunk, fields, final, stored>>
    BY <1>0 DEF Marker, Skip, Tag
  <2>2. Sorts(content, buffer, inThinking, visible, thinking)
    BY <2>1 DEF FilterIsAhead
  <2>3. /\ part \in Text /\ left \in Text
        /\ Sorts(content, left, ~inThinking, visible \o VisiblePart(inThinking, part),
                 thinking \o ThinkingPart(inThinking, part))
    BY <1>0, <2>1, <2>2, TagDrained
  <2> HIDE DEF DrainToTag, index, part, left
  <2>4. /\ visible' = visible \o VisiblePart(inThinking, part) /\ visible' \in Text
        /\ thinking' = thinking \o ThinkingPart(inThinking, part) /\ thinking' \in Shown
        /\ FieldsIn(thinking') = FieldsIn(thinking)
    BY <1>0, <2>1, <2>3, Released
  <2>5. TypeOK'
    BY <2>1, <2>3, <2>4 DEF TypeOK, Text, Shown
  <2>6. FilterIsAhead'
    BY <2>1, <2>3, <2>4 DEF FilterIsAhead
  <2>7. BufferIsPartOfTag' /\ ResponseIsShown' /\ ResponseIsStored' /\ FieldsAreShown'
    BY <2>1, <2>4 DEF BufferIsPartOfTag, ResponseIsShown, ResponseIsStored, FieldsAreShown
  <2> QED
    BY <2>5, <2>6, <2>7
<1>7. CASE DrainRest
  <2> DEFINE keep == Keep
             part == SubSeq(buffer, 1, Len(buffer) - keep)
             left == From(buffer, Len(buffer) - keep + 1)
             p == Position(content, buffer)
  <2>1. /\ Find(Tag(inThinking), buffer, 1) = 0 /\ Route(part) /\ buffer' = left
        /\ phase = "drain" /\ phase' = IF final THEN "assemble" ELSE "stream"
        /\ UNCHANGED <<attempt, content, chunk, fields, inThinking, final, stored>>
    BY <1>0, <1>7 DEF DrainRest, Marker, Tag
  <2>2. keep = IF final THEN 0 ELSE PartialTailLen(Tag(inThinking))
    BY DEF Keep, Marker, Tag
  <2>3. Sorts(content, buffer, inThinking, visible, thinking)
    BY <2>1 DEF FilterIsAhead
  <2>4. /\ Len(buffer) \in Nat /\ p \in 1 .. Len(content) + 1 /\ buffer = From(content, p)
        /\ final \in BOOLEAN
    BY <1>0, <2>3 DEF Sorts, Position, Text, TypeOK
  <2> HIDE DEF keep
  <2>5. CASE final
    <3>1. keep = 0
      BY <2>2, <2>5
    <3>2. part = buffer
      <4>1. Len(buffer) - 0 = Len(buffer)
        BY <2>4
      <4>2. SubSeq(buffer, 1, Len(buffer)) = buffer
        BY <1>0, WholeIs DEF Text
      <4> QED
        BY <3>1, <4>1, <4>2
    <3>3. left = <<>> /\ <<>> \in Text
      <4>1. Len(buffer) - 0 + 1 = Len(buffer) + 1
        BY <2>4
      <4>2. SubSeq(buffer, Len(buffer) + 1, Len(buffer)) = <<>>
        BY <2>4
      <4> QED
        BY <3>1, <4>1, <4>2 DEF From, Text
    <3>4. /\ StripThinking(content) = visible \o VisiblePart(inThinking, buffer)
          /\ ReasoningOf(content) = TextOf(thinking \o ThinkingPart(inThinking, buffer))
      BY <1>0, <2>1, <2>3, AllDrained
    <3> HIDE DEF part, left
    <3>5. /\ visible' = visible \o VisiblePart(inThinking, buffer) /\ visible' \in Text
          /\ thinking' = thinking \o ThinkingPart(inThinking, buffer) /\ thinking' \in Shown
          /\ FieldsIn(thinking') = FieldsIn(thinking)
      BY <1>0, <2>1, <3>2, Released
    <3>6. TypeOK'
      BY <2>1, <2>5, <3>3, <3>5 DEF TypeOK, Text, Shown
    <3>7. ResponseIsShown'
      BY <2>1, <3>4, <3>5 DEF ResponseIsShown
    <3>8. FilterIsAhead' /\ BufferIsPartOfTag' /\ ResponseIsStored' /\ FieldsAreShown'
      BY <2>1, <2>5, <3>5 DEF FilterIsAhead, BufferIsPartOfTag, ResponseIsStored, FieldsAreShown
    <3> QED
      BY <3>6, <3>7, <3>8
  <2>6. CASE ~final
    <3>1. keep = PartialTailLen(Tag(inThinking))
      BY <2>2, <2>6
    <3>2. /\ keep \in 0 .. Len(buffer) /\ keep < Len(Tag(inThinking))
          /\ left = SubSeq(Tag(inThinking), 1, keep)
          /\ \A more \in Text : \A h \in Hits(Tag(inThinking), content \o more, p) :
                h >= Len(content) + 1 - keep
      BY <1>0, <2>1, <2>4, <3>1, TailIsHeld
    <3>3. /\ part \in Text /\ left \in Text /\ Len(left) = keep
          /\ Sorts(content, left, inThinking, visible \o VisiblePart(inThinking, part),
                   thinking \o ThinkingPart(inThinking, part))
      BY <1>0, <2>3, <3>2, RestDrained
    <3> HIDE DEF part, left
    <3>4. /\ visible' = visible \o VisiblePart(inThinking, part) /\ visible' \in Text
          /\ thinking' = thinking \o ThinkingPart(inThinking, part) /\ thinking' \in Shown
          /\ FieldsIn(thinking') = FieldsIn(thinking)
      BY <1>0, <2>1, <3>3, Released
    <3>5. TypeOK'
      BY <2>1, <2>6, <3>3, <3>4 DEF TypeOK, Text, Shown
    <3>6. FilterIsAhead'
      BY <2>1, <3>3, <3>4 DEF FilterIsAhead
    <3>7. BufferIsPartOfTag'
      BY <2>1, <3>2, <3>3 DEF BufferIsPartOfTag, Prompt
    <3>8. ResponseIsShown' /\ ResponseIsStored' /\ FieldsAreShown'
      BY <2>1, <2>6, <3>4 DEF ResponseIsShown, ResponseIsStored, FieldsAreShown
    <3> QED
      BY <3>5, <3>6, <3>7, <3>8
  <2> QED
    BY <2>5, <2>6
<1>8. CASE Assemble
  <2> USE <1>8 DEF Assemble, filterVars, shownVars
  <2>1. stored' \in Seq(Characters)
    <3>1. 1 \in 1 .. Len(content) + 1
      BY <1>0 DEF Text
    <3>2. Kept(content)[1] \in Text
      BY <1>0, <3>1, Recursion
    <3> QED
      BY <3>2, Functions DEF Text
  <2>2. TypeOK'
    BY <2>1 DEF TypeOK
  <2>3. FilterIsAhead' /\ BufferIsPartOfTag' /\ ResponseIsShown' /\ ResponseIsStored' /\ FieldsAreShown'
    BY DEF FilterIsAhead, BufferIsPartOfTag, ResponseIsShown, ResponseIsStored, FieldsAreShown
  <2> QED
    BY <2>2, <2>3
<1>9. CASE Retry
  <2> USE <1>9 DEF Retry
  <2>1. <<>> \in Seq(Characters) /\ <<>> \in Seq(Characters \cup {Field})
    OBVIOUS
  <2>2. attempt' \in 0 .. Retries /\ fields' \in 0 .. MaxFields
    BY StreamAssumption DEF TypeOK
  <2>3. TypeOK'
    BY <2>1, <2>2 DEF TypeOK
  <2>4. FilterIsAhead' /\ BufferIsPartOfTag'
    BY NothingFed DEF FilterIsAhead, BufferIsPartOfTag
  <2>5. ResponseIsShown' /\ ResponseIsStored' /\ FieldsAreShown'
    BY NoFieldsYet DEF ResponseIsShown, ResponseIsStored, FieldsAreShown
  <2> QED
    BY <2>3, <2>4, <2>5
<1>10. CASE Fail
  <2> USE <1>10 DEF Fail, filterVars, shownVars
  <2>1. TypeOK'
    BY DEF TypeOK
  <2>2. FilterIsAhead' /\ BufferIsPartOfTag' /\ ResponseIsShown' /\ ResponseIsStored' /\ FieldsAreShown'
    BY DEF FilterIsAhead, BufferIsPartOfTag, ResponseIsShown, ResponseIsStored, FieldsAreShown
  <2> QED
    BY <2>1, <2>2
<1> QED
  BY <1>1, <1>2, <1>3, <1>4, <1>5, <1>6, <1>7, <1>8, <1>9, <1>10 DEF Next

\* The state of a model call satisfies the invariant, whatever the tags, the text
\* and the places its fragments end at.
THEOREM Invariance == Spec => []Inv
BY InitInv, NextInv, PTL DEF Spec

\* Nothing but text is shown as the answer, buffered or stored.
THEOREM TypeCorrect == Spec => []TypeOK
<1>1. Inv => TypeOK
  BY DEF Inv
<1> QED
  BY Invariance, <1>1, PTL

\* Between two fragments the filter withholds no more than the beginning of the tag
\* it waits for, and has otherwise shown what strip_thinking keeps of the text so far.
THEOREM PromptRelease == Spec => []ReleasesPromptly
<1>1. Inv => ReleasesPromptly
  <2> SUFFICES ASSUME Inv, phase = "stream"
               PROVE  /\ Len(buffer) < Len(Marker)
                      /\ buffer = SubSeq(Marker, 1, Len(buffer))
                      /\ visible \o (IF inThinking THEN <<>> ELSE buffer) = StripThinking(content)
    BY DEF ReleasesPromptly
  <2>1. /\ content \in Text /\ buffer \in Text /\ visible \in Text
        /\ thinking \in Shown /\ inThinking \in BOOLEAN
    BY DEF Inv, TypeOK, Text, Shown
  <2>2. /\ Sorts(content, buffer, inThinking, visible, thinking)
        /\ Len(buffer) < Len(Tag(inThinking))
        /\ buffer = SubSeq(Tag(inThinking), 1, Len(buffer))
    BY DEF Inv, FilterIsAhead, BufferIsPartOfTag, Prompt
  <2>3. Marker = Tag(inThinking)
    BY DEF Marker, Tag
  <2>4. Find(Tag(inThinking), buffer, 1) = 0
    <3>1. Len(buffer) \in Nat /\ Len(Tag(inThinking)) \in Nat
      BY <2>1, TagIsText DEF Text
    <3>2. Hits(Tag(inThinking), buffer, 1) = {}
      BY <2>2, <3>1 DEF Hits
    <3> QED
      BY <3>2 DEF Find, Hits
  <2>5. StripThinking(content) = visible \o VisiblePart(inThinking, buffer)
    BY <2>1, <2>2, <2>4, AllDrained
  <2> QED
    BY <2>2, <2>3, <2>5 DEF VisiblePart
<1> QED
  BY Invariance, <1>1, PTL

\* What the user saw of the answer is what is stored of it.
THEOREM StoredAsShown == Spec => []ShownIsStored
<1>1. Inv => ShownIsStored
  BY DEF Inv, ShownIsStored, ResponseIsShown, ResponseIsStored
<1> QED
  BY Invariance, <1>1, PTL

\* The rest of the text, and every reasoning field, was shown as reasoning.
THEOREM NoReasoningLost == Spec => []ReasoningIsKept
<1>1. Inv => ReasoningIsKept
  BY DEF Inv, ReasoningIsKept, ResponseIsShown, FieldsAreShown, FieldsIn
<1> QED
  BY Invariance, <1>1, PTL

=============================================================================
