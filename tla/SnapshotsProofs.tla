-------------------------- MODULE SnapshotsProofs --------------------------
(***************************************************************************)
(* What holds of Snapshots for any files, contents and bounds and any      *)
(* behaviour: interrupts, crashes half way through a write, and other      *)
(* programs that change the workspace included.                            *)
(***************************************************************************)
EXTENDS Snapshots, SequenceTheorems, TLAPS

IsSequence(s) == s \in Seq(ToSet(s))

Top == Last(replaced)
InTurn == pc \in {"turn", "approval", "write"}

Shape ==
    /\ IsSequence(replaced)
    /\ current \in [index : Int, entries : Seq(Entries)]
    /\ pc \in {"approval", "write"} =>
          call \in [path : Files, old : States, new : Contents \cup {Big}]

\* A group as capture builds it: a file once, and absent exactly if it did not exist.
WellFormed(s) ==
    /\ \A i, j \in DOMAIN s : s[i].path = s[j].path => i = j
    /\ \A i \in DOMAIN s : s[i].existed = (s[i].content # Absent)

Groups == \A i \in DOMAIN groups : groups[i] # Torn => WellFormed(groups[i])

\* An entry for each file the agent replaced in a turn, with what it replaced.
Covers(s, turn) ==
    \A f \in DOMAIN turn : \E e \in ToSet(s) : e.path = f /\ e.content = Text(turn[f])

\* The group of the turn in progress is the newest one, exactly if the turn has
\* captured a file; what it holds is the file as it is until the agent writes it
\* or somebody else does.
Turn ==
    /\ Len(replaced) <= turns
    /\ InTurn =>
          /\ WellFormed(current.entries)
          /\ captured => /\ current.index = Len(replaced) /\ Len(replaced) > 0
                         /\ groups[Len(replaced)] = current.entries
                         /\ Covers(current.entries, Top)
          /\ ~captured => /\ current.index = 0 /\ current.entries = <<>>
                          /\ Len(replaced) < turns
          /\ \A e \in ToSet(current.entries) :
                \/ e.path \in DOMAIN Top \cup meddled
                \/ e.content = Text(files[e.path])
    /\ pc = "write" => call.path \in Paths(current.entries)

\* /undo has restored every file of the newest turn or still has it to do.
Undo ==
    pc = "undo" =>
        /\ Len(replaced) > 0 /\ groups[Len(replaced)] # Torn
        /\ ToSet(todo) \subseteq ToSet(groups[Len(replaced)])
        /\ \A f \in DOMAIN Top \ (skipped \cup meddled) :
              f \in Paths(todo) \/ Text(files[f]) = Text(Top[f])

Inv == TypeOK /\ Shape /\ Groups /\ Turn /\ Undo /\ UndoableTurns

-----------------------------------------------------------------------------
(* Sequences. *)

LEMMA OfItsElements ==
    ASSUME NEW S, NEW s \in Seq(S)
    PROVE  /\ IsSequence(s) /\ ToSet(s) \subseteq S
           /\ Len(s) \in Nat /\ DOMAIN s = 1 .. Len(s)
           /\ ToSet(s) = {s[i] : i \in 1 .. Len(s)}
<1>1. s \in [1 .. Len(s) -> S] /\ Len(s) \in Nat /\ DOMAIN s = 1 .. Len(s)
  BY LenProperties
<1>2. s \in [1 .. Len(s) -> ToSet(s)]
  BY <1>1 DEF ToSet
<1>3. ToSet(s) \subseteq S /\ ToSet(s) = {s[i] : i \in 1 .. Len(s)}
  BY <1>1 DEF ToSet
<1> QED
  BY <1>1, <1>2, <1>3, SeqDef DEF IsSequence

LEMMA Appended ==
    ASSUME NEW S, NEW s \in Seq(S), NEW m \in S
    PROVE  /\ Append(s, m) \in Seq(S)
           /\ DOMAIN s = 1 .. Len(s) /\ Len(s) \in Nat
           /\ Len(Append(s, m)) = Len(s) + 1
           /\ DOMAIN Append(s, m) = 1 .. Len(s) + 1
           /\ \A i \in 1 .. Len(s) : Append(s, m)[i] = s[i]
           /\ Append(s, m)[Len(s) + 1] = m
           /\ ToSet(Append(s, m)) = ToSet(s) \cup {m}
           /\ Last(Append(s, m)) = m /\ Front(Append(s, m)) = s
<1>1. /\ Append(s, m) \in Seq(S)
      /\ DOMAIN s = 1 .. Len(s) /\ Len(s) \in Nat
      /\ Len(Append(s, m)) = Len(s) + 1
      /\ DOMAIN Append(s, m) = 1 .. Len(s) + 1
      /\ \A i \in 1 .. Len(s) : Append(s, m)[i] = s[i]
      /\ Append(s, m)[Len(s) + 1] = m
      /\ Last(Append(s, m)) = m /\ Front(Append(s, m)) = s
  BY DEF Last, Front
<1>2. ToSet(Append(s, m)) = ToSet(s) \cup {m}
  BY <1>1 DEF ToSet
<1> QED
  BY <1>1, <1>2

\* The same of a sequence whose elements need no type.
LEMMA Extended ==
    ASSUME NEW s, IsSequence(s), NEW m
    PROVE  /\ IsSequence(Append(s, m))
           /\ DOMAIN s = 1 .. Len(s) /\ Len(s) \in Nat
           /\ Len(Append(s, m)) = Len(s) + 1
           /\ DOMAIN Append(s, m) = 1 .. Len(s) + 1
           /\ \A i \in 1 .. Len(s) : Append(s, m)[i] = s[i]
           /\ Append(s, m)[Len(s) + 1] = m
           /\ Last(Append(s, m)) = m
<1> DEFINE S == ToSet(s) \cup {m}
<1>1. s \in Seq(S) /\ m \in S
  <2>1. s \in Seq(ToSet(s)) /\ ToSet(s) \subseteq S
    BY DEF IsSequence
  <2> QED
    BY <2>1, SeqMonotonic
<1> HIDE DEF S
<1>2. /\ Append(s, m) \in Seq(S)
      /\ DOMAIN s = 1 .. Len(s) /\ Len(s) \in Nat
      /\ Len(Append(s, m)) = Len(s) + 1
      /\ DOMAIN Append(s, m) = 1 .. Len(s) + 1
      /\ \A i \in 1 .. Len(s) : Append(s, m)[i] = s[i]
      /\ Append(s, m)[Len(s) + 1] = m
      /\ Last(Append(s, m)) = m
  BY <1>1, Appended
<1> QED
  BY <1>2, OfItsElements

LEMMA Shortened ==
    ASSUME NEW s, IsSequence(s), s # <<>>
    PROVE  /\ IsSequence(Front(s))
           /\ DOMAIN s = 1 .. Len(s) /\ Len(s) \in Nat \ {0}
           /\ Len(Front(s)) = Len(s) - 1 /\ DOMAIN Front(s) = 1 .. Len(s) - 1
           /\ \A i \in 1 .. Len(s) - 1 : Front(s)[i] = s[i]
           /\ Last(s) = s[Len(s)]
<1> DEFINE S == ToSet(s)
<1>1. s \in Seq(S)
  BY DEF IsSequence
<1> HIDE DEF S
<1>2. PICK t \in Seq(S), e \in S : s = Append(t, e)
  BY <1>1, SequenceEmptyOrAppend
<1>3. /\ Front(s) = t /\ Last(s) = e /\ Len(t) \in Nat /\ DOMAIN t = 1 .. Len(t)
      /\ Len(s) = Len(t) + 1 /\ DOMAIN s = 1 .. Len(t) + 1
      /\ \A i \in 1 .. Len(t) : s[i] = t[i]
      /\ s[Len(t) + 1] = e
  BY <1>2, Appended
<1>4. Len(s) - 1 = Len(t) /\ Len(s) \in Nat \ {0}
  BY <1>3
<1> QED
  BY <1>2, <1>3, <1>4, OfItsElements

LEMMA WellFormedAppended ==
    ASSUME NEW S, NEW s \in Seq(S), NEW m \in S, WellFormed(s),
           m.existed = (m.content # Absent), \A i \in DOMAIN s : s[i].path # m.path
    PROVE  WellFormed(Append(s, m))
<1> DEFINE t == Append(s, m)
           k == Len(s)
<1>1. /\ DOMAIN s = 1 .. k /\ k \in Nat /\ DOMAIN t = 1 .. k + 1
      /\ t[k + 1] = m /\ \A i \in 1 .. k : t[i] = s[i]
  BY Appended
<1> HIDE DEF t, k
<1>2. \A i \in 1 .. k + 1 : i = k + 1 \/ i \in 1 .. k
  BY <1>1
<1>3. \A i \in 1 .. k + 1 : t[i].existed = (t[i].content # Absent)
  BY <1>1, <1>2 DEF WellFormed
<1>4. ASSUME NEW i \in 1 .. k + 1, NEW j \in 1 .. k + 1, t[i].path = t[j].path
      PROVE  i = j
  <2>1. CASE i \in 1 .. k /\ j \in 1 .. k
    BY <1>1, <1>4, <2>1 DEF WellFormed
  <2>2. CASE i = k + 1 \/ j = k + 1
    BY <1>1, <1>2, <1>4, <2>2
  <2> QED
    BY <1>2, <2>1, <2>2
<1>5. WellFormed(t)
  BY <1>1, <1>3, <1>4 DEF WellFormed
<1> QED
  BY <1>5 DEF t

LEMMA Reversed ==
    ASSUME NEW S, NEW s \in Seq(S)
    PROVE  Reverse(s) \in Seq(S) /\ ToSet(Reverse(s)) = ToSet(s)
<1> DEFINE n == Len(s)
           r == Reverse(s)
<1>1. n \in Nat /\ DOMAIN s = 1 .. n /\ \A i \in 1 .. n : s[i] \in S
  OBVIOUS
<1>2. /\ r = [i \in 1 .. n |-> s[(n - i) + 1]]
      /\ \A i \in 1 .. n : (n - i) + 1 \in 1 .. n /\ (n - ((n - i) + 1)) + 1 = i
  BY <1>1 DEF Reverse
<1> HIDE DEF n, r
<1>3. r \in [1 .. n -> S] /\ DOMAIN r = 1 .. n /\ \A i \in 1 .. n : r[i] = s[(n - i) + 1]
  BY <1>1, <1>2
<1>4. r \in Seq(S)
  BY <1>1, <1>3, SeqDef
<1>5. \A i \in 1 .. n : s[i] = r[(n - i) + 1]
  BY <1>2, <1>3
<1>6. ToSet(s) = {s[i] : i \in 1 .. n} /\ ToSet(r) = {r[i] : i \in 1 .. n}
  BY <1>1, <1>3 DEF ToSet
<1>7. /\ \A i \in 1 .. n : \E j \in 1 .. n : r[i] = s[j]
      /\ \A i \in 1 .. n : \E j \in 1 .. n : s[i] = r[j]
  BY <1>2, <1>3, <1>5
<1>8. ToSet(s) = ToSet(r)
  BY <1>6, <1>7
<1> QED
  BY <1>4, <1>8 DEF r

LEMMA HeadAndTail ==
    ASSUME NEW S, NEW s \in Seq(S), s # <<>>
    PROVE  /\ Head(s) \in S /\ Tail(s) \in Seq(S)
           /\ ToSet(s) = ToSet(Tail(s)) \cup {Head(s)}
<1> DEFINE n == Len(s)
           t == Tail(s)
<1>1. /\ n \in Nat \ {0} /\ DOMAIN s = 1 .. n /\ Head(s) = s[1] /\ 1 \in 1 .. n
      /\ t \in Seq(S) /\ DOMAIN t = 1 .. n - 1
      /\ \A i \in 1 .. n - 1 : t[i] = s[i + 1] /\ i + 1 \in 1 .. n
      /\ Head(s) \in S
  OBVIOUS
<1> HIDE DEF n, t
<1>2. \A i \in 2 .. n : s[i] = t[i - 1] /\ i - 1 \in 1 .. n - 1
  <2> TAKE i \in 2 .. n
  <2>1. i - 1 \in 1 .. n - 1 /\ (i - 1) + 1 = i
    BY <1>1
  <2> QED
    BY <1>1, <2>1
<1>3. \A i \in 1 .. n : i = 1 \/ i \in 2 .. n
  BY <1>1
<1>4. ASSUME NEW e \in ToSet(s) PROVE e \in ToSet(t) \cup {Head(s)}
  <2>1. PICK i \in 1 .. n : e = s[i]
    BY <1>1 DEF ToSet
  <2>2. CASE i = 1
    BY <1>1, <2>1, <2>2
  <2>3. CASE i \in 2 .. n
    BY <1>1, <1>2, <2>1, <2>3 DEF ToSet
  <2> QED
    BY <1>3, <2>2, <2>3
<1>5. ToSet(t) \cup {Head(s)} \subseteq ToSet(s)
  BY <1>1 DEF ToSet
<1> QED
  BY <1>1, <1>4, <1>5 DEF t

-----------------------------------------------------------------------------
(* The store. *)

LEMMA TextIsIdempotent ==
    /\ \A s : Text(Text(s)) = Text(s)
    /\ \A s \in States : Text(s) \in States
BY SnapshotAssumption DEF Text, States

LEMMA NewestIsLast ==
    ASSUME DOMAIN groups = 1 .. Len(replaced), Len(replaced) \in Nat
    PROVE  /\ NextIndex = Len(replaced) + 1
           /\ DOMAIN groups # {} => Newest = Len(replaced) /\ Len(replaced) > 0
<1> DEFINE n == Len(replaced)
<1>1. CASE n = 0
  BY <1>1 DEF NextIndex
<1>2. CASE n > 0
  <2>1. n \in 1 .. n /\ \A y \in 1 .. n : n >= y
    BY <1>2
  <2>2. Max(1 .. n) = n
    <3> HIDE DEF n
    <3>1. Max(1 .. n) \in 1 .. n /\ \A y \in 1 .. n : Max(1 .. n) >= y
      BY <2>1 DEF Max
    <3> QED
      BY <2>1, <3>1
  <2> QED
    BY <1>2, <2>1, <2>2 DEF NextIndex, Newest
<1> QED
  BY <1>1, <1>2

\* What capture leaves in _current and in the group files, complete or cut short.
LEMMA CaptureKeeps ==
    ASSUME TypeOK, Shape, Turn, pc = "approval", NEW f, f = call.path,
           NEW cur, cur = Captured(f), NEW body, groups' = Flushed(cur, body), NoteCapture
    PROVE  /\ cur \in [index : Int, entries : Seq(Entries)]
           /\ IsSequence(replaced') /\ captured'
           /\ Len(replaced') \in Nat /\ Len(replaced') > 0
           /\ Len(replaced') <= turns /\ cur.index = Len(replaced')
           /\ DOMAIN groups' = 1 .. Len(replaced') /\ groups'[Len(replaced')] = body
           /\ \A i \in 1 .. Len(replaced') - 1 : groups'[i] = groups[i] /\ i \in DOMAIN groups
           /\ captured => replaced' = replaced
           /\ ~captured => replaced' = Append(replaced, <<>>)
           /\ WellFormed(cur.entries) /\ f \in Paths(cur.entries) /\ f \in Files
           /\ \/ cur = current
              \/ /\ f \notin Paths(current.entries)
                 /\ ToSet(cur.entries) = ToSet(current.entries) \cup {EntryFor(f)}
<1> DEFINE n == Len(replaced)
<1>1. /\ IsSequence(replaced) /\ n \in Nat /\ DOMAIN replaced = 1 .. n
      /\ DOMAIN groups = 1 .. n /\ f \in Files /\ files[f] \in States
      /\ current \in [index : Int, entries : Seq(Entries)]
      /\ captured \in BOOLEAN /\ turns \in Nat /\ n <= turns
      /\ WellFormed(current.entries)
  <2>1. turns \in Nat
    BY SnapshotAssumption DEF TypeOK
  <2> QED
    BY <2>1, Extended DEF TypeOK, Shape, Turn, InTurn
<1>2. /\ captured => current.index = n /\ n > 0
      /\ ~captured => current.index = 0 /\ current.entries = <<>> /\ n < turns
  BY DEF Turn, InTurn
<1>3. NextIndex = n + 1
  BY <1>1, NewestIsLast
<1>4. current # Nobody
  BY <1>1, <1>2 DEF Nobody
<1>5. /\ captured => replaced' = replaced
      /\ ~captured => replaced' = Append(replaced, <<>>)
      /\ captured'
  BY DEF NoteCapture
<1>6. /\ IsSequence(replaced')
      /\ Len(replaced') = IF captured THEN n ELSE n + 1
  <2>1. CASE captured
    BY <1>1, <1>5, <2>1
  <2>2. CASE ~captured
    <3>1. IsSequence(Append(replaced, <<>>)) /\ Len(Append(replaced, <<>>)) = n + 1
      BY <1>1, Extended
    <3> QED
      BY <1>5, <2>2, <3>1
  <2> QED
    BY <2>1, <2>2
<1>7. CASE f \in Paths(current.entries)
  <2>1. cur = current
    BY <1>4, <1>7 DEF Captured
  <2>2. captured
    <3> SUFFICES ASSUME ~captured PROVE FALSE
      OBVIOUS
    <3>1. DOMAIN <<>> = {}
      OBVIOUS
    <3>2. ToSet(current.entries) = {}
      BY <1>2, <3>1 DEF ToSet
    <3> QED
      BY <1>7, <3>2 DEF Paths
  <2>3. groups' = [i \in DOMAIN groups \cup {n} |-> IF i = n THEN body ELSE groups[i]]
    BY <1>2, <2>1, <2>2 DEF Flushed
  <2>4. DOMAIN groups' = 1 .. n /\ groups'[n] = body
        /\ \A i \in 1 .. n - 1 : groups'[i] = groups[i] /\ i \in DOMAIN groups
    <3>1. DOMAIN groups \cup {n} = 1 .. n /\ n \in 1 .. n
      BY <1>1, <1>2, <2>2
    <3>2. \A i \in 1 .. n - 1 : i \in 1 .. n /\ i # n
      <4>1. n \in Nat
        BY <1>1
      <4> HIDE DEF n
      <4> QED
        BY <4>1
    <3> HIDE DEF n
    <3> QED
      BY <1>1, <2>3, <3>1, <3>2
  <2> QED
    BY <1>1, <1>2, <1>5, <1>6, <1>7, <2>1, <2>2, <2>4
<1>8. CASE f \notin Paths(current.entries)
  <2> DEFINE e == EntryFor(f)
             m == Len(replaced')
  <2>1. /\ cur = [index |-> IF current.index = 0 THEN NextIndex ELSE current.index,
                 entries |-> Append(current.entries, e)]
    BY <1>4, <1>8 DEF Captured
  <2>2. /\ e \in Entries /\ e.path = f /\ e.existed = (e.content # Absent)
    BY <1>1, TextIsIdempotent DEF EntryFor, Entries, SeenByCapture
  <2> HIDE DEF e
  <2>3. cur.index = m /\ m \in Nat /\ m > 0 /\ m <= turns
    BY <1>1, <1>2, <1>3, <1>6, <2>1
  <2>4. /\ cur.entries = Append(current.entries, e) /\ cur.entries \in Seq(Entries)
        /\ current.entries \in Seq(Entries)
    BY <1>1, <2>1, <2>2
  <2>5. /\ DOMAIN current.entries = 1 .. Len(current.entries) /\ Len(current.entries) \in Nat
        /\ DOMAIN cur.entries = 1 .. Len(current.entries) + 1
        /\ \A i \in 1 .. Len(current.entries) : cur.entries[i] = current.entries[i]
        /\ cur.entries[Len(current.entries) + 1] = e
        /\ ToSet(cur.entries) = ToSet(current.entries) \cup {e}
    BY <2>2, <2>4, Appended
  <2>6. \A i \in DOMAIN current.entries : current.entries[i].path # f
    BY <1>8 DEF Paths, ToSet
  <2>7. WellFormed(cur.entries)
    <3> DEFINE old == current.entries
    <3>1. old \in Seq(Entries) /\ WellFormed(old) /\ \A i \in DOMAIN old : old[i].path # e.path
      BY <1>1, <2>2, <2>4, <2>6
    <3> HIDE DEF old
    <3>2. WellFormed(Append(old, e))
      BY <2>2, <3>1, WellFormedAppended
    <3> QED
      BY <2>4, <3>2 DEF old
  <2>8. groups' = [i \in DOMAIN groups \cup {m} |-> IF i = m THEN body ELSE groups[i]]
    BY <2>3 DEF Flushed
  <2>9. DOMAIN groups \cup {m} = 1 .. m /\ m \in 1 .. m
    <3>1. CASE captured
      BY <1>1, <1>2, <1>6, <3>1
    <3>2. CASE ~captured
      <4>1. m = n + 1
        BY <1>6, <3>2
      <4> HIDE DEF m, n
      <4>2. (1 .. n) \cup {n + 1} = 1 .. n + 1
        BY <1>1
      <4> QED
        BY <1>1, <2>3, <4>1, <4>2
    <3> QED
      BY <3>1, <3>2
  <2>10. \A i \in 1 .. m - 1 : i \in 1 .. m /\ i # m /\ i \in DOMAIN groups
    <3> HIDE DEF m
    <3>1. \A i \in 1 .. m - 1 : i \in 1 .. m /\ i # m
      BY <2>3
    <3> QED
      BY <2>9, <3>1
  <2>11. DOMAIN groups' = 1 .. m /\ groups'[m] = body /\ \A i \in 1 .. m - 1 : groups'[i] = groups[i]
    <3> HIDE DEF m
    <3> QED
      BY <2>8, <2>9, <2>10
  <2>12. f \in Paths(cur.entries)
    BY <2>2, <2>5 DEF Paths
  <2>13. cur \in [index : Int, entries : Seq(Entries)]
    BY <2>1, <2>3, <2>4
  <2> QED
    BY <1>1, <1>5, <1>6, <1>8, <2>3, <2>5, <2>7, <2>10, <2>11, <2>12, <2>13 DEF e
<1> QED
  BY <1>7, <1>8

\* What a write does to the history of the turn.
LEMMA OverwriteKeeps ==
    ASSUME TypeOK, Shape, Turn, pc = "write", NEW s \in States, Overwrite(s), NEW f, f = call.path
    PROVE  /\ files' = [files EXCEPT ![f] = s] /\ f \in Files
           /\ files' \in [Files -> States]
           /\ IsSequence(replaced') /\ Len(replaced) \in Nat /\ Len(replaced) > 0
           /\ Len(replaced') = Len(replaced) /\ DOMAIN replaced' = 1 .. Len(replaced)
           /\ \A i \in 1 .. Len(replaced) - 1 : replaced'[i] = replaced[i]
           /\ Top = replaced[Len(replaced)] /\ Top' = replaced'[Len(replaced)]
           /\ DOMAIN Top \subseteq DOMAIN Top' /\ f \in DOMAIN Top' \cup meddled
           /\ \A g \in DOMAIN Top' :
                 \/ g \in DOMAIN Top /\ Top'[g] = Top[g]
                 \/ /\ g = f /\ Top'[g] = files[f]
                    /\ f \notin DOMAIN Top /\ f \notin meddled
<1>1. f \in Files /\ files \in [Files -> States] /\ IsSequence(replaced)
  BY DEF TypeOK, Shape
<1>2. captured /\ Len(replaced) > 0
  <2>1. f \in Paths(current.entries)
    BY DEF Turn
  <2>2. captured
    <3> SUFFICES ASSUME ~captured PROVE FALSE
      OBVIOUS
    <3>1. DOMAIN <<>> = {}
      OBVIOUS
    <3>2. current.entries = <<>>
      BY DEF Turn, InTurn
    <3>3. ToSet(current.entries) = {}
      BY <3>1, <3>2 DEF ToSet
    <3> QED
      BY <2>1, <3>3 DEF Paths
  <2> QED
    BY <2>2 DEF Turn, InTurn
<1>3. replaced # <<>>
  BY <1>2
<1>4. /\ IsSequence(Front(replaced))
      /\ DOMAIN replaced = 1 .. Len(replaced) /\ Len(replaced) \in Nat \ {0}
      /\ Len(Front(replaced)) = Len(replaced) - 1
      /\ DOMAIN Front(replaced) = 1 .. Len(replaced) - 1
      /\ \A i \in 1 .. Len(replaced) - 1 : Front(replaced)[i] = replaced[i]
      /\ Last(replaced) = replaced[Len(replaced)]
  BY <1>1, <1>3, Shortened
<1> DEFINE top == [g \in DOMAIN Top \cup {f} |-> IF g = f THEN files[f] ELSE Top[g]]
<1>5. /\ files' = [files EXCEPT ![f] = s]
      /\ replaced' = IF f \in DOMAIN Top \/ f \in meddled THEN replaced
                     ELSE Append(Front(replaced), top)
  BY DEF Overwrite, Top
<1>6. CASE f \in DOMAIN Top \/ f \in meddled
  <2>1. replaced' = replaced
    BY <1>5, <1>6
  <2> QED
    BY <1>1, <1>2, <1>4, <1>5, <1>6, <2>1 DEF Top
<1>7. CASE f \notin DOMAIN Top /\ f \notin meddled
  <2>1. replaced' = Append(Front(replaced), top)
    BY <1>5, <1>7
  <2>2. (Len(replaced) - 1) + 1 = Len(replaced)
    BY <1>4
  <2> DEFINE init == Front(replaced)
  <2>3. /\ IsSequence(replaced') /\ Len(replaced') = Len(replaced)
        /\ DOMAIN replaced' = 1 .. Len(replaced)
        /\ \A i \in 1 .. Len(replaced) - 1 : replaced'[i] = replaced[i]
        /\ replaced'[Len(replaced)] = top /\ Last(replaced') = top
    <3>1. /\ IsSequence(init) /\ Len(init) = Len(replaced) - 1
          /\ \A i \in 1 .. Len(init) : init[i] = replaced[i]
      BY <1>4
    <3> HIDE DEF init, top
    <3>2. /\ IsSequence(Append(init, top))
          /\ Len(Append(init, top)) = Len(init) + 1
          /\ DOMAIN Append(init, top) = 1 .. Len(init) + 1
          /\ \A i \in 1 .. Len(init) : Append(init, top)[i] = init[i]
          /\ Append(init, top)[Len(init) + 1] = top
          /\ Last(Append(init, top)) = top
      BY <3>1, Extended
    <3>3. replaced' = Append(init, top)
      BY <2>1 DEF init
    <3> QED
      BY <2>2, <3>1, <3>2, <3>3
  <2>4. Top' = top
    BY <2>3 DEF Top
  <2>5. /\ DOMAIN top = DOMAIN Top \cup {f} /\ top[f] = files[f]
        /\ \A g \in DOMAIN Top : g # f => top[g] = Top[g]
    OBVIOUS
  <2> HIDE DEF top
  <2>6. \A g \in DOMAIN Top' :
           \/ g \in DOMAIN Top /\ Top'[g] = Top[g]
           \/ g = f /\ Top'[g] = files[f] /\ f \notin DOMAIN Top /\ f \notin meddled
    BY <1>7, <2>4, <2>5
  <2>7. files' \in [Files -> States]
    BY <1>1, <1>5
  <2>8. Top = replaced[Len(replaced)] /\ Top' = replaced'[Len(replaced)]
    BY <1>4, <2>3, <2>4 DEF Top
  <2>9. DOMAIN Top \subseteq DOMAIN Top' /\ f \in DOMAIN Top' \cup meddled
    BY <2>4, <2>5
  <2>10. files' = [files EXCEPT ![f] = s] /\ f \in Files
    BY <1>1, <1>5
  <2>11. Len(replaced) \in Nat /\ Len(replaced) > 0
    BY <1>4
  <2> QED
    BY <2>3, <2>6, <2>7, <2>8, <2>9, <2>10, <2>11
<1> QED
  BY <1>6, <1>7

-----------------------------------------------------------------------------
(* Types. *)

LEMMA InitialState == Init => Inv
<1> SUFFICES ASSUME Init PROVE Inv
  OBVIOUS
<1>1. /\ files \in [Files -> Contents \cup {Absent}]
      /\ groups = <<>> /\ current = Nobody /\ pc = "idle" /\ call = NoCall
      /\ todo = <<>> /\ skipped = {} /\ turns = 0 /\ changes = 0 /\ others = 0
      /\ captured = FALSE /\ replaced = <<>> /\ meddled = {}
  BY DEF Init
<1>2. /\ DOMAIN <<>> = {} /\ Len(<<>>) = 0 /\ 1 .. 0 = {} /\ \A S : <<>> \in Seq(S)
  OBVIOUS
<1>3. files \in [Files -> States]
  BY <1>1 DEF States
<1>4. current \in [index : Int, entries : Seq(Entries)] /\ current.index = -1
      /\ current.entries = <<>>
  BY <1>1, <1>2 DEF Nobody
<1>5. DOMAIN groups = 1 .. Len(replaced) /\ DOMAIN groups = {} /\ DOMAIN replaced = {}
  BY <1>1, <1>2
<1>6. -1 \in -1 .. MaxTurns /\ 0 \in 0 .. MaxTurns /\ 0 \in 0 .. MaxChanges /\ 0 \in 0 .. MaxOthers
  BY SnapshotAssumption
<1>7. TypeOK
  BY <1>1, <1>2, <1>3, <1>4, <1>5, <1>6 DEF TypeOK
<1>8. Shape /\ Groups /\ Turn /\ Undo /\ UndoableTurns
  BY <1>1, <1>2, <1>4, <1>5
  DEF Shape, Groups, Turn, InTurn, Undo, UndoableTurns, IsSequence
<1> QED
  BY <1>7, <1>8 DEF Inv

\* What the types say of the store, and of the rest.
StoreTypes ==
    /\ files \in [Files -> States]
    /\ DOMAIN groups = 1 .. Len(replaced)
    /\ \A i \in DOMAIN groups : groups[i] \in Seq(Entries) \cup {Torn}
    /\ IsSequence(replaced) /\ captured \in BOOLEAN
    /\ current \in [index : Int, entries : Seq(Entries)] /\ current.index \in -1 .. MaxTurns

OtherTypes ==
    /\ pc \in {"idle", "turn", "approval", "write", "undo", "down"}
    /\ todo \in Seq(Entries) /\ skipped \subseteq Files /\ meddled \subseteq Files
    /\ turns \in 0 .. MaxTurns /\ changes \in 0 .. MaxChanges /\ others \in 0 .. MaxOthers
    /\ pc \in {"approval", "write"} =>
          call \in [path : Files, old : States, new : Contents \cup {Big}]

LEMMA TypesAreParts == TypeOK /\ Shape <=> StoreTypes /\ OtherTypes
BY DEF TypeOK, Shape, StoreTypes, OtherTypes

LEMMA CaptureTypes ==
    ASSUME TypeOK, Shape, Turn, pc = "approval", NEW cur, cur = Captured(call.path),
           NEW body \in Seq(Entries) \cup {Torn}, groups' = Flushed(cur, body), NoteCapture,
           UNCHANGED files, current' \in {cur, Nobody}
    PROVE  StoreTypes'
<1>1. /\ cur \in [index : Int, entries : Seq(Entries)]
      /\ IsSequence(replaced') /\ captured'
      /\ Len(replaced') \in Nat /\ Len(replaced') > 0
      /\ Len(replaced') <= turns /\ cur.index = Len(replaced')
      /\ DOMAIN groups' = 1 .. Len(replaced') /\ groups'[Len(replaced')] = body
      /\ \A i \in 1 .. Len(replaced') - 1 : groups'[i] = groups[i] /\ i \in DOMAIN groups
  BY CaptureKeeps
<1>2. \A i \in DOMAIN groups' : groups'[i] \in Seq(Entries) \cup {Torn}
  <2>1. \A i \in 1 .. Len(replaced') : i = Len(replaced') \/ i \in 1 .. Len(replaced') - 1
    BY <1>1
  <2> QED
    BY <1>1, <2>1 DEF TypeOK
<1>3. cur.index \in -1 .. MaxTurns /\ Nobody.index \in -1 .. MaxTurns
      /\ Nobody \in [index : Int, entries : Seq(Entries)]
  BY <1>1, SnapshotAssumption DEF TypeOK, Nobody
<1>4. captured' \in BOOLEAN
  BY DEF NoteCapture
<1> QED
  BY <1>1, <1>2, <1>3, <1>4 DEF TypeOK, StoreTypes

LEMMA OverwriteTypes ==
    ASSUME TypeOK, Shape, Turn, pc = "write", NEW s \in States, Overwrite(s),
           UNCHANGED <<groups, captured>>, current' \in {current, Nobody}
    PROVE  StoreTypes'
<1>1. /\ files' \in [Files -> States]
      /\ IsSequence(replaced') /\ Len(replaced') = Len(replaced)
  BY OverwriteKeeps
<1>2. Nobody \in [index : Int, entries : Seq(Entries)] /\ Nobody.index \in -1 .. MaxTurns
  BY SnapshotAssumption DEF Nobody
<1> QED
  BY <1>1, <1>2 DEF StoreTypes, TypeOK, Shape

LEMMA HalfDoneTypes ==
    ASSUME TypeOK, Shape, Turn, NEW cur, HalfDone(cur), current' \in {cur, Nobody}
    PROVE  StoreTypes'
<1>1. CASE cur = current /\ UNCHANGED <<files, groups, captured, replaced>>
  <2>1. Nobody \in [index : Int, entries : Seq(Entries)] /\ Nobody.index \in -1 .. MaxTurns
    BY SnapshotAssumption DEF Nobody
  <2> QED
    BY <1>1, <2>1 DEF StoreTypes, TypeOK, Shape
<1>2. CASE /\ pc = "approval" /\ cur = Captured(call.path)
           /\ groups' = Flushed(cur, Torn) /\ NoteCapture /\ UNCHANGED files
  BY <1>2, CaptureTypes
<1>3. CASE /\ pc = "write" /\ cur = current /\ UNCHANGED <<groups, captured>>
           /\ \E s \in Contents : Overwrite(s)
  <2>1. PICK s \in Contents : Overwrite(s)
    BY <1>3
  <2>2. s \in States
    BY DEF States
  <2> QED
    BY <1>3, <2>1, <2>2, OverwriteTypes
<1> QED
  BY <1>1, <1>2, <1>3 DEF HalfDone

LEMMA TypesStep ==
    ASSUME TypeOK, Shape, Turn, Undo, [Next]_vars
    PROVE  TypeOK' /\ Shape'
<1>0. StoreTypes /\ OtherTypes
  BY TypesAreParts
<1> SUFFICES StoreTypes' /\ OtherTypes'
  BY DEF TypeOK, Shape, StoreTypes, OtherTypes
<1>1. ASSUME UNCHANGED <<files, groups, current, captured, replaced>> PROVE StoreTypes'
  BY <1>0, <1>1 DEF StoreTypes
<1>2. ASSUME UNCHANGED <<todo, skipped, turns, changes, others, meddled>>,
             pc' \in {"idle", "turn", "undo", "down"}
      PROVE  OtherTypes'
  BY <1>0, <1>2 DEF OtherTypes
<1>3. CASE StartTurn
  <2>1. StoreTypes'
    <3>1. /\ current' = FreshTurn /\ captured' = FALSE /\ UNCHANGED <<files, groups, replaced>>
      BY <1>3 DEF StartTurn, CurrentOfNewTurn
    <3>2. FreshTurn \in [index : Int, entries : Seq(Entries)] /\ FreshTurn.index \in -1 .. MaxTurns
      BY SnapshotAssumption DEF FreshTurn
    <3> QED
      BY <1>0, <3>1, <3>2 DEF StoreTypes
  <2>2. OtherTypes'
    BY <1>0, <1>3, SnapshotAssumption DEF StartTurn, OtherTypes, undoVars
  <2> QED
    BY <2>1, <2>2
<1>4. CASE EndTurn \/ Restart
  <2>1. StoreTypes' /\ OtherTypes'
    BY <1>1, <1>2, <1>4 DEF EndTurn, Restart, storeVars, undoVars, countVars, historyVars
  <2> QED
    BY <2>1
<1>5. ASSUME NEW f \in Files, NEW new \in Contents \cup {Big}, Preview(f, new)
      PROVE  StoreTypes' /\ OtherTypes'
  <2>1. StoreTypes'
    BY <1>1, <1>5 DEF Preview, storeVars, historyVars
  <2>2. Text(files[f]) \in States
    BY <1>0, TextIsIdempotent DEF StoreTypes
  <2>3. call' \in [path : Files, old : States, new : Contents \cup {Big}]
    BY <1>5, <2>2 DEF Preview
  <2>4. OtherTypes'
    BY <1>0, <1>5, <2>3, SnapshotAssumption DEF Preview, OtherTypes, undoVars, historyVars
  <2> QED
    BY <2>1, <2>4
<1>6. CASE Reject
  <2>1. StoreTypes' /\ OtherTypes'
    BY <1>1, <1>2, <1>6 DEF Reject, storeVars, undoVars, countVars, historyVars
  <2> QED
    BY <2>1
<1>7. CASE Capture
  <2>1. StoreTypes'
    <3> DEFINE cur == Captured(call.path)
    <3>1. /\ pc = "approval" /\ current' = cur /\ groups' = Flushed(cur, cur.entries) /\ NoteCapture
          /\ UNCHANGED files
      BY <1>7 DEF Capture
    <3>2. cur.entries \in Seq(Entries)
      <4>1. cur \in [index : Int, entries : Seq(Entries)]
        BY <3>1, CaptureKeeps
      <4> QED
        BY <4>1
    <3> HIDE DEF cur
    <3>3. cur = Captured(call.path)
      BY DEF cur
    <3> QED
      BY <3>1, <3>2, <3>3, CaptureTypes
  <2>2. OtherTypes'
    BY <1>0, <1>7 DEF Capture, OtherTypes, undoVars, countVars
  <2> QED
    BY <2>1, <2>2
<1>8. CASE Write
  <2>1. StoreTypes'
    <3>1. call.new \in States
      BY <1>0, <1>8 DEF Write, OtherTypes, States
    <3> QED
      BY <1>8, <3>1, OverwriteTypes DEF Write, storeVars
  <2>2. OtherTypes'
    BY <1>2, <1>8 DEF Write, undoVars, countVars
  <2> QED
    BY <2>1, <2>2
<1>9. CASE BeginUndo
  <2>1. StoreTypes'
    BY <1>1, <1>9 DEF BeginUndo, storeVars
  <2>2. Reverse(groups[Newest]) \in Seq(Entries)
    <3>1. Newest \in DOMAIN groups
      BY <1>0, <1>9, NewestIsLast, Extended DEF BeginUndo, StoreTypes
    <3>2. groups[Newest] \in Seq(Entries)
      BY <1>0, <1>9, <3>1 DEF BeginUndo, StoreTypes
    <3> QED
      BY <3>2, Reversed
  <2>3. OtherTypes'
    BY <1>0, <1>9, <2>2 DEF BeginUndo, OtherTypes, countVars
  <2> QED
    BY <2>1, <2>3
<1>10. CASE UndoFails
  <2>1. Nobody \in [index : Int, entries : Seq(Entries)] /\ Nobody.index \in -1 .. MaxTurns
    BY SnapshotAssumption DEF Nobody
  <2>2. StoreTypes'
    BY <1>0, <1>10, <2>1 DEF UndoFails, StoreTypes, historyVars
  <2>3. OtherTypes'
    BY <1>2, <1>10 DEF UndoFails, undoVars, countVars, historyVars
  <2> QED
    BY <2>2, <2>3
<1>11. CASE RestoreEntry
  <2>1. /\ Head(todo) \in Entries /\ Tail(todo) \in Seq(Entries)
    BY <1>0, <1>11, HeadAndTail DEF RestoreEntry, OtherTypes
  <2>2. Head(todo).path \in Files /\ Restored(Head(todo)) \in States
    BY <2>1 DEF Entries, Restored, States
  <2>3. files' \in [Files -> States] /\ skipped' \subseteq Files
    BY <1>0, <1>11, <2>2 DEF RestoreEntry, StoreTypes, OtherTypes
  <2>4. StoreTypes'
    BY <1>0, <1>11, <2>3 DEF RestoreEntry, StoreTypes, storeVars, historyVars
  <2>5. OtherTypes'
    BY <1>0, <1>11, <2>1, <2>3 DEF RestoreEntry, OtherTypes, countVars, historyVars
  <2> QED
    BY <2>4, <2>5
<1>12. CASE EndUndo
  <2>1. Len(replaced) > 0 /\ replaced # <<>> /\ Len(replaced) \in Nat
    BY <1>0, <1>12, Extended DEF EndUndo, Undo, StoreTypes
  <2>2. Newest = Len(replaced) /\ DOMAIN groups = 1 .. Len(replaced)
    <3>1. DOMAIN groups = 1 .. Len(replaced)
      BY <1>0 DEF StoreTypes
    <3>2. DOMAIN groups # {}
      BY <2>1, <3>1
    <3> QED
      BY <2>1, <3>1, <3>2, NewestIsLast
  <2>3. IsSequence(replaced') /\ Len(replaced') = Len(replaced) - 1
    BY <1>0, <1>12, <2>1, Shortened DEF EndUndo, StoreTypes
  <2>4. DOMAIN groups' = 1 .. Len(replaced) - 1 /\ \A i \in DOMAIN groups' : groups'[i] = groups[i]
    BY <1>12, <2>1, <2>2 DEF EndUndo
  <2>5. /\ current' \in [index : Int, entries : Seq(Entries)]
        /\ current'.index \in -1 .. MaxTurns
    <3>1. Nobody \in [index : Int, entries : Seq(Entries)] /\ Nobody.index \in -1 .. MaxTurns
      BY SnapshotAssumption DEF Nobody
    <3> QED
      BY <1>0, <1>12, <3>1 DEF EndUndo, StoreTypes
  <2>6. StoreTypes'
    <3>1. \A i \in DOMAIN groups' : groups'[i] \in Seq(Entries) \cup {Torn}
      BY <1>0, <2>1, <2>2, <2>4 DEF StoreTypes
    <3> QED
      BY <1>0, <1>12, <2>3, <2>4, <2>5, <3>1 DEF EndUndo, StoreTypes
  <2>7. OtherTypes'
    BY <1>2, <1>12 DEF EndUndo, undoVars, countVars
  <2> QED
    BY <2>6, <2>7
<1>13. ASSUME NEW f \in Files, NEW s \in States, OtherChange(f, s) PROVE StoreTypes' /\ OtherTypes'
  <2>1. StoreTypes'
    BY <1>0, <1>13 DEF OtherChange, StoreTypes, storeVars
  <2>2. OtherTypes'
    BY <1>0, <1>13, SnapshotAssumption DEF OtherChange, OtherTypes, undoVars
  <2> QED
    BY <2>1, <2>2
<1>14. CASE Interrupt \/ Crash
  <2>1. StoreTypes'
    <3>1. PICK cur : HalfDone(cur) /\ current' \in {cur, Nobody}
      BY <1>14 DEF Interrupt, Crash
    <3> QED
      BY <3>1, HalfDoneTypes
  <2>2. OtherTypes'
    BY <1>2, <1>14 DEF Interrupt, Crash, undoVars, countVars
  <2> QED
    BY <2>1, <2>2
<1>15. CASE UNCHANGED vars
  BY <1>0, <1>15 DEF vars, storeVars, undoVars, countVars, historyVars, StoreTypes, OtherTypes
<1> QED
  BY <1>3, <1>4, <1>5, <1>6, <1>7, <1>8, <1>9, <1>10, <1>11, <1>12, <1>13, <1>14, <1>15 DEF Next

-----------------------------------------------------------------------------
(* The turn in progress. *)

LEMMA TurnAfterCapture ==
    ASSUME TypeOK, Shape, Turn, Capture
    PROVE  Turn'
<1> DEFINE f == call.path
           cur == Captured(f)
           n == Len(replaced')
<1>1. /\ pc = "approval" /\ pc' = "write" /\ current' = cur /\ UNCHANGED <<files, call, turns>>
      /\ groups' = Flushed(cur, cur.entries) /\ NoteCapture
      /\ meddled' = IF cur = current THEN meddled ELSE meddled \ {f}
  BY DEF Capture, countVars
<1>2. /\ IsSequence(replaced') /\ captured'
      /\ n \in Nat /\ n > 0 /\ n <= turns /\ cur.index = n
      /\ groups'[n] = cur.entries
      /\ captured => replaced' = replaced
      /\ ~captured => replaced' = Append(replaced, <<>>)
      /\ WellFormed(cur.entries) /\ f \in Paths(cur.entries) /\ f \in Files
      /\ \/ cur = current
         \/ /\ f \notin Paths(current.entries)
            /\ ToSet(cur.entries) = ToSet(current.entries) \cup {EntryFor(f)}
  <2> HIDE DEF n, cur, f
  <2>1. f = call.path /\ cur = Captured(f)
    BY DEF f, cur
  <2> QED
    BY <1>1, <2>1, CaptureKeeps DEF n
<1> HIDE DEF n, cur
<1>3. /\ captured => Top' = Top /\ Covers(current.entries, Top)
      /\ ~captured => /\ Top' = <<>> /\ DOMAIN Top' = {}
                      /\ ToSet(current.entries) = {}
  <2>1. captured => Top' = Top /\ Covers(current.entries, Top)
    BY <1>1, <1>2 DEF Turn, InTurn, Top
  <2>2. ASSUME ~captured PROVE Top' = <<>> /\ ToSet(current.entries) = {}
    <3>1. Last(Append(replaced, <<>>)) = <<>>
      BY Extended DEF Shape
    <3>2. DOMAIN <<>> = {}
      OBVIOUS
    <3>3. current.entries = <<>>
      BY <1>1, <2>2 DEF Turn, InTurn
    <3> QED
      BY <1>2, <2>2, <3>1, <3>2, <3>3 DEF Top, ToSet
  <2>3. DOMAIN <<>> = {}
    OBVIOUS
  <2> QED
    BY <2>1, <2>2, <2>3
<1>4. ToSet(current.entries) \subseteq ToSet(cur.entries)
  BY <1>2
<1>5. Covers(cur.entries, Top')
  <2>1. CASE captured
    BY <1>3, <1>4, <2>1 DEF Covers
  <2>2. CASE ~captured
    BY <1>3, <2>2 DEF Covers
  <2> QED
    BY <2>1, <2>2
<1>6. ASSUME NEW e \in ToSet(cur.entries)
      PROVE  e.path \in DOMAIN Top' \cup meddled' \/ e.content = Text(files[e.path])
  <2>1. CASE e \in ToSet(current.entries)
    <3>1. captured /\ Top' = Top
      BY <1>3, <2>1
    <3>2. e.path \in DOMAIN Top \cup meddled \/ e.content = Text(files[e.path])
      BY <1>1, <2>1 DEF Turn, InTurn
    <3>3. e.path \in Paths(current.entries)
      BY <2>1 DEF Paths
    <3> QED
      BY <1>1, <1>2, <3>1, <3>2, <3>3
  <2>2. CASE e \notin ToSet(current.entries)
    <3>1. e = EntryFor(f)
      BY <1>2, <2>2
    <3> QED
      BY <3>1 DEF EntryFor, SeenByCapture
  <2> QED
    BY <2>1, <2>2
<1>7. ASSUME NEW e \in ToSet(current'.entries)
      PROVE  e.path \in DOMAIN Top' \cup meddled' \/ e.content = Text(files'[e.path])
  BY <1>1, <1>6, <1>7 DEF Text
<1>8. InTurn'
  BY <1>1 DEF InTurn
<1>9. /\ WellFormed(current'.entries)
      /\ current'.index = n /\ n > 0 /\ n <= turns' /\ groups'[n] = current'.entries
      /\ call'.path \in Paths(current'.entries)
  BY <1>1, <1>2
<1>10. Covers(current'.entries, Top')
  BY <1>1, <1>5
<1> QED
  BY <1>2, <1>7, <1>8, <1>9, <1>10 DEF Turn, n, Covers, Text

LEMMA TurnAfterWrite ==
    ASSUME TypeOK, Shape, Turn, Write, call.new \in States
    PROVE  Turn'
<1> DEFINE f == call.path
           n == Len(replaced)
<1>1. /\ pc = "write" /\ pc' = "turn" /\ Overwrite(call.new)
      /\ UNCHANGED <<groups, current, captured, meddled, turns>>
  BY DEF Write, storeVars, countVars
<1>2. /\ files' = [files EXCEPT ![f] = call.new] /\ f \in Files
      /\ n \in Nat /\ n > 0 /\ Len(replaced') = n
      /\ DOMAIN Top \subseteq DOMAIN Top' /\ f \in DOMAIN Top' \cup meddled
      /\ \A g \in DOMAIN Top' :
            \/ g \in DOMAIN Top /\ Top'[g] = Top[g]
            \/ /\ g = f /\ Top'[g] = files[f]
               /\ f \notin DOMAIN Top /\ f \notin meddled
  <2> HIDE DEF f
  <2>1. f = call.path
    BY DEF f
  <2> QED
    BY <1>1, <2>1, OverwriteKeeps
<1> HIDE DEF f, n
<1>3. /\ n <= turns /\ InTurn /\ WellFormed(current.entries)
      /\ f \in Paths(current.entries)
      /\ \A e \in ToSet(current.entries) :
            \/ e.path \in DOMAIN Top \cup meddled
            \/ e.content = Text(files[e.path])
      /\ captured => /\ current.index = n /\ groups[n] = current.entries
                     /\ Covers(current.entries, Top)
      /\ ~captured => current.entries = <<>>
  BY <1>1 DEF Turn, InTurn, n, f
<1>4. captured
  <2> SUFFICES ASSUME ~captured PROVE FALSE
    OBVIOUS
  <2>1. DOMAIN <<>> = {}
    OBVIOUS
  <2>2. ToSet(current.entries) = {}
    BY <1>3, <2>1 DEF ToSet
  <2> QED
    BY <1>3, <2>2 DEF Paths
<1>5. ASSUME NEW e \in ToSet(current.entries)
      PROVE  e.path \in DOMAIN Top' \cup meddled \/ e.content = Text(files'[e.path])
  <2>1. CASE e.path = f
    BY <1>2, <2>1
  <2>2. CASE e.path # f
    <3>1. e \in Entries
      BY OfItsElements DEF Shape
    <3>2. files'[e.path] = files[e.path]
      BY <1>2, <2>2, <3>1 DEF Entries, TypeOK
    <3> QED
      BY <1>2, <1>3, <3>2
  <2> QED
    BY <2>1, <2>2
<1>6. Covers(current.entries, Top')
  <2> SUFFICES ASSUME NEW g \in DOMAIN Top'
               PROVE  \E e \in ToSet(current.entries) : e.path = g /\ e.content = Text(Top'[g])
    BY DEF Covers
  <2>1. CASE g \in DOMAIN Top /\ Top'[g] = Top[g]
    BY <1>3, <1>4, <2>1 DEF Covers
  <2>2. CASE g = f /\ Top'[g] = files[f] /\ f \notin DOMAIN Top /\ f \notin meddled
    <3>1. PICK e \in ToSet(current.entries) : e.path = f
      BY <1>3 DEF Paths
    <3>2. e.content = Text(files[f])
      BY <1>3, <2>2, <3>1
    <3> QED
      BY <2>2, <3>1, <3>2
  <2> QED
    BY <1>2, <2>1, <2>2
<1>7. captured' /\ current' = current /\ groups' = groups /\ meddled' = meddled /\ turns' = turns
      /\ InTurn' /\ pc' # "write"
  BY <1>1, <1>4 DEF InTurn
<1>8. Covers(current'.entries, Top')
  BY <1>6, <1>7
<1>9. \A e \in ToSet(current'.entries) :
         e.path \in DOMAIN Top' \cup meddled' \/ e.content = Text(files'[e.path])
  BY <1>5, <1>7
<1> QED
  BY <1>2, <1>3, <1>4, <1>7, <1>8, <1>9 DEF Turn, Covers, Text

\* A turn that was cut off leaves no more undoable turns than turns.
LEMMA HalfDoneCounts ==
    ASSUME TypeOK, Shape, Turn, NEW cur, HalfDone(cur)
    PROVE  Len(replaced') <= turns
<1>1. CASE UNCHANGED replaced
  BY <1>1 DEF Turn
<1>2. CASE pc = "approval" /\ cur = Captured(call.path) /\ groups' = Flushed(cur, Torn) /\ NoteCapture
  BY <1>2, CaptureKeeps
<1>3. CASE pc = "write" /\ \E s \in Contents : Overwrite(s)
  <2>1. PICK s \in States : Overwrite(s)
    BY <1>3 DEF States
  <2>2. Len(replaced') = Len(replaced)
    BY <1>3, <2>1, OverwriteKeeps
  <2> QED
    BY <2>2 DEF Turn
<1> QED
  BY <1>1, <1>2, <1>3 DEF HalfDone

LEMMA TurnStep ==
    ASSUME TypeOK, Shape, Turn, Undo, [Next]_vars
    PROVE  Turn'
<1>0. Len(replaced) \in Nat /\ Len(replaced) <= turns /\ turns \in Nat
  BY Extended, SnapshotAssumption DEF Shape, TypeOK, Turn
<1>1. ASSUME ~InTurn', Len(replaced') <= turns' PROVE Turn'
  BY <1>1 DEF Turn, InTurn
<1>2. CASE StartTurn
  <2>1. /\ captured' = FALSE /\ current' = FreshTurn /\ pc' = "turn"
        /\ turns' = turns + 1 /\ UNCHANGED replaced
    BY <1>2 DEF StartTurn, CurrentOfNewTurn
  <2>2. current'.index = 0 /\ current'.entries = <<>>
    BY <2>1 DEF FreshTurn
  <2>3. DOMAIN <<>> = {}
    OBVIOUS
  <2>4. WellFormed(current'.entries) /\ ToSet(current'.entries) = {}
    BY <2>2, <2>3 DEF WellFormed, ToSet
  <2>5. Len(replaced') <= turns' /\ Len(replaced') < turns'
    BY <1>0, <2>1
  <2> QED
    BY <2>1, <2>2, <2>4, <2>5 DEF Turn
<1>3. CASE EndTurn \/ BeginUndo \/ UndoFails \/ RestoreEntry \/ Restart
  BY <1>0, <1>1, <1>3
  DEF EndTurn, BeginUndo, UndoFails, RestoreEntry, Restart, InTurn, countVars, historyVars
<1>4. ASSUME /\ UNCHANGED <<files, groups, current, turns, captured, replaced, meddled>>
             /\ InTurn /\ pc' # "write"
      PROVE  Turn'
  <2>1. UNCHANGED Top
    BY <1>4 DEF Top
  <2> QED
    BY <1>4, <2>1 DEF Turn, Covers, Text
<1>5. ASSUME NEW f \in Files, NEW new \in Contents \cup {Big}, Preview(f, new) PROVE Turn'
  BY <1>4, <1>5 DEF Preview, storeVars, historyVars, InTurn
<1>6. CASE Reject
  BY <1>4, <1>6 DEF Reject, storeVars, countVars, historyVars, InTurn
<1>7. CASE Capture
  BY <1>7, TurnAfterCapture
<1>8. CASE Write
  <2>1. call.new \in States
    BY <1>8 DEF Write, Shape, States
  <2> QED
    BY <1>8, <2>1, TurnAfterWrite
<1>9. CASE EndUndo
  <2>1. replaced # <<>> /\ pc = "undo" /\ pc' = "idle" /\ replaced' = Front(replaced)
        /\ UNCHANGED turns
    BY <1>9 DEF EndUndo, Undo, countVars
  <2>2. Len(replaced') = Len(replaced) - 1
    BY <2>1, Shortened DEF Shape
  <2> QED
    BY <1>0, <1>1, <2>1, <2>2 DEF InTurn
<1>10. ASSUME NEW f \in Files, NEW s \in States, OtherChange(f, s) PROVE Turn'
  <2>1. /\ UNCHANGED <<groups, current, pc, call, turns, captured, replaced>>
        /\ files' = [files EXCEPT ![f] = s] /\ meddled' = meddled \cup {f}
    BY <1>10 DEF OtherChange, storeVars
  <2>2. UNCHANGED <<Top, InTurn>>
    BY <2>1 DEF Top, InTurn
  <2>3. ASSUME InTurn, NEW e \in ToSet(current.entries)
        PROVE  e.path \in DOMAIN Top \cup meddled' \/ e.content = Text(files'[e.path])
    <3>1. e \in Entries
      BY <2>3, OfItsElements DEF Shape
    <3>2. e.path # f => files'[e.path] = files[e.path]
      BY <2>1, <3>1 DEF Entries, TypeOK
    <3>3. e.path \in DOMAIN Top \cup meddled \/ e.content = Text(files[e.path])
      BY <2>3 DEF Turn
    <3> QED
      BY <2>1, <3>2, <3>3
  <2> QED
    BY <2>1, <2>2, <2>3 DEF Turn, Covers, Text
<1>11. CASE Interrupt \/ Crash
  <2>1. PICK cur : HalfDone(cur)
    BY <1>11 DEF Interrupt, Crash
  <2>2. pc' \in {"idle", "down"} /\ UNCHANGED turns
    BY <1>11 DEF Interrupt, Crash, countVars
  <2> QED
    BY <1>1, <2>1, <2>2, HalfDoneCounts DEF InTurn
<1>12. CASE UNCHANGED vars
  <2>1. UNCHANGED <<files, storeVars, pc, call, countVars, historyVars, Top, InTurn>>
    BY <1>12 DEF vars, Top, InTurn, storeVars, countVars, historyVars
  <2> QED
    BY <2>1 DEF Turn, Covers, Text, storeVars, countVars, historyVars
<1> QED
  BY <1>2, <1>3, <1>5, <1>6, <1>7, <1>8, <1>9, <1>10, <1>11, <1>12 DEF Next

-----------------------------------------------------------------------------
(* The groups. *)

\* A group is as capture left it, and gives back what its turn replaced.
Good(group, turn) == group # Torn => WellFormed(group) /\ Covers(group, turn)

LEMMA GroupsAreGood ==
    ASSUME TypeOK, Shape
    PROVE  Groups /\ UndoableTurns <=> \A i \in 1 .. Len(replaced) : Good(groups[i], replaced[i])
<1>1. DOMAIN groups = 1 .. Len(replaced) /\ DOMAIN replaced = 1 .. Len(replaced)
  BY Extended DEF TypeOK, Shape
<1>2. UndoableTurns <=>
          \A i \in DOMAIN replaced :
              i \in DOMAIN groups /\ (groups[i] # Torn => Covers(groups[i], replaced[i]))
  BY DEF UndoableTurns, Covers
<1> QED
  BY <1>1, <1>2 DEF Groups, Good

\* A capture adds to the newest group or starts one; the file may be cut short.
LEMMA CaptureIsGood ==
    ASSUME TypeOK, Shape, Turn, \A i \in 1 .. Len(replaced) : Good(groups[i], replaced[i]), pc = "approval",
           NEW cur, cur = Captured(call.path), NEW body \in {Torn, cur.entries},
           groups' = Flushed(cur, body), NoteCapture,
           body = Torn \/ Covers(cur.entries, Last(replaced'))
    PROVE  \A i \in 1 .. Len(replaced') : Good(groups'[i], replaced'[i])
<1> DEFINE n == Len(replaced')
<1>1. /\ n \in Nat /\ n > 0 /\ IsSequence(replaced')
      /\ groups'[n] = body
      /\ \A i \in 1 .. n - 1 : groups'[i] = groups[i]
      /\ captured => replaced' = replaced
      /\ ~captured => replaced' = Append(replaced, <<>>)
      /\ WellFormed(cur.entries)
  BY CaptureKeeps
<1>2. replaced' # <<>> /\ Last(replaced') = replaced'[n]
  <2>1. replaced' # <<>>
    BY <1>1
  <2> QED
    BY <1>1, <2>1, Shortened
<1>3. Good(groups'[n], replaced'[n])
  BY <1>1, <1>2 DEF Good, Covers, Text
<1>4. ASSUME NEW i \in 1 .. n - 1 PROVE Good(groups'[i], replaced'[i])
  <2>1. i \in 1 .. Len(replaced) /\ replaced'[i] = replaced[i]
    <3>1. CASE captured
      BY <1>1, <3>1
    <3>2. CASE ~captured
      <4> DEFINE k == Len(replaced)
                 longer == Append(replaced, <<>>)
      <4>1. IsSequence(replaced)
        BY DEF Shape
      <4>2. k \in Nat /\ Len(longer) = k + 1 /\ \A j \in 1 .. k : longer[j] = replaced[j]
        BY <4>1, Extended
      <4>3. replaced' = longer /\ n = Len(longer)
        BY <1>1, <3>2
      <4> HIDE DEF k, longer, n
      <4>4. i \in 1 .. k /\ replaced'[i] = replaced[i]
        BY <4>2, <4>3
      <4> QED
        BY <4>4 DEF k
    <3> QED
      BY <3>1, <3>2
  <2>2. Good(groups[i], replaced[i]) /\ groups'[i] = groups[i]
    BY <1>1, <2>1
  <2> QED
    BY <2>1, <2>2 DEF Good, Covers, Text
<1>5. \A i \in 1 .. n : i = n \/ i \in 1 .. n - 1
  BY <1>1
<1> QED
  BY <1>3, <1>4, <1>5

LEMMA OverwriteIsGood ==
    ASSUME TypeOK, Shape, Turn, \A i \in 1 .. Len(replaced) : Good(groups[i], replaced[i]), pc = "write",
           NEW s \in States, Overwrite(s), UNCHANGED groups
    PROVE  \A i \in 1 .. Len(replaced') : Good(groups'[i], replaced'[i])
<1> DEFINE f == call.path
           n == Len(replaced)
<1>1. /\ n \in Nat /\ n > 0 /\ Len(replaced') = n
      /\ \A i \in 1 .. n - 1 : replaced'[i] = replaced[i]
      /\ Top = replaced[n] /\ Top' = replaced'[n]
      /\ \A g \in DOMAIN Top' :
            \/ g \in DOMAIN Top /\ Top'[g] = Top[g]
            \/ /\ g = f /\ Top'[g] = files[f]
               /\ f \notin DOMAIN Top /\ f \notin meddled
  <2> HIDE DEF f
  <2>1. f = call.path
    BY DEF f
  <2> QED
    BY <2>1, OverwriteKeeps
<1> HIDE DEF f, n
<1>2. /\ f \in Paths(current.entries)
      /\ \A e \in ToSet(current.entries) :
            \/ e.path \in DOMAIN Top \cup meddled
            \/ e.content = Text(files[e.path])
      /\ captured => groups[n] = current.entries
      /\ ~captured => current.entries = <<>>
  BY DEF Turn, InTurn, n, f
<1>3. captured
  <2> SUFFICES ASSUME ~captured PROVE FALSE
    OBVIOUS
  <2>1. DOMAIN <<>> = {}
    OBVIOUS
  <2>2. ToSet(current.entries) = {}
    BY <1>2, <2>1 DEF ToSet
  <2> QED
    BY <1>2, <2>2 DEF Paths
<1>4. ASSUME groups[n] # Torn PROVE WellFormed(groups[n]) /\ Covers(groups[n], Top')
  <2>1. WellFormed(groups[n]) /\ Covers(current.entries, Top) /\ groups[n] = current.entries
    BY <1>1, <1>2, <1>3, <1>4 DEF Good, n
  <2> SUFFICES ASSUME NEW g \in DOMAIN Top'
               PROVE  \E e \in ToSet(groups[n]) : e.path = g /\ e.content = Text(Top'[g])
    BY <2>1 DEF Covers
  <2>2. CASE g \in DOMAIN Top /\ Top'[g] = Top[g]
    BY <2>1, <2>2 DEF Covers
  <2>3. CASE g = f /\ Top'[g] = files[f] /\ f \notin DOMAIN Top /\ f \notin meddled
    <3>1. PICK e \in ToSet(current.entries) : e.path = f
      BY <1>2 DEF Paths
    <3>2. e.content = Text(files[f])
      BY <1>2, <2>3, <3>1
    <3> QED
      BY <2>1, <2>3, <3>1, <3>2
  <2> QED
    BY <1>1, <2>2, <2>3
<1>5. Good(groups'[n], replaced'[n])
  <2>1. groups'[n] = groups[n] /\ Top' = replaced'[n]
    BY <1>1
  <2> QED
    BY <1>4, <2>1 DEF Good, Covers, Text
<1>6. ASSUME NEW i \in 1 .. n - 1 PROVE Good(groups'[i], replaced'[i])
  <2>1. Good(groups[i], replaced[i]) /\ groups'[i] = groups[i] /\ replaced'[i] = replaced[i]
    <3>1. i \in 1 .. n
      BY <1>1
    <3> QED
      BY <1>1, <3>1 DEF n
  <2> QED
    BY <2>1 DEF Good, Covers, Text
<1>7. \A i \in 1 .. n : i = n \/ i \in 1 .. n - 1
  BY <1>1
<1> QED
  BY <1>1, <1>5, <1>6, <1>7

LEMMA GoodStep ==
    ASSUME TypeOK, Shape, Turn, Undo, Turn', \A i \in 1 .. Len(replaced) : Good(groups[i], replaced[i]), [Next]_vars
    PROVE  \A i \in 1 .. Len(replaced') : Good(groups'[i], replaced'[i])
<1>1. ASSUME UNCHANGED <<groups, replaced>> PROVE \A i \in 1 .. Len(replaced') : Good(groups'[i], replaced'[i])
  BY <1>1 DEF Good, Covers, Text
<1>2. CASE StartTurn \/ EndTurn \/ Reject \/ BeginUndo \/ UndoFails \/ RestoreEntry \/ Restart
  BY <1>1, <1>2
  DEF StartTurn, EndTurn, Reject, BeginUndo, UndoFails, RestoreEntry, Restart, storeVars, historyVars
<1>3. ASSUME NEW f \in Files, NEW new \in Contents \cup {Big}, Preview(f, new)
      PROVE  \A i \in 1 .. Len(replaced') : Good(groups'[i], replaced'[i])
  BY <1>1, <1>3 DEF Preview, storeVars, historyVars
<1>4. CASE Capture
  <2> DEFINE cur == Captured(call.path)
  <2>1. /\ pc = "approval" /\ pc' = "write" /\ current' = cur
        /\ groups' = Flushed(cur, cur.entries) /\ NoteCapture
    BY <1>4 DEF Capture
  <2>2. captured'
    BY <2>1 DEF NoteCapture
  <2>3. Covers(current.entries, Top)'
    BY <2>1, <2>2 DEF Turn, InTurn
  <2>4. Covers(cur.entries, Last(replaced'))
    BY <2>1, <2>3 DEF Covers, Top, Text
  <2> HIDE DEF cur
  <2>5. cur = Captured(call.path)
    BY DEF cur
  <2> QED
    BY <2>1, <2>4, <2>5, CaptureIsGood
<1>5. CASE Write
  <2>1. call.new \in States
    BY <1>5 DEF Write, Shape, States
  <2> QED
    BY <1>5, <2>1, OverwriteIsGood DEF Write, storeVars
<1>6. CASE EndUndo
  <2> DEFINE n == Len(replaced)
  <2>1. n > 0 /\ replaced # <<>> /\ n \in Nat /\ DOMAIN groups = 1 .. n
    BY <1>6, Extended DEF EndUndo, Undo, TypeOK, Shape
  <2>2. Newest = n
    BY <2>1, NewestIsLast
  <2>3. Len(replaced') = n - 1 /\ \A i \in 1 .. n - 1 : replaced'[i] = replaced[i]
    BY <1>6, <2>1, Shortened DEF EndUndo, Shape
  <2>4. groups' = [i \in DOMAIN groups \ {n} |-> groups[i]]
    BY <1>6, <2>2 DEF EndUndo
  <2> HIDE DEF n
  <2>5. ASSUME NEW i \in 1 .. n - 1 PROVE Good(groups'[i], replaced'[i])
    <3>1. i \in 1 .. n /\ i # n
      BY <2>1
    <3>2. Good(groups[i], replaced[i]) /\ groups'[i] = groups[i] /\ replaced'[i] = replaced[i]
      BY <2>1, <2>3, <2>4, <3>1 DEF n
    <3> QED
      BY <3>2 DEF Good, Covers, Text
  <2> QED
    BY <2>3, <2>5
<1>7. ASSUME NEW f \in Files, NEW s \in States, OtherChange(f, s)
      PROVE  \A i \in 1 .. Len(replaced') : Good(groups'[i], replaced'[i])
  BY <1>1, <1>7 DEF OtherChange, storeVars
<1>8. ASSUME NEW cur, HalfDone(cur) PROVE \A i \in 1 .. Len(replaced') : Good(groups'[i], replaced'[i])
  <2>1. CASE UNCHANGED <<groups, replaced>>
    BY <1>1, <2>1
  <2>2. CASE /\ pc = "approval" /\ cur = Captured(call.path)
             /\ groups' = Flushed(cur, Torn) /\ NoteCapture
    BY <2>2, CaptureIsGood
  <2>3. CASE pc = "write" /\ UNCHANGED groups /\ \E s \in Contents : Overwrite(s)
    <3>1. PICK s \in States : Overwrite(s)
      BY <2>3 DEF States
    <3> QED
      BY <2>3, <3>1, OverwriteIsGood
  <2> QED
    BY <1>8, <2>1, <2>2, <2>3 DEF HalfDone
<1>9. CASE Interrupt \/ Crash
  BY <1>8, <1>9 DEF Interrupt, Crash
<1>10. CASE UNCHANGED vars
  BY <1>1, <1>10 DEF vars, storeVars, historyVars
<1> QED
  BY <1>2, <1>3, <1>4, <1>5, <1>6, <1>7, <1>9, <1>10 DEF Next

-----------------------------------------------------------------------------
(* /undo. *)

\* An entry of the newest group puts back what the turn replaced.
LEMMA EntriesRestore ==
    ASSUME TypeOK, Shape, Groups, UndoableTurns, Undo, pc = "undo",
           NEW e \in ToSet(groups[Len(replaced)])
    PROVE  /\ e.path \in Files /\ Restored(e) = e.content
           /\ DOMAIN Top \subseteq Files
           /\ e.path \in DOMAIN Top => e.content = Text(Top[e.path])
<1> DEFINE n == Len(replaced)
           group == groups[n]
<1>1. n \in DOMAIN groups /\ n \in DOMAIN replaced /\ Top = replaced[n] /\ group # Torn
  <2>1. n > 0 /\ n \in Nat /\ DOMAIN groups = 1 .. n /\ DOMAIN replaced = 1 .. n /\ group # Torn
    BY Extended DEF TypeOK, Shape, Undo
  <2>2. replaced # <<>>
    BY <2>1
  <2> QED
    BY <2>1, <2>2, Shortened DEF Top, Shape
<1>2. group \in Seq(Entries) /\ WellFormed(group) /\ Covers(group, Top)
  <2>1. group \in Seq(Entries) /\ WellFormed(group)
    BY <1>1 DEF TypeOK, Groups
  <2>2. Covers(group, Top)
    BY <1>1 DEF UndoableTurns, Covers
  <2> QED
    BY <2>1, <2>2
<1> HIDE DEF n, group
<1>3. e \in ToSet(group)
  BY DEF group, n
<1>4. ToSet(group) \subseteq Entries /\ ToSet(group) = {group[i] : i \in DOMAIN group}
  BY <1>2, OfItsElements
<1>5. e.path \in Files /\ Restored(e) = e.content
  <2>1. e \in Entries /\ e.existed = (e.content # Absent)
    BY <1>2, <1>3, <1>4 DEF WellFormed
  <2> QED
    BY <2>1 DEF Entries, Restored
<1>6. DOMAIN Top \subseteq Files
  BY <1>2, <1>4 DEF Covers, Entries
<1>7. ASSUME e.path \in DOMAIN Top PROVE e.content = Text(Top[e.path])
  <2>1. PICK d \in ToSet(group) : d.path = e.path /\ d.content = Text(Top[e.path])
    BY <1>2, <1>7 DEF Covers
  <2>2. d = e
    BY <1>2, <1>3, <1>4, <2>1 DEF WellFormed
  <2> QED
    BY <2>1, <2>2
<1> QED
  BY <1>5, <1>6, <1>7

LEMMA UndoStep ==
    ASSUME TypeOK, Shape, Groups, UndoableTurns, Undo, [Next]_vars
    PROVE  Undo'
<1>1. ASSUME pc' # "undo" PROVE Undo'
  BY <1>1 DEF Undo
<1>2. CASE \/ StartTurn \/ EndTurn \/ Reject \/ Capture \/ Write \/ UndoFails \/ EndUndo
           \/ Interrupt \/ Crash \/ Restart
  BY <1>1, <1>2
  DEF StartTurn, EndTurn, Reject, Capture, Write, UndoFails, EndUndo, Interrupt, Crash, Restart
<1>3. ASSUME NEW f \in Files, NEW new \in Contents \cup {Big}, Preview(f, new) PROVE Undo'
  BY <1>1, <1>3 DEF Preview
<1>4. CASE BeginUndo
  <2> DEFINE n == Len(replaced)
             group == groups[n]
  <2>1. /\ DOMAIN groups = 1 .. n /\ DOMAIN replaced = 1 .. n /\ n \in Nat
        /\ DOMAIN groups # {}
    BY <1>4, Extended DEF BeginUndo, TypeOK, Shape
  <2>2. Newest = n /\ n > 0
    BY <2>1, NewestIsLast
  <2>3. /\ group # Torn /\ todo' = Reverse(group) /\ UNCHANGED <<files, groups, replaced>>
    BY <1>4, <2>2 DEF BeginUndo, storeVars
  <2>4. n \in DOMAIN groups /\ n \in DOMAIN replaced /\ replaced # <<>>
    BY <2>1, <2>2
  <2>5. Top = replaced[n] /\ UNCHANGED Top
    BY <2>3, <2>4, Shortened DEF Top, Shape
  <2> HIDE DEF n, group
  <2>6. group \in Seq(Entries) /\ Covers(group, Top)
    BY <2>3, <2>4, <2>5 DEF TypeOK, UndoableTurns, Covers, group
  <2>7. ToSet(todo') = ToSet(group)
    BY <2>3, <2>6, Reversed
  <2>8. \A f \in DOMAIN Top : f \in Paths(todo')
    BY <2>6, <2>7 DEF Covers, Paths
  <2> QED
    BY <2>2, <2>3, <2>5, <2>7, <2>8 DEF Undo, group, n
<1>5. CASE RestoreEntry
  <2> DEFINE e == Head(todo)
  <2>1. /\ pc = "undo" /\ todo # <<>> /\ todo' = Tail(todo)
        /\ UNCHANGED <<groups, replaced, meddled, pc>>
        /\ \/ files' = [files EXCEPT ![e.path] = Restored(e)] /\ UNCHANGED skipped
           \/ skipped' = skipped \cup {e.path} /\ UNCHANGED files
    BY <1>5 DEF RestoreEntry, storeVars, historyVars
  <2>2. UNCHANGED Top
    BY <2>1 DEF Top
  <2>3. ToSet(todo) = ToSet(todo') \cup {e}
    BY <2>1, HeadAndTail DEF TypeOK
  <2>4. /\ Len(replaced) > 0 /\ groups[Len(replaced)] # Torn
        /\ ToSet(todo) \subseteq ToSet(groups[Len(replaced)])
        /\ \A f \in DOMAIN Top \ (skipped \cup meddled) :
              f \in Paths(todo) \/ Text(files[f]) = Text(Top[f])
    BY <2>1 DEF Undo
  <2> HIDE DEF e
  <2>5. /\ e.path \in Files /\ Restored(e) = e.content /\ DOMAIN Top \subseteq Files
        /\ e.path \in DOMAIN Top => e.content = Text(Top[e.path])
    BY <2>1, <2>3, <2>4, EntriesRestore
  <2>6. ASSUME NEW f \in DOMAIN Top \ (skipped' \cup meddled)
        PROVE  f \in Paths(todo') \/ Text(files'[f]) = Text(Top[f])
    <3>1. f \in Files /\ files \in [Files -> States]
      BY <2>5 DEF TypeOK
    <3>2. CASE f = e.path
      <4>1. files'[f] = Restored(e)
        BY <2>1, <2>6, <3>1, <3>2
      <4> QED
        BY <2>5, <3>2, <4>1, TextIsIdempotent
    <3>3. CASE f # e.path
      <4>1. files'[f] = files[f] /\ f \in DOMAIN Top \ (skipped \cup meddled)
        BY <2>1, <2>6, <3>1, <3>3
      <4>2. f \in Paths(todo) => f \in Paths(todo')
        BY <2>3, <3>3 DEF Paths
      <4> QED
        BY <2>4, <4>1, <4>2
    <3> QED
      BY <3>2, <3>3
  <2> QED
    BY <2>1, <2>2, <2>3, <2>4, <2>6 DEF Undo, Text
<1>6. ASSUME NEW f \in Files, NEW s \in States, OtherChange(f, s) PROVE Undo'
  <2>1. /\ UNCHANGED <<groups, replaced, pc, todo, skipped>>
        /\ files' = [files EXCEPT ![f] = s] /\ meddled' = meddled \cup {f}
    BY <1>6 DEF OtherChange, storeVars, undoVars
  <2>2. UNCHANGED Top
    BY <2>1 DEF Top
  <2>3. \A g : g # f => files'[g] = files[g] \/ g \notin Files
    BY <2>1 DEF TypeOK
  <2>4. ASSUME pc = "undo", NEW g \in DOMAIN Top \ (skipped \cup meddled')
        PROVE  g \in Paths(todo) \/ Text(files'[g]) = Text(Top[g])
    <3>1. g # f /\ g \in DOMAIN Top \ (skipped \cup meddled)
      BY <2>1, <2>4
    <3>2. files'[g] = files[g]
      BY <2>1, <3>1 DEF TypeOK
    <3> QED
      BY <2>4, <3>1, <3>2 DEF Undo
  <2> QED
    BY <2>1, <2>2, <2>4 DEF Undo, Text, Paths
<1>7. CASE UNCHANGED vars
  <2>1. UNCHANGED <<files, storeVars, pc, undoVars, historyVars, Top>>
    BY <1>7 DEF vars, Top, historyVars
  <2> QED
    BY <2>1 DEF Undo, Text, Paths, storeVars, undoVars, historyVars
<1> QED
  BY <1>2, <1>3, <1>4, <1>5, <1>6, <1>7 DEF Next

-----------------------------------------------------------------------------
(* The theorems. *)

\* The invariant the others rest on: the newest group belongs to the turn in
\* progress once the turn has captured, and every group gives back what its turn
\* replaced.
THEOREM Invariance == Spec => []Inv
<1>1. Init => Inv
  BY InitialState
<1>2. Inv /\ [Next]_vars => Inv'
  <2> SUFFICES ASSUME Inv, [Next]_vars PROVE Inv'
    OBVIOUS
  <2>1. TypeOK' /\ Shape'
    BY TypesStep DEF Inv
  <2>2. Turn'
    BY TurnStep DEF Inv
  <2>3. Undo'
    BY UndoStep DEF Inv
  <2>4. \A i \in 1 .. Len(replaced) : Good(groups[i], replaced[i])
    BY GroupsAreGood DEF Inv
  <2>5. \A i \in 1 .. Len(replaced') : Good(groups'[i], replaced'[i])
    BY <2>2, <2>4, GoodStep DEF Inv
  <2>6. /\ DOMAIN groups' = 1 .. Len(replaced') /\ DOMAIN replaced' = 1 .. Len(replaced')
    BY <2>1, Extended DEF TypeOK, Shape
  <2>7. Groups'
    BY <2>5, <2>6 DEF Groups, Good
  <2>8. UndoableTurns'
    <3> SUFFICES ASSUME NEW i \in DOMAIN replaced', groups'[i] # Torn,
                        NEW f \in DOMAIN replaced'[i]
                 PROVE  \E e \in ToSet(groups'[i]) :
                            e.path = f /\ e.content = Text(replaced'[i][f])
      BY <2>6 DEF UndoableTurns, Text
    <3> QED
      BY <2>5, <2>6 DEF Good, Covers
  <2> QED
    BY <2>1, <2>2, <2>3, <2>7, <2>8 DEF Inv
<1> QED
  BY <1>1, <1>2, PTL DEF Spec

\* The store's indexes, entries and counters stay within their types: there is one
\* group file for each turn that captured a file and was not undone.
THEOREM TypeCorrect == Spec => []TypeOK
<1>1. Inv => TypeOK
  BY DEF Inv
<1> QED
  BY <1>1, Invariance, PTL

\* Every undoable turn has a group of its own, and the group gives back what the
\* turn's first write to each file replaced.
THEOREM TurnsStayUndoable == Spec => []UndoableTurns
<1>1. Inv => UndoableTurns
  BY DEF Inv
<1> QED
  BY <1>1, Invariance, PTL

\* /undo puts back every file of its turn that it does not report as skipped and
\* nobody else changed.
THEOREM UndoReverts == Spec => UndoRevertsTurn
<1> DEFINE Reverts ==
        (pc = "undo" /\ pc' = "idle") =>
            \A f \in DOMAIN Last(replaced) \ (skipped \cup meddled) :
                Text(files'[f]) = Text(Last(replaced)[f])
<1>1. ASSUME Inv, [Next]_vars, pc = "undo", pc' = "idle" PROVE Reverts
  <2>1. EndUndo
    BY <1>1 DEF Next, vars, StartTurn, EndTurn, Preview, Reject, Capture, Write, BeginUndo,
                UndoFails, RestoreEntry, OtherChange, Interrupt, Crash, Restart
  <2>2. todo = <<>> /\ UNCHANGED files
    BY <2>1 DEF EndUndo
  <2>3. DOMAIN <<>> = {}
    OBVIOUS
  <2>4. Paths(todo) = {}
    BY <2>2, <2>3 DEF Paths, ToSet
  <2> QED
    BY <1>1, <2>2, <2>4 DEF Inv, Undo, Top
<1>2. Inv /\ [Next]_vars => [Reverts]_vars
  BY <1>1
<1>3. UndoRevertsTurn <=> [][Reverts]_vars
  BY DEF UndoRevertsTurn
<1> HIDE DEF Reverts
<1> QED
  BY <1>2, <1>3, Invariance, PTL DEF Spec

\* /undo changes no file beyond those of the newest group, and no other turn loses
\* its snapshots to it, also when it is cut off half way.
THEOREM UndoConfined == Spec => UndoIsConfined
<1> DEFINE Confined ==
        pc = "undo" =>
            LET top == Len(replaced)
            IN /\ \A i \in 1 .. top - 1 :
                     i \in DOMAIN groups' /\ groups'[i] = groups[i]
               /\ \A f \in Files :
                     (files'[f] # files[f] /\ others' = others) =>
                         groups[top] # Torn /\ f \in Paths(groups[top])
<1>1. ASSUME Inv, [Next]_vars, pc = "undo" PROVE Confined
  <2> DEFINE top == Len(replaced)
  <2>1. /\ DOMAIN groups = 1 .. top /\ top \in Nat /\ top > 0 /\ groups[top] # Torn
        /\ ToSet(todo) \subseteq ToSet(groups[top])
        /\ todo \in Seq(Entries) /\ files \in [Files -> States] /\ others \in Nat
    BY <1>1, Extended, SnapshotAssumption DEF Inv, TypeOK, Shape, Undo
  <2>2. Newest = top
    BY <2>1, NewestIsLast
  <2>3. \A i \in 1 .. top - 1 : i \in 1 .. top /\ i # top
    BY <2>1
  <2> HIDE DEF top
  <2>4. ASSUME UNCHANGED groups
        PROVE  \A i \in 1 .. top - 1 : i \in DOMAIN groups' /\ groups'[i] = groups[i]
    BY <2>1, <2>3, <2>4
  <2>5. CASE RestoreEntry
    <3>1. /\ UNCHANGED groups /\ todo # <<>>
          /\ \/ files' = [files EXCEPT ![Head(todo).path] = Restored(Head(todo))]
             \/ UNCHANGED files
      BY <2>5 DEF RestoreEntry, storeVars
    <3>2. Head(todo) \in ToSet(groups[top])
      BY <2>1, <3>1, HeadAndTail
    <3>3. \A f \in Files : files'[f] # files[f] => f \in Paths(groups[top])
      BY <2>1, <3>1, <3>2 DEF Paths
    <3> QED
      BY <2>1, <2>4, <3>1, <3>3 DEF top
  <2>6. CASE EndUndo
    <3>1. groups' = [i \in DOMAIN groups \ {top} |-> groups[i]] /\ UNCHANGED files
      BY <2>2, <2>6 DEF EndUndo
    <3> QED
      BY <2>1, <2>3, <3>1 DEF top
  <2>7. ASSUME NEW f \in Files, NEW s \in States, OtherChange(f, s) PROVE Confined
    <3>1. UNCHANGED groups /\ others' # others
      BY <2>1, <2>7 DEF OtherChange, storeVars
    <3> QED
      BY <2>4, <3>1 DEF top
  <2>8. CASE Crash
    <3>1. UNCHANGED <<groups, files>>
      BY <1>1, <2>8 DEF Crash, HalfDone
    <3> QED
      BY <2>4, <3>1 DEF top
  <2>9. CASE UNCHANGED vars
    <3>1. UNCHANGED <<groups, files>>
      BY <2>9 DEF vars, storeVars
    <3> QED
      BY <2>4, <3>1 DEF top
  <2> QED
    BY <1>1, <2>5, <2>6, <2>7, <2>8, <2>9
    DEF Next, StartTurn, EndTurn, Preview, Reject, Capture, Write, BeginUndo, UndoFails,
        Interrupt, Restart
<1>2. Inv /\ [Next]_vars => [Confined]_vars
  BY <1>1
<1>3. UndoIsConfined <=> [][Confined]_vars
  BY DEF UndoIsConfined
<1> HIDE DEF Confined
<1> QED
  BY <1>2, <1>3, Invariance, PTL DEF Spec

=============================================================================
