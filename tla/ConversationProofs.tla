------------------------- MODULE ConversationProofs -------------------------
(***************************************************************************)
(* What holds of Conversation for any bounds, any number of calls in a     *)
(* response and any behaviour, interrupts, crashes and resumes included.   *)
(***************************************************************************)
EXTENDS Conversation, FiniteSetTheorems, SequenceTheorems, WellFoundedInduction, TLAPS

\* An append is in progress, a batch of tool calls is being answered.
Appending == pc \in {"write", "meta"}
InBatch == pc \in {"tool", "asking", "decided"} \/ (Appending /\ after = "tool")
Batch == Len(messages) - answered

\* Where append returns to is known only while it runs, and a batch goes on only
\* while a call is left.
Flow ==
    /\ ~Appending => after = "idle"
    /\ pc = "write" => messages # <<>> /\ after # "command"
    /\ InBatch => answered < calls

\* The batch: the response that asked for it, and the results it has so far.
BatchIsLast ==
    InBatch => /\ Batch \in DOMAIN messages
               /\ messages[Batch] = Assistant(calls)
               /\ \A k \in 1 .. answered : messages[Batch + k] = ToolResult(k)

\* The transcript lags behind memory by the message being appended, if any.
Lagging == messages # <<>> /\ disk \in {Front(messages), Append(Front(messages), TornLine)}

Recorded ==
    /\ pc \notin {"write", "down"} => disk = messages
    /\ pc = "write" => disk = Front(messages)
    /\ pc = "down" /\ ~disturbed => disk = messages
    /\ pc = "down" => disk = messages \/ Lagging

\* An index the summary may have: the start of one of the turns before the last
\* KeepRecentTurns - 1.
StartsAfter(msgs, n) == {i \in TurnStarts(msgs) : i > n}
IsCut(msgs, n) ==
    n # 0 => /\ n + 1 \in TurnStarts(msgs)
             /\ Cardinality(StartsAfter(msgs, n)) >= KeepRecentTurns
CutsAreTurns ==
    /\ IsCut(disk, through)
    /\ metaOnDisk # Torn => IsCut(disk, metaOnDisk)

Follows(msgs) ==
    \A j \in DOMAIN msgs : msgs[j].role = "tool" =>
        \E a \in 1 .. j - 1 : IsAnswerTo(msgs, a, msgs[j].call, j)

\* Every call is answered, but for those of the batch in progress.
Settled ==
    \A a \in DOMAIN messages :
        messages[a].role = "assistant" =>
            Answered(messages, a) \/ (InBatch /\ a = Batch)

Inv ==
    /\ TypeOK /\ Flow /\ BatchIsLast
    /\ hole => disturbed
    /\ ~hole => Recorded /\ CutsAreTurns /\ Follows(messages)
    /\ ~disturbed => Settled

-----------------------------------------------------------------------------
(* Sets of numbers. *)

LEMMA LeastNumber ==
    ASSUME NEW S \in SUBSET Nat, S # {}
    PROVE  \E x \in S : \A y \in S : x <= y
<1> DEFINE R == OpToRel(<, Nat)
<1>1. IsWellFoundedOn(R, Nat)
  BY NatLessThanWellFounded
<1>2. \A x, y \in Nat : y < x => <<y, x>> \in R
  BY DEF OpToRel
<1> HIDE DEF R
<1>3. PICK x \in S : \A y \in S : ~ (<<y, x>> \in R)
  BY <1>1, WFMin
<1>4. ASSUME NEW y \in S PROVE x <= y
  <2>1. x \in Nat /\ y \in Nat
    OBVIOUS
  <2>2. ~(y < x)
    BY <1>2, <1>3, <2>1
  <2> QED
    BY <2>1, <2>2
<1> QED
  BY <1>4

\* The k-th element from the top of a finite set of numbers with more than k.
LEMMA FromTheTop ==
    ASSUME NEW S \in SUBSET Nat, IsFiniteSet(S), 0 \notin S,
           NEW k \in Nat \ {0}, Cardinality(S) > k,
           NEW bound \in Nat, \A s \in S : s <= bound
    PROVE  \E i \in S : Cardinality({j \in S : j >= i}) = k
<1>0. \A s \in S : s \in Nat /\ s > 0
  OBVIOUS
<1> DEFINE From(n) == {j \in S : j >= n}
<1>1. ASSUME NEW n \in Nat
      PROVE  IsFiniteSet(From(n)) /\ Cardinality(From(n)) \in Nat
  BY FS_Subset, FS_CardinalityType
<1> DEFINE Few == {n \in Nat : Cardinality(From(n)) < k}
<1>2. bound + 1 \in Few
  <2>1. \A j \in S : ~(j >= bound + 1)
    BY <1>0
  <2>2. From(bound + 1) = {}
    BY <2>1
  <2> QED
    BY <2>2, FS_EmptySet
<1>3. 0 \notin Few
  <2>1. \A j \in S : j >= 0
    BY <1>0
  <2>2. From(0) = S
    BY <2>1
  <2>3. Cardinality(S) \in Nat
    BY FS_CardinalityType
  <2> QED
    BY <2>2, <2>3
<1>4. PICK n \in Few : \A y \in Few : n <= y
  <2>1. Few \in SUBSET Nat /\ Few # {}
    BY <1>2
  <2> HIDE DEF Few
  <2> QED
    BY <2>1, LeastNumber
<1>5. n \in Nat /\ n > 0
  BY <1>3, <1>4
<1> DEFINE i == n - 1
<1>6. i \in Nat /\ i \notin Few
  <2> HIDE DEF Few
  <2> QED
    BY <1>4, <1>5
<1>7. Cardinality(From(i)) >= k /\ Cardinality(From(n)) < k
  <2>1. ~(Cardinality(From(i)) < k)
    BY <1>6
  <2>2. Cardinality(From(n)) < k
    BY <1>4
  <2> HIDE DEF From
  <2> QED
    BY <1>1, <1>5, <1>6, <2>1, <2>2
<1>8. From(i) \subseteq From(n) \cup {i} /\ From(n) \subseteq From(i)
  <2>1. \A j \in S : /\ j >= i => j >= n \/ j = i
                     /\ j >= n => j >= i
    BY <1>0, <1>5
  <2> QED
    BY <2>1
<1>9. i \in S
  <2>1. CASE i \notin S
    <3>1. From(i) = From(n)
      BY <1>8, <2>1
    <3> QED
      BY <1>1, <1>5, <1>6, <1>7, <3>1
  <2> QED
    BY <2>1
<1>10. From(i) = From(n) \cup {i} /\ i \notin From(n)
  BY <1>5, <1>8, <1>9
<1>11. Cardinality(From(i)) = Cardinality(From(n)) + 1
  <2> HIDE DEF From
  <2> QED
    BY <1>1, <1>5, <1>10, FS_AddElement
<1>12. Cardinality(From(i)) = k
  BY <1>1, <1>5, <1>7, <1>11
<1> QED
  BY <1>9, <1>12

LEMMA Shifted ==
    ASSUME NEW S \in SUBSET Int, IsFiniteSet(S), NEW d \in Int,
           NEW T \in SUBSET Int, \A x \in Int : x \in S <=> x + d \in T
    PROVE  IsFiniteSet(T) /\ Cardinality(T) = Cardinality(S)
<1> DEFINE f == [x \in S |-> x + d]
<1>1. f \in Bijection(S, T)
  <2>1. f \in [S -> T]
    OBVIOUS
  <2>2. \A x, y \in S : f[x] = f[y] => x = y
    OBVIOUS
  <2>3. ASSUME NEW y \in T PROVE \E x \in S : f[x] = y
    <3>1. y - d \in Int /\ (y - d) + d = y
      OBVIOUS
    <3>2. y - d \in S
      BY <3>1
    <3> QED
      BY <3>1, <3>2
  <2> HIDE DEF f
  <2> QED
    BY <2>1, <2>2, <2>3 DEF Bijection, Injection, IsInjective, Surjection
<1> QED
  BY <1>1, FS_Bijection DEF ExistsBijection

-----------------------------------------------------------------------------
(* Messages. *)

LEMMA Roles ==
    /\ User.role = "user" /\ TornLine.role = "torn"
    /\ \A k : Assistant(k).role = "assistant" /\ Assistant(k).calls = k
    /\ \A i : ToolResult(i).role = "tool" /\ ToolResult(i).call = i
BY DEF User, TornLine, Assistant, ToolResult

LEMMA TailIsShifted ==
    ASSUME NEW S, messages \in Seq(S), through \in Nat
    PROVE  /\ TailMessages \in Seq(S)
           /\ DOMAIN TailMessages = 1 .. Len(TailMessages)
           /\ Len(TailMessages) \in Nat
           /\ Len(TailMessages) = IF through <= Len(messages)
                                 THEN Len(messages) - through ELSE 0
           /\ \A i \in DOMAIN TailMessages :
                 through + i \in DOMAIN messages /\ TailMessages[i] = messages[through + i]
<1>1. through + 1 \in Nat /\ Len(messages) \in Nat
  OBVIOUS
<1>2. TailMessages \in Seq(S)
  BY <1>1 DEF TailMessages
<1>3. Len(TailMessages) = IF through <= Len(messages)
                         THEN Len(messages) - through ELSE 0
  BY <1>1 DEF TailMessages
<1>4. ASSUME NEW i \in 1 .. Len(TailMessages)
      PROVE  through + i \in DOMAIN messages /\ TailMessages[i] = messages[through + i]
  BY <1>1, <1>3 DEF TailMessages
<1> QED
  BY <1>2, <1>3, <1>4

LEMMA StartsOfTurns ==
    ASSUME NEW S, NEW s \in Seq(S)
    PROVE  /\ TurnStarts(s) \in SUBSET Nat /\ 0 \notin TurnStarts(s)
           /\ IsFiniteSet(TurnStarts(s)) /\ Cardinality(TurnStarts(s)) \in Nat
           /\ \A i \in TurnStarts(s) : i <= Len(s)
<1>1. DOMAIN s = 1 .. Len(s) /\ Len(s) \in Nat
  OBVIOUS
<1>2. TurnStarts(s) \subseteq 1 .. Len(s)
  BY <1>1 DEF TurnStarts
<1>3. IsFiniteSet(TurnStarts(s)) /\ Cardinality(TurnStarts(s)) \in Nat
  <2>1. IsFiniteSet(1 .. Len(s))
    BY <1>1, FS_Interval
  <2> QED
    BY <1>2, <2>1, FS_Subset, FS_CardinalityType
<1> QED
  BY <1>1, <1>2, <1>3

\* _cut_index, when it cuts, cuts before a user message with exactly
\* KeepRecentTurns of them from there on.
LEMMA CutBeforeTurn ==
    ASSUME NEW S, NEW pending \in Seq(S)
    PROVE  /\ CutIndex(pending) \in Nat
           /\ CutIndex(pending) # 0 =>
                /\ CutIndex(pending) + 1 \in TurnStarts(pending)
                /\ Cardinality(StartsAfter(pending, CutIndex(pending))) = KeepRecentTurns
<1> DEFINE starts == TurnStarts(pending)
           i == CHOOSE i \in starts : Cardinality({j \in starts : j >= i}) = KeepRecentTurns
<1>1. CASE Cardinality(starts) <= KeepRecentTurns
  BY <1>1 DEF CutIndex
<1>2. CASE ~(Cardinality(starts) <= KeepRecentTurns)
  <2>1. /\ starts \in SUBSET Nat /\ 0 \notin starts /\ IsFiniteSet(starts)
        /\ Cardinality(starts) \in Nat
        /\ Len(pending) \in Nat /\ \A j \in starts : j <= Len(pending)
    BY StartsOfTurns
  <2>2. KeepRecentTurns \in Nat \ {0} /\ Cardinality(starts) > KeepRecentTurns
    BY <1>2, <2>1, ConversationAssumption
  <2> HIDE DEF starts
  <2>3. \E x \in starts : Cardinality({j \in starts : j >= x}) = KeepRecentTurns
    BY <2>1, <2>2, FromTheTop
  <2>4. i \in starts /\ Cardinality({j \in starts : j >= i}) = KeepRecentTurns
    BY <2>3
  <2>5. CutIndex(pending) = i - 1
    BY <1>2 DEF CutIndex, starts
  <2> HIDE DEF i
  <2>6. i \in Nat /\ i > 0
    BY <2>1, <2>4
  <2>7. {j \in starts : j >= i} = {j \in starts : j > i - 1}
    <3>1. \A j \in starts : j >= i <=> j > i - 1
      BY <2>1, <2>6
    <3> QED
      BY <3>1
  <2>8. StartsAfter(pending, i - 1) = {j \in starts : j > i - 1}
    BY DEF StartsAfter, starts
  <2>9. CutIndex(pending) \in Nat /\ CutIndex(pending) + 1 = i
    BY <2>5, <2>6
  <2>10. Cardinality(StartsAfter(pending, CutIndex(pending))) = KeepRecentTurns
    BY <2>4, <2>5, <2>7, <2>8
  <2> QED
    BY <2>4, <2>9, <2>10 DEF starts
<1> QED
  BY <1>1, <1>2

\* _compact moves the index to such a cut of the whole list.
LEMMA CompactionCuts ==
    ASSUME NEW S, messages \in Seq(S), through \in Nat, CutIndex(TailMessages) > 0
    PROVE  /\ through + CutIndex(TailMessages) \in Nat
           /\ IsCut(messages, through + CutIndex(TailMessages))
<1> DEFINE tail == TailMessages
           c == CutIndex(tail)
           n == through + c
<1>1. /\ tail \in Seq(S) /\ DOMAIN tail = 1 .. Len(tail) /\ Len(tail) \in Nat
      /\ Len(tail) = IF through <= Len(messages) THEN Len(messages) - through ELSE 0
      /\ \A i \in DOMAIN tail :
            through + i \in DOMAIN messages /\ tail[i] = messages[through + i]
      /\ DOMAIN messages = 1 .. Len(messages) /\ Len(messages) \in Nat
  BY TailIsShifted
<1>2. /\ c \in Nat
      /\ c # 0 => /\ c + 1 \in TurnStarts(tail)
                  /\ Cardinality(StartsAfter(tail, c)) = KeepRecentTurns
  <2>1. tail \in Seq(S)
    BY <1>1
  <2> HIDE DEF tail
  <2> QED
    BY <2>1, CutBeforeTurn
<1> HIDE DEF tail
<1>3. c > 0 /\ c + 1 \in TurnStarts(tail)
      /\ Cardinality(StartsAfter(tail, c)) = KeepRecentTurns
  BY <1>2 DEF tail
<1> HIDE DEF c
<1>4. n + 1 \in TurnStarts(messages)
  <2>1. c + 1 \in DOMAIN tail /\ IsTurnStart(tail[c + 1])
    BY <1>3 DEF TurnStarts
  <2>2. through + (c + 1) \in DOMAIN messages /\ IsTurnStart(messages[through + (c + 1)])
    BY <1>1, <2>1
  <2>3. through + (c + 1) = n + 1
    BY <1>2
  <2> QED
    BY <2>2, <2>3 DEF TurnStarts
<1>5. Cardinality(StartsAfter(messages, n)) = KeepRecentTurns
  <2>1. /\ StartsAfter(tail, c) \in SUBSET Int /\ StartsAfter(messages, n) \in SUBSET Int
        /\ IsFiniteSet(StartsAfter(tail, c))
    <3>1. /\ TurnStarts(tail) \in SUBSET Nat /\ TurnStarts(messages) \in SUBSET Nat
          /\ IsFiniteSet(TurnStarts(tail))
      BY <1>1, StartsOfTurns
    <3>2. /\ StartsAfter(tail, c) \subseteq TurnStarts(tail)
          /\ StartsAfter(messages, n) \subseteq TurnStarts(messages)
      BY DEF StartsAfter
    <3>3. IsFiniteSet(StartsAfter(tail, c))
      BY <3>1, <3>2, FS_Subset
    <3> QED
      BY <3>1, <3>2, <3>3
  <2>2. ASSUME NEW x \in Int
        PROVE  x \in StartsAfter(tail, c) <=> x + through \in StartsAfter(messages, n)
    <3>1. ASSUME x > c PROVE x \in DOMAIN tail <=> x + through \in DOMAIN messages
      <4> DEFINE lt == Len(tail)
                 lm == Len(messages)
      <4>2. lt \in Nat /\ lm \in Nat /\ lt = IF through <= lm THEN lm - through ELSE 0
        BY <1>1
      <4> HIDE DEF lt, lm
      <4>3. x > 0
        BY <1>2, <1>3, <3>1
      <4>4. x <= lt <=> x + through <= lm
        BY <4>2, <4>3
      <4>1. x \in 1 .. lt <=> x + through \in 1 .. lm
        BY <4>2, <4>3, <4>4
      <4> QED
        BY <1>1, <4>1 DEF lt, lm
    <3>2. x > c <=> x + through > n
      BY <1>2
    <3>3. ASSUME x \in DOMAIN tail PROVE tail[x] = messages[x + through]
      <4>1. x + through = through + x
        OBVIOUS
      <4> QED
        BY <1>1, <3>3, <4>1
    <3> QED
      BY <3>1, <3>2, <3>3 DEF StartsAfter, TurnStarts
  <2> HIDE DEF n
  <2>3. Cardinality(StartsAfter(messages, n)) = Cardinality(StartsAfter(tail, c))
    <3> DEFINE A == StartsAfter(tail, c)
               B == StartsAfter(messages, n)
    <3>1. A \in SUBSET Int /\ IsFiniteSet(A) /\ B \in SUBSET Int /\ through \in Int
      BY <2>1
    <3>2. \A x \in Int : x \in A <=> x + through \in B
      BY <2>2
    <3> HIDE DEF A, B
    <3>3. Cardinality(B) = Cardinality(A)
      BY <3>1, <3>2, Shifted
    <3> QED
      BY <3>3 DEF A, B
  <2> QED
    BY <1>3, <2>3
<1>6. n \in Nat /\ KeepRecentTurns \in Nat
  BY <1>2, ConversationAssumption
<1> QED
  BY <1>4, <1>5, <1>6 DEF IsCut, tail, c

LEMMA Appended ==
    ASSUME NEW S, NEW s \in Seq(S), NEW m \in S
    PROVE  /\ Append(s, m) \in Seq(S) /\ Append(s, m) # <<>>
           /\ DOMAIN s = 1 .. Len(s) /\ Len(s) \in Nat
           /\ Len(Append(s, m)) = Len(s) + 1
           /\ DOMAIN Append(s, m) = 1 .. Len(s) + 1
           /\ \A i \in DOMAIN s : Append(s, m)[i] = s[i]
           /\ Append(s, m)[Len(s) + 1] = m
           /\ Front(Append(s, m)) = s /\ Last(Append(s, m)) = m
BY DEF Front, Last

LEMMA Shortened ==
    ASSUME NEW S, NEW s \in Seq(S), s # <<>>
    PROVE  /\ Front(s) \in Seq(S) /\ Last(s) \in S
           /\ DOMAIN s = 1 .. Len(s) /\ Len(s) \in Nat \ {0}
           /\ DOMAIN Front(s) = 1 .. Len(s) - 1 /\ Len(Front(s)) = Len(s) - 1
           /\ \A i \in 1 .. Len(s) - 1 : Front(s)[i] = s[i]
           /\ Append(Front(s), Last(s)) = s
<1>1. PICK t \in Seq(S), e \in S : s = Append(t, e)
  BY SequenceEmptyOrAppend
<1> QED
  BY <1>1, Appended

\* A cut stays one when the list grows.
LEMMA CutStays ==
    ASSUME NEW S, NEW s \in Seq(S), NEW t \in Seq(S), NEW n \in Nat, IsCut(s, n),
           TurnStarts(s) \subseteq TurnStarts(t)
    PROVE  IsCut(t, n)
<1>1. CASE n = 0
  BY <1>1 DEF IsCut
<1>2. CASE n # 0
  <2>1. StartsAfter(s, n) \in SUBSET StartsAfter(t, n)
    BY DEF StartsAfter
  <2>2. IsFiniteSet(StartsAfter(t, n))
    <3>1. StartsAfter(t, n) \in SUBSET TurnStarts(t)
      BY DEF StartsAfter
    <3> QED
      BY <3>1, StartsOfTurns, FS_Subset
  <2>3. /\ Cardinality(StartsAfter(s, n)) <= Cardinality(StartsAfter(t, n))
        /\ Cardinality(StartsAfter(s, n)) \in Nat /\ Cardinality(StartsAfter(t, n)) \in Nat
    BY <2>1, <2>2, FS_Subset, FS_CardinalityType
  <2>4. KeepRecentTurns \in Nat
    BY ConversationAssumption
  <2> QED
    BY <1>2, <2>3, <2>4 DEF IsCut
<1> QED
  BY <1>1, <1>2

-----------------------------------------------------------------------------
(* Types, and where the thread is. *)

\* What memory may hold: no torn line.
Messages == Lines \ {TornLine}

LEMMA KindsOfLines ==
    /\ User \in Messages
    /\ \A k \in CallCounts : Assistant(k) \in Messages
    /\ \A i \in 1 .. MaxCalls : ToolResult(i) \in Messages
    /\ Messages \subseteq Lines /\ TornLine \in Lines
    /\ \A m \in Lines : \/ m = User \/ m = TornLine
                        \/ \E k \in CallCounts : m = Assistant(k)
                        \/ \E i \in 1 .. MaxCalls : m = ToolResult(i)
<1>1. \A k : Assistant(k) # TornLine /\ ToolResult(k) # TornLine /\ User # TornLine
  BY Roles
<1>2. /\ User \in Lines /\ TornLine \in Lines
      /\ \A k \in CallCounts : Assistant(k) \in Lines
      /\ \A i \in 1 .. MaxCalls : ToolResult(i) \in Lines
  BY DEF Lines
<1>3. \A m \in Lines : \/ m = User \/ m = TornLine
                       \/ \E k \in CallCounts : m = Assistant(k)
                       \/ \E i \in 1 .. MaxCalls : m = ToolResult(i)
  BY DEF Lines
<1>4. /\ User \in Messages
      /\ \A k \in CallCounts : Assistant(k) \in Messages
      /\ \A i \in 1 .. MaxCalls : ToolResult(i) \in Messages
  BY <1>1, <1>2 DEF Messages
<1>5. Messages \subseteq Lines
  BY DEF Messages
<1> QED
  BY <1>2, <1>3, <1>4, <1>5

LEMMA InitialTypes == Init => TypeOK /\ Flow
<1> SUFFICES ASSUME Init PROVE TypeOK /\ Flow
  OBVIOUS
<1>1. TypeOK
  <2>1. \A S : <<>> \in Seq(S)
    OBVIOUS
  <2>2. 0 \in 0 .. MaxTurns /\ 0 \in 0 .. MaxIterations /\ 0 \in 0 .. Retries
    BY ConversationAssumption
  <2>3. messages \in Seq(Lines \ {TornLine}) /\ disk \in Seq(Lines)
    BY <2>1 DEF Init
  <2>4. calls \in CallCounts /\ answered \in 0 .. calls
    BY ConversationAssumption DEF Init
  <2>5. through \in Nat /\ metaOnDisk \in Nat \cup {Torn}
    BY DEF Init
  <2> QED
    BY <2>2, <2>3, <2>4, <2>5 DEF Init, TypeOK
<1>2. Flow
  BY DEF Init, Flow, Appending, InBatch
<1> QED
  BY <1>1, <1>2

LEMMA TypesStep == TypeOK /\ Flow /\ [Next]_vars => TypeOK' /\ Flow'
<1> SUFFICES ASSUME TypeOK, Flow, [Next]_vars PROVE TypeOK' /\ Flow'
  OBVIOUS
<1>0. /\ messages \in Seq(Messages) /\ disk \in Seq(Lines)
      /\ through \in Nat /\ metaOnDisk \in Nat \cup {Torn}
      /\ calls \in Nat /\ calls <= MaxCalls /\ answered \in Nat /\ answered <= calls
      /\ MaxCalls \in Nat /\ Retries \in Nat /\ MaxTurns \in Nat /\ MaxIterations \in Nat
      /\ 0 \in CallCounts
  BY ConversationAssumption DEF TypeOK, Messages
<1> DEFINE Data == /\ messages' \in Seq(Messages) /\ disk' \in Seq(Lines)
                   /\ through' \in Nat /\ metaOnDisk' \in Nat \cup {Torn}
           Counts == /\ turns' \in 0 .. MaxTurns /\ round' \in 0 .. MaxIterations
                     /\ attempt' \in 0 .. Retries
                     /\ calls' \in CallCounts /\ answered' \in 0 .. calls'
           Control == /\ pc' \in {"idle", "user", "write", "meta", "loop", "compact",
                                  "complete", "malformed", "tool", "asking", "decided", "down"}
                      /\ after' \in {"idle", "command", "user", "loop", "complete", "tool"}
                      /\ disturbed' \in BOOLEAN /\ hole' \in BOOLEAN
<1>1. Data
  <2>1. UNCHANGED <<messages, disk, through, metaOnDisk>> => Data
    BY <1>0
  <2>2. CASE \E m \in Messages, next \in {"loop", "idle", "tool"} : AppendMessage(m, next)
    BY <1>0, <2>2 DEF AppendMessage
  <2>3. ASSUME NEW next, CompactAndReturnTo(next) PROVE Data
    BY <1>0, <2>3, CompactionCuts DEF CompactAndReturnTo
  <2>4. CASE WriteLine
    <3>1. Last(messages) \in Lines
      <4>1. messages # <<>>
        BY <2>4 DEF WriteLine, Flow
      <4> QED
        BY <1>0, <4>1, Shortened, KindsOfLines
    <3> QED
      BY <1>0, <2>4, <3>1 DEF WriteLine
  <2>5. CASE WriteMeta
    BY <1>0, <2>5 DEF WriteMeta
  <2>6. CASE AppendUser
    BY <2>2, <2>6, KindsOfLines DEF AppendUser
  <2>7. CASE NextRound
    BY <2>1, <2>7 DEF NextRound, sessionVars
  <2>8. CASE MaybeCompact
    BY <2>1, <2>3, <2>8 DEF MaybeCompact, sessionVars
  <2>9. CASE \E k \in CallCounts : ModelAnswers(k)
    BY <2>2, <2>9, KindsOfLines DEF ModelAnswers
  <2>10. CASE \/ AskUser \/ UserDecides \/ ModelFails \/ RetryOrRaise \/ ToolRaises
              \/ RunTurn \/ ResumeFails
    BY <2>1, <2>10
    DEF AskUser, UserDecides, ModelFails, RetryOrRaise, ToolRaises, RunTurn, ResumeFails,
        sessionVars
  <2>11. CASE AnswerToolCall
    <3>1. answered + 1 \in 1 .. MaxCalls
      BY <1>0, <2>11 DEF AnswerToolCall, Flow, InBatch
    <3>2. NextAfterCall \in {"loop", "tool"}
      BY DEF NextAfterCall
    <3> QED
      BY <2>2, <2>11, <3>1, <3>2, KindsOfLines DEF AnswerToolCall
  <2>12. CASE ForceCompact
    BY <2>3, <2>12 DEF ForceCompact
  <2>13. CASE Interrupt
    BY <1>0, <2>13 DEF Interrupt
  <2>14. CASE Crash
    <3>1. TornLine \in Lines
      BY KindsOfLines
    <3>2. Append(disk, TornLine) \in Seq(Lines)
      BY <1>0, <3>1
    <3> QED
      BY <1>0, <2>14, <3>2 DEF Crash
  <2>15. CASE Resume
    <3>1. ASSUME TornLine \notin ToSet(disk) PROVE disk \in Seq(Messages)
      <4>1. disk \in [1 .. Len(disk) -> Lines] /\ Len(disk) \in Nat
        BY <1>0, LenProperties
      <4>2. \A i \in 1 .. Len(disk) : disk[i] # TornLine
        BY <3>1, <4>1 DEF ToSet
      <4>3. disk \in [1 .. Len(disk) -> Messages]
        BY <4>1, <4>2 DEF Messages
      <4> QED
        BY <4>1, <4>3, SeqDef
    <3> QED
      BY <1>0, <2>15, <3>1 DEF Resume, Openable, ReadMessages
  <2>16. CASE UNCHANGED vars
    BY <2>1, <2>16 DEF vars, sessionVars
  <2> QED
    BY <2>4, <2>5, <2>6, <2>7, <2>8, <2>9, <2>10, <2>11, <2>12, <2>13, <2>14, <2>15, <2>16
    DEF Next, AgentStep
<1>2. Counts
  <2>1. UNCHANGED turnVars => Counts
    BY DEF TypeOK, turnVars
  <2>2. TurnOver => Counts
    BY <1>0 DEF TypeOK, TurnOver
  <2>3. CASE \/ WriteLine \/ AppendUser \/ MaybeCompact \/ ForceCompact
             \/ Resume \/ ResumeFails \/ UNCHANGED vars
    BY <2>1, <2>3
    DEF WriteLine, AppendUser, MaybeCompact, ForceCompact, Resume, ResumeFails, vars
  <2>4. CASE WriteMeta \/ AskUser \/ UserDecides \/ ModelFails \/ ToolRaises \/ Interrupt \/ Crash
    BY <2>1, <2>2, <2>4 DEF WriteMeta, AskUser, UserDecides, ModelFails, ToolRaises, Interrupt, Crash
  <2>5. CASE NextRound
    BY <1>0, <2>2, <2>5 DEF NextRound, MoreRounds, TypeOK
  <2>6. CASE \E k \in CallCounts : ModelAnswers(k)
    <3>1. PICK k \in CallCounts : ModelAnswers(k)
      BY <2>6
    <3>2. k \in Nat
      BY ConversationAssumption
    <3> QED
      BY <3>1, <3>2 DEF ModelAnswers, TypeOK
  <2>7. CASE RetryOrRaise
    BY <1>0, <2>2, <2>7 DEF RetryOrRaise, MayRetry, NextAttempt, TypeOK
  <2>8. CASE AnswerToolCall
    BY <1>0, <2>8 DEF AnswerToolCall, Flow, InBatch, TypeOK
  <2>9. CASE RunTurn
    BY <1>0, <2>9 DEF RunTurn, TypeOK
  <2> QED
    BY <2>3, <2>4, <2>5, <2>6, <2>7, <2>8, <2>9 DEF Next, AgentStep
<1>3. Control /\ Flow'
  <2> USE DEF Flow, Appending, InBatch, TypeOK
  <2>1. CASE WriteLine
    BY <2>1 DEF WriteLine, turnVars
  <2>2. CASE WriteMeta
    BY <2>2 DEF WriteMeta, turnVars
  <2>3. CASE AppendUser
    BY <1>0, <2>3, KindsOfLines, Appended DEF AppendUser, AppendMessage
  <2>4. CASE NextRound
    BY <2>4 DEF NextRound
  <2>5. CASE MaybeCompact
    BY <2>5 DEF MaybeCompact, CompactAndReturnTo, sessionVars
  <2>6. ASSUME NEW k \in CallCounts, ModelAnswers(k) PROVE Control /\ Flow'
    <3>1. messages' # <<>>
      BY <1>0, <2>6, KindsOfLines, Appended DEF ModelAnswers, AppendMessage
    <3>2. k \in Nat
      BY ConversationAssumption
    <3> QED
      BY <2>6, <3>1, <3>2 DEF ModelAnswers, AppendMessage
  <2>7. CASE AskUser \/ UserDecides \/ ModelFails \/ RetryOrRaise \/ ToolRaises
    BY <2>7 DEF AskUser, UserDecides, ModelFails, RetryOrRaise, ToolRaises, turnVars
  <2>8. CASE AnswerToolCall
    <3>1. answered + 1 \in 1 .. MaxCalls
      BY <1>0, <2>8 DEF AnswerToolCall
    <3>2. messages' # <<>>
      BY <1>0, <2>8, <3>1, KindsOfLines, Appended DEF AnswerToolCall, AppendMessage
    <3> QED
      BY <1>0, <2>8, <3>2 DEF AnswerToolCall, AppendMessage, NextAfterCall
  <2>9. CASE RunTurn \/ ForceCompact
    BY <2>9 DEF RunTurn, ForceCompact, CompactAndReturnTo
  <2>10. CASE Interrupt \/ Crash
    BY <2>10 DEF Interrupt, Crash
  <2>11. CASE Resume \/ ResumeFails
    BY <2>11 DEF Resume, ResumeFails
  <2>12. CASE UNCHANGED vars
    BY <2>12 DEF vars, sessionVars, turnVars
  <2> QED
    BY <2>1, <2>2, <2>3, <2>4, <2>5, <2>6, <2>7, <2>8, <2>9, <2>10, <2>11, <2>12
    DEF Next, AgentStep
<1> QED
  BY <1>1, <1>2, <1>3 DEF TypeOK, Messages

-----------------------------------------------------------------------------
(* The transcript and the index. *)

LEMMA HoleStep ==
    ASSUME [Next]_vars, hole => disturbed
    PROVE  (hole' => disturbed') /\ (hole => hole')
<1>1. CASE UNCHANGED <<hole, disturbed>>
  BY <1>1
<1>2. CASE ToolRaises
  BY <1>2 DEF ToolRaises
<1>3. CASE Interrupt
  BY <1>3 DEF Interrupt
<1>4. CASE Crash
  <2>1. disturbed' = (disturbed \/ InTurn) /\ hole' = hole
    BY <1>4 DEF Crash
  <2> QED
    BY <2>1
<1> QED
  BY <1>1, <1>2, <1>3, <1>4
  DEF Next, AgentStep, WriteLine, WriteMeta, AppendUser, NextRound, MaybeCompact, ModelAnswers,
      AskUser, UserDecides, ModelFails, RetryOrRaise, AnswerToolCall, RunTurn, ForceCompact,
      Resume, ResumeFails, vars

LEMMA RecordedStep ==
    ASSUME TypeOK, Flow, Recorded, [Next]_vars, ~hole'
    PROVE  Recorded'
<1>0. messages \in Seq(Messages)
  BY DEF TypeOK, Messages
<1>1. CASE /\ UNCHANGED <<messages, disk>>
           /\ pc \notin {"write", "down"} /\ pc' \notin {"write", "down"}
  BY <1>1 DEF Recorded
<1>2. ASSUME NEW m \in Messages, NEW next, AppendMessage(m, next),
             pc \notin {"write", "down"}
      PROVE  Recorded'
  <2>1. Front(Append(messages, m)) = messages
    BY <1>0, Appended
  <2>2. disk' = messages /\ messages' = Append(messages, m) /\ pc' = "write"
    BY <1>2 DEF AppendMessage, Recorded
  <2> QED
    BY <2>1, <2>2 DEF Recorded
<1>3. CASE WriteLine
  <2>1. messages # <<>> /\ disk = Front(messages)
    BY <1>3 DEF WriteLine, Flow, Recorded
  <2>2. disk' = messages
    BY <1>0, <1>3, <2>1, Shortened DEF WriteLine
  <2> QED
    BY <1>3, <2>2 DEF WriteLine, Recorded
<1>4. CASE WriteMeta
  <2>1. after # "write" /\ after # "down"
    BY DEF TypeOK
  <2> QED
    BY <1>1, <1>4, <2>1 DEF WriteMeta
<1>5. CASE AppendUser
  BY <1>2, <1>5, KindsOfLines DEF AppendUser
<1>6. CASE NextRound
  BY <1>1, <1>6 DEF NextRound, sessionVars
<1>7. CASE MaybeCompact \/ ForceCompact
  BY <1>1, <1>7 DEF MaybeCompact, ForceCompact, CompactAndReturnTo, sessionVars
<1>8. ASSUME NEW k \in CallCounts, ModelAnswers(k) PROVE Recorded'
  BY <1>2, <1>8, KindsOfLines DEF ModelAnswers
<1>9. CASE AskUser \/ UserDecides \/ ModelFails \/ RetryOrRaise \/ RunTurn
  BY <1>1, <1>9 DEF AskUser, UserDecides, ModelFails, RetryOrRaise, RunTurn, sessionVars
<1>10. CASE AnswerToolCall
  <2>1. answered + 1 \in 1 .. MaxCalls
    BY <1>10, ConversationAssumption DEF AnswerToolCall, Flow, InBatch, TypeOK
  <2> QED
    BY <1>2, <1>10, <2>1, KindsOfLines DEF AnswerToolCall
<1>11. CASE ToolRaises \/ ResumeFails
  BY <1>11 DEF ToolRaises, ResumeFails, sessionVars, Recorded
<1>12. CASE Interrupt
  BY <1>1, <1>12 DEF Interrupt, InTurn
<1>13. CASE Crash
  <2>1. CASE pc = "write"
    <3>1. /\ disk = Front(messages) /\ messages # <<>>
          /\ UNCHANGED messages /\ pc' = "down"
          /\ disk' \in {disk, Append(disk, TornLine)} /\ disturbed'
      BY <1>13, <2>1 DEF Crash, InTurn, InCommand, Recorded, Flow
    <3> QED
      BY <3>1 DEF Recorded, Lagging
  <2>2. CASE pc # "write"
    BY <1>13, <2>2 DEF Crash, Recorded
  <2> QED
    BY <2>1, <2>2
<1>14. CASE Resume
  BY <1>14 DEF Resume, ReadMessages, Recorded
<1>15. CASE UNCHANGED vars
  BY <1>15 DEF vars, sessionVars, Recorded, Lagging
<1> QED
  BY <1>3, <1>4, <1>5, <1>6, <1>7, <1>8, <1>9, <1>10, <1>11, <1>12, <1>13, <1>14, <1>15
  DEF Next, AgentStep

LEMMA CutsStep ==
    ASSUME TypeOK, Flow, Recorded, CutsAreTurns, [Next]_vars, ~hole'
    PROVE  CutsAreTurns'
<1>0. /\ messages \in Seq(Messages) /\ disk \in Seq(Lines) /\ Messages \subseteq Lines
      /\ through \in Nat /\ metaOnDisk \in Nat \cup {Torn}
  BY KindsOfLines DEF TypeOK, Messages
<1>1. CASE UNCHANGED <<disk, through>> /\ metaOnDisk' \in {through, metaOnDisk, Torn}
  BY <1>1 DEF CutsAreTurns, IsCut
<1>2. ASSUME NEW m \in Lines, disk' = Append(disk, m), UNCHANGED <<through, metaOnDisk>>
      PROVE  CutsAreTurns'
  <2>1. Append(disk, m) \in Seq(Lines) /\ TurnStarts(disk) \subseteq TurnStarts(Append(disk, m))
    BY <1>0, Appended DEF TurnStarts
  <2>2. \A n \in Nat : IsCut(disk, n) => IsCut(disk', n)
    BY <1>0, <1>2, <2>1, CutStays
  <2> QED
    BY <1>0, <1>2, <2>2 DEF CutsAreTurns
<1>3. ASSUME NEW next, CompactAndReturnTo(next), disk = messages PROVE CutsAreTurns'
  <2>1. IsCut(messages, through')
    BY <1>0, <1>3, CompactionCuts DEF CompactAndReturnTo
  <2> QED
    BY <1>3, <2>1 DEF CompactAndReturnTo, CutsAreTurns
<1>4. CASE WriteLine
  <2>1. Last(messages) \in Lines
    BY <1>0, <1>4, Shortened DEF WriteLine, Flow
  <2> QED
    BY <1>2, <1>4, <2>1 DEF WriteLine
<1>5. CASE WriteMeta
  BY <1>1, <1>5 DEF WriteMeta
<1>6. CASE AppendUser \/ AnswerToolCall
  BY <1>1, <1>6 DEF AppendUser, AnswerToolCall, AppendMessage
<1>7. CASE \/ NextRound \/ AskUser \/ UserDecides \/ ModelFails \/ RetryOrRaise \/ RunTurn
           \/ ToolRaises \/ ResumeFails
  BY <1>1, <1>7
  DEF NextRound, AskUser, UserDecides, ModelFails, RetryOrRaise, RunTurn, ToolRaises,
      ResumeFails, sessionVars
<1>8. CASE MaybeCompact
  BY <1>1, <1>3, <1>8 DEF MaybeCompact, sessionVars, Recorded
<1>9. CASE ForceCompact
  BY <1>3, <1>9 DEF ForceCompact, Recorded
<1>10. ASSUME NEW k \in CallCounts, ModelAnswers(k) PROVE CutsAreTurns'
  BY <1>1, <1>10 DEF ModelAnswers, AppendMessage
<1>11. CASE Interrupt
  BY <1>1, <1>11 DEF Interrupt
<1>12. CASE Crash
  <2>1. CASE UNCHANGED disk
    BY <1>1, <1>12, <2>1 DEF Crash
  <2>2. CASE pc = "write" /\ disk' = Append(disk, TornLine)
    <3>1. UNCHANGED <<through, metaOnDisk>>
      BY <1>12, <2>2 DEF Crash
    <3> QED
      BY <1>2, <2>2, <3>1, KindsOfLines
  <2> QED
    BY <1>12, <2>1, <2>2 DEF Crash
<1>13. CASE Resume
  BY <1>13 DEF Resume, Openable, CutsAreTurns, IsCut
<1>14. CASE UNCHANGED vars
  BY <1>1, <1>14 DEF vars, sessionVars
<1> QED
  BY <1>4, <1>5, <1>6, <1>7, <1>8, <1>9, <1>10, <1>11, <1>12, <1>13, <1>14 DEF Next, AgentStep

-----------------------------------------------------------------------------
(* Calls and their results. *)

LEMMA BatchStep ==
    ASSUME TypeOK, Flow, BatchIsLast, [Next]_vars
    PROVE  BatchIsLast'
<1>0. /\ messages \in Seq(Messages) /\ Len(messages) \in Nat
      /\ calls \in Nat /\ calls <= MaxCalls /\ answered \in Nat /\ MaxCalls \in Nat
  BY ConversationAssumption DEF TypeOK, Messages
<1> USE DEF InBatch, Appending
<1>1. CASE ~InBatch'
  BY <1>1 DEF BatchIsLast
<1>2. CASE UNCHANGED <<messages, calls, answered>> /\ InBatch
  BY <1>2 DEF BatchIsLast, Batch
<1>3. CASE WriteLine \/ WriteMeta \/ UNCHANGED vars
  BY <1>1, <1>2, <1>3 DEF WriteLine, WriteMeta, turnVars, vars, sessionVars, TypeOK
<1>4. CASE \/ AppendUser \/ NextRound \/ MaybeCompact \/ AskUser \/ UserDecides
           \/ ModelFails \/ RetryOrRaise \/ ToolRaises \/ RunTurn \/ ForceCompact
           \/ Interrupt \/ Crash \/ Resume \/ ResumeFails
  BY <1>1, <1>2, <1>4
  DEF AppendUser, NextRound, MaybeCompact, AskUser, UserDecides, ModelFails, RetryOrRaise,
      ToolRaises, RunTurn, ForceCompact, Interrupt, Crash, Resume, ResumeFails, AppendMessage,
      CompactAndReturnTo, sessionVars, turnVars
<1>5. ASSUME NEW k \in CallCounts, ModelAnswers(k) PROVE BatchIsLast'
  <2>1. /\ messages' = Append(messages, Assistant(k)) /\ Assistant(k) \in Messages
        /\ calls' = k /\ answered' = 0
    BY <1>5, KindsOfLines DEF ModelAnswers, AppendMessage
  <2>2. /\ Len(messages') = Len(messages) + 1 /\ DOMAIN messages' = 1 .. Len(messages) + 1
        /\ messages'[Len(messages) + 1] = Assistant(k)
    BY <1>0, <2>1, Appended
  <2>3. Batch' = Len(messages) + 1
    BY <1>0, <2>1, <2>2 DEF Batch
  <2> QED
    BY <1>0, <2>1, <2>2, <2>3 DEF BatchIsLast, Flow
<1>6. CASE AnswerToolCall
  <2>1. /\ answered < calls /\ Batch \in DOMAIN messages
        /\ messages[Batch] = Assistant(calls)
        /\ \A k \in 1 .. answered : messages[Batch + k] = ToolResult(k)
    BY <1>6 DEF AnswerToolCall, BatchIsLast, Flow
  <2>2. /\ messages' = Append(messages, ToolResult(answered + 1))
        /\ ToolResult(answered + 1) \in Messages
        /\ calls' = calls /\ answered' = answered + 1
    <3>1. answered + 1 \in 1 .. MaxCalls
      BY <1>0, <2>1
    <3> QED
      BY <1>6, <3>1, KindsOfLines DEF AnswerToolCall, AppendMessage
  <2>3. /\ Len(messages') = Len(messages) + 1
        /\ DOMAIN messages = 1 .. Len(messages)
        /\ DOMAIN messages' = 1 .. Len(messages) + 1
        /\ messages'[Len(messages) + 1] = ToolResult(answered + 1)
        /\ \A i \in 1 .. Len(messages) : messages'[i] = messages[i]
    BY <1>0, <2>2, Appended
  <2>4. Batch' = Batch /\ Batch \in 1 .. Len(messages) /\ Batch + answered = Len(messages)
    BY <1>0, <2>1, <2>2, <2>3 DEF Batch
  <2>5. \A k \in 1 .. answered + 1 : messages'[Batch + k] = ToolResult(k)
    <3> TAKE k \in 1 .. answered + 1
    <3>1. CASE k = answered + 1
      BY <1>0, <2>3, <2>4, <3>1
    <3>2. CASE k \in 1 .. answered
      <4>1. Batch + k \in 1 .. Len(messages)
        BY <1>0, <2>4, <3>2
      <4> QED
        BY <2>1, <2>3, <3>2, <4>1
    <3> QED
      BY <1>0, <3>1, <3>2
  <2>6. messages'[Batch] = Assistant(calls) /\ Batch \in DOMAIN messages'
    BY <1>0, <2>1, <2>3, <2>4
  <2> QED
    BY <2>2, <2>4, <2>5, <2>6 DEF BatchIsLast
<1> QED
  BY <1>3, <1>4, <1>5, <1>6 DEF Next, AgentStep

\* What is an answer in one list is one in another that agrees with it there.
LEMMA AnswerMoves ==
    ASSUME NEW s, NEW t, NEW a \in Int, NEW i \in Nat, NEW j \in Int, NEW d \in Int,
           IsAnswerTo(s, a, i, j), \A x \in a .. j : t[x + d] = s[x]
    PROVE  IsAnswerTo(t, a + d, i, j + d)
<1>1. /\ s[a].role = "assistant" /\ s[a].calls >= i /\ j = a + i
      /\ \A k \in 1 .. i : s[a + k] = ToolResult(k)
  BY DEF IsAnswerTo
<1>2. t[a + d] = s[a]
  <2>1. a \in a .. j
    BY <1>1
  <2> QED
    BY <2>1
<1>3. ASSUME NEW k \in 1 .. i PROVE t[(a + d) + k] = ToolResult(k)
  <2>1. a + k \in a .. j /\ (a + k) + d = (a + d) + k
    BY <1>1
  <2>2. t[(a + k) + d] = s[a + k]
    BY <2>1
  <2> QED
    BY <1>1, <2>1, <2>2
<1>4. j + d = (a + d) + i
  BY <1>1
<1> QED
  BY <1>1, <1>2, <1>3, <1>4 DEF IsAnswerTo

LEMMA CallsAreNumbers ==
    ASSUME NEW m \in Lines
    PROVE  /\ m.role = "tool" => m.call \in Nat \ {0} /\ m = ToolResult(m.call)
           /\ m.role = "assistant" => m.calls \in Nat /\ m = Assistant(m.calls)
           /\ m.role = "user" => m = User
<1>1. CASE m = User \/ m = TornLine
  BY <1>1, Roles
<1>2. CASE \E k \in CallCounts : m = Assistant(k)
  BY <1>2, Roles, ConversationAssumption
<1>3. CASE \E i \in 1 .. MaxCalls : m = ToolResult(i)
  BY <1>3, Roles, ConversationAssumption
<1> QED
  BY <1>1, <1>2, <1>3, KindsOfLines

LEMMA FollowsInLonger ==
    ASSUME NEW s \in Seq(Lines), Follows(s), NEW t, NEW j \in DOMAIN s,
           \A x \in 1 .. j : t[x] = s[x], t[j].role = "tool"
    PROVE  \E a \in 1 .. j - 1 : IsAnswerTo(t, a, t[j].call, j)
<1>1. j \in 1 .. Len(s) /\ Len(s) \in Nat /\ t[j] = s[j] /\ s[j] \in Lines
  OBVIOUS
<1>2. s[j].role = "tool" /\ s[j].call \in Nat
  BY <1>1, CallsAreNumbers
<1>3. PICK a \in 1 .. j - 1 : IsAnswerTo(s, a, s[j].call, j)
  BY <1>2 DEF Follows
<1>4. \A x \in a .. j : t[x + 0] = s[x]
  BY <1>1, <1>3
<1>5. IsAnswerTo(t, a + 0, s[j].call, j + 0)
  <2> DEFINE i == s[j].call
  <2>1. i \in Nat /\ IsAnswerTo(s, a, i, j) /\ a \in Int /\ j \in Int /\ 0 \in Int
    BY <1>1, <1>2, <1>3
  <2> HIDE DEF i
  <2>2. IsAnswerTo(t, a + 0, i, j + 0)
    BY <1>4, <2>1, AnswerMoves
  <2> QED
    BY <2>2 DEF i
<1>6. a + 0 = a /\ j + 0 = j
  BY <1>1, <1>3
<1> QED
  BY <1>1, <1>3, <1>5, <1>6

LEMMA FollowsStep ==
    ASSUME TypeOK, Flow, Recorded, BatchIsLast, Follows(messages), [Next]_vars, ~hole'
    PROVE  Follows(messages')
<1>0. /\ messages \in Seq(Messages) /\ messages \in Seq(Lines) /\ Len(messages) \in Nat
      /\ DOMAIN messages = 1 .. Len(messages)
      /\ answered \in Nat /\ calls \in Nat /\ calls <= MaxCalls /\ MaxCalls \in Nat
  BY KindsOfLines, ConversationAssumption DEF TypeOK, Messages
<1>1. CASE UNCHANGED messages
  BY <1>1
<1>2. ASSUME NEW m \in Messages, messages' = Append(messages, m),
             m.role = "tool" =>
                 \E a \in 1 .. Len(messages) : IsAnswerTo(messages', a, m.call, Len(messages) + 1)
      PROVE  Follows(messages')
  <2>1. /\ DOMAIN messages' = 1 .. Len(messages) + 1
        /\ messages'[Len(messages) + 1] = m
        /\ \A i \in 1 .. Len(messages) : messages'[i] = messages[i]
    BY <1>0, <1>2, Appended
  <2> SUFFICES ASSUME NEW j \in DOMAIN messages', messages'[j].role = "tool"
               PROVE  \E a \in 1 .. j - 1 : IsAnswerTo(messages', a, messages'[j].call, j)
    BY DEF Follows
  <2>2. CASE j = Len(messages) + 1
    <3>1. j - 1 = Len(messages)
      BY <1>0, <2>2
    <3> QED
      BY <1>2, <2>1, <2>2, <3>1
  <2>3. CASE j \in DOMAIN messages
    <3>1. \A x \in 1 .. j : messages'[x] = messages[x]
      BY <1>0, <2>1, <2>3
    <3> DEFINE t == messages'
    <3>2. \A x \in 1 .. j : t[x] = messages[x]
      BY <3>1
    <3>3. t[j].role = "tool"
      OBVIOUS
    <3> HIDE DEF t
    <3>4. \E a \in 1 .. j - 1 : IsAnswerTo(t, a, t[j].call, j)
      BY <1>0, <2>3, <3>2, <3>3, FollowsInLonger
    <3> QED
      BY <3>4 DEF t
  <2> QED
    BY <1>0, <2>1, <2>2, <2>3
<1>3. CASE \/ WriteLine \/ WriteMeta \/ NextRound \/ MaybeCompact \/ AskUser
           \/ UserDecides \/ ModelFails \/ RetryOrRaise \/ ToolRaises \/ RunTurn
           \/ ForceCompact \/ Interrupt \/ Crash \/ ResumeFails \/ UNCHANGED vars
  BY <1>1, <1>3
  DEF WriteLine, WriteMeta, NextRound, MaybeCompact, AskUser, UserDecides, ModelFails,
      RetryOrRaise, ToolRaises, RunTurn, ForceCompact, Interrupt, Crash, ResumeFails,
      CompactAndReturnTo, sessionVars, vars
<1>4. CASE AppendUser
  BY <1>2, <1>4, KindsOfLines, Roles DEF AppendUser, AppendMessage
<1>5. ASSUME NEW k \in CallCounts, ModelAnswers(k) PROVE Follows(messages')
  BY <1>2, <1>5, KindsOfLines, Roles DEF ModelAnswers, AppendMessage
<1>6. CASE AnswerToolCall
  <2>1. /\ answered < calls /\ Batch \in DOMAIN messages
        /\ messages[Batch] = Assistant(calls)
        /\ \A k \in 1 .. answered : messages[Batch + k] = ToolResult(k)
    BY <1>6 DEF AnswerToolCall, BatchIsLast, Flow, InBatch
  <2>2. /\ messages' = Append(messages, ToolResult(answered + 1))
        /\ ToolResult(answered + 1) \in Messages
    <3>1. answered + 1 \in 1 .. MaxCalls
      BY <1>0, <2>1
    <3> QED
      BY <1>6, <3>1, KindsOfLines DEF AnswerToolCall, AppendMessage
  <2>3. /\ messages'[Len(messages) + 1] = ToolResult(answered + 1)
        /\ \A i \in 1 .. Len(messages) : messages'[i] = messages[i]
    BY <1>0, <2>2, Appended
  <2>4. Batch \in 1 .. Len(messages) /\ Batch + answered = Len(messages)
    BY <1>0, <2>1 DEF Batch
  <2>5. messages'[Batch].role = "assistant" /\ messages'[Batch].calls >= answered + 1
    <3>1. messages'[Batch] = Assistant(calls)
      BY <2>1, <2>3, <2>4
    <3>2. calls >= answered + 1
      BY <1>0, <2>1
    <3> QED
      BY <3>1, <3>2, Roles
  <2>6. ASSUME NEW k \in 1 .. answered + 1 PROVE messages'[Batch + k] = ToolResult(k)
    <3>1. CASE k = answered + 1
      BY <1>0, <2>3, <2>4, <3>1
    <3>2. CASE k \in 1 .. answered
      <4>1. Batch + k \in 1 .. Len(messages)
        BY <1>0, <2>4, <3>2
      <4> QED
        BY <2>1, <2>3, <3>2, <4>1
    <3> QED
      BY <1>0, <3>1, <3>2
  <2>7. IsAnswerTo(messages', Batch, answered + 1, Len(messages) + 1)
    <3>1. Len(messages) + 1 = Batch + (answered + 1)
      BY <1>0, <2>4
    <3> QED
      BY <2>5, <2>6, <3>1 DEF IsAnswerTo
  <2> QED
    BY <1>2, <2>2, <2>4, <2>7, Roles
<1>7. CASE Resume
  <2>1. messages' = disk /\ TornLine \notin ToSet(disk) /\ (disk = messages \/ Lagging)
    BY <1>7 DEF Resume, ReadMessages, Openable, Recorded
  <2>2. CASE disk = messages
    BY <2>1, <2>2
  <2>3. CASE Lagging
    <3>1. disk # Append(Front(messages), TornLine)
      <4>1. /\ Front(messages) \in Seq(Lines) /\ TornLine \in Lines
        BY <1>0, <2>3, Shortened, KindsOfLines DEF Lagging
      <4>2. TornLine \in ToSet(Append(Front(messages), TornLine))
        BY <4>1, Appended DEF ToSet
      <4> QED
        BY <2>1, <4>2
    <3>2. messages' = Front(messages) /\ messages # <<>>
      BY <2>1, <2>3, <3>1 DEF Lagging
    <3>3. /\ DOMAIN messages' = 1 .. Len(messages) - 1
          /\ \A i \in 1 .. Len(messages) - 1 : messages'[i] = messages[i]
      BY <1>0, <3>2, Shortened
    <3> DEFINE t == messages'
    <3>4. /\ DOMAIN t = 1 .. Len(messages) - 1
          /\ \A i \in 1 .. Len(messages) - 1 : t[i] = messages[i]
      BY <3>3
    <3> HIDE DEF t
    <3>5. ASSUME NEW j \in DOMAIN t, t[j].role = "tool"
          PROVE  \E a \in 1 .. j - 1 : IsAnswerTo(t, a, t[j].call, j)
      <4>1. j \in DOMAIN messages /\ \A x \in 1 .. j : t[x] = messages[x]
        BY <1>0, <3>4
      <4> QED
        BY <1>0, <3>5, <4>1, FollowsInLonger
    <3>6. Follows(t)
      BY <3>5 DEF Follows
    <3> QED
      BY <3>6 DEF t
  <2> QED
    BY <2>1, <2>2, <2>3
<1> QED
  BY <1>3, <1>4, <1>5, <1>6, <1>7 DEF Next, AgentStep

LEMMA SettledStep ==
    ASSUME TypeOK, Flow, BatchIsLast, Settled, hole => disturbed, ~hole => Recorded,
           [Next]_vars, ~disturbed'
    PROVE  Settled'
<1>0. /\ messages \in Seq(Messages) /\ messages \in Seq(Lines) /\ Len(messages) \in Nat
      /\ DOMAIN messages = 1 .. Len(messages)
      /\ answered \in Nat /\ calls \in Nat /\ calls <= MaxCalls /\ MaxCalls \in Nat
  BY KindsOfLines, ConversationAssumption DEF TypeOK, Messages
<1>1. CASE /\ UNCHANGED messages
           /\ InBatch => InBatch' /\ UNCHANGED answered
  BY <1>1 DEF Settled, Batch
<1>2. ASSUME NEW m \in Messages, messages' = Append(messages, m), NEW a \in DOMAIN messages,
             messages[a].role = "assistant", Answered(messages, a)
      PROVE  Answered(messages', a)
  <2>1. /\ Len(messages') = Len(messages) + 1
        /\ \A i \in 1 .. Len(messages) : messages'[i] = messages[i]
    BY <1>0, <1>2, Appended
  <2>2. messages[a].calls \in Nat /\ messages'[a] = messages[a] /\ a \in 1 .. Len(messages)
    <3>1. messages[a] \in Lines
      BY <1>0
    <3> QED
      BY <1>0, <1>2, <2>1, <3>1, CallsAreNumbers
  <2>3. ASSUME NEW i \in 1 .. messages[a].calls
        PROVE  a + i <= Len(messages') /\ messages'[a + i] = ToolResult(i)
    <3>1. a + i \in 1 .. Len(messages) /\ messages[a + i] = ToolResult(i)
      BY <1>0, <1>2, <2>2 DEF Answered
    <3> QED
      BY <1>0, <2>1, <3>1
  <2> QED
    BY <2>2, <2>3 DEF Answered
<1>3. ASSUME NEW m \in Messages, messages' = Append(messages, m),
             \A a \in DOMAIN messages :
                 messages[a].role = "assistant" =>
                     Answered(messages, a) \/ Answered(messages', a) \/ (InBatch' /\ a = Batch'),
             m.role = "assistant" =>
                 \/ Answered(messages', Len(messages) + 1)
                 \/ InBatch' /\ Len(messages) + 1 = Batch'
      PROVE  Settled'
  <2>1. /\ DOMAIN messages' = 1 .. Len(messages) + 1
        /\ messages'[Len(messages) + 1] = m
        /\ \A i \in 1 .. Len(messages) : messages'[i] = messages[i]
    BY <1>0, <1>3, Appended
  <2> SUFFICES ASSUME NEW a \in DOMAIN messages', messages'[a].role = "assistant"
               PROVE  Answered(messages', a) \/ (InBatch' /\ a = Batch')
    BY DEF Settled
  <2>2. CASE a = Len(messages) + 1
    BY <1>3, <2>1, <2>2
  <2>3. CASE a \in DOMAIN messages
    BY <1>0, <1>2, <1>3, <2>1, <2>3
  <2> QED
    BY <1>0, <2>1, <2>2, <2>3
<1>4. CASE WriteLine
  BY <1>1, <1>4 DEF WriteLine, turnVars, InBatch, Appending
<1>5. CASE WriteMeta
  BY <1>1, <1>5 DEF WriteMeta, turnVars, InBatch, Appending
<1>6. CASE \/ NextRound \/ MaybeCompact \/ AskUser \/ UserDecides \/ ModelFails
           \/ RetryOrRaise \/ RunTurn \/ ForceCompact \/ ResumeFails
  BY <1>1, <1>6
  DEF NextRound, MaybeCompact, AskUser, UserDecides, ModelFails, RetryOrRaise, RunTurn,
      ForceCompact, ResumeFails, CompactAndReturnTo, sessionVars, turnVars, InBatch, Appending
<1>7. CASE AppendUser
  BY <1>3, <1>7, KindsOfLines, Roles
  DEF AppendUser, AppendMessage, Settled, InBatch, Appending
<1>8. ASSUME NEW k \in CallCounts, ModelAnswers(k) PROVE Settled'
  <2>1. /\ messages' = Append(messages, Assistant(k)) /\ Assistant(k) \in Messages
        /\ answered' = 0 /\ pc' = "write" /\ (k # 0 => after' = "tool") /\ ~InBatch
    BY <1>8, KindsOfLines DEF ModelAnswers, AppendMessage, InBatch, Appending
  <2>2. /\ Len(messages') = Len(messages) + 1
        /\ messages'[Len(messages) + 1] = Assistant(k)
    BY <1>0, <2>1, Appended
  <2>3. CASE k = 0
    <3>1. Answered(messages', Len(messages) + 1)
      BY <2>2, <2>3, Roles DEF Answered
    <3> QED
      BY <1>3, <2>1, <3>1 DEF Settled
  <2>4. CASE k # 0
    <3>1. InBatch' /\ Len(messages) + 1 = Batch'
      BY <1>0, <2>1, <2>2, <2>4 DEF InBatch, Appending, Batch
    <3> QED
      BY <1>3, <2>1, <3>1 DEF Settled
  <2> QED
    BY <2>3, <2>4
<1>9. CASE AnswerToolCall
  <2>1. /\ InBatch /\ answered < calls /\ Batch \in DOMAIN messages
        /\ messages[Batch] = Assistant(calls)
        /\ \A k \in 1 .. answered : messages[Batch + k] = ToolResult(k)
    BY <1>9 DEF AnswerToolCall, BatchIsLast, Flow, InBatch
  <2>2. /\ messages' = Append(messages, ToolResult(answered + 1))
        /\ ToolResult(answered + 1) \in Messages
        /\ answered' = answered + 1 /\ calls' = calls
        /\ pc' = "write" /\ (answered + 1 < calls => after' = "tool")
    <3>1. answered + 1 \in 1 .. MaxCalls
      BY <1>0, <2>1
    <3> QED
      BY <1>9, <3>1, KindsOfLines DEF AnswerToolCall, AppendMessage, NextAfterCall
  <2>3. /\ Len(messages') = Len(messages) + 1
        /\ messages'[Len(messages) + 1] = ToolResult(answered + 1)
        /\ \A i \in 1 .. Len(messages) : messages'[i] = messages[i]
    BY <1>0, <2>2, Appended
  <2>4. Batch' = Batch /\ Batch \in 1 .. Len(messages) /\ Batch + answered = Len(messages)
    BY <1>0, <2>1, <2>2, <2>3 DEF Batch
  <2>5. Answered(messages', Batch) \/ (InBatch' /\ Batch = Batch')
    <3>1. CASE answered + 1 < calls
      BY <2>2, <2>4, <3>1 DEF InBatch, Appending
    <3>2. CASE answered + 1 = calls
      <4>1. messages'[Batch] = Assistant(calls)
        BY <2>1, <2>3, <2>4
      <4>2. ASSUME NEW k \in 1 .. calls
            PROVE  Batch + k <= Len(messages') /\ messages'[Batch + k] = ToolResult(k)
        <5>1. CASE k = answered + 1
          BY <1>0, <2>3, <2>4, <5>1
        <5>2. CASE k \in 1 .. answered
          <6>1. Batch + k \in 1 .. Len(messages)
            BY <1>0, <2>4, <5>2
          <6> QED
            BY <1>0, <2>1, <2>3, <5>2, <6>1
        <5> QED
          BY <1>0, <3>2, <5>1, <5>2
      <4> QED
        BY <4>1, <4>2, Roles DEF Answered
    <3> QED
      BY <1>0, <2>1, <3>1, <3>2
  <2>6. ToolResult(answered + 1).role # "assistant"
    BY Roles
  <2> QED
    BY <1>3, <2>1, <2>2, <2>5, <2>6 DEF Settled
<1>10. CASE ToolRaises \/ Interrupt
  BY <1>10 DEF ToolRaises, Interrupt
<1>11. CASE Crash
  <2>1. disturbed' = (disturbed \/ InTurn)
    BY <1>11 DEF Crash
  <2>2. ~InTurn
    BY <2>1
  <2>3. ~InBatch
    BY <1>11, <2>2 DEF Crash, InBatch, InTurn, InCommand, Appending
  <2> QED
    BY <1>1, <1>11, <2>3 DEF Crash
<1>12. CASE Resume
  <2>1. disturbed' = disturbed /\ pc \in {"idle", "down"} /\ messages' = disk
    BY <1>12 DEF Resume, ReadMessages
  <2>2. ~disturbed /\ ~hole
    BY <2>1
  <2>3. messages' = messages
    BY <2>1, <2>2 DEF Recorded
  <2>4. ~InBatch
    BY <2>1 DEF InBatch, Appending
  <2> QED
    BY <1>1, <2>3, <2>4
<1>13. CASE UNCHANGED vars
  BY <1>1, <1>13 DEF vars, sessionVars, turnVars, InBatch, Appending
<1> QED
  BY <1>4, <1>5, <1>6, <1>7, <1>8, <1>9, <1>10, <1>11, <1>12, <1>13 DEF Next, AgentStep

-----------------------------------------------------------------------------
(* The inductive invariant. *)

\* Every behaviour of the agent loop over a session keeps types, the flow of the
\* thread, the transcript, the index and the batch in order.
THEOREM Invariance == Spec => []Inv
<1>1. Init => Inv
  <2> SUFFICES ASSUME Init PROVE Inv
    OBVIOUS
  <2>1. TypeOK /\ Flow
    BY InitialTypes
  <2>2. /\ messages = <<>> /\ disk = <<>> /\ through = 0 /\ metaOnDisk = 0
        /\ pc = "idle" /\ after = "idle" /\ hole = FALSE /\ disturbed = FALSE
    BY DEF Init
  <2>3. DOMAIN messages = {}
    <3>1. DOMAIN <<>> = {}
      OBVIOUS
    <3> QED
      BY <2>2, <3>1
  <2>4. Recorded /\ CutsAreTurns /\ BatchIsLast
    BY <2>2 DEF Recorded, CutsAreTurns, IsCut, BatchIsLast, InBatch, Appending
  <2>5. Follows(messages) /\ Settled
    BY <2>3 DEF Follows, Settled
  <2> QED
    BY <2>1, <2>2, <2>4, <2>5 DEF Inv
<1>2. Inv /\ [Next]_vars => Inv'
  <2> SUFFICES ASSUME Inv, [Next]_vars PROVE Inv'
    OBVIOUS
  <2>0. /\ TypeOK /\ Flow /\ BatchIsLast /\ (hole => disturbed)
        /\ (~hole => Recorded /\ CutsAreTurns /\ Follows(messages))
        /\ (~disturbed => Settled)
    BY DEF Inv
  <2>1. TypeOK' /\ Flow'
    BY <2>0, TypesStep
  <2>2. BatchIsLast'
    BY <2>0, BatchStep
  <2>3. (hole' => disturbed') /\ (hole => hole')
    BY <2>0, HoleStep
  <2>4. ~hole' => Recorded' /\ CutsAreTurns' /\ Follows(messages')
    BY <2>0, <2>3, RecordedStep, CutsStep, FollowsStep
  <2>5. disturbed => disturbed'
    BY DEF Next, AgentStep, WriteLine, WriteMeta, AppendUser, NextRound, MaybeCompact,
           ModelAnswers, AskUser, UserDecides, ModelFails, RetryOrRaise, AnswerToolCall, ToolRaises, RunTurn,
           ForceCompact, Interrupt, Crash, Resume, ResumeFails, vars
  <2>6. ~disturbed' => Settled'
    BY <2>0, <2>5, SettledStep
  <2> QED
    BY <2>1, <2>2, <2>3, <2>4, <2>6 DEF Inv
<1> QED
  BY <1>1, <1>2, PTL DEF Spec

\* The agent loop keeps to its types: rounds within max_iterations, retries within
\* _MALFORMED_RETRIES, no result beyond the calls of the response.
THEOREM TypeCorrect == Spec => []TypeOK
BY Invariance, PTL DEF Inv

\* Session.append: between two appends the transcript is the conversation, and a
\* process that died has lost no more than its last message, whatever was
\* compacted and however often the session was resumed.
THEOREM TranscriptIsComplete == Spec => []TranscriptComplete
<1>1. Inv => TranscriptComplete
  BY DEF Inv, TranscriptComplete, Recorded, Lagging
<1> QED
  BY <1>1, Invariance, PTL

\* An index into the transcript is one into the messages.
LEMMA IndexIsCut ==
    ASSUME TypeOK, Recorded, Flow, CutsAreTurns
    PROVE  IsCut(messages, through)
<1>0. /\ messages \in Seq(Lines) /\ disk \in Seq(Lines) /\ through \in Nat
      /\ IsCut(disk, through) /\ TornLine \in Lines
  <2>1. messages \in Seq(Messages) /\ disk \in Seq(Lines)
    BY DEF TypeOK, Messages
  <2> QED
    BY <2>1, KindsOfLines DEF TypeOK, CutsAreTurns
<1>1. CASE disk = messages
  BY <1>0, <1>1
<1>2. CASE disk = Front(messages) /\ messages # <<>>
  <2>1. TurnStarts(Front(messages)) \subseteq TurnStarts(messages)
    BY <1>0, <1>2, Shortened DEF TurnStarts
  <2> QED
    BY <1>0, <1>2, <2>1, CutStays
<1>3. CASE disk = Append(Front(messages), TornLine) /\ messages # <<>>
  <2>1. /\ Front(messages) \in Seq(Lines)
        /\ DOMAIN Front(messages) = 1 .. Len(messages) - 1
        /\ Len(Front(messages)) = Len(messages) - 1
        /\ Len(messages) \in Nat \ {0} /\ DOMAIN messages = 1 .. Len(messages)
        /\ \A i \in 1 .. Len(messages) - 1 : Front(messages)[i] = messages[i]
    BY <1>0, <1>3, Shortened
  <2>2. /\ DOMAIN disk = 1 .. Len(messages)
        /\ \A i \in 1 .. Len(messages) - 1 : disk[i] = messages[i]
        /\ disk[Len(messages)] = TornLine
    <3>1. (Len(messages) - 1) + 1 = Len(messages)
      BY <2>1
    <3> QED
      BY <1>0, <1>3, <2>1, <3>1, Appended
  <2>3. ~IsTurnStart(TornLine)
    BY Roles DEF IsTurnStart
  <2>4. ASSUME NEW i \in TurnStarts(disk) PROVE i \in TurnStarts(messages)
    <3>1. i \in 1 .. Len(messages) /\ IsTurnStart(disk[i])
      BY <2>2 DEF TurnStarts
    <3>2. i \in 1 .. Len(messages) - 1
      BY <2>1, <2>2, <2>3, <3>1
    <3> QED
      BY <2>1, <2>2, <3>1, <3>2 DEF TurnStarts
  <2> QED
    BY <1>0, <2>4, CutStays
<1> QED
  BY <1>1, <1>2, <1>3 DEF Recorded, Lagging, Flow

\* Compaction, however often it happens, keeps the last KeepRecentTurns turns out
\* of the summary, also after a resume from an older index.
THEOREM RecentTurnsAreKept == Spec => []RecentTurnsKept
<1>1. ASSUME Inv, ~hole
      PROVE  \/ Cardinality(TurnStarts(TailMessages)) >= KeepRecentTurns
             \/ TailMessages = messages
  <2>0. messages \in Seq(Lines) /\ through \in Nat /\ Len(messages) \in Nat
        /\ DOMAIN messages = 1 .. Len(messages)
    <3>1. messages \in Seq(Messages) /\ through \in Nat
      BY <1>1 DEF Inv, TypeOK, Messages
    <3> QED
      BY <3>1, KindsOfLines
  <2>1. IsCut(messages, through)
    BY <1>1, IndexIsCut DEF Inv
  <2>2. CASE through = 0
    BY <2>0, <2>2, SubSeqFull DEF TailMessages
  <2>3. CASE through # 0
    <3> DEFINE A == StartsAfter(messages, through)
               B == TurnStarts(TailMessages)
    <3>1. /\ TailMessages \in Seq(Lines) /\ DOMAIN TailMessages = 1 .. Len(TailMessages)
          /\ Len(TailMessages) \in Nat
          /\ Len(TailMessages) = IF through <= Len(messages)
                                THEN Len(messages) - through ELSE 0
          /\ \A i \in DOMAIN TailMessages : TailMessages[i] = messages[through + i]
      BY <2>0, TailIsShifted
    <3>2. A \in SUBSET Int /\ IsFiniteSet(A) /\ B \in SUBSET Int /\ -through \in Int
      <4>1. /\ B \in SUBSET Nat /\ TurnStarts(messages) \in SUBSET Nat
            /\ IsFiniteSet(TurnStarts(messages))
        BY <2>0, <3>1, StartsOfTurns
      <4>2. A \in SUBSET TurnStarts(messages)
        BY DEF StartsAfter
      <4>3. IsFiniteSet(A)
        BY <4>1, <4>2, FS_Subset
      <4> QED
        BY <2>0, <4>1, <4>2, <4>3
    <3>3. ASSUME NEW x \in Int PROVE x \in A <=> x + (-through) \in B
      <4> DEFINE y == x + (-through)
      <4>1. y \in Int /\ through + y = x
        BY <2>0
      <4>2. x > through => (x \in DOMAIN messages <=> y \in DOMAIN TailMessages)
        <5> DEFINE lt == Len(TailMessages)
                   lm == Len(messages)
        <5>1. lt \in Nat /\ lm \in Nat /\ lt = IF through <= lm THEN lm - through ELSE 0
          BY <2>0, <3>1
        <5> HIDE DEF lt, lm
        <5>2. x > through => (x \in 1 .. lm <=> y \in 1 .. lt)
          BY <2>0, <5>1
        <5> QED
          BY <2>0, <3>1, <5>2 DEF lt, lm
      <4>3. ASSUME y \in DOMAIN TailMessages
            PROVE  x > through /\ TailMessages[y] = messages[x]
        <5>1. y >= 1 /\ TailMessages[y] = messages[through + y]
          BY <3>1, <4>1, <4>3
        <5> QED
          BY <2>0, <4>1, <5>1
      <4> HIDE DEF y
      <4>4. x \in A <=> x > through /\ x \in DOMAIN messages /\ IsTurnStart(messages[x])
        BY DEF StartsAfter, TurnStarts
      <4>5. y \in B <=> y \in DOMAIN TailMessages /\ IsTurnStart(TailMessages[y])
        BY DEF TurnStarts
      <4>6. x \in A <=> y \in B
        BY <4>2, <4>3, <4>4, <4>5
      <4> QED
        BY <4>6 DEF y
    <3>4. Cardinality(A) >= KeepRecentTurns
      BY <2>1, <2>3 DEF IsCut
    <3> HIDE DEF A, B
    <3>5. Cardinality(B) = Cardinality(A)
      BY <3>2, <3>3, Shifted
    <3> QED
      BY <3>4, <3>5 DEF B
  <2> QED
    BY <2>2, <2>3
<1>2. Inv => RecentTurnsKept
  BY <1>1 DEF RecentTurnsKept
<1> QED
  BY <1>2, Invariance, PTL

\* _cut_index: what the model is sent never starts inside a batch, so every tool
\* result in it comes after the call it answers, in the place that belongs to it.
THEOREM NoResultIsOrphaned == Spec => []NoOrphanResult
<1>1. ASSUME Inv, ~hole, NEW j \in DOMAIN TailMessages, TailMessages[j].role = "tool"
      PROVE  \E a \in 1 .. j - 1 : IsAnswerTo(TailMessages, a, TailMessages[j].call, j)
  <2>0. messages \in Seq(Lines) /\ through \in Nat /\ Len(messages) \in Nat
        /\ DOMAIN messages = 1 .. Len(messages) /\ Follows(messages)
    <3>1. messages \in Seq(Messages) /\ through \in Nat
      BY <1>1 DEF Inv, TypeOK, Messages
    <3> QED
      BY <1>1, <3>1, KindsOfLines DEF Inv
  <2>1. IsCut(messages, through)
    BY <1>1, IndexIsCut DEF Inv
  <2>2. /\ DOMAIN TailMessages = 1 .. Len(TailMessages) /\ Len(TailMessages) \in Nat
        /\ \A i \in DOMAIN TailMessages :
              through + i \in DOMAIN messages /\ TailMessages[i] = messages[through + i]
    BY <2>0, TailIsShifted
  <2> DEFINE J == through + j
             i == TailMessages[j].call
             t == TailMessages
  <2>3. J \in DOMAIN messages /\ messages[J] = TailMessages[j] /\ messages[J] \in Lines
    BY <2>0, <2>2
  <2>4. i \in Nat \ {0}
    BY <1>1, <2>3, CallsAreNumbers
  <2>5. PICK a \in 1 .. J - 1 : IsAnswerTo(messages, a, i, J)
    BY <1>1, <2>0, <2>3 DEF Follows
  <2>6. j \in Nat /\ j >= 1 /\ j <= Len(t) /\ J \in Nat /\ a \in Nat /\ a >= 1 /\ J = a + i
    BY <2>0, <2>2, <2>5 DEF IsAnswerTo
  <2>7. a > through
    <3> SUFFICES ASSUME a <= through PROVE FALSE
      BY <2>0, <2>6
    <3>1. through # 0
      BY <2>6
    <3>2. messages[through + 1].role = "user"
      BY <2>1, <3>1 DEF IsCut, TurnStarts, IsTurnStart
    <3> DEFINE k == (through + 1) - a
    <3>3. k \in 1 .. i /\ a + k = through + 1
      BY <2>0, <2>4, <2>6
    <3>4. messages[a + k] = ToolResult(k)
      BY <2>5, <3>3 DEF IsAnswerTo
    <3> QED
      BY <3>2, <3>3, <3>4, Roles
  <2>8. IsAnswerTo(t, a + (-through), i, J + (-through))
    <3>1. \A x \in a .. J : t[x + (-through)] = messages[x]
      <4> TAKE x \in a .. J
      <4> DEFINE y == x + (-through)
      <4>1. y \in 1 .. Len(t) /\ through + y = x
        BY <2>0, <2>2, <2>6, <2>7
      <4> HIDE DEF y
      <4>2. t[y] = messages[x]
        BY <2>2, <4>1
      <4> QED
        BY <4>2 DEF y
    <3> HIDE DEF t, i, J
    <3>2. a \in Int /\ J \in Int /\ -through \in Int /\ i \in Nat
      BY <2>0, <2>4, <2>6
    <3> QED
      BY <2>5, <3>1, <3>2, AnswerMoves
  <2>9. a - through \in 1 .. j - 1 /\ a + (-through) = a - through /\ J + (-through) = j
    <3> HIDE DEF i
    <3> QED
      BY <2>0, <2>4, <2>6, <2>7
  <2> QED
    BY <2>8, <2>9
<1>2. Inv => NoOrphanResult
  BY <1>1 DEF NoOrphanResult
<1> QED
  BY <1>2, Invariance, PTL

\* A conversation no turn of which was cut off has a result for every call whenever
\* the model is called: _handle_tool_call answers each, errors included, and
\* compaction leaves no half of a batch.
THEOREM UndisturbedConversationIsValid == Spec => []UndisturbedIsValid
<1>1. ASSUME Inv, pc = "complete", ~disturbed,
             NEW a \in DOMAIN TailMessages, TailMessages[a].role = "assistant"
      PROVE  Answered(TailMessages, a)
  <2>0. messages \in Seq(Lines) /\ through \in Nat /\ Len(messages) \in Nat
        /\ DOMAIN messages = 1 .. Len(messages)
    <3>1. messages \in Seq(Messages) /\ through \in Nat
      BY <1>1 DEF Inv, TypeOK, Messages
    <3> QED
      BY <3>1, KindsOfLines
  <2>1. /\ DOMAIN TailMessages = 1 .. Len(TailMessages) /\ Len(TailMessages) \in Nat
        /\ Len(TailMessages) = IF through <= Len(messages)
                              THEN Len(messages) - through ELSE 0
        /\ \A i \in DOMAIN TailMessages :
              through + i \in DOMAIN messages /\ TailMessages[i] = messages[through + i]
    BY <2>0, TailIsShifted
  <2> DEFINE A == through + a
  <2>2. A \in DOMAIN messages /\ messages[A] = TailMessages[a] /\ messages[A] \in Lines
    BY <2>0, <2>1
  <2>3. Answered(messages, A)
    BY <1>1, <2>2 DEF Inv, Settled, InBatch, Appending
  <2>4. messages[A].calls \in Nat
    BY <1>1, <2>2, CallsAreNumbers
  <2>5. ASSUME NEW i \in 1 .. TailMessages[a].calls
        PROVE  a + i <= Len(TailMessages) /\ TailMessages[a + i] = ToolResult(i)
    <3>1. A + i <= Len(messages) /\ messages[A + i] = ToolResult(i)
      BY <2>2, <2>3 DEF Answered
    <3>2. i \in Nat /\ i >= 1 /\ a \in Nat /\ a >= 1 /\ A + i = through + (a + i)
      <4>1. TailMessages[a].calls \in Nat
        BY <2>2, <2>4
      <4>2. i \in Nat /\ i >= 1
        BY <4>1
      <4>3. a \in Nat /\ a >= 1
        BY <2>1
      <4> QED
        BY <2>0, <4>2, <4>3
    <3>3. a + i \in 1 .. Len(TailMessages)
      <4> DEFINE lt == Len(TailMessages)
                 lm == Len(messages)
                 x == a + i
      <4>1. lt \in Nat /\ lm \in Nat /\ lt = IF through <= lm THEN lm - through ELSE 0
        BY <2>0, <2>1
      <4>2. x \in Nat /\ x >= 1
        BY <3>2
      <4>3. through + x <= lm
        BY <3>1, <3>2
      <4> HIDE DEF lt, lm, x
      <4>4. x \in 1 .. lt
        BY <2>0, <4>1, <4>2, <4>3
      <4> QED
        BY <4>4 DEF lt, x
    <3> QED
      BY <2>1, <3>1, <3>2, <3>3
  <2> QED
    BY <2>5 DEF Answered
<1>2. Inv => UndisturbedIsValid
  BY <1>1 DEF UndisturbedIsValid, ConversationValid
<1> QED
  BY <1>2, Invariance, PTL

=============================================================================
