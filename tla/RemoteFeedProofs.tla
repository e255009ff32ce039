-------------------------- MODULE RemoteFeedProofs --------------------------
(***************************************************************************)
(* What holds of RemoteFeed for any number of phones, any length of the    *)
(* history and any behaviour: a phone that has been sent the backlog, or   *)
(* is being sent it, misses none of the events the bus remembers, and one  *)
(* that caught up undisturbed shows the session as it is.                  *)
(***************************************************************************)
EXTENDS RemoteFeed, SequenceTheorems, FiniteSetTheorems, TLAPS

IsSequence(s) == s \in Seq(ToSet(s))

Shape ==
    /\ IsSequence(history)
    /\ DOMAIN publishing = Threads
    /\ publishing = [t \in Threads |-> publishing[t]]
    /\ \A f \in {queue, backlog, conn, shown, missed} :
          DOMAIN f = Phones /\ f = [p \in Phones |-> f[p]]
    /\ \A p \in Phones : IsSequence(queue[p]) /\ IsSequence(backlog[p])

\* A phone is subscribed from before its snapshot until its connection is closed.
JoinedSubscribes ==
    \A p \in Phones : Connected(p) \/ conn[p] = "lost" => p \in subscribers

Inv == Shape /\ JoinedSubscribes /\ NoGap

\* What is on a phone, certain to get there, or cut off on its way.
Reaches(p) ==
    shown[p] \cup Numbers(backlog[p]) \cup Numbers(queue[p]) \cup OnTheWay(p) \cup missed[p]

-----------------------------------------------------------------------------
(* Sequences of events. *)

LEMMA OfItsElements ==
    ASSUME NEW S, NEW s \in Seq(S)
    PROVE  IsSequence(s)
<1>1. s \in [1 .. Len(s) -> S] /\ Len(s) \in Nat
  BY LenProperties
<1>2. s \in [1 .. Len(s) -> ToSet(s)]
  BY <1>1 DEF ToSet
<1> QED
  BY <1>1, <1>2, SeqDef DEF IsSequence

LEMMA Appended ==
    ASSUME NEW s, IsSequence(s), NEW e
    PROVE  /\ IsSequence(Append(s, e)) /\ Numbers(Append(s, e)) = Numbers(s) \cup {e.n}
           /\ ToSet(Append(s, e)) = ToSet(s) \cup {e}
           /\ Len(s) \in Nat /\ Len(Append(s, e)) = Len(s) + 1
<1> DEFINE S == ToSet(s) \cup {e}
<1>1. s \in Seq(S) /\ e \in S
  <2>1. s \in Seq(ToSet(s)) /\ ToSet(s) \subseteq S
    BY DEF IsSequence
  <2> QED
    BY <2>1
<1>2. /\ Append(s, e) \in Seq(S)
      /\ Len(Append(s, e)) = Len(s) + 1 /\ Len(s) \in Nat
      /\ \A i \in 1 .. Len(s) : Append(s, e)[i] = s[i]
      /\ Append(s, e)[Len(s) + 1] = e
  BY <1>1
<1>3. DOMAIN s = 1 .. Len(s) /\ DOMAIN Append(s, e) = 1 .. (Len(s) + 1)
  BY <1>1, <1>2
<1>4. ToSet(Append(s, e)) = S
  BY <1>2, <1>3 DEF ToSet
<1> QED
  BY <1>2, <1>4 DEF IsSequence, Numbers

LEMMA Headed ==
    ASSUME NEW s, IsSequence(s), s # <<>>
    PROVE  /\ IsSequence(Tail(s))
           /\ Numbers(s) = Numbers(Tail(s)) \cup {Head(s).n}
           /\ ToSet(Tail(s)) \subseteq ToSet(s) /\ Head(s) \in ToSet(s)
           /\ Len(s) \in Nat /\ Len(Tail(s)) = Len(s) - 1
<1> DEFINE S == ToSet(s)
<1>1. s \in Seq(S) /\ Len(s) \in Nat \ {0}
  BY DEF IsSequence
<1>2. /\ Tail(s) \in Seq(S)
      /\ Len(Tail(s)) = Len(s) - 1
      /\ \A i \in 1 .. Len(Tail(s)) : Tail(s)[i] = s[i + 1]
      /\ Head(s) = s[1]
  BY <1>1
<1>3. DOMAIN s = 1 .. Len(s) /\ DOMAIN Tail(s) = 1 .. (Len(s) - 1)
  BY <1>1, <1>2
<1>4. S = ToSet(Tail(s)) \cup {Head(s)}
  <2>1. ASSUME NEW i \in DOMAIN s PROVE s[i] \in ToSet(Tail(s)) \cup {s[1]}
    <3>1. CASE i = 1
      BY <3>1
    <3>2. CASE i # 1
      <4>1. i - 1 \in DOMAIN Tail(s) /\ (i - 1) + 1 = i
        BY <1>1, <1>3, <3>2
      <4>2. Tail(s)[i - 1] = s[i]
        BY <1>2, <1>3, <4>1
      <4> QED
        BY <4>1, <4>2 DEF ToSet
    <3> QED
      BY <3>1, <3>2
  <2>2. ASSUME NEW i \in DOMAIN Tail(s) PROVE Tail(s)[i] \in S
    <3>1. i + 1 \in DOMAIN s /\ Tail(s)[i] = s[i + 1]
      BY <1>1, <1>2, <1>3
    <3> QED
      BY <3>1 DEF ToSet
  <2>3. s[1] \in S
    BY <1>1, <1>3 DEF ToSet
  <2>4. S \subseteq ToSet(Tail(s)) \cup {s[1]}
    BY <2>1 DEF ToSet
  <2>5. ToSet(Tail(s)) \subseteq S
    BY <2>2 DEF ToSet
  <2> QED
    BY <1>2, <2>3, <2>4, <2>5
<1>5. IsSequence(Tail(s))
  BY <1>2, OfItsElements
<1> QED
  BY <1>1, <1>2, <1>4, <1>5 DEF Numbers

\* A bounded history remembers nothing that was not appended.
LEMMA BoundedForgets ==
    ASSUME NEW s, IsSequence(s)
    PROVE  /\ IsSequence(Bounded(s)) /\ Numbers(Bounded(s)) \subseteq Numbers(s)
           /\ ToSet(Bounded(s)) \subseteq ToSet(s)
           /\ Len(s) <= HistoryLimit + 1 => Len(Bounded(s)) <= HistoryLimit
<1>0. HistoryLimit \in Nat \ {0} /\ Len(s) \in Nat
  BY FeedAssumption, LenProperties DEF IsSequence
<1>1. CASE Len(s) > HistoryLimit
  <2>1. s # <<>>
    BY <1>0, <1>1
  <2>2. Bounded(s) = Tail(s)
    BY <1>1 DEF Bounded
  <2> QED
    BY <1>0, <2>1, <2>2, Headed
<1>2. CASE ~(Len(s) > HistoryLimit)
  <2>1. Bounded(s) = s
    BY <1>2 DEF Bounded
  <2> QED
    BY <1>0, <1>2, <2>1
<1> QED
  BY <1>1, <1>2

-----------------------------------------------------------------------------
(* What steps do to the three parts of the invariant. *)

\* Publish and what follows it only take over a thread that delivers nothing.
LEMMA OnTheWayKept ==
    ASSUME Shape, NEW t \in Threads, publishing[t].stage # "deliver", NEW x,
           publishing' = [publishing EXCEPT ![t] = x]
    PROVE  \A p : OnTheWay(p) \subseteq OnTheWay(p)'
BY DEF Shape, OnTheWay

\* No gap opens while the history learns nothing new and nothing is withdrawn.
LEMMA NoGapKept ==
    ASSUME NoGap, Numbers(history') \subseteq Numbers(history),
           \A p \in Phones : conn'[p] \in {"backlog", "live"} =>
               conn[p] \in {"backlog", "live"} /\ Reaches(p) \subseteq Reaches(p)'
    PROVE  NoGap'
BY DEF NoGap, Reaches

\* A step that leaves the bus and the connections alone, but for a thread that
\* delivered nothing.
LEMMA QuietStep ==
    ASSUME Inv, NEW t \in Threads, publishing[t].stage # "deliver", NEW x,
           publishing' = [publishing EXCEPT ![t] = x],
           UNCHANGED <<history, subscribers, queue, backlog, conn, shown, missed>>
    PROVE  Inv'
<1>1. Shape'
  BY DEF Inv, Shape
<1>2. JoinedSubscribes'
  BY DEF Inv, JoinedSubscribes, Connected, Snapshotting
<1>3. \A p : OnTheWay(p) \subseteq OnTheWay(p)'
  BY OnTheWayKept DEF Inv
<1>4. NoGap'
  BY <1>3, NoGapKept DEF Inv, Reaches
<1> QED
  BY <1>1, <1>2, <1>4 DEF Inv

LEMMA IdleFrame ==
    ASSUME Inv, UNCHANGED <<history, subscribers, queue, publishing, backlog, conn, shown, missed>>
    PROVE  Inv'
<1>1. Shape' /\ JoinedSubscribes'
  BY DEF Inv, Shape, JoinedSubscribes, Connected, Snapshotting
<1>2. NoGap'
  BY DEF Inv, NoGap, OnTheWay
<1> QED
  BY <1>1, <1>2 DEF Inv

LEMMA InitInv == Init => Inv
<1> SUFFICES ASSUME Init PROVE Inv
  OBVIOUS
<1>1. IsSequence(<<>>)
  BY DEF IsSequence
<1>2. Shape
  BY <1>1 DEF Init, Shape
<1>3. JoinedSubscribes /\ NoGap
  BY DEF Init, JoinedSubscribes, Connected, Snapshotting, NoGap
<1> QED
  BY <1>2, <1>3 DEF Inv

-----------------------------------------------------------------------------
(* The steps, one lemma each. *)

\* A recorded event is on its way to every subscriber at once.
LEMMA RecordStep ==
    ASSUME Inv, NEW t \in Threads, RecordEvent(t) PROVE Inv'
<1> DEFINE e == [n |-> recorded + 1, kind |-> publishing[t].kind,
                 value |-> publishing[t].value]
<1>1. /\ publishing[t].stage = "record"
      /\ history' = Bounded(Append(history, e))
      /\ publishing' = [publishing EXCEPT
                           ![t] = [stage |-> "deliver", event |-> e, to |-> subscribers]]
      /\ UNCHANGED <<subscribers, queue, conn, backlog, shown, missed>>
  BY DEF RecordEvent, Recipients, connVars
<1>2. /\ IsSequence(history')
      /\ Numbers(history') \subseteq Numbers(history) \cup {e.n}
  <2>1. IsSequence(history)
    BY DEF Inv, Shape
  <2> HIDE DEF e
  <2>2. /\ IsSequence(Append(history, e))
        /\ Numbers(Append(history, e)) = Numbers(history) \cup {e.n}
    BY <2>1, Appended
  <2> QED
    BY <1>1, <2>2, BoundedForgets
<1>3. Shape'
  BY <1>1, <1>2 DEF Inv, Shape
<1>4. JoinedSubscribes'
  BY <1>1 DEF Inv, JoinedSubscribes, Connected, Snapshotting
<1>5. ASSUME NEW p \in Phones, conn'[p] \in {"backlog", "live"}
      PROVE  Numbers(history') \subseteq Reaches(p)'
  <2>1. Numbers(history) \subseteq Reaches(p)
    BY <1>1, <1>5 DEF Inv, NoGap, Reaches
  <2>2. p \in subscribers
    BY <1>1, <1>5 DEF Inv, JoinedSubscribes, Connected, Snapshotting
  <2>3. OnTheWay(p) \subseteq OnTheWay(p)'
    BY <1>1, OnTheWayKept DEF Inv
  <2>4. e.n \in OnTheWay(p)'
    <3> HIDE DEF e
    <3>1. /\ publishing'[t].stage = "deliver" /\ p \in publishing'[t].to
          /\ publishing'[t].event = e
      BY <1>1, <2>2 DEF Inv, Shape
    <3> QED
      BY <3>1 DEF OnTheWay
  <2> QED
    BY <1>1, <1>2, <2>1, <2>3, <2>4 DEF Reaches
<1> QED
  BY <1>3, <1>4, <1>5 DEF Inv, NoGap, Reaches

\* Whoever gets no put misses nothing: the event was not on its way there.
LEMMA DeliverStep ==
    ASSUME Inv, NEW t \in Threads, DeliverEvent(t) PROVE Inv'
<1> DEFINE e == publishing[t].event
           next == AfterDelivery(e)
<1>1. /\ publishing[t].stage = "deliver"
      /\ queue' = [p \in Phones |->
                      IF p \in publishing[t].to
                      THEN Append(queue[p], e) ELSE queue[p]]
      /\ publishing' = [publishing EXCEPT ![t] = next]
      /\ UNCHANGED <<history, subscribers, conn, backlog, shown, missed>>
      /\ next.stage # "deliver"
  BY DEF DeliverEvent, AfterDelivery, StatusLine, Nothing, connVars, phoneVars
<1> HIDE DEF e, next
<1>2. ASSUME NEW p \in Phones
      PROVE  /\ IsSequence(Append(queue[p], e))
             /\ Numbers(Append(queue[p], e)) = Numbers(queue[p]) \cup {e.n}
  BY Appended DEF Inv, Shape
<1>3. Shape'
  BY <1>1, <1>2 DEF Inv, Shape
<1>4. JoinedSubscribes'
  BY <1>1 DEF Inv, JoinedSubscribes, Connected, Snapshotting
<1>5. ASSUME NEW p \in Phones, conn'[p] \in {"backlog", "live"}
      PROVE  conn[p] \in {"backlog", "live"} /\ Reaches(p) \subseteq Reaches(p)'
  <2>1. conn[p] \in {"backlog", "live"} /\ p \in subscribers
    BY <1>1, <1>5 DEF Inv, JoinedSubscribes, Connected, Snapshotting
  <2>2. CASE p \in publishing[t].to
    <3>1. Numbers(queue'[p]) = Numbers(queue[p]) \cup {e.n}
      BY <1>1, <1>2, <2>1, <2>2
    <3>2. OnTheWay(p) \subseteq OnTheWay(p)' \cup {e.n}
      BY <1>1 DEF OnTheWay, Inv, Shape, e
    <3> QED
      BY <1>1, <2>1, <3>1, <3>2 DEF Reaches
  <2>3. CASE p \notin publishing[t].to
    <3>1. OnTheWay(p) \subseteq OnTheWay(p)'
      BY <1>1, <2>3 DEF OnTheWay, Inv, Shape
    <3>2. queue'[p] = queue[p]
      BY <1>1, <2>3
    <3> QED
      BY <1>1, <2>1, <3>1, <3>2 DEF Reaches
  <2> QED
    BY <2>2, <2>3
<1>6. NoGap'
  BY <1>1, <1>5, NoGapKept DEF Inv
<1> QED
  BY <1>3, <1>4, <1>6 DEF Inv

LEMMA MainStepInv ==
    ASSUME Inv, MainStep PROVE Inv'
<1>2. publishing["main"] = Nothing /\ "main" \in Threads
  BY DEF MainStep, StartTurn, HandleCommand, PrintLine, SetBusy, PublishFromMain, MainFree,
     Threads
<1>3. publishing["main"].stage # "deliver"
  BY <1>2 DEF Nothing
<1>4. UNCHANGED <<history, subscribers, queue, backlog, conn, shown, missed>>
  BY DEF MainStep, StartTurn, HandleCommand, PrintLine, SetBusy, PublishFromMain, busVars,
     connVars, phoneVars
<1>5. \/ UNCHANGED publishing
      \/ \E x : publishing' = [publishing EXCEPT !["main"] = x]
  BY DEF MainStep, StartTurn, HandleCommand, PrintLine, SetBusy, PublishFromMain, Publish
<1> QED
  BY <1>2, <1>3, <1>4, <1>5, QuietStep, IdleFrame

\* Ctrl-C takes the event from those it had not reached: they have missed it.
LEMMA InterruptStep == ASSUME Inv, InterruptTurn PROVE Inv'
<1> DEFINE e == publishing["main"].event
           to == publishing["main"].to
<1>1. /\ publishing' = [publishing EXCEPT !["main"] = StatusLine]
      /\ StatusLine.stage # "deliver" /\ "main" \in Threads
      /\ UNCHANGED <<history, subscribers, conn, backlog, shown>>
  BY DEF InterruptTurn, StatusLine, Threads, connVars
<1>2. CASE publishing["main"].stage # "deliver"
  <2>1. UNCHANGED <<queue, missed>>
    BY <1>2 DEF InterruptTurn
  <2> QED
    BY <1>1, <1>2, <2>1, QuietStep
<1>3. CASE publishing["main"].stage = "deliver"
  <2>1. PICK reached \in SUBSET to :
          /\ queue' = [p \in Phones |->
                          IF p \in reached THEN Append(queue[p], e) ELSE queue[p]]
          /\ missed' = [p \in Phones |->
                           IF p \in to \ reached THEN missed[p] \cup {e.n} ELSE missed[p]]
    BY <1>3 DEF InterruptTurn
  <2> HIDE DEF e, to
  <2>2. ASSUME NEW p \in Phones
        PROVE  /\ IsSequence(Append(queue[p], e))
               /\ Numbers(Append(queue[p], e)) = Numbers(queue[p]) \cup {e.n}
    BY Appended DEF Inv, Shape
  <2>3. Shape'
    BY <1>1, <2>1, <2>2 DEF Inv, Shape
  <2>4. JoinedSubscribes'
    BY <1>1 DEF Inv, JoinedSubscribes, Connected, Snapshotting
  <2>5. ASSUME NEW p \in Phones PROVE Reaches(p) \subseteq Reaches(p)'
    <3>1. /\ Numbers(queue[p]) \subseteq Numbers(queue'[p])
          /\ missed[p] \subseteq missed'[p]
          /\ p \in to => e.n \in Numbers(queue'[p]) \cup missed'[p]
      BY <2>1, <2>2
    <3>2. OnTheWay(p) \subseteq OnTheWay(p)' \cup (IF p \in to THEN {e.n} ELSE {})
      BY <1>1 DEF OnTheWay, Inv, Shape, e, to
    <3> QED
      BY <1>1, <3>1, <3>2 DEF Reaches
  <2>6. NoGap'
    BY <1>1, <2>5, NoGapKept DEF Inv
  <2> QED
    BY <2>3, <2>4, <2>6 DEF Inv
<1> QED
  BY <1>2, <1>3

LEMMA SetThinkingStep ==
    ASSUME Inv, NEW t \in Threads, NEW enabled, SetThinking(t, enabled) PROVE Inv'
<1>1. publishing[t] = Nothing
  BY DEF SetThinking, ThreadFree, MainFree, LoopFree, Threads
<1>2. publishing[t].stage # "deliver"
  BY <1>1 DEF Nothing
<1>3. UNCHANGED <<history, subscribers, queue, backlog, conn, shown, missed>>
  BY DEF SetThinking, busVars, connVars, phoneVars
<1>4. publishing' = [publishing EXCEPT ![t] = [stage |-> "build"]]
  BY DEF SetThinking
<1> QED
  BY <1>2, <1>3, <1>4, QuietStep

LEMMA BuildThinkingStep ==
    ASSUME Inv, NEW t \in Threads, BuildThinkingEvent(t) PROVE Inv'
<1>1. publishing[t].stage # "deliver"
  BY DEF BuildThinkingEvent
<1>2. UNCHANGED <<history, subscribers, queue, backlog, conn, shown, missed>>
  BY DEF BuildThinkingEvent, busVars, connVars, phoneVars
<1> QED
  BY <1>1, <1>2, QuietStep DEF BuildThinkingEvent, Publish

-----------------------------------------------------------------------------

LEMMA AcceptStep ==
    ASSUME Inv, NEW p \in Phones, Accept(p) PROVE Inv'
<1>1. /\ publishing["server"].stage # "deliver" /\ "server" \in Threads
      /\ conn' = [conn EXCEPT ![p] = "accepted"]
      /\ UNCHANGED <<history, subscribers, queue, backlog, shown, missed>>
  BY DEF Accept, LoopFree, Nothing, Threads, busVars
<1>2. \E x : publishing' = [publishing EXCEPT !["server"] = x]
  BY DEF Accept
<1>3. Shape'
  BY <1>1, <1>2 DEF Inv, Shape
<1>4. JoinedSubscribes'
  BY <1>1 DEF Inv, Shape, JoinedSubscribes, Connected, Snapshotting
<1>5. \A q : OnTheWay(q) \subseteq OnTheWay(q)'
  BY <1>1, <1>2, OnTheWayKept DEF Inv
<1>6. NoGap'
  BY <1>1, <1>5, NoGapKept DEF Inv, Shape, Reaches
<1> QED
  BY <1>3, <1>4, <1>6 DEF Inv

LEMMA SubscribeStep ==
    ASSUME Inv, NEW p \in Phones, Subscribe(p) PROVE Inv'
<1>1. /\ conn' = [conn EXCEPT ![p] = "joined"]
      /\ subscribers' = subscribers \cup {p}
      /\ queue' = [queue EXCEPT ![p] = <<>>]
      /\ UNCHANGED <<history, publishing, backlog, shown, missed>>
  BY DEF Subscribe, phoneVars
<1>2. IsSequence(<<>>)
  BY DEF IsSequence
<1>3. Shape'
  BY <1>1, <1>2 DEF Inv, Shape
<1>4. JoinedSubscribes'
  BY <1>1 DEF Inv, Shape, JoinedSubscribes, Connected, Snapshotting
<1>5. \A q : OnTheWay(q)' = OnTheWay(q)
  BY <1>1 DEF OnTheWay
<1>6. NoGap'
  BY <1>1, <1>5, NoGapKept DEF Inv, Shape, Reaches
<1> QED
  BY <1>3, <1>4, <1>6 DEF Inv

LEMMA SessionStateStep ==
    ASSUME Inv, NEW p \in Phones, SendSessionState(p) PROVE Inv'
<1>1. /\ conn[p] = "joined" /\ conn' = [conn EXCEPT ![p] = "greeted"]
      /\ UNCHANGED <<history, subscribers, queue, publishing, backlog, shown, missed>>
  BY DEF SendSessionState, busVars
<1>2. Shape'
  BY <1>1 DEF Inv, Shape
<1>3. JoinedSubscribes'
  BY <1>1 DEF Inv, Shape, JoinedSubscribes, Connected, Snapshotting
<1>4. NoGap'
  BY <1>1 DEF Inv, Shape, NoGap, OnTheWay
<1> QED
  BY <1>2, <1>3, <1>4 DEF Inv

\* The copy holds all that the bus remembers; what comes later finds a subscriber.
LEMMA CopyHistoryStep ==
    ASSUME Inv, NEW p \in Phones, CopyHistory(p) PROVE Inv'
<1>1. /\ conn[p] = "greeted" /\ conn' = [conn EXCEPT ![p] = "backlog"]
      /\ backlog' = [backlog EXCEPT ![p] = history]
      /\ UNCHANGED <<history, subscribers, queue, publishing, shown, missed>>
  BY DEF CopyHistory, busVars, phoneVars
<1>2. Shape'
  BY <1>1 DEF Inv, Shape
<1>3. JoinedSubscribes'
  BY <1>1 DEF Inv, Shape, JoinedSubscribes, Connected, Snapshotting
<1>4. NoGap'
  BY <1>1 DEF Inv, Shape, NoGap, OnTheWay
<1> QED
  BY <1>2, <1>3, <1>4 DEF Inv

LEMMA SendBacklogStep ==
    ASSUME Inv, NEW p \in Phones, SendBacklog(p) PROVE Inv'
<1>1. /\ conn[p] = "backlog" /\ IsSequence(backlog[p])
      /\ UNCHANGED <<history, subscribers, queue, publishing, missed>>
  BY DEF SendBacklog, busVars, Inv, Shape
<1>2. CASE /\ backlog[p] # <<>>
           /\ shown' = [shown EXCEPT ![p] = @ \cup {Head(backlog[p]).n}]
           /\ backlog' = [backlog EXCEPT ![p] = Tail(@)]
           /\ UNCHANGED conn
  <2>1. /\ IsSequence(Tail(backlog[p]))
        /\ Numbers(backlog[p]) = Numbers(Tail(backlog[p])) \cup {Head(backlog[p]).n}
    BY <1>1, <1>2, Headed
  <2>2. Shape'
    BY <1>1, <1>2, <2>1 DEF Inv, Shape
  <2>3. JoinedSubscribes'
    BY <1>1, <1>2 DEF Inv, JoinedSubscribes, Connected, Snapshotting
  <2>4. \A q \in Phones :
           shown[q] \cup Numbers(backlog[q]) = shown'[q] \cup Numbers(backlog'[q])
    BY <1>2, <2>1 DEF Inv, Shape
  <2>5. \A q : OnTheWay(q)' = OnTheWay(q)
    BY <1>1 DEF OnTheWay
  <2>6. NoGap'
    BY <1>1, <1>2, <2>4, <2>5, NoGapKept DEF Inv, Reaches
  <2> QED
    BY <2>2, <2>3, <2>6 DEF Inv
<1>3. CASE /\ conn' = [conn EXCEPT ![p] = "live"]
           /\ UNCHANGED <<backlog, shown, missed>>
  <2>1. Shape'
    BY <1>1, <1>3 DEF Inv, Shape
  <2>2. JoinedSubscribes'
    BY <1>1, <1>3 DEF Inv, Shape, JoinedSubscribes, Connected, Snapshotting
  <2>3. NoGap'
    BY <1>1, <1>3 DEF Inv, Shape, NoGap, OnTheWay
  <2> QED
    BY <2>1, <2>2, <2>3 DEF Inv
<1> QED
  BY <1>2, <1>3 DEF SendBacklog, SendTo

LEMMA PumpStep ==
    ASSUME Inv, NEW p \in Phones, Pump(p) PROVE Inv'
<1>1. /\ queue[p] # <<>> /\ IsSequence(queue[p])
      /\ shown' = [shown EXCEPT ![p] = @ \cup {Head(queue[p]).n}]
      /\ queue' = [queue EXCEPT ![p] = Tail(@)]
      /\ UNCHANGED <<history, subscribers, publishing, conn, backlog, missed>>
  BY DEF Pump, SendTo, connVars, Inv, Shape
<1>2. /\ IsSequence(Tail(queue[p]))
      /\ Numbers(queue[p]) = Numbers(Tail(queue[p])) \cup {Head(queue[p]).n}
  BY <1>1, Headed
<1>3. Shape'
  BY <1>1, <1>2 DEF Inv, Shape
<1>4. JoinedSubscribes'
  BY <1>1 DEF Inv, JoinedSubscribes, Connected, Snapshotting
<1>5. \A q \in Phones : shown[q] \cup Numbers(queue[q]) = shown'[q] \cup Numbers(queue'[q])
  BY <1>1, <1>2 DEF Inv, Shape
<1>6. \A q : OnTheWay(q)' = OnTheWay(q)
  BY <1>1 DEF OnTheWay
<1>7. NoGap'
  BY <1>1, <1>5, <1>6, NoGapKept DEF Inv, Reaches
<1> QED
  BY <1>3, <1>4, <1>7 DEF Inv

LEMMA LoseLinkStep ==
    ASSUME Inv, NEW p \in Phones, LoseLink(p) PROVE Inv'
<1>1. /\ Connected(p) /\ conn' = [conn EXCEPT ![p] = "lost"]
      /\ backlog' = [backlog EXCEPT ![p] = <<>>]
      /\ shown' = [shown EXCEPT ![p] = {}] /\ missed' = [missed EXCEPT ![p] = {}]
      /\ UNCHANGED <<history, subscribers, queue, publishing>>
  BY DEF LoseLink, busVars
<1>0. IsSequence(<<>>)
  BY DEF IsSequence
<1>2. Shape'
  BY <1>0, <1>1 DEF Inv, Shape
<1>3. JoinedSubscribes'
  BY <1>1 DEF Inv, Shape, JoinedSubscribes, Connected, Snapshotting
<1>4. NoGap'
  BY <1>1 DEF Inv, Shape, NoGap, OnTheWay
<1> QED
  BY <1>2, <1>3, <1>4 DEF Inv

LEMMA PumpFailsStep ==
    ASSUME Inv, NEW p \in Phones, PumpFails(p) PROVE Inv'
<1>1. /\ conn[p] = "lost" /\ queue[p] # <<>> /\ IsSequence(queue[p])
      /\ queue' = [queue EXCEPT ![p] = Tail(@)]
      /\ UNCHANGED <<history, subscribers, publishing, conn, backlog, shown, missed>>
  BY DEF PumpFails, phoneVars, Inv, Shape
<1>2. IsSequence(Tail(queue[p]))
  BY <1>1, Headed
<1>3. Shape'
  BY <1>1, <1>2 DEF Inv, Shape
<1>4. JoinedSubscribes'
  BY <1>1 DEF Inv, JoinedSubscribes, Connected, Snapshotting
<1>5. NoGap'
  BY <1>1 DEF Inv, Shape, NoGap, OnTheWay
<1> QED
  BY <1>3, <1>4, <1>5 DEF Inv

LEMMA CloseStep ==
    ASSUME Inv, NEW p \in Phones, Close(p) PROVE Inv'
<1>1. /\ publishing["server"].stage # "deliver" /\ "server" \in Threads
      /\ conn' = [conn EXCEPT ![p] = "off"]
      /\ queue' = [queue EXCEPT ![p] = <<>>]
      /\ subscribers' = subscribers \ {p}
      /\ UNCHANGED <<history, backlog, shown, missed>>
  BY DEF Close, LoopFree, Nothing, Threads, phoneVars
<1>2. publishing' = [t \in Threads |-> IF t = "server" /\ pumpAlive[p]
                                        THEN StatusLine
                                        ELSE WithoutReader(publishing[t], p)]
  BY DEF Close
<1>3. IsSequence(<<>>)
  BY DEF IsSequence
<1>4. Shape'
  BY <1>1, <1>2, <1>3 DEF Inv, Shape
<1>5. JoinedSubscribes'
  BY <1>1 DEF Inv, Shape, JoinedSubscribes, Connected, Snapshotting
<1>6. ASSUME NEW q, q # p PROVE OnTheWay(q) \subseteq OnTheWay(q)'
  <2>1. ASSUME NEW t \in Threads, publishing[t].stage = "deliver", q \in publishing[t].to
        PROVE  /\ publishing'[t].stage = "deliver" /\ q \in publishing'[t].to
               /\ publishing'[t].event = publishing[t].event
    <3>1. publishing'[t] = [stage |-> "deliver", event |-> publishing[t].event,
                            to |-> publishing[t].to \ {p}]
      BY <1>1, <1>2, <2>1 DEF WithoutReader
    <3>2. publishing'[t].stage = "deliver" /\ publishing'[t].event = publishing[t].event
      BY <2>1, <3>1
    <3> QED
      BY <1>6, <2>1, <3>1, <3>2
  <2> QED
    BY <2>1 DEF OnTheWay
<1>7. NoGap'
  BY <1>1, <1>6, NoGapKept DEF Inv, Shape, Reaches
<1> QED
  BY <1>4, <1>5, <1>7 DEF Inv

-----------------------------------------------------------------------------
(* The types.  An event is known by its kind from the moment a thread means   *)
(* to publish it until it is on a screen; and whoever left a queue behind     *)
(* connected once more than it is connected now.                              *)

Connections == {p \in Phones : conn[p] # "off"}

KnownValue(kind, value) ==
    /\ kind \in Kinds
    /\ kind = "approval_requested" => value \in 1 .. MaxTurns
    /\ kind = "thinking_visibility" => value \in BOOLEAN

KnownEvent(e, last) == e.n \in 1 .. last /\ KnownValue(e.kind, e.value)

Views == [busy : BOOLEAN, thinking : BOOLEAN, cards : SUBSET (1 .. MaxTurns)]

SessionKnown ==
    /\ step \in {"idle", "begun", "running", "asking", "asked", "cut", "ending"}
    /\ turns \in 0 .. MaxTurns /\ (step # "idle" => turns > 0)
    /\ toggles \in 0 .. MaxToggles
    /\ busy \in BOOLEAN /\ showThinking \in BOOLEAN /\ late \in BOOLEAN
    /\ abandoned \subseteq 1 .. MaxTurns

EventsKnown ==
    /\ recorded \in Nat /\ Len(history) <= HistoryLimit
    /\ \A e \in ToSet(history) : KnownEvent(e, recorded)
    /\ \A p \in Phones : \A e \in ToSet(queue[p]) \cup ToSet(backlog[p]) : KnownEvent(e, recorded)
    /\ \A t \in Threads :
          /\ publishing[t].stage \in {"none", "build", "record", "deliver"}
          /\ publishing[t].stage = "record" => KnownValue(publishing[t].kind, publishing[t].value)
          /\ publishing[t].stage = "deliver" => KnownEvent(publishing[t].event, recorded)

ScreensKnown ==
    /\ view \in [Phones -> Views]
    /\ \A p \in Phones : shown[p] \subseteq 1 .. recorded /\ missed[p] \subseteq 1 .. recorded

ConnectionsCounted ==
    /\ subscribers \subseteq Phones
    /\ \A p \in Phones : conn[p] \in {"off", "accepted", "joined", "greeted", "backlog",
                                       "live", "lost"}
    /\ IsFiniteSet(Connections)
    /\ leaked \in Nat /\ joins \in Nat /\ leaked + Cardinality(Connections) <= joins

Types == SessionKnown /\ EventsKnown /\ ScreensKnown /\ ConnectionsCounted

LEMMA InitTypes == Init => Types
<1> SUFFICES ASSUME Init PROVE Types
  OBVIOUS
<1>1. ToSet(<<>>) = {} /\ Len(<<>>) = 0
  BY DEF ToSet
<1>2. SessionKnown
  <2>1. step = "idle" /\ turns \in 0 .. MaxTurns /\ toggles \in 0 .. MaxToggles
    BY FeedAssumption DEF Init
  <2>2. busy \in BOOLEAN /\ showThinking \in BOOLEAN /\ late \in BOOLEAN /\ abandoned = {}
    BY DEF Init
  <2> QED
    BY <2>1, <2>2 DEF SessionKnown
<1>3. EventsKnown
  BY <1>1, FeedAssumption DEF Init, EventsKnown, Nothing
<1>4. ScreensKnown
  BY DEF Init, ScreensKnown, Views, BlankView
<1>5. ConnectionsCounted
  <2>1. Connections = {}
    BY DEF Init, Connections
  <2> QED
    BY <2>1, FS_EmptySet DEF Init, ConnectionsCounted
<1> QED
  BY <1>2, <1>3, <1>4, <1>5 DEF Types

LEMMA SessionStep == ASSUME SessionKnown, [Next]_vars PROVE SessionKnown'
<1>1. CASE MainStep
  <2>1. /\ step' \in {"idle", "begun", "running", "asking", "asked", "cut", "ending"}
        /\ turns' \in 0 .. MaxTurns /\ (step' # "idle" => turns' > 0)
    BY <1>1, FeedAssumption DEF SessionKnown, MainStep, StartTurn, HandleCommand, PrintLine,
       SetBusy, PublishFromMain, sessionVars
  <2>2. /\ UNCHANGED <<toggles, showThinking, abandoned>>
        /\ UNCHANGED busy \/ busy' = TRUE \/ busy' = FALSE
    BY <1>1 DEF MainStep, StartTurn, HandleCommand, PrintLine, SetBusy, PublishFromMain,
       sessionVars
  <2>3. busy' \in BOOLEAN
    BY <2>2 DEF SessionKnown
  <2>4. late' \in BOOLEAN
    <3>1. late' = late \/ late' = ~Remembered("user_message")
      BY <1>1 DEF MainStep, StartTurn, HandleCommand, PrintLine, SetBusy, PublishFromMain,
         sessionVars
    <3>2. Remembered("user_message") \in BOOLEAN
      BY DEF Remembered
    <3> QED
      BY <3>1, <3>2 DEF SessionKnown
  <2> QED
    BY <2>1, <2>2, <2>3, <2>4 DEF SessionKnown
<1>2. ASSUME NEW t \in Threads, NEW enabled \in BOOLEAN, SetThinking(t, enabled)
      PROVE  SessionKnown'
  <2>1. step' = step \/ (step = "begun" /\ step' = "ending")
    BY <1>2 DEF SetThinking, ThreadFree
  <2>2. UNCHANGED <<turns, busy, late, abandoned>> /\ showThinking' = enabled
        /\ toggles < MaxToggles /\ toggles' = toggles + 1
    BY <1>2 DEF SetThinking
  <2> QED
    BY <2>1, <2>2, FeedAssumption DEF SessionKnown
<1>3. CASE UNCHANGED sessionVars
  BY <1>3 DEF SessionKnown, sessionVars
<1>4. CASE InterruptTurn
  <2>1. /\ step # "idle" /\ step' = "cut" /\ abandoned' \in {abandoned, abandoned \cup {turns}}
        /\ UNCHANGED <<turns, busy, showThinking, toggles, late>>
    BY <1>4 DEF InterruptTurn
  <2>2. turns \in 1 .. MaxTurns
    BY <2>1, FeedAssumption DEF SessionKnown
  <2> QED
    BY <2>1, <2>2 DEF SessionKnown
<1> QED
  BY <1>1, <1>2, <1>3, <1>4 DEF Next, RecordEvent, DeliverEvent, BuildThinkingEvent, ServerStep,
     Accept, Subscribe, SendSessionState, CopyHistory, SendBacklog, Pump, LoseLink, PumpFails,
     Close, vars

\* What a thread starts to publish has a kind and a value that fits it.
LEMMA PublishedIsKnown ==
    ASSUME SessionKnown, [Next]_vars, NEW t \in Threads, publishing'[t] # publishing[t],
           Shape
    PROVE  \/ publishing'[t].stage \in {"none", "build"}
           \/ /\ publishing'[t].stage = "record"
              /\ KnownValue(publishing'[t].kind, publishing'[t].value)
           \/ /\ publishing[t].stage = "deliver" /\ publishing'[t].stage = "deliver"
              /\ publishing'[t].event = publishing[t].event
           \/ RecordEvent(t)
<1>1. ASSUME NEW u \in Threads, NEW kind, NEW value, Publish(u, kind, value),
             KnownValue(kind, value)
      PROVE  /\ publishing'[t].stage = "record"
             /\ KnownValue(publishing'[t].kind, publishing'[t].value)
  BY <1>1 DEF Publish, Shape
<1>2. "main" \in Threads /\ "server" \in Threads
  BY DEF Threads
<1>3. KnownValue("status", 0) /\ KnownValue("turn_ended", turns)
      /\ KnownValue("user_message", turns + 1) /\ KnownValue("approval_resolved", turns)
      /\ KnownValue("thinking_visibility", showThinking)
      /\ (step # "idle" => KnownValue("approval_requested", turns))
  BY FeedAssumption DEF SessionKnown, KnownValue, Kinds
<1>4. ASSUME NEW u \in Threads, publishing' = [publishing EXCEPT ![u] = StatusLine]
      PROVE  /\ publishing'[t].stage = "record"
             /\ KnownValue(publishing'[t].kind, publishing'[t].value)
  BY <1>3, <1>4 DEF StatusLine, Shape
<1>5. CASE MainStep
  BY <1>1, <1>2, <1>3, <1>4, <1>5 DEF MainStep, StartTurn, HandleCommand, PrintLine, SetBusy,
     PublishFromMain
<1>6. ASSUME NEW u \in Threads, RecordEvent(u) PROVE u = t
  BY <1>6 DEF RecordEvent, Shape
<1>7. ASSUME NEW u \in Threads, DeliverEvent(u)
      PROVE  \/ publishing'[t].stage = "none"
             \/ /\ publishing'[t].stage = "record"
                /\ KnownValue(publishing'[t].kind, publishing'[t].value)
  <2>1. publishing'[t] = AfterDelivery(publishing[t].event)
    BY <1>7 DEF DeliverEvent, Shape
  <2> QED
    BY <1>3, <2>1 DEF AfterDelivery, StatusLine, Nothing
<1>8. ASSUME NEW u \in Threads, NEW enabled, SetThinking(u, enabled)
      PROVE  publishing'[t].stage = "build"
  BY <1>8 DEF SetThinking, Shape
<1>9. ASSUME NEW u \in Threads, BuildThinkingEvent(u)
      PROVE  /\ publishing'[t].stage = "record"
             /\ KnownValue(publishing'[t].kind, publishing'[t].value)
  BY <1>1, <1>3, <1>9 DEF BuildThinkingEvent
<1>10. ASSUME NEW p \in Phones, ServerStep(p), ~Close(p)
       PROVE  /\ publishing'[t].stage = "record"
              /\ KnownValue(publishing'[t].kind, publishing'[t].value)
  BY <1>2, <1>4, <1>10 DEF ServerStep, Accept, Subscribe, SendSessionState, CopyHistory,
     SendBacklog, Pump, LoseLink, PumpFails, Close
<1>11. ASSUME NEW p \in Phones, Close(p)
       PROVE  \/ /\ publishing'[t].stage = "record"
                 /\ KnownValue(publishing'[t].kind, publishing'[t].value)
              \/ /\ publishing[t].stage = "deliver" /\ publishing'[t].stage = "deliver"
                 /\ publishing'[t].event = publishing[t].event
  <2>1. publishing'[t] = IF t = "server" /\ pumpAlive[p]
                         THEN StatusLine
                         ELSE WithoutReader(publishing[t], p)
    BY <1>11 DEF Close
  <2>2. CASE t = "server" /\ pumpAlive[p]
    BY <1>3, <2>1, <2>2 DEF StatusLine
  <2>3. CASE ~(t = "server" /\ pumpAlive[p])
    BY <2>1, <2>3 DEF WithoutReader
  <2> QED
    BY <2>2, <2>3
<1>12. CASE InterruptTurn
  BY <1>2, <1>4, <1>12 DEF InterruptTurn
<1>13. ~UNCHANGED vars
  BY DEF vars
<1> QED
  BY <1>5, <1>6, <1>7, <1>8, <1>9, <1>10, <1>11, <1>12, <1>13 DEF Next

LEMMA RecordedGrows ==
    ASSUME recorded \in Nat, [Next]_vars
    PROVE  /\ recorded' \in Nat /\ 1 .. recorded \subseteq 1 .. recorded'
           /\ \A e : KnownEvent(e, recorded) => KnownEvent(e, recorded')
<1>1. recorded' \in {recorded, recorded + 1}
  BY DEF Next, InterruptTurn, MainStep, StartTurn, HandleCommand, PrintLine, SetBusy,
     PublishFromMain,
     RecordEvent, DeliverEvent, BuildThinkingEvent, SetThinking, ServerStep, Accept,
     Subscribe, SendSessionState, CopyHistory, SendBacklog, Pump, LoseLink, PumpFails, Close,
     busVars, vars
<1>2. recorded' \in Nat /\ 1 .. recorded \subseteq 1 .. recorded'
  BY <1>1
<1> QED
  BY <1>2 DEF KnownEvent, KnownValue

LEMMA PublishingStep ==
    ASSUME Shape, SessionKnown, EventsKnown, [Next]_vars, NEW t \in Threads
    PROVE  /\ publishing'[t].stage \in {"none", "build", "record", "deliver"}
           /\ publishing'[t].stage = "record" =>
                  KnownValue(publishing'[t].kind, publishing'[t].value)
           /\ publishing'[t].stage = "deliver" => KnownEvent(publishing'[t].event, recorded')
<1>1. CASE publishing'[t] = publishing[t]
  BY <1>1, RecordedGrows DEF EventsKnown
<1>2. CASE RecordEvent(t)
  <2> DEFINE e == [n |-> recorded + 1, kind |-> publishing[t].kind,
                   value |-> publishing[t].value]
  <2>1. /\ publishing'[t].stage = "deliver" /\ publishing'[t].event = e
        /\ recorded' = recorded + 1 /\ recorded \in Nat
        /\ KnownValue(publishing[t].kind, publishing[t].value)
    BY <1>2 DEF RecordEvent, Shape, EventsKnown
  <2>2. e.n = recorded + 1 /\ KnownValue(e.kind, e.value)
    BY <2>1
  <2> HIDE DEF e
  <2>3. KnownEvent(e, recorded')
    BY <2>1, <2>2 DEF KnownEvent, KnownValue
  <2> QED
    BY <2>1, <2>3
<1>3. CASE publishing'[t] # publishing[t] /\ ~RecordEvent(t)
  BY <1>3, PublishedIsKnown, RecordedGrows DEF EventsKnown
<1> QED
  BY <1>1, <1>2, <1>3

LEMMA HistoryStep ==
    ASSUME Shape, EventsKnown, [Next]_vars
    PROVE  Len(history') <= HistoryLimit /\ \A e \in ToSet(history') : KnownEvent(e, recorded')
<1>1. CASE history' = history
  BY <1>1, RecordedGrows DEF EventsKnown
<1>2. ASSUME NEW t \in Threads, RecordEvent(t)
      PROVE  Len(history') <= HistoryLimit /\ \A e \in ToSet(history') : KnownEvent(e, recorded')
  <2> DEFINE new == [n |-> recorded + 1, kind |-> publishing[t].kind,
                     value |-> publishing[t].value]
  <2>1. /\ history' = Bounded(Append(history, new)) /\ recorded' = recorded + 1
        /\ new.n = recorded + 1 /\ KnownValue(new.kind, new.value) /\ recorded \in Nat
    BY <1>2 DEF RecordEvent, EventsKnown
  <2> HIDE DEF new
  <2>2. KnownEvent(new, recorded')
    BY <2>1 DEF KnownEvent, KnownValue
  <2>3. /\ IsSequence(Append(history, new)) /\ Len(Append(history, new)) = Len(history) + 1
        /\ ToSet(Append(history, new)) = ToSet(history) \cup {new} /\ Len(history) \in Nat
    BY Appended DEF Shape
  <2>4. Len(history) <= HistoryLimit /\ HistoryLimit \in Nat
    BY FeedAssumption DEF EventsKnown
  <2>5. Len(Append(history, new)) <= HistoryLimit + 1
    BY <2>3, <2>4
  <2>6. Len(history') <= HistoryLimit /\ ToSet(history') \subseteq ToSet(history) \cup {new}
    BY <2>1, <2>3, <2>5, BoundedForgets
  <2> QED
    BY <2>2, <2>6, RecordedGrows DEF EventsKnown
<1> QED
  BY <1>1, <1>2 DEF Next, InterruptTurn, MainStep, StartTurn, HandleCommand, PrintLine, SetBusy,
     PublishFromMain, DeliverEvent, BuildThinkingEvent, SetThinking, ServerStep, Accept,
     Subscribe, SendSessionState, CopyHistory, SendBacklog, Pump, LoseLink, PumpFails, Close,
     busVars, vars

\* A queue takes what a thread delivers, a backlog what the history holds.
LEMMA QueuesStep ==
    ASSUME Shape, EventsKnown, [Next]_vars, NEW p \in Phones
    PROVE  \A e \in ToSet(queue'[p]) \cup ToSet(backlog'[p]) : KnownEvent(e, recorded')
<1>0. ToSet(<<>>) = {}
  BY DEF ToSet
<1>1. ASSUME queue'[p] # queue[p] PROVE \A e \in ToSet(queue'[p]) : KnownEvent(e, recorded)
  <2>1. ASSUME NEW t \in Threads, DeliverEvent(t)
        PROVE  \A e \in ToSet(queue'[p]) : KnownEvent(e, recorded)
    <3> DEFINE new == publishing[t].event
    <3>1. queue'[p] = Append(queue[p], new) /\ KnownEvent(new, recorded)
      BY <1>1, <2>1 DEF DeliverEvent, EventsKnown
    <3> HIDE DEF new
    <3>2. ToSet(queue'[p]) = ToSet(queue[p]) \cup {new}
      BY <3>1, Appended DEF Shape
    <3> QED
      BY <3>1, <3>2 DEF EventsKnown
  <2>2. ASSUME NEW q \in Phones, ServerStep(q)
        PROVE  \A e \in ToSet(queue'[p]) : KnownEvent(e, recorded)
    <3>1. \/ queue'[p] = <<>>
          \/ queue[p] # <<>> /\ queue'[p] = Tail(queue[p])
      BY <1>1, <2>2 DEF ServerStep, Accept, Subscribe, SendSessionState, CopyHistory,
         SendBacklog, Pump, LoseLink, PumpFails, Close, busVars, Shape
    <3> QED
      BY <1>0, <3>1, Headed DEF Shape, EventsKnown
  <2>3. ASSUME InterruptTurn PROVE \A e \in ToSet(queue'[p]) : KnownEvent(e, recorded)
    <3> DEFINE new == publishing["main"].event
    <3>1. queue'[p] = Append(queue[p], new) /\ KnownEvent(new, recorded)
      BY <1>1, <2>3 DEF InterruptTurn, EventsKnown, Threads
    <3> HIDE DEF new
    <3>2. ToSet(queue'[p]) = ToSet(queue[p]) \cup {new}
      BY <3>1, Appended DEF Shape
    <3> QED
      BY <3>1, <3>2 DEF EventsKnown
  <2> QED
    BY <1>1, <2>1, <2>2, <2>3 DEF Next, MainStep, StartTurn, HandleCommand, PrintLine, SetBusy,
       PublishFromMain, RecordEvent, BuildThinkingEvent, SetThinking, busVars, vars
<1>2. ASSUME backlog'[p] # backlog[p] PROVE \A e \in ToSet(backlog'[p]) : KnownEvent(e, recorded)
  <2>1. ASSUME NEW q \in Phones, ServerStep(q)
        PROVE  \/ backlog'[p] = <<>> \/ backlog'[p] = history
               \/ backlog[p] # <<>> /\ backlog'[p] = Tail(backlog[p])
    BY <1>2, <2>1 DEF ServerStep, Accept, Subscribe, SendSessionState, CopyHistory,
       SendBacklog, Pump, LoseLink, PumpFails, Close, connVars, Shape
  <2>2. \E q \in Phones : ServerStep(q)
    BY <1>2 DEF Next, InterruptTurn, MainStep, StartTurn, HandleCommand, PrintLine, SetBusy,
     PublishFromMain,
       RecordEvent, DeliverEvent, BuildThinkingEvent, SetThinking, connVars, vars
  <2> QED
    BY <1>0, <2>1, <2>2, Headed DEF Shape, EventsKnown
<1> QED
  BY <1>1, <1>2, RecordedGrows DEF EventsKnown

LEMMA EventsStep ==
    ASSUME Shape, SessionKnown, EventsKnown, [Next]_vars PROVE EventsKnown'
BY RecordedGrows, HistoryStep, QueuesStep, PublishingStep DEF EventsKnown

-----------------------------------------------------------------------------

LEMMA ShownIsView ==
    ASSUME NEW v \in Views, NEW e, KnownEvent(e, recorded)
    PROVE  Show(v, e.kind, e.value) \in Views
<1>1. /\ [v EXCEPT !.busy = TRUE] \in Views /\ [v EXCEPT !.busy = FALSE] \in Views
      /\ \A b \in BOOLEAN : [v EXCEPT !.thinking = b] \in Views
      /\ \A cards \in SUBSET (1 .. MaxTurns) : [v EXCEPT !.cards = cards] \in Views
  BY DEF Views
<1>2. e.kind \in Kinds
  BY DEF KnownEvent, KnownValue
<1>3. CASE e.kind = "approval_requested"
  <2>1. v.cards \cup {e.value} \in SUBSET (1 .. MaxTurns)
    BY <1>3 DEF KnownEvent, KnownValue, Views
  <2> QED
    BY <1>1, <1>3, <2>1 DEF Show
<1>4. CASE e.kind = "approval_resolved"
  <2>1. v.cards \ {e.value} \in SUBSET (1 .. MaxTurns)
    BY DEF Views
  <2> QED
    BY <1>1, <1>4, <2>1 DEF Show
<1>5. CASE e.kind = "thinking_visibility"
  <2>1. e.value \in BOOLEAN
    BY <1>5 DEF KnownEvent, KnownValue
  <2> QED
    BY <1>1, <1>5, <2>1 DEF Show
<1>6. CASE e.kind \in {"user_message", "turn_ended", "status"}
  BY <1>1, <1>6 DEF Show
<1> QED
  BY <1>2, <1>3, <1>4, <1>5, <1>6 DEF Kinds

LEMMA SentIsKnown ==
    ASSUME ScreensKnown, Shape, NEW p \in Phones, NEW e, KnownEvent(e, recorded), SendTo(p, e)
    PROVE  /\ view' \in [Phones -> Views]
           /\ \A q \in Phones : shown'[q] \subseteq 1 .. recorded
<1>1. view[p] \in Views /\ e.n \in 1 .. recorded
  BY DEF ScreensKnown, KnownEvent
<1>2. Show(view[p], e.kind, e.value) \in Views
  BY <1>1, ShownIsView
<1>3. view' \in [Phones -> Views]
  BY <1>2 DEF SendTo, ScreensKnown
<1>4. \A q \in Phones : shown'[q] \subseteq 1 .. recorded
  BY <1>1 DEF SendTo, ScreensKnown, Shape
<1> QED
  BY <1>3, <1>4

LEMMA ScreensStep ==
    ASSUME Shape, SessionKnown, EventsKnown, ScreensKnown, [Next]_vars PROVE ScreensKnown'
<1> DEFINE Fits == /\ view' \in [Phones -> Views]
                   /\ \A q \in Phones : shown'[q] \subseteq 1 .. recorded
<1>1. Fits
  <2>1. CASE UNCHANGED <<view, shown>>
    BY <2>1 DEF ScreensKnown
  <2>2. ASSUME NEW p \in Phones, Accept(p) PROVE Fits
    <3>1. view' = [view EXCEPT ![p].cards = {}] /\ UNCHANGED shown
      BY <2>2 DEF Accept
    <3>2. view' \in [Phones -> Views]
      BY <3>1 DEF ScreensKnown, Views
    <3> QED
      BY <3>1, <3>2 DEF ScreensKnown
  <2>3. ASSUME NEW p \in Phones, SendSessionState(p) PROVE Fits
    <3>1. /\ view' = [view EXCEPT ![p].busy = busy, ![p].thinking = showThinking]
          /\ UNCHANGED shown
      BY <2>3 DEF SendSessionState
    <3>2. view' \in [Phones -> Views]
      BY <3>1 DEF ScreensKnown, Views, SessionKnown
    <3> QED
      BY <3>1, <3>2 DEF ScreensKnown
  <2>4. ASSUME NEW p \in Phones, SendBacklog(p), ~UNCHANGED <<view, shown>>
        PROVE  \E e : KnownEvent(e, recorded) /\ SendTo(p, e)
    <3>1. backlog[p] # <<>> /\ SendTo(p, Head(backlog[p]))
      BY <2>4 DEF SendBacklog
    <3>2. KnownEvent(Head(backlog[p]), recorded)
      BY <3>1, Headed DEF Shape, EventsKnown
    <3> QED
      BY <3>1, <3>2
  <2>5. ASSUME NEW p \in Phones, Pump(p)
        PROVE  \E e : KnownEvent(e, recorded) /\ SendTo(p, e)
    <3>1. queue[p] # <<>> /\ SendTo(p, Head(queue[p]))
      BY <2>5 DEF Pump
    <3>2. KnownEvent(Head(queue[p]), recorded)
      BY <3>1, Headed DEF Shape, EventsKnown
    <3> QED
      BY <3>1, <3>2
  <2>6. ASSUME NEW p \in Phones, LoseLink(p) PROVE Fits
    <3>1. UNCHANGED view /\ shown' = [shown EXCEPT ![p] = {}]
      BY <2>6 DEF LoseLink
    <3> QED
      BY <3>1 DEF ScreensKnown, Shape
  <2>7. \/ UNCHANGED <<view, shown>>
        \/ \E p \in Phones :
              Accept(p) \/ SendSessionState(p) \/ SendBacklog(p) \/ Pump(p) \/ LoseLink(p)
    BY DEF Next, InterruptTurn, MainStep, StartTurn, HandleCommand, PrintLine, SetBusy,
       PublishFromMain, RecordEvent, DeliverEvent, BuildThinkingEvent, SetThinking, ServerStep,
       Subscribe, CopyHistory, PumpFails, Close, phoneVars, vars
  <2> QED
    BY <2>1, <2>2, <2>3, <2>4, <2>5, <2>6, <2>7, SentIsKnown
<1>2. \A q \in Phones : missed'[q] \subseteq 1 .. recorded
  <2>1. CASE InterruptTurn
    <3>1. CASE publishing["main"].stage = "deliver"
      <4>1. publishing["main"].event.n \in 1 .. recorded
        BY <3>1 DEF EventsKnown, KnownEvent, Threads
      <4> QED
        BY <2>1, <3>1, <4>1 DEF InterruptTurn, ScreensKnown
    <3>2. CASE publishing["main"].stage # "deliver"
      BY <2>1, <3>2 DEF InterruptTurn, ScreensKnown
    <3> QED
      BY <3>1, <3>2
  <2>2. CASE UNCHANGED missed
    BY <2>2 DEF ScreensKnown
  <2>3. ASSUME NEW p \in Phones, LoseLink(p)
        PROVE  \A q \in Phones : missed'[q] \subseteq 1 .. recorded
    <3>1. missed' = [missed EXCEPT ![p] = {}]
      BY <2>3 DEF LoseLink
    <3> QED
      BY <3>1 DEF ScreensKnown, Shape
  <2>4. InterruptTurn \/ UNCHANGED missed \/ \E p \in Phones : LoseLink(p)
    BY DEF Next, MainStep, StartTurn, HandleCommand, PrintLine, SetBusy, PublishFromMain,
       RecordEvent, DeliverEvent, BuildThinkingEvent, SetThinking, ServerStep, Accept, Subscribe,
       SendSessionState, CopyHistory, SendBacklog, Pump, PumpFails, Close, phoneVars, vars
  <2> QED
    BY <2>1, <2>2, <2>3, <2>4
<1> QED
  BY <1>1, <1>2, RecordedGrows DEF ScreensKnown, EventsKnown

-----------------------------------------------------------------------------

\* Accepting a connection makes one more and joins one more; closing one leaves at
\* most one queue behind.
LEMMA CountsStep ==
    ASSUME Shape, ConnectionsCounted, [Next]_vars PROVE ConnectionsCounted'
<1> DEFINE C == Connections
<1>0. /\ IsFiniteSet(C) /\ Cardinality(C) \in Nat
      /\ leaked \in Nat /\ joins \in Nat /\ leaked + Cardinality(C) <= joins
  BY FS_CardinalityType DEF ConnectionsCounted
<1>1. ASSUME NEW p \in Phones, Accept(p) PROVE ConnectionsCounted'
  <2>1. /\ conn[p] = "off" /\ conn' = [conn EXCEPT ![p] = "accepted"]
        /\ joins' = joins + 1 /\ UNCHANGED <<subscribers, leaked>>
    BY <1>1 DEF Accept, busVars
  <2>2. p \notin C /\ Connections' = C \cup {p}
    BY <2>1 DEF Connections, Shape
  <2> HIDE DEF C
  <2>3. IsFiniteSet(C \cup {p}) /\ Cardinality(C \cup {p}) = Cardinality(C) + 1
    BY <1>0, <2>2, FS_AddElement
  <2>4. leaked' \in Nat /\ joins' \in Nat /\ leaked' + Cardinality(Connections') <= joins'
    BY <1>0, <2>1, <2>2, <2>3
  <2> QED
    BY <2>1, <2>2, <2>3, <2>4 DEF ConnectionsCounted, Shape
<1>2. ASSUME NEW p \in Phones, Close(p) PROVE ConnectionsCounted'
  <2>1. /\ conn[p] = "lost" /\ conn' = [conn EXCEPT ![p] = "off"]
        /\ leaked' \in {leaked, leaked + 1} /\ joins' = joins
        /\ subscribers' = subscribers \ {p}
    BY <1>2 DEF Close
  <2>2. p \in C /\ Connections' = C \ {p}
    BY <2>1 DEF Connections, Shape
  <2> HIDE DEF C
  <2>3. IsFiniteSet(C \ {p}) /\ Cardinality(C \ {p}) = Cardinality(C) - 1
    BY <1>0, <2>2, FS_RemoveElement
  <2>4. leaked' \in Nat /\ joins' \in Nat /\ leaked' + Cardinality(Connections') <= joins'
    BY <1>0, <2>1, <2>2, <2>3
  <2> QED
    BY <2>1, <2>2, <2>3, <2>4 DEF ConnectionsCounted, Shape
<1>3. CASE /\ subscribers' \subseteq Phones /\ UNCHANGED <<leaked, joins>>
           /\ \/ UNCHANGED conn
              \/ \E p \in Phones, c \in {"joined", "greeted", "backlog", "live", "lost"} :
                    conn[p] # "off" /\ conn' = [conn EXCEPT ![p] = c]
  <2>1. \A p \in Phones : conn'[p] \in {"off", "accepted", "joined", "greeted", "backlog",
                                         "live", "lost"}
    BY <1>3 DEF ConnectionsCounted, Shape
  <2>2. Connections' = C
    BY <1>3 DEF Connections, Shape
  <2> HIDE DEF C
  <2> QED
    BY <1>0, <1>3, <2>1, <2>2 DEF ConnectionsCounted
<1>4. ASSUME NEW p \in Phones, ServerStep(p), ~Accept(p), ~Close(p)
      PROVE  /\ subscribers' \subseteq Phones /\ UNCHANGED <<leaked, joins>>
             /\ \/ UNCHANGED conn
                \/ \E c \in {"joined", "greeted", "backlog", "live", "lost"} :
                      conn[p] # "off" /\ conn' = [conn EXCEPT ![p] = c]
  BY <1>4 DEF ServerStep, Subscribe, SendSessionState, CopyHistory, SendBacklog, Pump,
     LoseLink, PumpFails, Connected, Snapshotting, busVars, connVars, ConnectionsCounted
<1>5. ASSUME ~\E p \in Phones : ServerStep(p)
      PROVE  subscribers' = subscribers /\ UNCHANGED <<leaked, joins, conn>>
  BY <1>5 DEF Next, InterruptTurn, MainStep, StartTurn, HandleCommand, PrintLine, SetBusy,
     PublishFromMain,
     RecordEvent, DeliverEvent, BuildThinkingEvent, SetThinking, busVars, connVars, vars
<1> QED
  BY <1>1, <1>2, <1>3, <1>4, <1>5 DEF ConnectionsCounted

-----------------------------------------------------------------------------

LEMMA StepInv == Inv /\ [Next]_vars => Inv'
<1> SUFFICES ASSUME Inv, [Next]_vars PROVE Inv'
  OBVIOUS
<1>1. CASE MainStep \/ InterruptTurn
  BY <1>1, MainStepInv, InterruptStep
<1>2. ASSUME NEW t \in Threads,
             \/ RecordEvent(t) \/ DeliverEvent(t) \/ BuildThinkingEvent(t)
             \/ \E enabled \in BOOLEAN : SetThinking(t, enabled)
      PROVE  Inv'
  BY <1>2, RecordStep, DeliverStep, BuildThinkingStep, SetThinkingStep
<1>3. ASSUME NEW p \in Phones, ServerStep(p) PROVE Inv'
  BY <1>3, AcceptStep, SubscribeStep, SessionStateStep, CopyHistoryStep,
     SendBacklogStep, PumpStep, LoseLinkStep, PumpFailsStep, CloseStep DEF ServerStep
<1>4. CASE UNCHANGED vars
  BY <1>4, IdleFrame DEF vars, busVars, connVars, phoneVars
<1> QED
  BY <1>1, <1>2, <1>3, <1>4 DEF Next

\* The inductive invariant: beside the gap itself, that a phone subscribes
\* before it asks for the history and unsubscribes only when its connection is
\* closed (ws_endpoint, _send_snapshot).
THEOREM Invariance == Spec => []Inv
BY InitInv, StepInv, PTL DEF Spec

\* For any number of phones and any limit of the history, connecting, losing
\* the connection and publishing may interleave at will: a phone that has its
\* copy of the history misses no event the bus remembers.
THEOREM NothingIsMissed == Spec => []NoGap
<1>1. Inv => NoGap
  BY DEF Inv
<1> QED
  BY <1>1, Invariance, PTL

\* EventBus, the endpoint and the page keep to their types: the history within
\* its limit, every event numbered and of a kind the page knows, a card for a
\* request of the session, and no more queues left behind than connections made.
THEOREM TypeCorrect == Spec => []TypeOK
<1>1. Inv /\ Types /\ [Next]_vars => Types'
  <2> SUFFICES ASSUME Inv, Types, [Next]_vars PROVE Types'
    OBVIOUS
  <2>1. Shape /\ SessionKnown /\ EventsKnown /\ ScreensKnown /\ ConnectionsCounted
    BY DEF Inv, Types
  <2>2. SessionKnown' /\ EventsKnown'
    BY <2>1, SessionStep, EventsStep
  <2>3. ScreensKnown' /\ ConnectionsCounted'
    BY <2>1, ScreensStep, CountsStep
  <2> QED
    BY <2>2, <2>3 DEF Types
<1>2. Types => TypeOK
  <2> SUFFICES ASSUME Types PROVE TypeOK
    OBVIOUS
  <2>1. leaked \in 0 .. joins
    <3> DEFINE n == Cardinality(Connections)
    <3>1. n \in Nat
      BY FS_CardinalityType DEF Types, ConnectionsCounted
    <3>2. leaked \in Nat /\ joins \in Nat /\ leaked + n <= joins
      BY DEF Types, ConnectionsCounted
    <3> HIDE DEF n
    <3> QED
      BY <3>1, <3>2
  <2>2. \A p \in Phones :
           /\ view[p].busy \in BOOLEAN /\ view[p].thinking \in BOOLEAN
           /\ view[p].cards \subseteq 1 .. MaxTurns
    BY DEF Types, ScreensKnown, Views
  <2>3. \A e : KnownEvent(e, recorded) => IsEvent(e)
    BY DEF KnownEvent, KnownValue, IsEvent
  <2> QED
    BY <2>1, <2>2, <2>3 DEF TypeOK, Types, SessionKnown, EventsKnown, ScreensKnown,
       ConnectionsCounted
<1> QED
  BY <1>1, <1>2, InitTypes, Invariance, PTL DEF Spec

-----------------------------------------------------------------------------
(* The marks of a page: mark 0 is its busy sign, mark x > 0 the card of       *)
(* request x.  What a page shows once it has been sent a sequence of events   *)
(* is decided by the last event of the sequence about the mark.               *)

Raises(e, x) ==
    IF x = 0 THEN e.kind = "user_message"
             ELSE e.kind = "approval_requested" /\ e.value = x

Lowers(e, x) ==
    IF x = 0 THEN e.kind = "turn_ended"
             ELSE e.kind = "approval_resolved" /\ e.value = x

On(v, x) == IF x = 0 THEN v.busy ELSE x \in v.cards

LoweredAfter(s, i, x) == \E j \in 1 .. Len(s) : i < j /\ Lowers(s[j], x)

\* An event of s puts the mark on, and none of those that follow takes it off.
Raised(s, x) == \E i \in 1 .. Len(s) : Raises(s[i], x) /\ ~LoweredAfter(s, i, x)

\* A page that shows v has the mark on after being sent s.
EndsOn(s, v, x) == Raised(s, x) \/ (On(v, x) /\ ~LoweredAfter(s, 0, x))

\* A page that has the mark keeps it when it is sent s.
LeavesOn(s, x) == Raised(s, x) \/ ~LoweredAfter(s, 0, x)

LEMMA AppendedAt ==
    ASSUME NEW s, IsSequence(s), NEW e
    PROVE  /\ Len(s) \in Nat /\ Len(Append(s, e)) = Len(s) + 1
           /\ \A i \in 1 .. Len(s) : Append(s, e)[i] = s[i]
           /\ Append(s, e)[Len(s) + 1] = e
<1> DEFINE S == ToSet(s) \cup {e}
<1>1. s \in Seq(ToSet(s)) /\ ToSet(s) \subseteq S /\ e \in S
  BY DEF IsSequence
<1>2. s \in Seq(S)
  BY <1>1
<1> HIDE DEF S
<1> QED
  BY <1>1, <1>2

LEMMA TailedAt ==
    ASSUME NEW s, IsSequence(s), s # <<>>
    PROVE  /\ Len(s) \in Nat \ {0} /\ Len(Tail(s)) = Len(s) - 1
           /\ \A i \in 1 .. Len(Tail(s)) : Tail(s)[i] = s[i + 1]
           /\ Head(s) = s[1]
<1> DEFINE S == ToSet(s)
<1>1. s \in Seq(S)
  BY DEF IsSequence
<1> HIDE DEF S
<1> QED
  BY <1>1

\* One event more, at the end: lowered after the i-th if it was or by the new one.
LEMMA LoweredAppend ==
    ASSUME NEW s, IsSequence(s), NEW e, NEW x, NEW i \in 0 .. Len(s)
    PROVE  LoweredAfter(Append(s, e), i, x) <=> LoweredAfter(s, i, x) \/ Lowers(e, x)
<1> DEFINE t == Append(s, e)
<1>1. /\ Len(s) \in Nat /\ Len(t) = Len(s) + 1
      /\ \A j \in 1 .. Len(s) : t[j] = s[j]
      /\ t[Len(s) + 1] = e
  BY AppendedAt
<1> HIDE DEF t
<1>2. 1 .. Len(t) = (1 .. Len(s)) \cup {Len(s) + 1} /\ i < Len(s) + 1
  BY <1>1
<1>3. LoweredAfter(t, i, x) <=> LoweredAfter(s, i, x) \/ Lowers(e, x)
  BY <1>1, <1>2 DEF LoweredAfter
<1> QED
  BY <1>3 DEF t

LEMMA RaisedAppend ==
    ASSUME NEW s, IsSequence(s), NEW e, NEW x
    PROVE  Raised(Append(s, e), x) <=> Raises(e, x) \/ (Raised(s, x) /\ ~Lowers(e, x))
<1> DEFINE t == Append(s, e)
<1>1. /\ Len(s) \in Nat /\ Len(t) = Len(s) + 1
      /\ \A j \in 1 .. Len(s) : t[j] = s[j]
      /\ t[Len(s) + 1] = e
  BY AppendedAt
<1>2. \A i \in 1 .. Len(s) : LoweredAfter(t, i, x) <=> LoweredAfter(s, i, x) \/ Lowers(e, x)
  BY <1>1, LoweredAppend
<1> HIDE DEF t
<1>3. ~LoweredAfter(t, Len(s) + 1, x)
  BY <1>1 DEF LoweredAfter
<1>4. 1 .. Len(t) = (1 .. Len(s)) \cup {Len(s) + 1}
  BY <1>1
<1>5. Raised(t, x) <=> Raises(e, x) \/ (Raised(s, x) /\ ~Lowers(e, x))
  BY <1>1, <1>2, <1>3, <1>4 DEF Raised
<1> QED
  BY <1>5 DEF t

\* The event a page is sent last decides.
LEMMA EndsAppend ==
    ASSUME NEW s, IsSequence(s), NEW e, NEW v, NEW x
    PROVE  EndsOn(Append(s, e), v, x) <=> Raises(e, x) \/ (EndsOn(s, v, x) /\ ~Lowers(e, x))
<1>1. Len(s) \in Nat /\ 0 \in 0 .. Len(s)
  BY AppendedAt
<1>2. LoweredAfter(Append(s, e), 0, x) <=> LoweredAfter(s, 0, x) \/ Lowers(e, x)
  BY <1>1, LoweredAppend
<1> QED
  BY <1>2, RaisedAppend DEF EndsOn

LEMMA LoweredTail ==
    ASSUME NEW s, IsSequence(s), s # <<>>, NEW x, NEW i \in Nat
    PROVE  /\ LoweredAfter(Tail(s), i, x) <=> LoweredAfter(s, i + 1, x)
           /\ LoweredAfter(s, 0, x) <=> Lowers(Head(s), x) \/ LoweredAfter(s, 1, x)
<1> DEFINE t == Tail(s)
<1>1. /\ Len(s) \in Nat \ {0} /\ Len(t) = Len(s) - 1
      /\ \A j \in 1 .. Len(t) : t[j] = s[j + 1]
      /\ Head(s) = s[1]
  BY TailedAt
<1> HIDE DEF t
<1>2. ASSUME LoweredAfter(t, i, x) PROVE LoweredAfter(s, i + 1, x)
  <2>1. PICK j \in 1 .. Len(t) : i < j /\ Lowers(t[j], x)
    BY <1>2 DEF LoweredAfter
  <2>2. j + 1 \in 1 .. Len(s) /\ i + 1 < j + 1
    BY <1>1, <2>1
  <2> QED
    BY <1>1, <2>1, <2>2 DEF LoweredAfter
<1>3. ASSUME LoweredAfter(s, i + 1, x) PROVE LoweredAfter(t, i, x)
  <2>1. PICK j \in 1 .. Len(s) : i + 1 < j /\ Lowers(s[j], x)
    BY <1>3 DEF LoweredAfter
  <2>2. j - 1 \in 1 .. Len(t) /\ i < j - 1 /\ (j - 1) + 1 = j
    BY <1>1, <2>1
  <2>3. Lowers(t[j - 1], x)
    BY <1>1, <2>1, <2>2
  <2> QED
    BY <2>2, <2>3 DEF LoweredAfter
<1>4. \A j \in 1 .. Len(s) : 0 < j /\ (j = 1 \/ 1 < j)
  BY <1>1
<1>5. 1 \in 1 .. Len(s)
  BY <1>1
<1>6. LoweredAfter(s, 0, x) <=> Lowers(Head(s), x) \/ LoweredAfter(s, 1, x)
  BY <1>1, <1>4, <1>5 DEF LoweredAfter
<1> QED
  BY <1>2, <1>3, <1>6 DEF t

\* Dropping the first event loses a mark only if that event raised it.
LEMMA RaisedTail ==
    ASSUME NEW s, IsSequence(s), s # <<>>, NEW x
    PROVE  Raised(s, x) <=>
               Raised(Tail(s), x) \/ (Raises(Head(s), x) /\ ~LoweredAfter(s, 1, x))
<1> DEFINE t == Tail(s)
<1>1. /\ Len(s) \in Nat \ {0} /\ Len(t) = Len(s) - 1
      /\ \A j \in 1 .. Len(t) : t[j] = s[j + 1]
      /\ Head(s) = s[1]
  BY TailedAt
<1>2. \A i \in Nat : LoweredAfter(t, i, x) <=> LoweredAfter(s, i + 1, x)
  BY LoweredTail
<1> HIDE DEF t
<1>3. ASSUME Raised(t, x) PROVE Raised(s, x)
  <2>1. PICK i \in 1 .. Len(t) : Raises(t[i], x) /\ ~LoweredAfter(t, i, x)
    BY <1>3 DEF Raised
  <2>2. i \in Nat /\ i + 1 \in 1 .. Len(s)
    BY <1>1, <2>1
  <2> QED
    BY <1>1, <1>2, <2>1, <2>2 DEF Raised
<1>4. ASSUME Raised(s, x)
      PROVE  Raised(t, x) \/ (Raises(Head(s), x) /\ ~LoweredAfter(s, 1, x))
  <2>1. PICK i \in 1 .. Len(s) : Raises(s[i], x) /\ ~LoweredAfter(s, i, x)
    BY <1>4 DEF Raised
  <2>2. CASE i = 1
    BY <1>1, <2>1, <2>2
  <2>3. CASE i # 1
    <3>1. i - 1 \in Nat /\ i - 1 \in 1 .. Len(t) /\ (i - 1) + 1 = i
      BY <1>1, <2>1, <2>3
    <3>2. Raises(t[i - 1], x) /\ ~LoweredAfter(t, i - 1, x)
      BY <1>1, <1>2, <2>1, <3>1
    <3> QED
      BY <3>1, <3>2 DEF Raised
  <2> QED
    BY <2>2, <2>3
<1>5. ASSUME Raises(Head(s), x), ~LoweredAfter(s, 1, x) PROVE Raised(s, x)
  <2>1. 1 \in 1 .. Len(s)
    BY <1>1
  <2> QED
    BY <1>1, <1>5, <2>1 DEF Raised
<1> QED
  BY <1>3, <1>4, <1>5 DEF t

\* What is raised among events that leave the mark on ends up raised.
LEMMA RaisedBy ==
    ASSUME NEW s, IsSequence(s), NEW e \in ToSet(s), NEW x, Raises(e, x), LeavesOn(s, x)
    PROVE  Raised(s, x)
<1>1. Len(s) \in Nat /\ DOMAIN s = 1 .. Len(s)
  BY LenProperties DEF IsSequence
<1>2. PICK i \in 1 .. Len(s) : s[i] = e
  BY <1>1 DEF ToSet
<1>3. LoweredAfter(s, i, x) => LoweredAfter(s, 0, x)
  BY <1>1, <1>2 DEF LoweredAfter
<1> QED
  BY <1>2, <1>3 DEF LeavesOn, Raised

\* The page: handle() acts on a mark by the event's kind and value alone.
LEMMA ShowsMark ==
    ASSUME NEW v \in Views, NEW e, NEW n, KnownEvent(e, n), NEW x \in 0 .. MaxTurns
    PROVE  On(Show(v, e.kind, e.value), x) <=> Raises(e, x) \/ (On(v, x) /\ ~Lowers(e, x))
<1>1. /\ DOMAIN v = {"busy", "thinking", "cards"} /\ v.busy \in BOOLEAN
      /\ e.kind \in Kinds
  BY DEF Views, KnownEvent, KnownValue
<1>2. CASE e.kind = "user_message"
  BY <1>1, <1>2 DEF Show, On, Raises, Lowers
<1>3. CASE e.kind = "turn_ended"
  BY <1>1, <1>3 DEF Show, On, Raises, Lowers
<1>4. CASE e.kind = "approval_requested"
  BY <1>1, <1>4 DEF Show, On, Raises, Lowers
<1>5. CASE e.kind = "approval_resolved"
  BY <1>1, <1>5 DEF Show, On, Raises, Lowers
<1>6. CASE e.kind = "thinking_visibility"
  BY <1>1, <1>6 DEF Show, On, Raises, Lowers
<1>7. CASE e.kind = "status"
  BY <1>1, <1>7 DEF Show, On, Raises, Lowers
<1> QED
  BY <1>1, <1>2, <1>3, <1>4, <1>5, <1>6, <1>7 DEF Kinds

\* Sending the first of the events moves it from what is to come onto the page.
LEMMA EndsHead ==
    ASSUME NEW s, IsSequence(s), s # <<>>, NEW v \in Views, NEW n, KnownEvent(Head(s), n),
           NEW x \in 0 .. MaxTurns
    PROVE  EndsOn(s, v, x) <=> EndsOn(Tail(s), Show(v, Head(s).kind, Head(s).value), x)
<1>1. /\ LoweredAfter(Tail(s), 0, x) <=> LoweredAfter(s, 1, x)
      /\ LoweredAfter(s, 0, x) <=> Lowers(Head(s), x) \/ LoweredAfter(s, 1, x)
  <2>1. 0 \in Nat /\ 0 + 1 = 1
    OBVIOUS
  <2> QED
    BY <2>1, LoweredTail
<1>2. On(Show(v, Head(s).kind, Head(s).value), x) <=>
          Raises(Head(s), x) \/ (On(v, x) /\ ~Lowers(Head(s), x))
  BY ShowsMark
<1> QED
  BY <1>1, <1>2, RaisedTail DEF EndsOn

LEMMA EndsEmpty ==
    ASSUME NEW v, NEW x PROVE EndsOn(<<>>, v, x) <=> On(v, x)
<1>1. 1 .. Len(<<>>) = {}
  OBVIOUS
<1> QED
  BY <1>1 DEF EndsOn, Raised, LoweredAfter

\* What a full history drops takes no mark off and puts none on.
LEMMA BoundedKeeps ==
    ASSUME NEW s, IsSequence(s), NEW x
    PROVE  /\ LeavesOn(s, x) => LeavesOn(Bounded(s), x)
           /\ Raised(Bounded(s), x) => Raised(s, x)
<1>0. HistoryLimit \in Nat \ {0} /\ Len(s) \in Nat
  BY FeedAssumption, AppendedAt
<1>1. CASE Len(s) > HistoryLimit
  <2>1. s # <<>>
    BY <1>0, <1>1
  <2>2. Bounded(s) = Tail(s)
    BY <1>1 DEF Bounded
  <2>3. /\ LoweredAfter(Tail(s), 0, x) <=> LoweredAfter(s, 1, x)
        /\ LoweredAfter(s, 0, x) <=> Lowers(Head(s), x) \/ LoweredAfter(s, 1, x)
    <3>1. 0 \in Nat /\ 0 + 1 = 1
      OBVIOUS
    <3> QED
      BY <2>1, <3>1, LoweredTail
  <2> QED
    BY <2>1, <2>2, <2>3, RaisedTail DEF LeavesOn
<1>2. CASE ~(Len(s) > HistoryLimit)
  BY <1>2 DEF Bounded
<1> QED
  BY <1>1, <1>2

\* An event more keeps a mark on, or puts it on itself.
LEMMA LeavesOnAppend ==
    ASSUME NEW s, IsSequence(s), NEW e, NEW x, Raises(e, x) \/ (LeavesOn(s, x) /\ ~Lowers(e, x))
    PROVE  LeavesOn(Append(s, e), x)
<1>1. Len(s) \in Nat /\ 0 \in 0 .. Len(s)
  BY AppendedAt
<1>2. LoweredAfter(Append(s, e), 0, x) <=> LoweredAfter(s, 0, x) \/ Lowers(e, x)
  BY <1>1, LoweredAppend
<1> QED
  BY <1>2, RaisedAppend DEF LeavesOn

-----------------------------------------------------------------------------
(* The session.  What main publishes about the turn fits the step it has      *)
(* reached, and the server loop publishes nothing about the turn.             *)

QuietKinds == {"status", "thinking_visibility"}

Pending(kind) == publishing["main"].stage = "record" /\ publishing["main"].kind = kind

SessionFits ==
    /\ publishing["main"].stage = "record" =>
          \/ Pending("user_message") /\ step = "begun"
          \/ Pending("approval_requested") /\ step = "asking" /\ publishing["main"].value = turns
          \/ Pending("approval_resolved") /\ step = "asked" /\ publishing["main"].value = turns
          \/ Pending("turn_ended") /\ step = "idle"
          \/ publishing["main"].kind \in QuietKinds
    /\ publishing["server"].stage = "record" => publishing["server"].kind \in QuietKinds
    /\ publishing["server"].stage = "deliver" => publishing["server"].event.kind \in QuietKinds
    /\ publishing["main"].stage = "deliver" /\ publishing["main"].event.kind = "approval_resolved" =>
          step = "asked" /\ publishing["main"].event.value = turns
    /\ busy <=> step \in {"running", "asking", "asked", "cut"}

\* After the events recorded so far the mark must be on, or must be off.
Due(x) ==
    IF x = 0
    THEN (step = "begun" /\ ~Pending("user_message")) \/ step = "running"
    ELSE x = turns /\ step = "asking" /\ ~Pending("approval_requested")

Excluded(x) ==
    IF x = 0
    THEN \/ step = "idle" /\ ~Pending("turn_ended")
         \/ step = "begun" /\ Pending("user_message")
    ELSE /\ ~Due(x) /\ x \notin abandoned
         /\ ~(x = turns /\ step = "asked" /\ Pending("approval_resolved"))

\* A phone can know that the mark is due: from the history, or from the flag.
Told(x) ==
    IF x = 0
    THEN \/ step = "begun" /\ Remembered("user_message")
         \/ step = "running" /\ ~late
    ELSE Remembered("approval_requested")

LEMMA FitsInit == Init => SessionFits
BY DEF Init, SessionFits, Nothing, Threads

\* What follows a delivery is about no turn.
LEMMA AfterIsQuiet ==
    ASSUME NEW e
    PROVE  \/ AfterDelivery(e).stage = "none"
           \/ AfterDelivery(e).stage = "record" /\ AfterDelivery(e).kind = "status"
BY DEF AfterDelivery, StatusLine, Nothing

\* Main moves to its next step only when its last event is out.
LEMMA FitsStep == ASSUME Shape, SessionFits, [Next]_vars PROVE SessionFits'
<1>0. "main" \in Threads /\ "server" \in Threads /\ Nothing.stage = "none"
      /\ \A t \in Threads : t = "main" \/ t = "server"
  BY DEF Threads, Nothing
<1>1. CASE MainStep
  <2>1. publishing'["server"] = publishing["server"]
    BY <1>0, <1>1 DEF MainStep, StartTurn, HandleCommand, PrintLine, SetBusy, PublishFromMain,
       Publish, Shape
  <2>2. /\ publishing'["main"].stage = "record" =>
              \/ Pending("user_message")' /\ step' = "begun"
              \/ /\ Pending("approval_requested")' /\ step' = "asking"
                 /\ publishing'["main"].value = turns'
              \/ /\ Pending("approval_resolved")' /\ step' = "asked"
                 /\ publishing'["main"].value = turns'
              \/ Pending("turn_ended")' /\ step' = "idle"
              \/ publishing'["main"].kind \in QuietKinds
        /\ publishing'["main"].stage # "deliver"
        /\ busy' <=> step' \in {"running", "asking", "asked", "cut"}
    <3>1. CASE StartTurn
      BY <1>0, <3>1 DEF StartTurn, MainFree, Publish, Shape, SessionFits, Pending
    <3>2. CASE \/ SetBusy("begun", TRUE, "running")
               \/ SetBusy("running", FALSE, "ending") \/ SetBusy("asked", FALSE, "ending")
               \/ SetBusy("cut", FALSE, "ending")
      BY <1>0, <3>2 DEF SetBusy, MainFree, Shape, SessionFits, Pending
    <3>3. CASE PublishFromMain("running", "approval_requested", "asking")
      BY <1>0, <3>3 DEF PublishFromMain, MainFree, Publish, Shape, SessionFits, Pending
    <3>4. CASE PublishFromMain("asking", "approval_resolved", "asked")
      BY <1>0, <3>4 DEF PublishFromMain, MainFree, Publish, Shape, SessionFits, Pending
    <3>5. CASE PublishFromMain("ending", "turn_ended", "idle")
      BY <1>0, <3>5 DEF PublishFromMain, MainFree, Publish, Shape, SessionFits, Pending
    <3>6. CASE HandleCommand
      BY <1>0, <3>6 DEF HandleCommand, MainFree, SessionFits
    <3>7. CASE PrintLine
      BY <1>0, <3>7 DEF PrintLine, StatusLine, QuietKinds, Shape, SessionFits, sessionVars
    <3> QED
      BY <1>1, <3>1, <3>2, <3>3, <3>4, <3>5, <3>6, <3>7 DEF MainStep
  <2> QED
    BY <2>1, <2>2 DEF SessionFits
<1>2. ASSUME NEW t \in Threads, RecordEvent(t) PROVE SessionFits'
  <2> DEFINE e == [n |-> recorded + 1, kind |-> publishing[t].kind,
                   value |-> publishing[t].value]
  <2>1. /\ publishing[t].stage = "record" /\ publishing'[t].stage = "deliver"
        /\ publishing'[t].event = e
        /\ \A u \in Threads : u # t => publishing'[u] = publishing[u]
        /\ UNCHANGED sessionVars
    BY <1>2 DEF RecordEvent, Shape
  <2>2. e.kind = publishing[t].kind /\ e.value = publishing[t].value
    OBVIOUS
  <2> HIDE DEF e
  <2>3. CASE t = "main"
    <3>1. e.kind = "approval_resolved" => step = "asked" /\ e.value = turns
      BY <2>1, <2>2, <2>3 DEF SessionFits, Pending, QuietKinds
    <3> QED
      BY <1>0, <2>1, <2>3, <3>1 DEF SessionFits, Pending, sessionVars
  <2>4. CASE t = "server"
    BY <1>0, <2>1, <2>2, <2>4 DEF SessionFits, Pending, sessionVars
  <2> QED
    BY <1>0, <2>3, <2>4
<1>3. ASSUME NEW t \in Threads, DeliverEvent(t) PROVE SessionFits'
  <2>1. /\ publishing'[t] = AfterDelivery(publishing[t].event)
        /\ \A u \in Threads : u # t => publishing'[u] = publishing[u]
        /\ UNCHANGED sessionVars
    BY <1>3 DEF DeliverEvent, Shape
  <2>2. \/ publishing'[t].stage = "none"
        \/ publishing'[t].stage = "record" /\ publishing'[t].kind \in QuietKinds
    BY <2>1, AfterIsQuiet DEF QuietKinds
  <2> QED
    BY <1>0, <2>1, <2>2 DEF SessionFits, Pending, sessionVars
<1>4. ASSUME NEW t \in Threads, BuildThinkingEvent(t) PROVE SessionFits'
  BY <1>0, <1>4 DEF BuildThinkingEvent, Publish, Shape, SessionFits, Pending, sessionVars,
     QuietKinds
<1>5. ASSUME NEW t \in Threads, NEW enabled, SetThinking(t, enabled) PROVE SessionFits'
  BY <1>0, <1>5 DEF SetThinking, ThreadFree, Shape, SessionFits, Pending
<1>6. ASSUME NEW p \in Phones, ServerStep(p) PROVE SessionFits'
  <2>1. UNCHANGED sessionVars
    BY <1>6 DEF ServerStep, Accept, Subscribe, SendSessionState, CopyHistory, SendBacklog,
       Pump, LoseLink, PumpFails, Close
  <2>2. CASE UNCHANGED publishing
    BY <2>1, <2>2 DEF SessionFits, Pending, sessionVars
  <2>3. CASE Accept(p)
    BY <1>0, <2>1, <2>3 DEF Accept, StatusLine, Shape, SessionFits, Pending, sessionVars,
       QuietKinds
  <2>4. CASE Close(p)
    <3>1. publishing["server"] = Nothing
      BY <2>4 DEF Close, LoopFree
    <3>2. publishing'["main"] = WithoutReader(publishing["main"], p)
      BY <1>0, <2>4 DEF Close
    <3>3. publishing'["server"] = IF pumpAlive[p] THEN StatusLine
                                  ELSE WithoutReader(publishing["server"], p)
      BY <1>0, <2>4 DEF Close
    <3>4. \/ publishing'["main"] = publishing["main"]
          \/ /\ publishing["main"].stage = "deliver" /\ publishing'["main"].stage = "deliver"
             /\ publishing'["main"].event = publishing["main"].event
      BY <3>2 DEF WithoutReader
    <3>5. \/ publishing'["server"].stage = "none"
          \/ publishing'["server"].stage = "record" /\ publishing'["server"].kind = "status"
      BY <1>0, <3>1, <3>3 DEF WithoutReader, StatusLine
    <3> QED
      BY <2>1, <3>4, <3>5 DEF SessionFits, Pending, sessionVars, QuietKinds
  <2> QED
    BY <1>6, <2>2, <2>3, <2>4 DEF ServerStep, Subscribe, SendSessionState, CopyHistory,
       SendBacklog, Pump, LoseLink, PumpFails
<1>7. CASE UNCHANGED vars
  BY <1>7 DEF SessionFits, Pending, vars, sessionVars
<1>8. CASE InterruptTurn
  BY <1>0, <1>8 DEF InterruptTurn, StatusLine, QuietKinds, Shape, SessionFits, Pending
<1> QED
  BY <1>1, <1>2, <1>3, <1>4, <1>5, <1>6, <1>7, <1>8 DEF Next

\* A recording brings nothing back into the history but itself.
LEMMA RememberedBefore ==
    ASSUME Shape, NEW t \in Threads, RecordEvent(t), NEW kind, publishing[t].kind # kind,
           Remembered(kind)'
    PROVE  Remembered(kind)
<1> DEFINE e == [n |-> recorded + 1, kind |-> publishing[t].kind,
                 value |-> publishing[t].value]
<1>1. /\ history' = Bounded(Append(history, e)) /\ e.kind # kind
      /\ UNCHANGED turns
  BY DEF RecordEvent, sessionVars
<1>2. IsSequence(history)
  BY DEF Shape
<1> HIDE DEF e
<1>3. ToSet(history') \subseteq ToSet(history) \cup {e}
  BY <1>1, <1>2, Appended, BoundedForgets
<1> QED
  BY <1>1, <1>3 DEF Remembered

\* Only what main records makes a mark due or excludes it, or lets a phone know.
LEMMA DuesKept ==
    ASSUME Shape, SessionFits, SessionKnown, [Next]_vars, ~RecordEvent("main"),
           NEW x \in 0 .. MaxTurns
    PROVE  /\ Due(x)' => Due(x)
           /\ Due(x)' /\ Told(x)' => Told(x)
           /\ Excluded(x)' => Excluded(x)
<1> DEFINE Loud == {"user_message", "approval_requested", "approval_resolved", "turn_ended"}
<1>0. /\ "main" \in Threads /\ "server" \in Threads /\ Nothing.stage = "none"
      /\ \A t \in Threads : t = "main" \/ t = "server"
      /\ \A kind \in Loud : kind \notin QuietKinds
  BY DEF Threads, Nothing, QuietKinds
<1>1. CASE MainStep
  <2>1. /\ publishing["main"].stage = "none" /\ \A kind : ~Pending(kind)
        /\ UNCHANGED <<history, abandoned>>
    BY <1>0, <1>1 DEF MainStep, StartTurn, HandleCommand, PrintLine, SetBusy, PublishFromMain,
       MainFree, Pending, busVars, sessionVars
  <2>2. CASE StartTurn
    BY <1>0, <2>1, <2>2 DEF StartTurn, Publish, Shape, Due, Excluded, Pending
  <2>3. CASE SetBusy("begun", TRUE, "running")
    <3>1. step = "begun" /\ step' = "running" /\ UNCHANGED <<turns, publishing>>
          /\ late' = ~Remembered("user_message")
      BY <2>3 DEF SetBusy
    <3> QED
      BY <2>1, <3>1 DEF Due, Told, Excluded
  <2>4. CASE \/ SetBusy("running", FALSE, "ending") \/ SetBusy("asked", FALSE, "ending")
             \/ SetBusy("cut", FALSE, "ending")
    <3>1. /\ step \in {"running", "asked", "cut"} /\ step' = "ending"
          /\ UNCHANGED <<turns, publishing>>
      BY <2>4 DEF SetBusy
    <3> QED
      BY <2>1, <3>1 DEF Due, Excluded
  <2>5. CASE PublishFromMain("running", "approval_requested", "asking")
    BY <1>0, <2>1, <2>5 DEF PublishFromMain, Publish, Shape, Due, Excluded, Pending
  <2>6. CASE PublishFromMain("asking", "approval_resolved", "asked")
    BY <1>0, <2>1, <2>6 DEF PublishFromMain, Publish, Shape, Due, Excluded, Pending
  <2>7. CASE PublishFromMain("ending", "turn_ended", "idle")
    BY <1>0, <2>1, <2>7 DEF PublishFromMain, Publish, Shape, Due, Excluded, Pending
  <2>8. CASE HandleCommand
    <3>1. step = "begun" /\ step' = "ending" /\ UNCHANGED <<turns, publishing>>
      BY <2>8 DEF HandleCommand
    <3> QED
      BY <2>1, <3>1 DEF Due, Excluded
  <2>9. CASE PrintLine
    <3>1. UNCHANGED <<step, turns, late, abandoned>> /\ publishing'["main"].kind = "status"
      BY <1>0, <2>9 DEF PrintLine, StatusLine, Shape, sessionVars
    <3>2. \A kind \in Loud : ~Pending(kind)'
      BY <3>1 DEF Pending
    <3> QED
      BY <2>1, <3>1, <3>2 DEF Due, Told, Excluded, Remembered
  <2> QED
    BY <1>1, <2>2, <2>3, <2>4, <2>5, <2>6, <2>7, <2>8, <2>9 DEF MainStep
<1>2. CASE /\ UNCHANGED <<step, turns, late, abandoned>>
           /\ \A kind \in Loud : (Pending(kind)' <=> Pending(kind))
                                 /\ (Remembered(kind)' => Remembered(kind))
  BY <1>2 DEF Due, Told, Excluded
<1>3. ASSUME NEW t \in Threads, RecordEvent(t) \/ DeliverEvent(t) \/ BuildThinkingEvent(t)
      PROVE  /\ UNCHANGED <<step, turns, late, abandoned>>
             /\ \A kind \in Loud : (Pending(kind)' <=> Pending(kind))
                                   /\ (Remembered(kind)' => Remembered(kind))
  <2>1. UNCHANGED <<step, turns, late, abandoned>>
    BY <1>3 DEF RecordEvent, DeliverEvent, BuildThinkingEvent, sessionVars
  <2>2. ASSUME NEW kind \in Loud PROVE Remembered(kind)' => Remembered(kind)
    <3>1. CASE RecordEvent(t)
      <4>1. t = "server" /\ publishing[t].kind # kind
        BY <1>0, <2>2, <3>1 DEF RecordEvent, SessionFits
      <4> QED
        BY <3>1, <4>1, RememberedBefore
    <3>2. CASE ~RecordEvent(t)
      <4>1. UNCHANGED history
        BY <1>3, <3>2 DEF DeliverEvent, BuildThinkingEvent, busVars
      <4> QED
        BY <2>1, <4>1 DEF Remembered
    <3> QED
      BY <3>1, <3>2
  <2>3. ASSUME NEW kind \in Loud PROVE Pending(kind)' <=> Pending(kind)
    <3>1. CASE t = "server"
      BY <1>0, <1>3, <3>1 DEF RecordEvent, DeliverEvent, BuildThinkingEvent, Publish, Shape,
         Pending
    <3>2. CASE t = "main" /\ DeliverEvent(t)
      <4>1. publishing'["main"] = AfterDelivery(publishing["main"].event)
            /\ publishing["main"].stage = "deliver"
        BY <1>0, <3>2 DEF DeliverEvent, Shape
      <4> QED
        BY <4>1, AfterIsQuiet DEF Pending
    <3>3. CASE t = "main" /\ BuildThinkingEvent(t)
      BY <1>0, <3>3 DEF BuildThinkingEvent, Publish, Shape, Pending
    <3> QED
      BY <1>0, <1>3, <3>1, <3>2, <3>3
  <2> QED
    BY <2>1, <2>2, <2>3
<1>4. ASSUME NEW t \in Threads, NEW enabled, SetThinking(t, enabled)
      PROVE  \/ /\ UNCHANGED <<step, turns, late, abandoned, history>>
                /\ \A kind \in Loud : Pending(kind)' <=> Pending(kind)
             \/ /\ UNCHANGED <<turns, abandoned>> /\ step = "begun" /\ step' = "ending"
                /\ \A kind \in Loud : ~Pending(kind)
  BY <1>0, <1>4 DEF SetThinking, ThreadFree, MainFree, Shape, Pending, busVars
<1>5. ASSUME NEW p \in Phones, ServerStep(p)
      PROVE  /\ UNCHANGED <<step, turns, late, abandoned, history>>
             /\ \A kind \in Loud : Pending(kind)' <=> Pending(kind)
  <2>1. UNCHANGED sessionVars /\ UNCHANGED history
    BY <1>5 DEF ServerStep, Accept, Subscribe, SendSessionState, CopyHistory, SendBacklog,
       Pump, LoseLink, PumpFails, Close, busVars
  <2>2. CASE Accept(p)
    BY <1>0, <2>1, <2>2 DEF Accept, Shape, Pending, sessionVars
  <2>3. CASE Close(p)
    <3>1. publishing'["main"] = WithoutReader(publishing["main"], p)
      BY <1>0, <2>3 DEF Close
    <3> QED
      BY <2>1, <3>1 DEF WithoutReader, Pending, sessionVars
  <2>4. CASE UNCHANGED publishing
    BY <2>1, <2>4 DEF Pending, sessionVars
  <2> QED
    BY <1>5, <2>2, <2>3, <2>4 DEF ServerStep, Subscribe, SendSessionState, CopyHistory,
       SendBacklog, Pump, LoseLink, PumpFails
<1>6. CASE /\ UNCHANGED <<step, turns, late, abandoned, history>>
           /\ \A kind \in Loud : Pending(kind)' <=> Pending(kind)
  BY <1>6, <1>2 DEF Remembered
<1>7. CASE /\ UNCHANGED <<turns, abandoned>> /\ step = "begun" /\ step' = "ending"
           /\ \A kind \in Loud : ~Pending(kind)
  BY <1>7 DEF Due, Excluded
<1>8. CASE UNCHANGED vars
  BY <1>8, <1>6 DEF Pending, vars, sessionVars, busVars
<1>9. CASE InterruptTurn
  <2>1. /\ step \in {"running", "asking", "asked"} /\ step' = "cut" /\ UNCHANGED turns
        /\ abandoned' = IF RequestUnderWay THEN abandoned \cup {turns} ELSE abandoned
    BY <1>9 DEF InterruptTurn
  <2>2. ~Due(x)'
    BY <2>1 DEF Due
  <2>3. ASSUME Excluded(x)' PROVE Excluded(x)
    <3>1. x # 0 /\ x \notin abandoned'
      BY <2>1, <2>3 DEF Excluded
    <3>2. x \notin abandoned /\ (x = turns => ~RequestUnderWay)
      BY <2>1, <3>1
    <3> QED
      BY <3>1, <3>2 DEF Excluded, Due, RequestUnderWay, Pending
  <2> QED
    BY <2>2, <2>3
<1> QED
  BY <1>1, <1>2, <1>3, <1>4, <1>5, <1>6, <1>7, <1>8, <1>9 DEF Next

\* What main records puts the marks that are due on and takes the others off, or
\* leaves them as they were.
LEMMA DuesRecorded ==
    ASSUME Shape, SessionFits, SessionKnown, RecordEvent("main"), NEW x \in 0 .. MaxTurns
    PROVE  LET e == publishing["main"]
           IN  /\ Due(x)' => Raises(e, x) \/ (Due(x) /\ ~Lowers(e, x))
               /\ Due(x)' /\ Told(x)' => Raises(e, x) \/ (Due(x) /\ Told(x) /\ ~Lowers(e, x))
               /\ Excluded(x)' => ~Raises(e, x) /\ (Lowers(e, x) \/ Excluded(x))
<1>1. /\ publishing["main"].stage = "record" /\ publishing'["main"].stage = "deliver"
      /\ UNCHANGED <<step, turns, late, abandoned>> /\ turns \in Nat /\ "main" \in Threads
  BY DEF RecordEvent, Shape, sessionVars, Threads, SessionKnown
<1>2. \A kind : ~Pending(kind)'
  BY <1>1 DEF Pending
<1>3. CASE Pending("user_message") /\ step = "begun"
  BY <1>1, <1>2, <1>3 DEF Due, Excluded, Pending, Raises, Lowers
<1>4. CASE Pending("approval_requested") /\ step = "asking" /\ publishing["main"].value = turns
  BY <1>1, <1>2, <1>4 DEF Due, Excluded, Pending, Raises, Lowers
<1>5. CASE Pending("approval_resolved") /\ step = "asked" /\ publishing["main"].value = turns
  BY <1>1, <1>2, <1>5 DEF Due, Excluded, Pending, Raises, Lowers
<1>6. CASE Pending("turn_ended") /\ step = "idle"
  BY <1>1, <1>2, <1>6 DEF Due, Excluded, Pending, Raises, Lowers
<1>7. CASE publishing["main"].kind \in QuietKinds
  <2>1. \A kind \in {"user_message", "approval_requested", "approval_resolved", "turn_ended"} :
           publishing["main"].kind # kind /\ ~Pending(kind)
    BY <1>7 DEF Pending, QuietKinds
  <2>2. \A kind \in {"user_message", "approval_requested"} :
           Remembered(kind)' => Remembered(kind)
    BY <1>1, <2>1, RememberedBefore
  <2>3. (Due(x)' => Due(x)) /\ (Excluded(x)' => Excluded(x)) /\ (Told(x)' => Told(x))
    BY <1>1, <1>2, <2>1, <2>2 DEF Due, Excluded, Told
  <2>4. ~Raises(publishing["main"], x) /\ ~Lowers(publishing["main"], x)
    BY <2>1 DEF Raises, Lowers
  <2> QED
    BY <2>3, <2>4
<1> QED
  BY <1>1, <1>3, <1>4, <1>5, <1>6, <1>7 DEF SessionFits

LEMMA QuietIsNeutral ==
    ASSUME NEW e, e.kind \in QuietKinds, NEW x PROVE ~Raises(e, x) /\ ~Lowers(e, x)
BY DEF QuietKinds, Raises, Lowers

-----------------------------------------------------------------------------
(* The history.  It keeps a mark on that is due, and never puts one on that   *)
(* is excluded, however many of its oldest events it has dropped.             *)

HistoryTells ==
    \A x \in 0 .. MaxTurns :
        /\ Due(x) => LeavesOn(history, x)
        /\ Excluded(x) => ~Raised(history, x)

LEMMA InitHistory == Init => HistoryTells
<1> SUFFICES ASSUME Init PROVE HistoryTells
  OBVIOUS
<1>1. 1 .. Len(<<>>) = {} /\ history = <<>>
  BY DEF Init
<1> QED
  BY <1>1 DEF HistoryTells, LeavesOn, Raised, LoweredAfter

LEMMA HistoryTellsStep ==
    ASSUME Shape, SessionKnown, SessionFits, HistoryTells, [Next]_vars
    PROVE  HistoryTells'
<1> SUFFICES ASSUME NEW x \in 0 .. MaxTurns
             PROVE  /\ Due(x)' => LeavesOn(history', x)
                    /\ Excluded(x)' => ~Raised(history', x)
  BY DEF HistoryTells
<1>0. IsSequence(history) /\ "main" \in Threads /\ "server" \in Threads
  BY DEF Shape, Threads
<1>1. /\ Due(x) => LeavesOn(history, x)
      /\ Excluded(x) => ~Raised(history, x)
  BY DEF HistoryTells
<1>2. ASSUME NEW t \in Threads, RecordEvent(t),
             Due(x)' => Raises(publishing[t], x) \/ (Due(x) /\ ~Lowers(publishing[t], x)),
             Excluded(x)' => /\ ~Raises(publishing[t], x)
                             /\ Lowers(publishing[t], x) \/ Excluded(x)
      PROVE  /\ Due(x)' => LeavesOn(history', x)
             /\ Excluded(x)' => ~Raised(history', x)
  <2> DEFINE e == [n |-> recorded + 1, kind |-> publishing[t].kind,
                   value |-> publishing[t].value]
             s == Append(history, e)
  <2>1. history' = Bounded(s)
    BY <1>2 DEF RecordEvent
  <2>2. e.kind = publishing[t].kind /\ e.value = publishing[t].value
    OBVIOUS
  <2> HIDE DEF e
  <2>3. /\ Raises(e, x) <=> Raises(publishing[t], x)
        /\ Lowers(e, x) <=> Lowers(publishing[t], x)
    BY <2>2 DEF Raises, Lowers
  <2>4. /\ IsSequence(s)
        /\ Raised(s, x) <=> Raises(e, x) \/ (Raised(history, x) /\ ~Lowers(e, x))
    BY <1>0, Appended, RaisedAppend
  <2>5. Due(x)' => LeavesOn(s, x)
    BY <1>0, <1>1, <1>2, <2>3, LeavesOnAppend
  <2> HIDE DEF s
  <2>6. LeavesOn(s, x) => LeavesOn(Bounded(s), x)
    BY <2>4, BoundedKeeps
  <2>7. Raised(Bounded(s), x) => Raised(s, x)
    BY <2>4, BoundedKeeps
  <2> QED
    BY <1>1, <1>2, <2>1, <2>3, <2>4, <2>5, <2>6, <2>7
<1>3. CASE RecordEvent("main")
  BY <1>0, <1>2, <1>3, DuesRecorded
<1>4. CASE RecordEvent("server")
  <2>1. publishing["server"].kind \in QuietKinds /\ ~RecordEvent("main")
    BY <1>0, <1>4 DEF RecordEvent, SessionFits, Shape
  <2>2. ~Raises(publishing["server"], x) /\ ~Lowers(publishing["server"], x)
    BY <2>1, QuietIsNeutral
  <2>3. (Due(x)' => Due(x)) /\ (Excluded(x)' => Excluded(x))
    BY <2>1, DuesKept
  <2> QED
    BY <1>0, <1>2, <1>4, <2>2, <2>3
<1>5. CASE ~RecordEvent("main") /\ ~RecordEvent("server")
  <2>1. UNCHANGED history
    <3>1. \A t \in Threads : ~RecordEvent(t)
      BY <1>5 DEF Threads
    <3> QED
      BY <3>1 DEF Next, InterruptTurn, MainStep, StartTurn, HandleCommand, PrintLine, SetBusy,
         PublishFromMain, DeliverEvent, BuildThinkingEvent, SetThinking, ServerStep, Accept,
         Subscribe, SendSessionState, CopyHistory, SendBacklog, Pump, LoseLink, PumpFails,
         Close, busVars, vars
  <2>2. (Due(x)' => Due(x)) /\ (Excluded(x)' => Excluded(x))
    BY <1>5, DuesKept
  <2> QED
    BY <1>1, <2>1, <2>2
<1> QED
  BY <1>3, <1>4, <1>5

-----------------------------------------------------------------------------
(* The phone.  Until an event disturbs it, a phone that is catching up has    *)
(* nothing in its queue and nothing under way.                                *)

Undisturbed ==
    /\ DOMAIN mixed = Phones
    /\ \A p \in Phones :
          /\ \A t \in Threads :
                publishing[t].stage = "deliver" /\ p \in publishing[t].to => p \in subscribers
          /\ conn[p] \in {"off", "accepted"} => p \notin subscribers
          /\ Snapshotting(p) /\ ~mixed[p] =>
                /\ queue[p] = <<>>
                /\ \A t \in Threads : publishing[t].stage = "deliver" => p \notin publishing[t].to
          /\ conn[p] \in {"accepted", "joined"} /\ ~mixed[p] => view[p].cards = {}

ToPage(p) == publishing["main"].stage = "deliver" /\ p \in publishing["main"].to

\* What the phone is still to be sent, without the server's own announcements.
Coming(p) ==
    CASE conn[p] = "greeted" -> history
      [] conn[p] = "backlog" -> backlog[p]
      [] OTHER -> IF ToPage(p) THEN Append(queue[p], publishing["main"].event) ELSE queue[p]

\* Sent all that is coming, the page has every mark that is due and that it can
\* know of, and none that is excluded.
Steady(p) ==
    \A x \in 0 .. MaxTurns :
        /\ Due(x) /\ Told(x) => EndsOn(Coming(p), view[p], x)
        /\ Excluded(x) => ~EndsOn(Coming(p), view[p], x)

PageFollows ==
    \A p \in Phones : conn[p] \in {"greeted", "backlog", "live"} /\ ~mixed[p] => Steady(p)

LEMMA InitPages == Init => Undisturbed /\ PageFollows
BY DEF Init, Undisturbed, PageFollows, Steady, Snapshotting, Nothing

\* A recording disturbs whoever is catching up, and later deliveries follow one.
LEMMA UndisturbedStep ==
    ASSUME Shape, ScreensKnown, JoinedSubscribes, Undisturbed, [Next]_vars
    PROVE  Undisturbed'
<1> DEFINE Fine(p) ==
        /\ \A t \in Threads :
              publishing'[t].stage = "deliver" /\ p \in publishing'[t].to => p \in subscribers'
        /\ conn'[p] \in {"off", "accepted"} => p \notin subscribers'
        /\ Snapshotting(p)' /\ ~mixed'[p] =>
              /\ queue'[p] = <<>>
              /\ \A t \in Threads : publishing'[t].stage = "deliver" => p \notin publishing'[t].to
        /\ conn'[p] \in {"accepted", "joined"} /\ ~mixed'[p] => view'[p].cards = {}
<1>0. /\ "main" \in Threads /\ "server" \in Threads /\ Nothing.stage = "none"
      /\ \A t \in Threads : t = "main" \/ t = "server"
  BY DEF Threads, Nothing
<1>1. DOMAIN mixed' = Phones
  BY DEF Undisturbed, Next, InterruptTurn, MainStep, StartTurn, HandleCommand, PrintLine, SetBusy,
     PublishFromMain, RecordEvent, DeliverEvent, BuildThinkingEvent, SetThinking, ServerStep,
     Accept, Subscribe, SendSessionState, CopyHistory, SendBacklog, Pump, LoseLink, PumpFails,
     Close, phoneVars, vars
<1>2. SUFFICES ASSUME NEW p \in Phones PROVE Fine(p)
  BY <1>1 DEF Undisturbed
<1>3. ASSUME NEW t \in Threads, RecordEvent(t) PROVE Fine(p)
  <2>1. /\ publishing'[t].stage = "deliver" /\ publishing'[t].to = subscribers
        /\ \A u \in Threads : u # t => publishing'[u] = publishing[u]
        /\ UNCHANGED <<subscribers, queue, conn, view>>
        /\ mixed'[p] = (mixed[p] \/ Snapshotting(p))
    BY <1>3 DEF RecordEvent, Recipients, Shape, connVars
  <2> QED
    BY <2>1 DEF Undisturbed, Snapshotting
<1>4. ASSUME NEW t \in Threads, DeliverEvent(t) PROVE Fine(p)
  <2>1. /\ publishing[t].stage = "deliver"
        /\ publishing'[t] = AfterDelivery(publishing[t].event)
        /\ \A u \in Threads : u # t => publishing'[u] = publishing[u]
        /\ UNCHANGED <<subscribers, conn, view, mixed>>
        /\ p \notin publishing[t].to => queue'[p] = queue[p]
    BY <1>0, <1>4 DEF DeliverEvent, Shape, connVars, phoneVars
  <2>2. publishing'[t].stage # "deliver"
    BY <2>1, AfterIsQuiet
  <2> QED
    BY <2>1, <2>2 DEF Undisturbed, Snapshotting
<1>5. ASSUME UNCHANGED <<subscribers, conn, view, mixed, queue>>,
             \A t \in Threads : publishing'[t].stage = "deliver" => publishing'[t] = publishing[t]
      PROVE  Fine(p)
  BY <1>5 DEF Undisturbed, Snapshotting
<1>6. ASSUME MainStep PROVE Fine(p)
  <2>1. UNCHANGED <<subscribers, conn, view, mixed, queue>>
    BY <1>6 DEF MainStep, StartTurn, HandleCommand, PrintLine, SetBusy, PublishFromMain,
       busVars, connVars, phoneVars
  <2>2. \A t \in Threads : publishing'[t].stage = "deliver" => publishing'[t] = publishing[t]
    BY <1>0, <1>6 DEF MainStep, StartTurn, HandleCommand, PrintLine, SetBusy, PublishFromMain,
       Publish, StatusLine, Shape
  <2> QED
    BY <1>5, <2>1, <2>2
<1>7. ASSUME NEW t \in Threads, NEW enabled, BuildThinkingEvent(t) \/ SetThinking(t, enabled)
      PROVE  Fine(p)
  <2>1. UNCHANGED <<subscribers, conn, view, mixed, queue>>
    BY <1>7 DEF BuildThinkingEvent, SetThinking, busVars, connVars, phoneVars
  <2>2. \A u \in Threads : publishing'[u].stage = "deliver" => publishing'[u] = publishing[u]
    BY <1>7 DEF BuildThinkingEvent, SetThinking, Publish, Shape
  <2> QED
    BY <1>5, <2>1, <2>2
<1>8. ASSUME NEW q \in Phones, ServerStep(q), ~Close(q), ~Accept(q) PROVE UNCHANGED publishing
  BY <1>8 DEF ServerStep, Subscribe, SendSessionState, CopyHistory, SendBacklog, Pump, LoseLink,
     PumpFails
<1>9. ASSUME NEW q \in Phones, Accept(q) PROVE Fine(p)
  <2>1. /\ conn[q] = "off" /\ conn' = [conn EXCEPT ![q] = "accepted"]
        /\ view' = [view EXCEPT ![q].cards = {}]
        /\ \A t \in Threads : publishing'[t].stage = "deliver" => publishing'[t] = publishing[t]
        /\ UNCHANGED <<subscribers, queue, mixed>>
    BY <1>9 DEF Accept, StatusLine, Shape, busVars
  <2>2. CASE p = q
    <3>1. conn'[p] = "accepted" /\ view'[p].cards = {}
      BY <2>1, <2>2 DEF Shape, ScreensKnown, Views
    <3> QED
      BY <2>1, <2>2, <3>1 DEF Undisturbed, Snapshotting
  <2>3. CASE p # q
    <3>1. conn'[p] = conn[p] /\ view'[p] = view[p] /\ mixed'[p] = mixed[p]
      BY <2>1, <2>3 DEF Shape, ScreensKnown, Undisturbed
    <3> QED
      BY <2>1, <3>1 DEF Undisturbed, Snapshotting
  <2> QED
    BY <2>2, <2>3
<1>10. ASSUME NEW q \in Phones, Subscribe(q) PROVE Fine(p)
  <2>1. /\ conn[q] = "accepted" /\ conn' = [conn EXCEPT ![q] = "joined"]
        /\ subscribers' = subscribers \cup {q} /\ queue' = [queue EXCEPT ![q] = <<>>]
        /\ UNCHANGED <<publishing, view, mixed>>
    BY <1>10 DEF Subscribe, phoneVars
  <2>2. CASE p = q
    <3>1. conn'[p] = "joined" /\ queue'[p] = <<>>
      BY <2>1, <2>2 DEF Shape
    <3>2. \A t \in Threads : publishing[t].stage = "deliver" => p \notin publishing[t].to
      BY <2>1, <2>2 DEF Undisturbed
    <3> QED
      BY <2>1, <2>2, <3>1, <3>2 DEF Undisturbed
  <2>3. CASE p # q
    <3>1. conn'[p] = conn[p] /\ queue'[p] = queue[p] /\ (p \in subscribers' <=> p \in subscribers)
      BY <2>1, <2>3 DEF Shape
    <3> QED
      BY <2>1, <3>1 DEF Undisturbed, Snapshotting
  <2> QED
    BY <2>2, <2>3
<1>11. ASSUME NEW q \in Phones, SendSessionState(q) PROVE Fine(p)
  <2>1. /\ conn[q] = "joined" /\ conn' = [conn EXCEPT ![q] = "greeted"]
        /\ view' = [view EXCEPT ![q].busy = busy, ![q].thinking = showThinking]
        /\ UNCHANGED <<subscribers, queue, publishing, mixed>>
    BY <1>11 DEF SendSessionState, busVars
  <2>2. \/ p = q /\ conn'[p] = "greeted" /\ conn[p] = "joined"
        \/ conn'[p] = conn[p] /\ view'[p] = view[p]
    BY <2>1 DEF Shape, ScreensKnown
  <2> QED
    BY <2>1, <2>2 DEF Undisturbed, Snapshotting
<1>12. ASSUME NEW q \in Phones, CopyHistory(q) PROVE Fine(p)
  <2>1. /\ conn[q] = "greeted" /\ conn' = [conn EXCEPT ![q] = "backlog"]
        /\ UNCHANGED <<subscribers, queue, publishing, mixed, view>>
    BY <1>12 DEF CopyHistory, busVars, phoneVars
  <2>2. \/ p = q /\ conn'[p] = "backlog" /\ conn[p] = "greeted"
        \/ conn'[p] = conn[p]
    BY <2>1 DEF Shape
  <2> QED
    BY <2>1, <2>2 DEF Undisturbed, Snapshotting
<1>13. ASSUME NEW q \in Phones, SendBacklog(q) PROVE Fine(p)
  <2>1. /\ conn[q] = "backlog"
        /\ UNCHANGED conn \/ conn' = [conn EXCEPT ![q] = "live"]
        /\ UNCHANGED view \/ \E y : view' = [view EXCEPT ![q] = y]
        /\ UNCHANGED <<subscribers, queue, publishing, mixed>>
    BY <1>13 DEF SendBacklog, SendTo, busVars
  <2>2. \/ p = q /\ conn'[p] \in {"backlog", "live"} /\ conn[p] = "backlog"
        \/ conn'[p] = conn[p] /\ view'[p] = view[p]
    BY <2>1 DEF Shape, ScreensKnown
  <2> QED
    BY <2>1, <2>2 DEF Undisturbed, Snapshotting
<1>14. ASSUME NEW q \in Phones, Pump(q) PROVE Fine(p)
  <2>1. /\ Connected(q) /\ queue[q] # <<>> /\ queue' = [queue EXCEPT ![q] = Tail(@)]
        /\ \E y : view' = [view EXCEPT ![q] = y]
        /\ UNCHANGED <<subscribers, conn, publishing, mixed>>
    BY <1>14 DEF Pump, SendTo, connVars
  <2>2. CASE p = q
    BY <2>1, <2>2 DEF Undisturbed, Snapshotting, Connected
  <2>3. CASE p # q
    <3>1. queue'[p] = queue[p] /\ view'[p] = view[p]
      BY <2>1, <2>3 DEF Shape, ScreensKnown
    <3> QED
      BY <2>1, <3>1 DEF Undisturbed, Snapshotting
  <2> QED
    BY <2>2, <2>3
<1>15. ASSUME NEW q \in Phones, LoseLink(q) PROVE Fine(p)
  <2>1. /\ conn' = [conn EXCEPT ![q] = "lost"]
        /\ mixed' = [mixed EXCEPT ![q] = FALSE]
        /\ UNCHANGED <<subscribers, queue, publishing, view>>
    BY <1>15 DEF LoseLink, busVars
  <2>2. conn'[p] = "lost" \/ (conn'[p] = conn[p] /\ mixed'[p] = mixed[p])
    BY <2>1 DEF Shape, Undisturbed
  <2> QED
    BY <2>1, <2>2 DEF Undisturbed, Snapshotting
<1>16. ASSUME NEW q \in Phones, PumpFails(q) PROVE Fine(p)
  <2>1. /\ conn[q] = "lost" /\ queue' = [queue EXCEPT ![q] = Tail(@)]
        /\ UNCHANGED <<subscribers, conn, publishing, mixed, view>>
    BY <1>16 DEF PumpFails, phoneVars
  <2>2. p = q \/ queue'[p] = queue[p]
    BY <2>1 DEF Shape
  <2> QED
    BY <2>1, <2>2 DEF Undisturbed, Snapshotting
<1>17. ASSUME NEW q \in Phones, Close(q) PROVE Fine(p)
  <2>1. /\ conn' = [conn EXCEPT ![q] = "off"] /\ subscribers' = subscribers \ {q}
        /\ queue' = [queue EXCEPT ![q] = <<>>] /\ UNCHANGED <<mixed, view>>
    BY <1>17 DEF Close, phoneVars
  <2>2. ASSUME NEW t \in Threads, publishing'[t].stage = "deliver"
        PROVE  publishing[t].stage = "deliver" /\ publishing'[t].to = publishing[t].to \ {q}
    <3>1. publishing'[t] = IF t = "server" /\ pumpAlive[q]
                           THEN StatusLine ELSE WithoutReader(publishing[t], q)
      BY <1>17 DEF Close
    <3> QED
      BY <2>2, <3>1 DEF WithoutReader, StatusLine
  <2>3. \/ p = q /\ conn'[p] = "off"
        \/ /\ p # q /\ conn'[p] = conn[p] /\ queue'[p] = queue[p]
           /\ p \in subscribers' <=> p \in subscribers
    BY <2>1 DEF Shape
  <2> QED
    BY <2>1, <2>2, <2>3 DEF Undisturbed, Snapshotting
<1>18. ASSUME UNCHANGED vars PROVE Fine(p)
  BY <1>5, <1>18 DEF vars, busVars, connVars, phoneVars
<1>19. ASSUME InterruptTurn PROVE Fine(p)
  <2>1. /\ publishing' = [publishing EXCEPT !["main"] = StatusLine]
        /\ UNCHANGED <<subscribers, conn, view, mixed>>
    BY <1>19 DEF InterruptTurn, connVars
  <2>2. \A t \in Threads : publishing'[t].stage = "deliver" => publishing'[t] = publishing[t]
    BY <2>1 DEF StatusLine, Shape
  <2>3. \/ queue'[p] = queue[p]
        \/ publishing["main"].stage = "deliver" /\ p \in publishing["main"].to
    BY <1>19 DEF InterruptTurn
  <2> QED
    BY <1>0, <2>1, <2>2, <2>3 DEF Undisturbed, Snapshotting
<1> HIDE DEF Fine
<1> QED
  BY <1>3, <1>4, <1>6, <1>7, <1>9, <1>10, <1>11, <1>12, <1>13, <1>14, <1>15, <1>16, <1>17,
     <1>18, <1>19 DEF Next, ServerStep

\* A step that is no recording by main keeps a page that ends up as before.
LEMMA SteadyKept ==
    ASSUME Shape, SessionFits, SessionKnown, [Next]_vars, ~RecordEvent("main"), NEW p,
           Steady(p),
           \A x \in 0 .. MaxTurns :
               EndsOn(Coming(p)', view'[p], x) <=> EndsOn(Coming(p), view[p], x)
    PROVE  Steady(p)'
BY DuesKept DEF Steady

\* A step that only concerns others.
LEMMA SteadyAside ==
    ASSUME Shape, SessionFits, SessionKnown, [Next]_vars, ~RecordEvent("main"), NEW p,
           Steady(p), conn'[p] = conn[p], view'[p] = view[p], history' = history,
           backlog'[p] = backlog[p], queue'[p] = queue[p], ToPage(p)' <=> ToPage(p),
           ToPage(p) => publishing'["main"].event = publishing["main"].event
    PROVE  Steady(p)'
<1>1. Coming(p)' = Coming(p)
  BY DEF Coming
<1> QED
  BY <1>1, SteadyKept

\* What main records is on its way to every phone that is connected.
LEMMA SteadyRecorded ==
    ASSUME Shape, SessionFits, SessionKnown, JoinedSubscribes, NEW p \in Phones, Steady(p),
           conn[p] = "live", RecordEvent("main")
    PROVE  Steady(p)'
<1> DEFINE e == [n |-> recorded + 1, kind |-> publishing["main"].kind,
                 value |-> publishing["main"].value]
<1>1. /\ publishing["main"].stage = "record"
      /\ publishing' = [publishing EXCEPT
                           !["main"] = [stage |-> "deliver", event |-> e, to |-> subscribers]]
      /\ UNCHANGED <<queue, conn, view>>
  BY DEF RecordEvent, Recipients, connVars
<1>2. /\ publishing'["main"].stage = "deliver" /\ publishing'["main"].event = e
      /\ publishing'["main"].to = subscribers
  BY <1>1 DEF Shape, Threads
<1>3. p \in subscribers
  BY DEF JoinedSubscribes, Connected
<1>4. Coming(p) = queue[p] /\ Coming(p)' = Append(queue[p], e)
  BY <1>1, <1>2, <1>3 DEF Coming, ToPage
<1>5. \A x : /\ Raises(e, x) <=> Raises(publishing["main"], x)
             /\ Lowers(e, x) <=> Lowers(publishing["main"], x)
  BY DEF Raises, Lowers
<1> HIDE DEF e
<1> SUFFICES ASSUME NEW x \in 0 .. MaxTurns
             PROVE  /\ Due(x)' /\ Told(x)' => EndsOn(Coming(p)', view'[p], x)
                    /\ Excluded(x)' => ~EndsOn(Coming(p)', view'[p], x)
  BY DEF Steady
<1>6. EndsOn(Append(queue[p], e), view[p], x) <=>
          Raises(e, x) \/ (EndsOn(queue[p], view[p], x) /\ ~Lowers(e, x))
  BY EndsAppend DEF Shape
<1>7. /\ Due(x) /\ Told(x) => EndsOn(queue[p], view[p], x)
      /\ Excluded(x) => ~EndsOn(queue[p], view[p], x)
  BY <1>4 DEF Steady
<1>8. /\ Due(x)' /\ Told(x)' => Raises(e, x) \/ (Due(x) /\ Told(x) /\ ~Lowers(e, x))
      /\ Excluded(x)' => ~Raises(e, x) /\ (Lowers(e, x) \/ Excluded(x))
  BY <1>5, DuesRecorded
<1> QED
  BY <1>1, <1>4, <1>6, <1>7, <1>8

\* A put of main only moves on; one of the server says nothing about a turn.
LEMMA SteadyDelivered ==
    ASSUME Shape, SessionFits, SessionKnown, Undisturbed, [Next]_vars, NEW p \in Phones,
           Steady(p), conn[p] \in {"greeted", "backlog", "live"}, ~mixed[p],
           NEW t \in Threads, DeliverEvent(t)
    PROVE  Steady(p)'
<1>0. /\ "main" \in Threads /\ "server" \in Threads /\ Nothing.stage = "none"
      /\ (t = "main" \/ t = "server") /\ ~RecordEvent("main")
  <2>1. ~RecordEvent("main")
    BY DEF DeliverEvent, RecordEvent, Shape, Threads, Nothing
  <2> QED
    BY <2>1 DEF Threads, Nothing
<1>1. /\ publishing[t].stage = "deliver" /\ publishing'[t].stage # "deliver"
      /\ \A u \in Threads : u # t => publishing'[u] = publishing[u]
      /\ queue'[p] = IF p \in publishing[t].to
                     THEN Append(queue[p], publishing[t].event) ELSE queue[p]
      /\ UNCHANGED <<history, conn, backlog, view>>
  BY AfterIsQuiet DEF DeliverEvent, Shape, connVars, phoneVars
<1>2. p \in publishing[t].to => conn[p] = "live"
  BY <1>1 DEF Undisturbed, Snapshotting
<1>3. CASE t = "main"
  <2>1. ~ToPage(p)' /\ (ToPage(p) <=> p \in publishing["main"].to)
    BY <1>0, <1>1, <1>3 DEF ToPage
  <2>2. Coming(p)' = Coming(p)
    BY <1>1, <1>2, <1>3, <2>1 DEF Coming
  <2> QED
    BY <1>0, <1>1, <2>2, SteadyKept
<1>4. CASE t = "server" /\ p \notin publishing[t].to
  BY <1>0, <1>1, <1>4, SteadyAside DEF ToPage
<1>5. CASE t = "server" /\ p \in publishing[t].to
  <2> DEFINE e == publishing["server"].event
             m == publishing["main"].event
             q == queue[p]
  <2>1. /\ queue'[p] = Append(q, e) /\ conn'[p] = "live" /\ conn[p] = "live"
        /\ e.kind \in QuietKinds
        /\ publishing'["main"] = publishing["main"] /\ IsSequence(q)
    BY <1>0, <1>1, <1>2, <1>5 DEF SessionFits, Shape
  <2>2. /\ Coming(p) = IF ToPage(p) THEN Append(q, m) ELSE q
        /\ Coming(p)' = IF ToPage(p) THEN Append(Append(q, e), m) ELSE Append(q, e)
    BY <2>1 DEF Coming, ToPage
  <2> HIDE DEF e, m, q
  <2>3. ASSUME NEW x
        PROVE  /\ EndsOn(Append(q, e), view[p], x) <=> EndsOn(q, view[p], x)
               /\ EndsOn(Append(Append(q, e), m), view[p], x) <=>
                      EndsOn(Append(q, m), view[p], x)
    <3>1. ~Raises(e, x) /\ ~Lowers(e, x)
      BY <2>1, QuietIsNeutral
    <3>2. EndsOn(Append(q, e), view[p], x) <=> EndsOn(q, view[p], x)
      BY <2>1, <3>1, EndsAppend
    <3>3. IsSequence(Append(q, e))
      BY <2>1, Appended
    <3>4. EndsOn(Append(Append(q, e), m), view[p], x) <=>
              Raises(m, x) \/ (EndsOn(Append(q, e), view[p], x) /\ ~Lowers(m, x))
      BY <3>3, EndsAppend
    <3>5. EndsOn(Append(q, m), view[p], x) <=>
              Raises(m, x) \/ (EndsOn(q, view[p], x) /\ ~Lowers(m, x))
      BY <2>1, EndsAppend
    <3> QED
      BY <3>2, <3>4, <3>5
  <2>4. \A x \in 0 .. MaxTurns :
           EndsOn(Coming(p)', view'[p], x) <=> EndsOn(Coming(p), view[p], x)
    BY <1>1, <2>2, <2>3
  <2> QED
    BY <1>0, <2>4, SteadyKept
<1> QED
  BY <1>0, <1>3, <1>4, <1>5

\* What Ctrl-C keeps from a page is about a request it ends.
LEMMA SteadyInterrupted ==
    ASSUME Shape, SessionFits, SessionKnown, Undisturbed, [Next]_vars, NEW p \in Phones,
           Steady(p), conn[p] \in {"greeted", "backlog", "live"}, ~mixed[p],
           recorded # recorded + 1, InterruptTurn
    PROVE  Steady(p)'
<1> DEFINE q == queue[p]
           m == publishing["main"].event
<1>0. /\ ~RecordEvent("main") /\ "main" \in Threads
      /\ UNCHANGED <<history, conn, backlog, view>> /\ ~ToPage(p)'
  BY DEF InterruptTurn, RecordEvent, StatusLine, ToPage, Threads, Shape, connVars
<1>1. CASE ~ToPage(p)
  <2>1. queue'[p] = queue[p]
    BY <1>1 DEF InterruptTurn, ToPage
  <2> QED
    BY <1>0, <1>1, <2>1, SteadyAside
<1>2. CASE ToPage(p)
  <2>1. conn[p] = "live"
    BY <1>0, <1>2 DEF ToPage, Undisturbed, Snapshotting
  <2>2. queue'[p] \in {q, Append(q, m)} /\ IsSequence(q)
    BY <1>2 DEF InterruptTurn, ToPage, Shape
  <2>3. Coming(p) = Append(q, m) /\ Coming(p)' = queue'[p]
    BY <1>0, <1>2, <2>1 DEF Coming
  <2>4. CASE queue'[p] = Append(q, m)
    BY <1>0, <2>3, <2>4, SteadyKept
  <2>5. CASE queue'[p] = q
    <3> SUFFICES ASSUME NEW x \in 0 .. MaxTurns
                 PROVE  /\ ~Due(x)'
                        /\ Excluded(x)' => ~EndsOn(q, view[p], x)
      BY <1>0, <2>3, <2>5 DEF Steady
    <3>1. /\ step' = "cut" /\ UNCHANGED turns
          /\ abandoned' = IF RequestUnderWay THEN abandoned \cup {turns} ELSE abandoned
      BY DEF InterruptTurn
    <3>2. ~Due(x)'
      BY <3>1 DEF Due
    <3>3. ASSUME Excluded(x)' PROVE ~EndsOn(q, view[p], x)
      <4>1. Excluded(x)
        BY <1>0, <3>3, DuesKept
      <4>2. ~EndsOn(Append(q, m), view[p], x)
        BY <2>3, <4>1 DEF Steady
      <4>3. x # 0 /\ x \notin abandoned'
        BY <3>1, <3>3 DEF Excluded
      <4>4. ~Lowers(m, x)
        <5>1. Lowers(m, x) => step = "asked" /\ x = turns /\ RequestUnderWay
          BY <1>2, <4>3 DEF Lowers, SessionFits, ToPage, RequestUnderWay
        <5> QED
          BY <3>1, <4>3, <5>1
      <4> HIDE DEF q, m
      <4>5. EndsOn(Append(q, m), view[p], x) <=>
                Raises(m, x) \/ (EndsOn(q, view[p], x) /\ ~Lowers(m, x))
        BY <2>2, EndsAppend
      <4> QED
        BY <4>2, <4>4, <4>5
    <3> QED
      BY <3>2, <3>3
  <2> QED
    BY <2>2, <2>4, <2>5
<1> QED
  BY <1>1, <1>2

\* Sending moves the first event to come onto the page.
LEMMA SteadySent ==
    ASSUME Shape, SessionFits, SessionKnown, EventsKnown, ScreensKnown, Undisturbed, [Next]_vars,
           NEW p \in Phones, Steady(p), ~mixed[p], conn[p] \in {"backlog", "live"},
           SendBacklog(p) \/ Pump(p)
    PROVE  Steady(p)'
<1>0. UNCHANGED <<history, publishing>> /\ ~RecordEvent("main") /\ view[p] \in Views
  <2>1. UNCHANGED <<history, publishing, recorded>>
    BY DEF SendBacklog, Pump, busVars
  <2>2. recorded \in Nat
    BY DEF EventsKnown
  <2>3. recorded # recorded + 1
    BY <2>2
  <2> QED
    BY <2>1, <2>3 DEF RecordEvent, ScreensKnown
<1>1. CASE SendBacklog(p) /\ backlog[p] # <<>>
  <2> DEFINE s == backlog[p]
             w == Show(view[p], Head(s).kind, Head(s).value)
  <2>1. /\ conn[p] = "backlog" /\ UNCHANGED conn
        /\ backlog'[p] = Tail(s) /\ view'[p] = w
    BY <1>1 DEF SendBacklog, SendTo, Shape, ScreensKnown
  <2>2. Coming(p) = s /\ Coming(p)' = Tail(s)
    BY <2>1 DEF Coming
  <2>3. IsSequence(s) /\ s # <<>> /\ KnownEvent(Head(s), recorded)
    BY <1>1, Headed DEF Shape, EventsKnown
  <2>4. \A x \in 0 .. MaxTurns : EndsOn(s, view[p], x) <=> EndsOn(Tail(s), w, x)
    <3> HIDE DEF s
    <3> QED
      BY <1>0, <2>3, EndsHead
  <2> QED
    BY <1>0, <2>1, <2>2, <2>4, SteadyKept
<1>2. CASE SendBacklog(p) /\ backlog[p] = <<>>
  <2>1. /\ conn[p] = "backlog" /\ conn'[p] = "live" /\ UNCHANGED <<view, queue>>
    BY <1>2 DEF SendBacklog, Shape, busVars
  <2>2. queue[p] = <<>> /\ ~ToPage(p)
    BY <2>1 DEF Undisturbed, Snapshotting, ToPage, Threads
  <2>3. Coming(p) = <<>> /\ Coming(p)' = <<>>
    BY <1>0, <1>2, <2>1, <2>2 DEF Coming, ToPage
  <2> QED
    BY <1>0, <2>1, <2>3, SteadyKept
<1>3. CASE Pump(p)
  <2> DEFINE s == queue[p]
             m == publishing["main"].event
             w == Show(view[p], Head(s).kind, Head(s).value)
  <2>1. /\ s # <<>> /\ UNCHANGED conn /\ queue'[p] = Tail(s) /\ view'[p] = w
    BY <1>3 DEF Pump, SendTo, Shape, ScreensKnown, connVars
  <2>2. conn[p] = "live" /\ conn'[p] = "live"
    BY <2>1 DEF Undisturbed, Snapshotting
  <2>3. /\ Coming(p) = IF ToPage(p) THEN Append(s, m) ELSE s
        /\ Coming(p)' = IF ToPage(p) THEN Append(Tail(s), m) ELSE Tail(s)
    BY <1>0, <2>1, <2>2 DEF Coming, ToPage
  <2>4. IsSequence(s) /\ IsSequence(Tail(s)) /\ KnownEvent(Head(s), recorded)
    BY <2>1, Headed DEF Shape, EventsKnown
  <2>5. ASSUME NEW x \in 0 .. MaxTurns
        PROVE  /\ EndsOn(s, view[p], x) <=> EndsOn(Tail(s), w, x)
               /\ EndsOn(Append(s, m), view[p], x) <=> EndsOn(Append(Tail(s), m), w, x)
    <3> HIDE DEF s, m
    <3>1. EndsOn(s, view[p], x) <=> EndsOn(Tail(s), w, x)
      BY <1>0, <2>1, <2>4, EndsHead
    <3> HIDE DEF w
    <3>2. EndsOn(Append(s, m), view[p], x) <=>
              Raises(m, x) \/ (EndsOn(s, view[p], x) /\ ~Lowers(m, x))
      BY <2>4, EndsAppend
    <3>3. EndsOn(Append(Tail(s), m), w, x) <=>
              Raises(m, x) \/ (EndsOn(Tail(s), w, x) /\ ~Lowers(m, x))
      BY <2>4, EndsAppend
    <3> QED
      BY <3>1, <3>2, <3>3
  <2> HIDE DEF s, m, w
  <2> QED
    BY <1>0, <2>1, <2>3, <2>5, SteadyKept
<1> QED
  BY <1>1, <1>2, <1>3

\* The session state and the history tell a phone together what the session is
\* doing: of a running turn the state, of its beginning and of a request the
\* history, and of nothing that is over either.
LEMMA SteadyGreeted ==
    ASSUME Shape, SessionFits, SessionKnown, EventsKnown, ScreensKnown, Undisturbed,
           HistoryTells, [Next]_vars,
           NEW p \in Phones, ~mixed[p], SendSessionState(p)
    PROVE  Steady(p)'
<1>1. /\ conn[p] = "joined" /\ conn'[p] = "greeted"
      /\ UNCHANGED <<history, publishing, step, turns, recorded>>
      /\ view' = [view EXCEPT ![p].busy = busy, ![p].thinking = showThinking]
  BY DEF SendSessionState, Shape, busVars, sessionVars
<1>2. view'[p].busy = busy /\ view'[p].cards = {}
  <2>1. view[p].cards = {}
    BY <1>1 DEF Undisturbed
  <2> QED
    BY <1>1, <2>1 DEF ScreensKnown, Views
<1>3. Coming(p)' = history
  BY <1>1 DEF Coming
<1>4. ~RecordEvent("main")
  <2>1. recorded \in Nat /\ recorded' = recorded
    BY <1>1 DEF EventsKnown
  <2>2. recorded' # recorded + 1
    BY <2>1
  <2> QED
    BY <2>2 DEF RecordEvent
<1> SUFFICES ASSUME NEW x \in 0 .. MaxTurns
             PROVE  /\ Due(x)' /\ Told(x)' => EndsOn(Coming(p)', view'[p], x)
                    /\ Excluded(x)' => ~EndsOn(Coming(p)', view'[p], x)
  BY DEF Steady
<1>5. (Due(x)' => Due(x)) /\ (Due(x)' /\ Told(x)' => Told(x)) /\ (Excluded(x)' => Excluded(x))
  BY <1>4, DuesKept
<1>6. ASSUME Due(x), Told(x) PROVE EndsOn(history, view'[p], x)
  <2>1. LeavesOn(history, x) /\ IsSequence(history)
    BY <1>6 DEF HistoryTells, Shape
  <2>2. CASE x = 0 /\ step = "running"
    <3>1. On(view'[p], x)
      BY <1>2, <2>2 DEF SessionFits, On
    <3> QED
      BY <2>1, <3>1 DEF LeavesOn, EndsOn
  <2>3. CASE ~(x = 0 /\ step = "running")
    <3>1. PICK e \in ToSet(history) : Raises(e, x)
      BY <1>6, <2>3 DEF Due, Told, Remembered, Raises
    <3> QED
      BY <2>1, <3>1, RaisedBy DEF EndsOn
  <2> QED
    BY <2>2, <2>3
<1>7. ASSUME Excluded(x) PROVE ~Raised(history, x) /\ ~On(view'[p], x)
  <2>1. ~Raised(history, x)
    BY <1>7 DEF HistoryTells
  <2>2. CASE x = 0
    BY <1>2, <1>7, <2>1, <2>2 DEF Excluded, SessionFits, On
  <2>3. CASE x # 0
    BY <1>2, <2>1, <2>3 DEF On
  <2> QED
    BY <2>2, <2>3
<1> QED
  BY <1>3, <1>5, <1>6, <1>7 DEF EndsOn

\* Each step of a phone that is catching up or live leaves its page in line.
LEMMA PageFollowsStep ==
    ASSUME Shape, JoinedSubscribes, Types, SessionFits, Undisturbed, HistoryTells,
           PageFollows, [Next]_vars
    PROVE  PageFollows'
<1> SUFFICES ASSUME NEW p \in Phones, conn'[p] \in {"greeted", "backlog", "live"}, ~mixed'[p]
             PROVE  Steady(p)'
  BY DEF PageFollows
<1>0. /\ SessionKnown /\ EventsKnown /\ ScreensKnown /\ ConnectionsCounted
      /\ "main" \in Threads /\ "server" \in Threads /\ Nothing.stage = "none"
      /\ \A t \in Threads : t = "main" \/ t = "server"
      /\ recorded # recorded + 1
  <2>1. recorded \in Nat
    BY DEF Types, EventsKnown
  <2>2. recorded # recorded + 1
    BY <2>1
  <2> QED
    BY <2>2 DEF Types, Threads, Nothing
<1>1. ASSUME conn[p] \in {"greeted", "backlog", "live"}, ~mixed[p] PROVE Steady(p)
  BY <1>1 DEF PageFollows
<1>2. ASSUME NEW t \in Threads, RecordEvent(t) PROVE Steady(p)'
  <2>1. UNCHANGED conn /\ mixed'[p] = (mixed[p] \/ Snapshotting(p))
    BY <1>2 DEF RecordEvent, connVars
  <2>2. conn[p] = "live" /\ ~mixed[p]
    BY <2>1 DEF Snapshotting
  <2>3. CASE t = "main"
    BY <1>0, <1>1, <1>2, <2>2, <2>3, SteadyRecorded
  <2>4. CASE t = "server"
    <3>1. /\ publishing["server"].stage = "record" /\ publishing'["server"].stage = "deliver"
          /\ publishing'["main"] = publishing["main"]
          /\ UNCHANGED <<conn, queue, backlog, view>>
      BY <1>0, <1>2, <2>4 DEF RecordEvent, Shape, connVars
    <3>2. ~RecordEvent("main")
      BY <1>0, <3>1 DEF RecordEvent, Shape
    <3>3. ToPage(p)' <=> ToPage(p)
      BY <3>1 DEF ToPage
    <3>4. Coming(p)' = Coming(p)
      BY <2>2, <3>1, <3>3 DEF Coming
    <3> QED
      BY <1>0, <1>1, <2>2, <3>1, <3>2, <3>4, SteadyKept
  <2> QED
    BY <1>0, <2>3, <2>4
<1>3. ASSUME NEW t \in Threads, DeliverEvent(t) PROVE Steady(p)'
  <2>1. UNCHANGED <<conn, mixed>>
    BY <1>3 DEF DeliverEvent, connVars, phoneVars
  <2> QED
    BY <1>0, <1>1, <1>3, <2>1, SteadyDelivered
\* Otherwise only main's put and the phone's own connection matter.
<1>4. ASSUME UNCHANGED <<history, recorded>>, conn'[p] = conn[p], view'[p] = view[p],
             mixed'[p] = mixed[p], backlog'[p] = backlog[p], queue'[p] = queue[p],
             ToPage(p)' <=> ToPage(p),
             ToPage(p) => publishing'["main"].event = publishing["main"].event
      PROVE  Steady(p)'
  <2>1. ~RecordEvent("main")
    BY <1>0, <1>4 DEF RecordEvent
  <2> QED
    BY <1>0, <1>1, <1>4, <2>1, SteadyAside
<1>5. ASSUME MainStep PROVE Steady(p)'
  <2>1. UNCHANGED <<history, recorded, conn, view, mixed, backlog, queue>>
    BY <1>5 DEF MainStep, StartTurn, HandleCommand, PrintLine, SetBusy, PublishFromMain,
       busVars, connVars, phoneVars
  <2>2. ~ToPage(p) /\ ~ToPage(p)'
    BY <1>0, <1>5 DEF MainStep, StartTurn, HandleCommand, PrintLine, SetBusy, PublishFromMain,
       MainFree, Publish, StatusLine, ToPage,
       Shape
  <2> QED
    BY <1>4, <2>1, <2>2
<1>6. ASSUME NEW t \in Threads, NEW enabled, BuildThinkingEvent(t) \/ SetThinking(t, enabled)
      PROVE  Steady(p)'
  <2>1. UNCHANGED <<history, recorded, conn, view, mixed, backlog, queue>>
    BY <1>6 DEF BuildThinkingEvent, SetThinking, busVars, connVars, phoneVars
  <2>2. \/ publishing'["main"] = publishing["main"]
        \/ ~ToPage(p) /\ ~ToPage(p)'
    BY <1>0, <1>6 DEF BuildThinkingEvent, SetThinking, ThreadFree, MainFree, Publish, ToPage,
       Shape
  <2> QED
    BY <1>4, <2>1, <2>2 DEF ToPage
<1>7. ASSUME NEW q \in Phones, q # p, ServerStep(q) PROVE Steady(p)'
  <2>1. /\ UNCHANGED <<history, recorded>> /\ conn'[p] = conn[p] /\ view'[p] = view[p]
        /\ mixed'[p] = mixed[p] /\ backlog'[p] = backlog[p] /\ queue'[p] = queue[p]
    BY <1>0, <1>7 DEF ServerStep, Accept, Subscribe, SendSessionState, CopyHistory, SendBacklog,
       SendTo, Pump, LoseLink, PumpFails, Close, Shape, ScreensKnown, Undisturbed, busVars,
       connVars, phoneVars
  <2>2. \/ publishing'["main"] = publishing["main"]
        \/ publishing'["main"] = WithoutReader(publishing["main"], q)
    BY <1>0, <1>7 DEF ServerStep, Accept, Subscribe, SendSessionState, CopyHistory, SendBacklog,
       Pump, LoseLink, PumpFails, Close, Shape
  <2>3. /\ ToPage(p)' <=> ToPage(p)
        /\ ToPage(p) => publishing'["main"].event = publishing["main"].event
    BY <1>7, <2>2 DEF ToPage, WithoutReader
  <2> QED
    BY <1>4, <2>1, <2>3
<1>8. CASE SendSessionState(p)
  <2>1. ~mixed[p]
    BY <1>8 DEF SendSessionState
  <2> QED
    BY <1>0, <1>8, <2>1, SteadyGreeted
<1>9. CASE CopyHistory(p)
  <2>1. /\ conn[p] = "greeted" /\ conn'[p] = "backlog" /\ backlog'[p] = history
        /\ UNCHANGED <<view, mixed, recorded>>
    BY <1>9 DEF CopyHistory, Shape, phoneVars, busVars
  <2>2. Coming(p)' = Coming(p)
    BY <2>1 DEF Coming
  <2>3. ~RecordEvent("main")
    BY <1>0, <2>1 DEF RecordEvent
  <2> QED
    BY <1>0, <1>1, <2>1, <2>2, <2>3, SteadyKept
<1>10. CASE SendBacklog(p) \/ Pump(p)
  <2>1. /\ UNCHANGED mixed
        /\ conn[p] \in {"backlog", "live"}
    <3>1. SendBacklog(p) => conn[p] = "backlog" /\ UNCHANGED mixed
      BY DEF SendBacklog
    <3>2. Pump(p) => UNCHANGED <<conn, mixed>> /\ queue[p] # <<>> /\ Connected(p)
      BY DEF Pump, connVars
    <3> QED
      BY <1>10, <3>1, <3>2 DEF Undisturbed, Snapshotting, Connected
  <2> QED
    BY <1>0, <1>1, <1>10, <2>1, SteadySent
<1>11. ASSUME Accept(p) \/ Subscribe(p) \/ LoseLink(p) \/ PumpFails(p) \/ Close(p) PROVE FALSE
  BY <1>11 DEF Accept, Subscribe, LoseLink, PumpFails, Close, Shape
<1>12. CASE UNCHANGED vars
  BY <1>4, <1>12 DEF ToPage, vars, busVars, connVars, phoneVars
<1>13. CASE InterruptTurn
  <2>1. UNCHANGED <<conn, mixed>>
    BY <1>13 DEF InterruptTurn, connVars
  <2> QED
    BY <1>0, <1>1, <1>13, <2>1, SteadyInterrupted
<1> QED
  BY <1>2, <1>3, <1>5, <1>6, <1>7, <1>8, <1>9, <1>10, <1>11, <1>12, <1>13 DEF Next, ServerStep

\* With nothing under way, what is still to come is nothing: the page has it all.
LEMMA PageTells ==
    ASSUME Types, SessionFits, PageFollows PROVE QuietJoinShowsSession
<1> SUFFICES ASSUME NEW p \in Phones, Settled(p), ~mixed[p] PROVE ShowsSession(p)
  BY DEF QuietJoinShowsSession
<1>1. /\ conn[p] = "live" /\ queue[p] = <<>> /\ publishing["main"].stage = "none"
  BY DEF Settled, Threads, Nothing
<1>2. Coming(p) = <<>>
  BY <1>1 DEF Coming, ToPage
<1>3. \A x \in 0 .. MaxTurns : /\ Due(x) /\ Told(x) => On(view[p], x)
                               /\ Excluded(x) => ~On(view[p], x)
  BY <1>1, <1>2, EndsEmpty DEF PageFollows, Steady
<1>4. \A kind : ~Pending(kind)
  BY <1>1 DEF Pending
<1>5. /\ view[p].cards \subseteq 1 .. MaxTurns /\ MaxTurns \in Nat /\ turns \in 0 .. MaxTurns
      /\ step # "idle" => turns > 0
  BY FeedAssumption DEF Types, ScreensKnown, Views, SessionKnown
<1>6. view[p].cards \subseteq OpenRequests \cup abandoned
  <2> SUFFICES ASSUME NEW x \in view[p].cards, x \notin abandoned PROVE x \in OpenRequests
    OBVIOUS
  <2>1. x # 0 /\ x \in 0 .. MaxTurns
    BY <1>5
  <2>2. ~Excluded(x)
    BY <1>3, <2>1 DEF On
  <2>3. Due(x)
    BY <1>4, <2>1, <2>2 DEF Excluded
  <2> QED
    BY <2>1, <2>3 DEF Due, OpenRequests
<1>7. Remembered("approval_requested") => OpenRequests \subseteq view[p].cards
  <2> SUFFICES ASSUME Remembered("approval_requested"), step = "asking"
               PROVE  turns \in view[p].cards
    BY DEF OpenRequests
  <2>1. turns # 0 /\ turns \in 0 .. MaxTurns
    BY <1>5
  <2>2. Due(turns) /\ Told(turns)
    BY <1>4, <2>1 DEF Due, Told
  <2> QED
    BY <1>3, <2>1, <2>2 DEF On
<1>8. 0 \in 0 .. MaxTurns
  BY <1>5
<1>9. (step = "idle" => ~view[p].busy) /\ (step = "running" /\ ~late => view[p].busy)
  BY <1>3, <1>4, <1>8 DEF Due, Told, Excluded, On
<1> QED
  BY <1>6, <1>7, <1>9 DEF ShowsSession

\* What the session does, what the history tells of it, and what a phone that
\* catches up is told.
QuietInv ==
    /\ Inv /\ Types
    /\ SessionFits /\ HistoryTells /\ Undisturbed /\ PageFollows

LEMMA InitQuiet == Init => QuietInv
BY InitInv, InitTypes, FitsInit, InitHistory, InitPages DEF QuietInv

LEMMA QuietInvStep == QuietInv /\ [Next]_vars => QuietInv'
<1> SUFFICES ASSUME QuietInv, [Next]_vars PROVE QuietInv'
  OBVIOUS
<1>1. /\ Shape /\ JoinedSubscribes /\ SessionKnown /\ EventsKnown /\ ScreensKnown
      /\ ConnectionsCounted /\ Types /\ SessionFits /\ HistoryTells
      /\ Undisturbed /\ PageFollows
  BY DEF QuietInv, Inv, Types
<1>2. Inv'
  BY StepInv DEF QuietInv
<1>3. Types'
  BY <1>1, SessionStep, EventsStep, ScreensStep, CountsStep DEF Types
<1>4. SessionFits' /\ HistoryTells'
  BY <1>1, FitsStep, HistoryTellsStep
<1>5. Undisturbed'
  BY <1>1, UndisturbedStep
<1>6. PageFollows'
  BY <1>1, PageFollowsStep
<1> QED
  BY <1>2, <1>3, <1>4, <1>5, <1>6 DEF QuietInv

\* For any number of phones, turns and connections and any limit of the history:
\* a phone that caught up undisturbed shows the session as it is, at whatever
\* moment the session state and the history (_send_snapshot) reached it and
\* whatever both threads recorded meanwhile.
THEOREM QuietJoin == Spec => []QuietJoinShowsSession
<1>1. QuietInv => QuietJoinShowsSession
  BY PageTells DEF QuietInv
<1> QED
  BY <1>1, InitQuiet, QuietInvStep, PTL DEF Spec

=============================================================================
