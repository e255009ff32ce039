-------------------------- MODULE InputLoopProofs --------------------------
(***************************************************************************)
(* What holds of InputLoop for any number of messages and typed lines: its *)
(* types, and that the messages phones send are handled once each and in   *)
(* the order sent.                                                         *)
(***************************************************************************)
EXTENDS InputLoop, TLAPS

\* A message is in hand only between the queue or the prompt and its turn.
HandMatchesPhase == IF phase = "got" THEN Len(hand) = 1 ELSE hand = <<>>

PromptMatchesPhase == prompt = "input" <=> phase = "prompt"

IInv == TypeOK /\ HandMatchesPhase /\ PromptMatchesPhase /\ RemoteInOrder

LEMMA InitIInv == Init => IInv
<1> SUFFICES ASSUME Init PROVE IInv
  OBVIOUS
<1> USE BoundsAssumption DEF Init
<1>1. TypeOK
  <2>1. BusTypes
    <3>1. inbox \in Seq(Messages) /\ sent \in 0 .. MaxRemote
      OBVIOUS
    <3> QED
      BY <3>1 DEF BusTypes
  <2>2. PromptTypes
    BY DEF PromptTypes
  <2>3. LoopTypes
    BY DEF LoopTypes
  <2>4. HandTypes
    BY DEF HandTypes
  <2> QED
    BY <2>1, <2>2, <2>3, <2>4 DEF TypeOK
<1>2. HandMatchesPhase /\ PromptMatchesPhase
  BY DEF HandMatchesPhase, PromptMatchesPhase
<1>3. RemoteInOrder
  BY DEF RemoteInOrder, InOrder, Taken, Seen
<1> QED
  BY <1>1, <1>2, <1>3 DEF IInv

-----------------------------------------------------------------------------
(* Types. *)

LEMMA TypeStep == IInv /\ [Next]_vars => TypeOK'
<1> SUFFICES ASSUME IInv, [Next]_vars PROVE TypeOK'
  OBVIOUS
<1> USE BoundsAssumption DEF IInv, TypeOK, BusTypes, PromptTypes, LoopTypes, HandTypes,
                             Messages, Terminal,
                             busVars, serverVars, promptVars, mainVars
<1>1. CASE QueueInput
  BY <1>1 DEF QueueInput
<1>2. CASE CopyListeners
  BY <1>2 DEF CopyListeners
<1>3. CASE NotifyListeners
  <2> USE <1>3 DEF NotifyListeners
  <2>1. BusTypes'
    OBVIOUS
  <2>2. PromptTypes'
    <3>1. CASE copied = "current" /\ ~tripped
      <4>1. tripped' = TRUE /\ attached' = FALSE /\ prompt' = prompt
        BY <3>1
      <4>2. dismissers' = IF attached THEN dismissers + 1 ELSE dismissers
        BY <3>1
      <4>3. dismissers' \in Nat
        BY <4>2
      <4> QED
        BY <4>1, <4>3
    <3>2. CASE ~(copied = "current" /\ ~tripped)
      BY <3>2
    <3> QED
      BY <3>1, <3>2
  <2>3. LoopTypes'
    OBVIOUS
  <2>4. HandTypes'
    OBVIOUS
  <2> QED
    BY <2>1, <2>2, <2>3, <2>4
<1>4. CASE PollInput
  <2> USE <1>4 DEF PollInput, Polled, RestAfterPoll
  <2>1. BusTypes'
    <3>1. CASE inbox # <<>>
      <4>1. Tail(inbox) \in Seq(Messages)
        BY <3>1
      <4> QED
        BY <3>1, <4>1
    <3>2. CASE inbox = <<>>
      BY <3>2
    <3> QED
      BY <3>1, <3>2
  <2>2. PromptTypes'
    OBVIOUS
  <2>3. LoopTypes'
    OBVIOUS
  <2>4. HandTypes'
    <3>1. CASE inbox # <<>>
      <4>1. Head(inbox) \in Messages
        BY <3>1
      <4>2. hand' = <<Head(inbox)>> /\ handled' = handled
        BY <3>1
      <4>3. hand' \in Seq(Messages \cup {Terminal}) /\ Len(hand') = 1
        BY <4>1, <4>2
      <4> QED
        BY <4>2, <4>3
    <3>2. CASE inbox = <<>>
      BY <3>2
    <3> QED
      BY <3>1, <3>2
  <2> QED
    BY <2>1, <2>2, <2>3, <2>4
<1>5. CASE AddInputListener
  BY <1>5 DEF AddInputListener
<1>6. CASE EnterPrompt
  BY <1>6 DEF EnterPrompt
<1>7. CASE AddListener
  BY <1>7 DEF AddListener, RunsListenerNow
<1>8. CASE StartPrompt
  BY <1>8 DEF StartPrompt
<1>9. CASE PromptReturns
  <2> USE <1>9 DEF PromptReturns
  <2>1. BusTypes'
    OBVIOUS
  <2>2. PromptTypes'
    OBVIOUS
  <2>3. LoopTypes'
    OBVIOUS
  <2>4. HandTypes'
    <3>1. CASE line = "text"
      <4>1. hand' = <<Terminal>> /\ handled' = handled
        BY <3>1
      <4>2. hand' \in Seq(Messages \cup {Terminal}) /\ Len(hand') = 1
        BY <4>1
      <4> QED
        BY <4>1, <4>2
    <3>2. CASE line # "text"
      <4>1. hand' = hand /\ handled' = handled
        BY <3>2
      <4> QED
        BY <4>1
    <3> QED
      BY <3>1, <3>2
  <2> QED
    BY <2>1, <2>2, <2>3, <2>4
<1>10. CASE StartTurn
  BY <1>10 DEF StartTurn
<1>11. CASE EndTurn
  BY <1>11 DEF EndTurn
<1>12. ASSUME NEW what \in {"text", "blank", "ctrl-c", "eof"}, Type(what)
       PROVE  TypeOK'
  BY <1>12 DEF Type
<1>13. CASE DismissPrompt
  BY <1>13 DEF DismissPrompt
<1>14. CASE GiveUp
  BY <1>14 DEF GiveUp
<1>15. CASE UNCHANGED vars
  BY <1>15 DEF vars
<1> QED
  BY <1>1, <1>2, <1>3, <1>4, <1>5, <1>6, <1>7, <1>8, <1>9, <1>10, <1>11,
     <1>12, <1>13, <1>14, <1>15 DEF Next, MainStep

\* The hand is empty and the prompt is not up except where the phase says so.
LEMMA PhaseStep == IInv /\ [Next]_vars => (HandMatchesPhase /\ PromptMatchesPhase)'
<1> SUFFICES ASSUME IInv, [Next]_vars
             PROVE  HandMatchesPhase' /\ PromptMatchesPhase'
  OBVIOUS
<1> USE DEF IInv, TypeOK, BusTypes, PromptTypes, LoopTypes, HandTypes,
            HandMatchesPhase, PromptMatchesPhase,
            busVars, serverVars, promptVars, mainVars
<1>1. CASE QueueInput \/ CopyListeners \/ NotifyListeners \/ GiveUp
  BY <1>1 DEF QueueInput, CopyListeners, NotifyListeners, GiveUp
<1>2. CASE PollInput
  BY <1>2 DEF PollInput, Polled
<1>3. CASE AddInputListener \/ EnterPrompt \/ AddListener \/ StartPrompt
  BY <1>3 DEF AddInputListener, EnterPrompt, AddListener, StartPrompt
<1>4. CASE PromptReturns
  BY <1>4 DEF PromptReturns
<1>5. CASE StartTurn \/ EndTurn
  BY <1>5 DEF StartTurn, EndTurn
<1>6. ASSUME NEW what \in {"text", "blank", "ctrl-c", "eof"}, Type(what)
      PROVE  HandMatchesPhase' /\ PromptMatchesPhase'
  BY <1>6 DEF Type
<1>7. CASE DismissPrompt
  BY <1>7 DEF DismissPrompt
<1>8. CASE UNCHANGED vars
  BY <1>8 DEF vars
<1> QED
  BY <1>1, <1>2, <1>3, <1>4, <1>5, <1>6, <1>7, <1>8 DEF Next, MainStep

-----------------------------------------------------------------------------
(* The order of messages. *)

\* Seeing the next message, or a line of the terminal, keeps the order.
LEMMA SeeOneMore ==
  ASSUME NEW s \in Seq(Nat), NEW low \in Nat, NEW x \in Nat, NEW high \in Nat,
         InOrder(s, low),
         \/ x = low + 1 /\ high = low + 1
         \/ x = Terminal /\ high = low
  PROVE  InOrder(Append(s, x), high)
<1> DEFINE t == Append(s, x)
<1> USE DEF InOrder, Terminal
<1>1. /\ DOMAIN t = 1 .. Len(s) + 1
      /\ DOMAIN s = 1 .. Len(s)
      /\ Len(s) \in Nat
      /\ t[Len(s) + 1] = x
      /\ \A i \in 1 .. Len(s) : t[i] = s[i] /\ s[i] \in Nat
  OBVIOUS
<1> HIDE DEF t
<1>2. \A i \in DOMAIN t : t[i] <= high
  BY <1>1
<1>3. ASSUME NEW m \in 1 .. high PROVE \E i \in DOMAIN t : t[i] = m
  <2>1. CASE m \in 1 .. low
    <3>1. PICK i \in DOMAIN s : s[i] = m
      BY <2>1
    <3> QED
      BY <3>1, <1>1
  <2>2. CASE m = low + 1
    BY <2>2, <1>1
  <2> QED
    BY <2>1, <2>2
<1>4. \A i, j \in DOMAIN t :
        (i < j /\ t[i] # Terminal /\ t[j] # Terminal) => t[i] < t[j]
  <2> SUFFICES ASSUME NEW i \in DOMAIN t, NEW j \in DOMAIN t,
                      i < j, t[i] # Terminal, t[j] # Terminal
               PROVE  t[i] < t[j]
    OBVIOUS
  <2>1. i \in 1 .. Len(s) /\ t[i] = s[i] /\ s[i] \in Nat /\ s[i] <= low
    BY <1>1
  <2>2. CASE j \in 1 .. Len(s)
    BY <2>1, <2>2, <1>1
  <2>3. CASE j = Len(s) + 1
    BY <2>1, <2>3, <1>1
  <2> QED
    BY <2>2, <2>3, <1>1
<1>5. InOrder(t, high)
  BY <1>2, <1>3, <1>4
<1> QED
  BY <1>5 DEF t

\* Steps that touch neither the queue nor what was seen.
LEMMA OrderUntouched ==
  ASSUME RemoteInOrder, inbox' = inbox, sent' = sent, Seen' = Seen
  PROVE  RemoteInOrder'
BY DEF RemoteInOrder, Taken

LEMMA QueueKeepsOrder == IInv /\ QueueInput => RemoteInOrder'
<1> SUFFICES ASSUME IInv, QueueInput PROVE RemoteInOrder'
  OBVIOUS
<1> USE DEF IInv, TypeOK, BusTypes, HandTypes, RemoteInOrder
<1>1. inbox' = Append(inbox, sent + 1) /\ sent' = sent + 1 /\ Seen' = Seen
  BY DEF QueueInput, Seen, mainVars
<1>2. Len(inbox') = Len(inbox) + 1 /\ Taken' = Taken /\ Taken \in Nat
  BY <1>1 DEF Taken
<1>3. \A k \in DOMAIN inbox' : inbox'[k] = Taken' + k
  BY <1>1, <1>2 DEF Taken
<1> QED
  BY <1>1, <1>2, <1>3

\* With an empty hand, what was seen is what was handled.
LEMMA EmptyHand == (TypeOK /\ hand = <<>>) => Seen = handled
BY DEF TypeOK, HandTypes, Seen

LEMMA PollKeepsOrder == IInv /\ PollInput => RemoteInOrder'
<1> SUFFICES ASSUME IInv, PollInput PROVE RemoteInOrder'
  OBVIOUS
<1> USE DEF IInv, TypeOK, BusTypes, HandTypes
<1>1. CASE inbox = <<>>
  <2>1. inbox' = inbox /\ sent' = sent /\ hand' = hand /\ handled' = handled
    BY <1>1 DEF PollInput, serverVars
  <2> QED
    BY <2>1, OrderUntouched DEF Seen
<1>2. CASE inbox # <<>>
  <2>1. /\ inbox' = Tail(inbox) /\ sent' = sent /\ handled' = handled
        /\ hand = <<>> /\ hand' = <<Head(inbox)>>
    BY <1>2 DEF PollInput, Polled, RestAfterPoll, HandMatchesPhase, serverVars
  <2>2. /\ Len(inbox) \in Nat \ {0} /\ Len(inbox') = Len(inbox) - 1
        /\ Head(inbox) = inbox[1]
        /\ \A k \in DOMAIN inbox' : inbox'[k] = inbox[k + 1] /\ k + 1 \in DOMAIN inbox
    BY <1>2, <2>1
  <2>3. Taken \in Nat /\ Taken' = Taken + 1 /\ Head(inbox) = Taken + 1
    <3>1. sent \in Nat /\ Len(inbox) <= sent /\ inbox[1] = Taken + 1
      BY <2>2 DEF RemoteInOrder
    <3> QED
      BY <2>1, <2>2, <3>1 DEF Taken
  <2>4. Seen = handled /\ Seen' = Append(handled, Taken + 1)
    <3>1. Seen' = handled \o <<Taken + 1>>
      BY <2>1, <2>3 DEF Seen
    <3> QED
      BY <3>1, <2>1, EmptyHand
  <2>5. Len(inbox') <= sent' /\ \A k \in DOMAIN inbox' : inbox'[k] = Taken' + k
    <3>1. Len(inbox') <= sent'
      BY <2>1, <2>2 DEF RemoteInOrder
    <3>2. ASSUME NEW k \in DOMAIN inbox' PROVE inbox'[k] = Taken' + k
      <4>1. k \in Nat /\ inbox'[k] = Taken + (k + 1)
        BY <2>1, <2>2 DEF RemoteInOrder
      <4> QED
        BY <2>3, <4>1
    <3> QED
      BY <3>1, <3>2
  <2>6. InOrder(Seen', Taken')
    <3>1. handled \in Seq(Nat)
      BY BoundsAssumption DEF Messages, Terminal
    <3>2. InOrder(handled, Taken)
      BY <2>4 DEF RemoteInOrder
    <3>3. InOrder(Append(handled, Taken + 1), Taken + 1)
      BY <2>3, <3>1, <3>2, SeeOneMore
    <3> QED
      BY <2>3, <2>4, <3>3
  <2> QED
    BY <2>5, <2>6 DEF RemoteInOrder
<1> QED
  BY <1>1, <1>2

LEMMA PromptKeepsOrder == IInv /\ PromptReturns => RemoteInOrder'
<1> SUFFICES ASSUME IInv, PromptReturns PROVE RemoteInOrder'
  OBVIOUS
<1> USE DEF IInv, TypeOK, BusTypes, HandTypes
<1>1. inbox' = inbox /\ sent' = sent /\ handled' = handled /\ hand = <<>>
  BY DEF PromptReturns, HandMatchesPhase
<1>2. CASE hand' = hand
  BY <1>1, <1>2, OrderUntouched DEF Seen
<1>3. CASE hand' = <<Terminal>>
  <2>1. Seen = handled /\ Seen' = Append(handled, Terminal)
    <3>1. Seen' = handled \o <<Terminal>>
      BY <1>1, <1>3 DEF Seen
    <3> QED
      BY <3>1, <1>1, EmptyHand
  <2>2. Taken \in Nat /\ Taken' = Taken
    BY <1>1 DEF Taken, RemoteInOrder
  <2>3. InOrder(Seen', Taken')
    <3>1. handled \in Seq(Nat)
      BY BoundsAssumption DEF Messages, Terminal
    <3>2. InOrder(handled, Taken)
      BY <2>1 DEF RemoteInOrder
    <3>3. InOrder(Append(handled, Terminal), Taken)
      BY <2>2, <3>1, <3>2, SeeOneMore DEF Terminal
    <3> QED
      BY <2>1, <2>2, <3>3
  <2> QED
    BY <1>1, <2>2, <2>3 DEF RemoteInOrder
<1> QED
  BY <1>2, <1>3 DEF PromptReturns

LEMMA TurnKeepsOrder == IInv /\ StartTurn => RemoteInOrder'
<1> SUFFICES ASSUME IInv, StartTurn PROVE RemoteInOrder'
  OBVIOUS
<1> USE DEF IInv, TypeOK, BusTypes, HandTypes
<1>1. inbox' = inbox /\ sent' = sent
  BY DEF StartTurn, busVars, serverVars
<1>2. Seen' = Seen
  <2>1. handled \o hand \in Seq(Messages \cup {Terminal})
    OBVIOUS
  <2>2. Seen' = (handled \o hand) \o <<>>
    BY DEF StartTurn, Seen
  <2> QED
    BY <2>1, <2>2 DEF Seen
<1> QED
  BY <1>1, <1>2, OrderUntouched

LEMMA StepIInv == IInv /\ [Next]_vars => IInv'
<1> SUFFICES ASSUME IInv, [Next]_vars PROVE RemoteInOrder'
  BY TypeStep, PhaseStep DEF IInv
<1> USE DEF busVars, serverVars, promptVars, mainVars
<1>1. CASE QueueInput \/ PollInput \/ PromptReturns \/ StartTurn
  BY <1>1, QueueKeepsOrder, PollKeepsOrder, PromptKeepsOrder, TurnKeepsOrder
<1>2. ASSUME inbox' = inbox, sent' = sent, hand' = hand, handled' = handled
      PROVE  RemoteInOrder'
  BY <1>2, OrderUntouched DEF IInv, Seen
<1>3. CASE CopyListeners \/ NotifyListeners \/ DismissPrompt \/ GiveUp
  BY <1>2, <1>3 DEF CopyListeners, NotifyListeners, DismissPrompt, GiveUp
<1>4. CASE AddInputListener \/ EnterPrompt \/ AddListener \/ StartPrompt \/ EndTurn
  BY <1>2, <1>4 DEF AddInputListener, EnterPrompt, AddListener, StartPrompt, EndTurn
<1>5. ASSUME NEW what \in {"text", "blank", "ctrl-c", "eof"}, Type(what)
      PROVE  RemoteInOrder'
  BY <1>2, <1>5 DEF Type
<1>6. CASE UNCHANGED vars
  BY <1>2, <1>6 DEF vars
<1> QED
  BY <1>1, <1>3, <1>4, <1>5, <1>6 DEF Next, MainStep

-----------------------------------------------------------------------------

\* The inductive invariant of the input loop.
THEOREM Invariance == Spec => []IInv
BY InitIInv, StepIInv, PTL DEF Spec

\* Every variable stays in its range; in particular one message at most is in hand.
THEOREM TypeCorrect == Spec => []TypeOK
<1>1. IInv => TypeOK
  BY DEF IInv
<1> QED
  BY Invariance, <1>1, PTL

\* Messages from phones are handled once each and in the order they were sent, for
\* any number of messages, typed lines, dismissals and interrupts.
THEOREM HandledInOrder == Spec => []RemoteInOrder
<1>1. IInv => RemoteInOrder
  BY DEF IInv
<1> QED
  BY Invariance, <1>1, PTL

=============================================================================
