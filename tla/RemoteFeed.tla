----------------------------- MODULE RemoteFeed -----------------------------
(***************************************************************************)
(* How the session reaches a phone.  Two threads publish: main, which runs *)
(* a turn until it is over or Ctrl-C cuts it off, and the server loop,     *)
(* which flips the reasoning display for a phone and announces             *)
(* connections.  EventBus.publish records an event in  *)
(* the history and copies the subscribers under the lock, and hands it to  *)
(* their queues after letting go of it.  On connecting, a phone is         *)
(* subscribed, a task pumps its queue, and concurrently the endpoint sends *)
(* the session state and a copy of the history.                            *)
(*                                                                         *)
(* A queue stands for the loop's scheduled callbacks followed by the       *)
(* asyncio queue: both are first in, first out.  A sent message is on the  *)
(* phone's screen at once: a websocket does not reorder, and what is lost  *)
(* with a connection the phone clears when it reconnects.                  *)
(***************************************************************************)
EXTENDS Naturals, Sequences, SequencesExt

CONSTANTS Phones,
          HistoryLimit,  \* maxlen of the history
          MaxTurns, MaxJoins, MaxToggles,  \* bounds on a behaviour
          MaxEvents      \* once so many events are recorded no line is printed
                         \* and the display is not flipped

ASSUME FeedAssumption ==
    /\ HistoryLimit \in Nat \ {0}
    /\ MaxTurns \in Nat /\ MaxJoins \in Nat /\ MaxToggles \in Nat /\ MaxEvents \in Nat

VARIABLES
    \* EventBus
    history, subscribers, queue,
    recorded,      \* number of events recorded so far, which numbers them
    \* the two publishing threads: the event on its way, per thread
    publishing,
    \* the session: where main is in its turn, and Repl's two flags
    step, turns, busy, showThinking, toggles,
    late,          \* the turn's message had left the history before busy was set
    abandoned,     \* requests that ended with Ctrl-C, before all were told how
    \* the server's endpoint per phone
    conn, backlog, pumpAlive, joins,
    leaked,        \* subscriber queues nobody will ever remove
    \* the phone: what its page shows, and the events it has been sent
    view, shown,
    mixed,         \* an event was recorded while the phone's snapshot went out
    missed         \* events Ctrl-C kept from the phone: their publish was cut off

busVars == <<history, subscribers, queue, recorded>>
sessionVars == <<step, turns, busy, showThinking, toggles, late, abandoned>>
connVars == <<conn, backlog, pumpAlive, joins, leaked>>
phoneVars == <<view, shown, mixed, missed>>
vars == <<busVars, publishing, sessionVars, connVars, phoneVars>>

Threads == {"main", "server"}
Nothing == [stage |-> "none"]
BlankView == [busy |-> FALSE, thinking |-> FALSE, cards |-> {}]

Init ==
    /\ history = <<>> /\ subscribers = {} /\ queue = [p \in Phones |-> <<>>]
    /\ recorded = 0
    /\ publishing = [t \in Threads |-> Nothing]
    /\ step = "idle" /\ turns = 0 /\ busy = FALSE /\ showThinking = FALSE
    /\ toggles = 0 /\ late = FALSE /\ abandoned = {}
    /\ conn = [p \in Phones |-> "off"] /\ backlog = [p \in Phones |-> <<>>]
    /\ pumpAlive = [p \in Phones |-> FALSE] /\ joins = 0 /\ leaked = 0
    /\ view = [p \in Phones |-> BlankView]
    /\ shown = [p \in Phones |-> {}]
    /\ mixed = [p \in Phones |-> FALSE]
    /\ missed = [p \in Phones |-> {}]

-----------------------------------------------------------------------------
(* EventBus.publish, in its two halves. *)

Numbers(events) == {e.n : e \in ToSet(events)}

\* Bug: the history is a plain list.
Unbounded(events) == events

\* The deque drops its oldest entry when it is full.
Bounded(events) ==
    IF Len(events) > HistoryLimit THEN Tail(events) ELSE events

Publish(t, kind, value) ==
    publishing' = [publishing EXCEPT
                      ![t] = [stage |-> "record", kind |-> kind, value |-> value]]

\* Bug: a client that is still catching up is skipped.
RecipientsCaughtUp == {p \in subscribers : conn[p] = "live"}

Recipients == subscribers

Snapshotting(p) == conn[p] \in {"joined", "greeted", "backlog"}

RecordEvent(t) ==
    /\ publishing[t].stage = "record"
    /\ LET e == [n |-> recorded + 1, kind |-> publishing[t].kind,
                 value |-> publishing[t].value]
       IN /\ history' = Bounded(Append(history, e))
          /\ publishing' = [publishing EXCEPT
                               ![t] = [stage |-> "deliver", event |-> e,
                                       to |-> Recipients]]
    /\ recorded' = recorded + 1
    /\ mixed' = [p \in Phones |-> mixed[p] \/ Snapshotting(p)]
    /\ UNCHANGED <<subscribers, queue, sessionVars, connVars, view, shown, missed>>

StatusLine == [stage |-> "record", kind |-> "status", value |-> 0]

\* _set_thinking goes on to say on the terminal, and so to everyone, what it did.
AfterDelivery(e) == IF e.kind = "thinking_visibility" THEN StatusLine ELSE Nothing

DeliverEvent(t) ==
    /\ publishing[t].stage = "deliver"
    /\ queue' = [p \in Phones |->
                    IF p \in publishing[t].to
                    THEN Append(queue[p], publishing[t].event) ELSE queue[p]]
    /\ publishing' = [publishing EXCEPT ![t] = AfterDelivery(publishing[t].event)]
    /\ UNCHANGED <<history, subscribers, recorded, sessionVars, connVars, phoneVars>>

-----------------------------------------------------------------------------
(* The session thread: _loop, which runs a command or a turn, and one         *)
(* approval in the turn.                                                      *)

MainFree == publishing["main"] = Nothing

\* The history still holds the present turn's event of this kind.
Remembered(kind) == \E e \in ToSet(history) : e.kind = kind /\ e.value = turns

PublishFromMain(from, kind, to) ==
    /\ MainFree
    /\ step = from
    /\ Publish("main", kind, turns)
    /\ step' = to
    /\ UNCHANGED <<busVars, turns, busy, showThinking, toggles, late, abandoned,
                   connVars, phoneVars>>

StartTurn ==
    /\ MainFree
    /\ step = "idle" /\ turns < MaxTurns
    /\ turns' = turns + 1
    /\ Publish("main", "user_message", turns + 1)
    /\ step' = "begun"
    /\ UNCHANGED <<busVars, busy, showThinking, toggles, late, abandoned, connVars,
                   phoneVars>>

SetBusy(from, value, to) ==
    /\ MainFree
    /\ step = from
    /\ busy' = value
    /\ step' = to
    /\ late' = IF value THEN ~Remembered("user_message") ELSE late
    /\ UNCHANGED <<busVars, publishing, turns, showThinking, toggles, abandoned,
                   connVars, phoneVars>>

\* A line that starts with a slash is handled without the flag.
HandleCommand ==
    /\ MainFree
    /\ step = "begun"
    /\ step' = "ending"
    /\ UNCHANGED <<busVars, publishing, turns, busy, showThinking, toggles, late,
                   abandoned, connVars, phoneVars>>

\* BroadcastingRenderer publishes whatever main prints or streams: at start-up,
\* in a turn, after it, for a command, and when an answer to an approval is
\* neither yes nor no.
PrintLine ==
    /\ MainFree
    /\ step \in {"running", "asking", "asked", "ending"} \/ (step = "idle" /\ turns = 0)
    /\ recorded < MaxEvents
    /\ publishing' = [publishing EXCEPT !["main"] = StatusLine]
    /\ UNCHANGED <<busVars, sessionVars, connVars, phoneVars>>

MainStep ==
    \/ StartTurn
    \/ HandleCommand
    \/ PrintLine
    \/ SetBusy("begun", TRUE, "running")
    \/ PublishFromMain("running", "approval_requested", "asking")
    \/ PublishFromMain("asking", "approval_resolved", "asked")
    \/ SetBusy("running", FALSE, "ending")
    \/ SetBusy("asked", FALSE, "ending")
    \/ SetBusy("cut", FALSE, "ending")
    \/ PublishFromMain("ending", "turn_ended", "idle")

\* request has not published the resolution to everyone.
RequestUnderWay ==
    \/ step = "asking"
    \/ /\ step = "asked"
       /\ \/ publishing["main"].stage = "record"
             /\ publishing["main"].kind = "approval_resolved"
          \/ publishing["main"].stage = "deliver"
             /\ publishing["main"].event.kind = "approval_resolved"

\* Ctrl-C while _run_turn holds the flag: KeyboardInterrupt leaves request, which
\* may be waiting for the decision, and a publish under way, which is not
\* recorded or reaches some of the queues only.  _run_turn goes on to print that
\* the turn was interrupted; nobody is told what became of the request.
InterruptTurn ==
    /\ step \in {"running", "asking", "asked"}
    /\ step' = "cut"
    /\ abandoned' = IF RequestUnderWay THEN abandoned \cup {turns} ELSE abandoned
    /\ IF publishing["main"].stage = "deliver"
       THEN \E reached \in SUBSET publishing["main"].to :
               LET e == publishing["main"].event
               IN /\ queue' = [p \in Phones |->
                                 IF p \in reached THEN Append(queue[p], e)
                                 ELSE queue[p]]
                  /\ missed' = [p \in Phones |->
                                  IF p \in publishing["main"].to \ reached
                                  THEN missed[p] \cup {e.n} ELSE missed[p]]
       ELSE UNCHANGED <<queue, missed>>
    /\ publishing' = [publishing EXCEPT !["main"] = StatusLine]
    /\ UNCHANGED <<history, subscribers, recorded, turns, busy, showThinking, toggles,
                   late, connVars, view, shown, mixed>>

-----------------------------------------------------------------------------
(* _set_thinking, from the command /thinking on main or from a phone on the   *)
(* server loop: the flag is written, then read again for the event.           *)

LoopFree == publishing["server"] = Nothing /\ \A p \in Phones : conn[p] # "accepted"

ThreadFree(t) == IF t = "main" THEN MainFree /\ step = "begun" ELSE LoopFree

SetThinking(t, enabled) ==
    /\ ThreadFree(t)
    /\ t = "server" => \E p \in Phones : conn[p] = "live"
    /\ toggles < MaxToggles /\ recorded < MaxEvents
    /\ toggles' = toggles + 1
    /\ showThinking' = enabled
    /\ publishing' = [publishing EXCEPT ![t] = [stage |-> "build"]]
    /\ step' = IF t = "main" THEN "ending" ELSE step
    /\ UNCHANGED <<busVars, turns, busy, late, abandoned, connVars, phoneVars>>

BuildThinkingEvent(t) ==
    /\ publishing[t].stage = "build"
    /\ Publish(t, "thinking_visibility", showThinking)
    /\ UNCHANGED <<busVars, sessionVars, connVars, phoneVars>>

-----------------------------------------------------------------------------
(* The phone's page: handle(). *)

\* Bug: the page has no case for a resolved approval.
ShowNoResolution(v, kind, value) ==
    CASE kind = "approval_requested" -> [v EXCEPT !.cards = @ \cup {value}]
      [] kind = "user_message"       -> [v EXCEPT !.busy = TRUE]
      [] kind = "turn_ended"         -> [v EXCEPT !.busy = FALSE]
      [] OTHER                       -> v

Show(v, kind, value) ==
    CASE kind = "user_message"        -> [v EXCEPT !.busy = TRUE]
      [] kind = "turn_ended"          -> [v EXCEPT !.busy = FALSE]
      [] kind = "approval_requested"  -> [v EXCEPT !.cards = @ \cup {value}]
      [] kind = "approval_resolved"   -> [v EXCEPT !.cards = @ \ {value}]
      [] kind = "thinking_visibility" -> [v EXCEPT !.thinking = value]
      [] kind = "status"              -> v

SendTo(p, e) ==
    /\ view' = [view EXCEPT ![p] = Show(@, e.kind, e.value)]
    /\ shown' = [shown EXCEPT ![p] = @ \cup {e.n}]

-----------------------------------------------------------------------------
(* The server loop: ws_endpoint, _send_snapshot and _pump_events. *)

\* A connection is accepted and announced; the page clears its log and cards.
Accept(p) ==
    /\ LoopFree
    /\ conn[p] = "off" /\ joins < MaxJoins
    /\ joins' = joins + 1
    /\ conn' = [conn EXCEPT ![p] = "accepted"]
    /\ publishing' = [publishing EXCEPT !["server"] = StatusLine]
    /\ view' = [view EXCEPT ![p].cards = {}]
    /\ UNCHANGED <<busVars, sessionVars, backlog, pumpAlive, leaked, shown, mixed,
                   missed>>

Subscribe(p) ==
    /\ conn[p] = "accepted"
    /\ publishing["server"] = Nothing
    /\ conn' = [conn EXCEPT ![p] = "joined"]
    /\ subscribers' = subscribers \cup {p}
    /\ queue' = [queue EXCEPT ![p] = <<>>]
    /\ pumpAlive' = [pumpAlive EXCEPT ![p] = TRUE]
    /\ UNCHANGED <<history, recorded, publishing, sessionVars, backlog, joins,
                   leaked, phoneVars>>

SendSessionState(p) ==
    /\ LoopFree
    /\ conn[p] = "joined"
    /\ view' = [view EXCEPT ![p].busy = busy, ![p].thinking = showThinking]
    /\ conn' = [conn EXCEPT ![p] = "greeted"]
    /\ UNCHANGED <<busVars, publishing, sessionVars, backlog, pumpAlive, joins,
                   leaked, shown, mixed, missed>>

CopyHistory(p) ==
    /\ LoopFree
    /\ conn[p] = "greeted"
    /\ backlog' = [backlog EXCEPT ![p] = history]
    /\ conn' = [conn EXCEPT ![p] = "backlog"]
    /\ UNCHANGED <<busVars, publishing, sessionVars, pumpAlive, joins, leaked,
                   phoneVars>>

\* One send of the backlog loop; after the last the endpoint only receives.
SendBacklog(p) ==
    /\ LoopFree
    /\ conn[p] = "backlog"
    /\ \/ /\ backlog[p] # <<>>
          /\ SendTo(p, Head(backlog[p]))
          /\ backlog' = [backlog EXCEPT ![p] = Tail(@)]
          /\ UNCHANGED conn
       \/ /\ backlog[p] = <<>>
          /\ conn' = [conn EXCEPT ![p] = "live"]
          /\ UNCHANGED <<backlog, view, shown>>
    /\ UNCHANGED <<busVars, publishing, sessionVars, pumpAlive, joins, leaked, mixed,
                   missed>>

Connected(p) == Snapshotting(p) \/ conn[p] = "live"

Pump(p) ==
    /\ LoopFree
    /\ Connected(p)
    /\ pumpAlive[p] /\ queue[p] # <<>>
    /\ SendTo(p, Head(queue[p]))
    /\ queue' = [queue EXCEPT ![p] = Tail(@)]
    /\ UNCHANGED <<history, subscribers, recorded, publishing, sessionVars,
                   connVars, mixed, missed>>

\* The phone goes away; the server notices at its next send or receive.  What the
\* connection carried is forgotten, and the rest of the backlog arrives nowhere.
LoseLink(p) ==
    /\ Connected(p)
    /\ conn' = [conn EXCEPT ![p] = "lost"]
    /\ backlog' = [backlog EXCEPT ![p] = <<>>]
    /\ shown' = [shown EXCEPT ![p] = {}]
    /\ mixed' = [mixed EXCEPT ![p] = FALSE]
    /\ missed' = [missed EXCEPT ![p] = {}]
    /\ UNCHANGED <<busVars, publishing, sessionVars, pumpAlive, joins, leaked, view>>

\* The pump's send raises, and the exception stays in the task.
PumpFails(p) ==
    /\ LoopFree
    /\ conn[p] = "lost"
    /\ pumpAlive[p] /\ queue[p] # <<>>
    /\ pumpAlive' = [pumpAlive EXCEPT ![p] = FALSE]
    /\ queue' = [queue EXCEPT ![p] = Tail(@)]
    /\ UNCHANGED <<history, subscribers, recorded, publishing, sessionVars, conn,
                   backlog, joins, leaked, phoneVars>>

\* A put still to come goes to a queue that nobody reads any more; the phone's
\* next connection has another one.
WithoutReader(delivery, p) ==
    IF delivery.stage = "deliver"
    THEN [stage |-> "deliver", event |-> delivery.event, to |-> delivery.to \ {p}]
    ELSE delivery

\* The finally clause: awaiting the cancelled pump is fine, but awaiting a pump
\* that failed raises again before unsubscribe, and the queue stays on the bus.
Close(p) ==
    /\ LoopFree
    /\ conn[p] = "lost"
    /\ conn' = [conn EXCEPT ![p] = "off"]
    /\ queue' = [queue EXCEPT ![p] = <<>>]
    /\ subscribers' = subscribers \ {p}
    /\ pumpAlive' = [pumpAlive EXCEPT ![p] = FALSE]
    /\ leaked' = IF pumpAlive[p] THEN leaked ELSE leaked + 1
    /\ publishing' = [t \in Threads |->
                         IF t = "server" /\ pumpAlive[p] THEN StatusLine
                         ELSE WithoutReader(publishing[t], p)]
    /\ UNCHANGED <<history, recorded, sessionVars, backlog, joins, phoneVars>>

-----------------------------------------------------------------------------

ServerStep(p) ==
    \/ Accept(p) \/ Subscribe(p) \/ SendSessionState(p) \/ CopyHistory(p)
    \/ SendBacklog(p) \/ Pump(p) \/ LoseLink(p) \/ PumpFails(p) \/ Close(p)

Next ==
    \/ MainStep \/ InterruptTurn
    \/ \E t \in Threads :
          \/ RecordEvent(t) \/ DeliverEvent(t) \/ BuildThinkingEvent(t)
          \/ \E enabled \in BOOLEAN : SetThinking(t, enabled)
    \/ \E p \in Phones : ServerStep(p)

Spec == Init /\ [][Next]_vars

-----------------------------------------------------------------------------
(* Properties. *)

Kinds == {"user_message", "turn_ended", "approval_requested",
          "approval_resolved", "thinking_visibility", "status"}
Values == 0 .. MaxTurns \cup BOOLEAN
IsEvent(e) == e.n \in 1 .. recorded /\ e.kind \in Kinds

TypeOK ==
    /\ Len(history) <= HistoryLimit
    /\ \A e \in ToSet(history) : IsEvent(e)
    /\ subscribers \subseteq Phones
    /\ \A p \in Phones :
          /\ \A e \in ToSet(queue[p]) \cup ToSet(backlog[p]) : IsEvent(e)
          /\ conn[p] \in {"off", "accepted", "joined", "greeted", "backlog",
                           "live", "lost"}
          /\ view[p].busy \in BOOLEAN /\ view[p].thinking \in BOOLEAN
          /\ view[p].cards \subseteq 1 .. MaxTurns
          /\ shown[p] \subseteq 1 .. recorded /\ missed[p] \subseteq 1 .. recorded
    /\ \A t \in Threads :
          publishing[t].stage \in {"none", "build", "record", "deliver"}
    /\ step \in {"idle", "begun", "running", "asking", "asked", "cut", "ending"}
    /\ recorded \in Nat /\ turns \in 0 .. MaxTurns /\ toggles \in 0 .. MaxToggles
    /\ leaked \in 0 .. joins /\ late \in BOOLEAN
    /\ abandoned \subseteq 1 .. MaxTurns

OnTheWay(p) ==
    {publishing[t].event.n :
        t \in {u \in Threads : publishing[u].stage = "deliver" /\ p \in publishing[u].to}}

\* Subscribing before copying the history leaves no gap: once the copy is made,
\* every event the bus still remembers is on the phone, or certain to be sent,
\* unless Ctrl-C cut off its publish before the phone's turn came.
NoGap ==
    \A p \in Phones : conn[p] \in {"backlog", "live"} =>
        Numbers(history) \subseteq
            shown[p] \cup Numbers(backlog[p]) \cup Numbers(queue[p]) \cup OnTheWay(p)
                     \cup missed[p]

\* Nothing is under way to the phone, and the session rests between two events.
Settled(p) ==
    /\ conn[p] = "live"
    /\ queue[p] = <<>>
    /\ \A t \in Threads : publishing[t] = Nothing

OpenRequests == IF step = "asking" THEN {turns} ELSE {}

\* No card without its request, but for one that Ctrl-C ended; the card of a
\* request the history still holds; and the busy sign.
ShowsSession(p) ==
    /\ view[p].cards \subseteq OpenRequests \cup abandoned
    /\ Remembered("approval_requested") => OpenRequests \subseteq view[p].cards
    /\ step = "idle" => ~view[p].busy
    /\ step = "running" /\ ~late => view[p].busy

\* A phone whose catching up no event disturbed shows what the session is doing
\* whenever both are at rest, however it was connected before, whatever else was
\* published meanwhile and however much of the turn the history has dropped.
QuietJoinShowsSession ==
    \A p \in Phones : (Settled(p) /\ ~mixed[p]) => ShowsSession(p)

=============================================================================
