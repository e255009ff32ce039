----------------------------- MODULE InputLoop -----------------------------
(***************************************************************************)
(* Where the next message comes from: Repl._next_input blocks on the       *)
(* "you>" prompt while the server thread hands over what a phone sent with *)
(* EventBus.submit_input, and the listener main registered on the bus is   *)
(* to dismiss the prompt.  A turn is one step here; its approvals are      *)
(* Approval's.                                                             *)
(*                                                                         *)
(* The bus calls a COPY of its listeners after it has queued the message   *)
(* and let go of the lock, so a copied listener may be that of a token     *)
(* main has dropped since: tripping that one does nothing any more.        *)
(***************************************************************************)
EXTENDS Naturals, Sequences

CONSTANTS MaxRemote,  \* bound on the messages phones send
          MaxTyped    \* bound on the lines typed at the terminal

ASSUME BoundsAssumption == MaxRemote \in Nat /\ MaxTyped \in Nat

VARIABLES
    \* EventBus: _input, and cancel.trip being in _input_listeners
    inbox, registered,
    \* the server thread inside submit_input
    sent,        \* messages submitted so far; message k is number k
    server,      \* "idle", "queued" or "notify"
    copied,      \* whose trip it copied: "none", "current" or "dropped"
    \* the CancelToken of this round, and the PromptSession
    tripped, attached, dismissers, prompt,
    \* the session thread
    phase, line, hand, handled, typedLines

busVars == <<inbox, registered>>
serverVars == <<sent, server, copied>>
promptVars == <<tripped, attached, dismissers, prompt>>
mainVars == <<phase, line, hand, handled, typedLines>>
vars == <<busVars, serverVars, promptVars, mainVars>>

Terminal == 0                 \* in hand and handled: a line typed here
Messages == 1 .. MaxRemote

Init ==
    /\ inbox = <<>> /\ registered = FALSE
    /\ sent = 0 /\ server = "idle" /\ copied = "none"
    /\ tripped = FALSE /\ attached = FALSE /\ dismissers = 0 /\ prompt = "none"
    /\ phase = "poll" /\ line = "none" /\ hand = <<>> /\ handled = <<>>
    /\ typedLines = 0

-----------------------------------------------------------------------------
(* The server thread: submit_input. *)

QueueInput ==
    /\ server = "idle" /\ sent < MaxRemote /\ phase # "closed"
    /\ sent' = sent + 1
    /\ inbox' = Append(inbox, sent + 1)
    /\ server' = "queued"
    /\ UNCHANGED <<registered, copied, promptVars, mainVars>>

CopyListeners ==
    /\ server = "queued"
    /\ copied' = IF registered THEN "current" ELSE "none"
    /\ server' = "notify"
    /\ UNCHANGED <<busVars, sent, promptVars, mainVars>>

\* CancelToken.trip on the copied listener, once: a listener attached to the
\* token starts a dismisser, and one of a dropped token finds nobody.
NotifyListeners ==
    /\ server = "notify"
    /\ IF copied = "current" /\ ~tripped
       THEN /\ tripped' = TRUE
            /\ attached' = FALSE
            /\ dismissers' = IF attached THEN dismissers + 1 ELSE dismissers
       ELSE UNCHANGED <<tripped, attached, dismissers>>
    /\ server' = "idle"
    /\ copied' = "none"
    /\ UNCHANGED <<busVars, sent, prompt, mainVars>>

-----------------------------------------------------------------------------
(* The session thread: _next_input and _loop. *)

\* Bug: the message is read but left in the queue.
RestAfterPeek == inbox

RestAfterPoll == Tail(inbox)

\* Bug: the whole queue is taken for one message.
PollsAll == inbox

Polled == <<Head(inbox)>>

PollInput ==
    /\ phase = "poll"
    /\ \/ /\ inbox # <<>>
          /\ hand' = Polled
          /\ inbox' = RestAfterPoll
          /\ phase' = "got"
       \/ /\ inbox = <<>>
          /\ phase' = "listen"
          /\ UNCHANGED <<hand, inbox>>
    /\ UNCHANGED <<registered, serverVars, promptVars, line, handled, typedLines>>

\* A fresh CancelToken, and add_input_listener(cancel.trip).
AddInputListener ==
    /\ phase = "listen"
    /\ tripped' = FALSE
    /\ registered' = TRUE
    /\ phase' = "ask"
    /\ UNCHANGED <<inbox, serverVars, attached, dismissers, prompt, line, hand,
                   handled, typedLines>>

\* prompt_interruptible: the token is looked at before its listener is added.
EnterPrompt ==
    /\ phase = "ask"
    /\ \/ tripped /\ line' = "interrupted" /\ phase' = "returned"
       \/ ~tripped /\ phase' = "register" /\ UNCHANGED line
    /\ UNCHANGED <<busVars, serverVars, promptVars, hand, handled, typedLines>>

\* Bug: a listener added to a tripped token is stored and never called.
RunsListenerNever == FALSE

RunsListenerNow == tripped

AddListener ==
    /\ phase = "register"
    /\ attached' = ~RunsListenerNow
    /\ dismissers' = IF RunsListenerNow THEN dismissers + 1 ELSE dismissers
    /\ phase' = "starting"
    /\ UNCHANGED <<busVars, serverVars, tripped, prompt, line, hand, handled,
                   typedLines>>

StartPrompt ==
    /\ phase = "starting"
    /\ prompt' = "input"
    /\ phase' = "prompt"
    /\ UNCHANGED <<busVars, serverVars, tripped, attached, dismissers, line, hand,
                   handled, typedLines>>

\* The user submits a line, a blank one, Ctrl-C or Ctrl-D.
Type(what) ==
    /\ phase = "prompt"
    /\ what = "text" => typedLines < MaxTyped
    /\ typedLines' = IF what = "text" THEN typedLines + 1 ELSE typedLines
    /\ prompt' = "none"
    /\ line' = what
    /\ phase' = "returned"
    /\ UNCHANGED <<busVars, serverVars, tripped, attached, dismissers, hand,
                   handled>>

\* Both finally clauses run, and _next_input returns or goes round again; a
\* blank line sends _loop back here too.
PromptReturns ==
    /\ phase = "returned"
    /\ attached' = FALSE
    /\ registered' = FALSE
    /\ copied' = IF copied = "current" THEN "dropped" ELSE copied
    /\ \/ /\ line = "text"
          /\ hand' = <<Terminal>>
          /\ phase' = "got"
       \/ /\ line = "eof"
          /\ phase' = "closed"
          /\ UNCHANGED hand
       \/ /\ line \in {"interrupted", "ctrl-c", "blank"}
          /\ phase' = "poll"
          /\ UNCHANGED hand
    /\ UNCHANGED <<inbox, sent, server, tripped, dismissers, prompt, line, handled,
                   typedLines>>

\* UserMessageEvent goes out, and the turn or command runs.
StartTurn ==
    /\ phase = "got"
    /\ handled' = handled \o hand
    /\ hand' = <<>>
    /\ phase' = "turn"
    /\ UNCHANGED <<busVars, serverVars, promptVars, line, typedLines>>

\* TurnEndedEvent goes out; /exit and /quit end the loop.
EndTurn ==
    /\ phase = "turn"
    /\ phase' \in {"poll", "closed"}
    /\ UNCHANGED <<busVars, serverVars, promptVars, line, hand, handled,
                   typedLines>>

-----------------------------------------------------------------------------
(* A dismisser started by a trip. *)

DismissPrompt ==
    /\ dismissers > 0
    /\ prompt = "input"
    /\ dismissers' = dismissers - 1
    /\ prompt' = "none"
    /\ line' = "interrupted"
    /\ phase' = "returned"
    /\ UNCHANGED <<busVars, serverVars, tripped, attached, hand, handled,
                   typedLines>>

\* As in Approval: no prompt ran during the retries, or it ended first.
GiveUp ==
    /\ dismissers > 0
    /\ prompt = "none"
    /\ phase # "starting"
    /\ dismissers' = dismissers - 1
    /\ UNCHANGED <<busVars, serverVars, tripped, attached, prompt, mainVars>>

-----------------------------------------------------------------------------

MainStep ==
    \/ PollInput \/ AddInputListener \/ EnterPrompt \/ AddListener
    \/ StartPrompt \/ PromptReturns \/ StartTurn \/ EndTurn

Next ==
    \/ MainStep
    \/ QueueInput \/ CopyListeners \/ NotifyListeners
    \/ \E what \in {"text", "blank", "ctrl-c", "eof"} : Type(what)
    \/ DismissPrompt \/ GiveUp

Spec == Init /\ [][Next]_vars

\* Threads run and turns end; nobody has to type, and no phone has to send.
Fairness ==
    /\ WF_vars(MainStep)
    /\ WF_vars(CopyListeners \/ NotifyListeners)
    /\ WF_vars(DismissPrompt)
    /\ WF_vars(GiveUp)

FairSpec == Spec /\ Fairness

-----------------------------------------------------------------------------
(* Properties. *)

BusTypes ==
    /\ inbox \in Seq(Messages) /\ registered \in BOOLEAN
    /\ sent \in 0 .. MaxRemote
    /\ server \in {"idle", "queued", "notify"}
    /\ copied \in {"none", "current", "dropped"}

PromptTypes ==
    /\ tripped \in BOOLEAN /\ attached \in BOOLEAN
    /\ dismissers \in Nat /\ prompt \in {"none", "input"}

LoopTypes ==
    /\ phase \in {"poll", "listen", "ask", "register", "starting", "prompt",
                  "returned", "got", "turn", "closed"}
    /\ line \in {"none", "interrupted", "text", "blank", "ctrl-c", "eof"}
    /\ typedLines \in 0 .. MaxTyped

HandTypes ==
    /\ hand \in Seq(Messages \cup {Terminal}) /\ Len(hand) <= 1
    /\ handled \in Seq(Messages \cup {Terminal})

\* The range of every variable; main has one message in hand at most.
TypeOK == BusTypes /\ PromptTypes /\ LoopTypes /\ HandTypes

Taken == sent - Len(inbox)
Seen == handled \o hand

\* Next to lines of the terminal, messages 1 to n appear once each and in order.
InOrder(seen, n) ==
    /\ \A i \in DOMAIN seen : seen[i] <= n
    /\ \A m \in 1 .. n : \E i \in DOMAIN seen : seen[i] = m
    /\ \A i, j \in DOMAIN seen :
          (i < j /\ seen[i] # Terminal /\ seen[j] # Terminal) => seen[i] < seen[j]

\* The messages phones sent are handled or in hand, every one of them once and in
\* the order sent, up to some message, and from there on they are queued: none is
\* lost, doubled or overtaken, however often the prompt is dismissed.
RemoteInOrder ==
    /\ Len(inbox) <= sent
    /\ \A k \in DOMAIN inbox : inbox[k] = Taken + k
    /\ InOrder(Seen, Taken)

\* A submission that found main's listener on the bus gets its message handled
\* with nobody at the keyboard: whichever window the trip falls into, main comes
\* round to the queue.
NotifiedIsHandled ==
    (server = "notify" /\ copied = "current")
        ~> (inbox = <<>> \/ phase = "closed")

\* repl.py:170-171, "Remote input queued while the terminal prompt is open
\* dismisses that prompt so the message is handled immediately".
QueuedIsHandled ==
    inbox # <<>> ~> (inbox = <<>> \/ phase = "closed")

=============================================================================
