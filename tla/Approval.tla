------------------------------ MODULE Approval ------------------------------
(***************************************************************************)
(* One tool call's approval, asked on the terminal and on every phone at   *)
(* once, the first responder winning.  Actors:                             *)
(*                                                                         *)
(*   main      the session thread inside ConsoleApprover.request;          *)
(*   user      at the terminal, who answers the prompt main blocks on;     *)
(*   phones    whose answers the server thread hands to resolve_approval;  *)
(*   watchers  one helper thread per request (EventBus.watch_approval);    *)
(*   dismissers threads started when a token trips under an open prompt:   *)
(*             each exits whatever prompt application of the one shared    *)
(*             PromptSession it next finds running, or gives up.           *)
(*                                                                         *)
(* A _PendingApproval is never reused, so its fields are kept per request  *)
(* number, and its event is set exactly when its outcome is.               *)
(***************************************************************************)
EXTENDS Naturals

CONSTANTS Tools,        \* names of the tools that need approval
          MaxRequests,  \* bound on the requests opened in a behaviour
          None          \* no outcome, no tool, no report

Requests == 1 .. MaxRequests
Decisions == {"approve", "approve_for_session", "reject"}
Responders == {"terminal", "remote"}
Keys == {"y", "a", "n"}
Reports == [decision : Decisions, by : Responders]
Replies == [tool : Tools, decision : Decisions, asked : BOOLEAN]

ASSUME MaxRequestsAssumption == MaxRequests \in Nat \ {0}
ASSUME NoneAssumption == None \notin Decisions /\ None \notin Reports
                         /\ None \notin Replies

VARIABLES
    \* EventBus
    counter,        \* _pending_counter: the request opened last
    pending,        \* request number in _pending, 0 for None
    outcome,        \* per request: the outcome set with the event, or None
    resolvedBy,     \* per request: resolved_by, "terminal" by default
    watchers,       \* requests whose watch thread has not woken yet
    \* CancelToken of each request, and the shared PromptSession
    tripped,        \* requests whose token has tripped
    listening,      \* the current token holds on_cancel as a listener
    dismissers,     \* number of live _dismiss_prompt threads
    prompt,         \* the prompt application running, "none" if none is
    \* ConsoleApprover and its caller
    pc,             \* where the session thread is inside request()
    typed,          \* what the prompt that just ended returned
    tool,           \* tool_name of each opened request
    result,         \* local (outcome, resolved_by) of the request
    approvedTools,  \* _approved_tools
    requested,      \* requests published with ApprovalRequestedEvent
    reported,       \* per request: what ApprovalResolvedEvent said, or None
    reply           \* what request() last returned to a tool, None if it raised

busVars == <<counter, pending, outcome, resolvedBy, watchers>>
promptVars == <<tripped, listening, dismissers, prompt>>
callVars == <<pc, typed, tool, result, approvedTools, requested, reported, reply>>
vars == <<busVars, promptVars, callVars>>

Init ==
    /\ counter = 0
    /\ pending = 0
    /\ outcome = [r \in Requests |-> None]
    /\ resolvedBy = [r \in Requests |-> "terminal"]
    /\ watchers = {}
    /\ tripped = {}
    /\ listening = FALSE
    /\ dismissers = 0
    /\ prompt = "none"
    /\ pc = "idle"
    /\ typed = "n"
    /\ tool = [r \in Requests |-> None]
    /\ result = None
    /\ approvedTools = {}
    /\ requested = {}
    /\ reported = [r \in Requests |-> None]
    /\ reply = None

IsSet(r) == outcome[r] # None

\* Bug: the key itself is taken for a decision.
OutcomeForRawKey(key) == key

\* _outcome_for: a terminal keypress as a decision.
OutcomeFor(key) == CASE key = "y" -> "approve"
                     [] key = "a" -> "approve_for_session"
                     [] OTHER     -> "reject"

-----------------------------------------------------------------------------
(* The arbitration: resolve_approval, called under the bus lock by either side. *)

\* Bug: the request id is not compared with the pending one.
CanResolveAnyId(r) == ~IsSet(r)

\* Bug: a second responder overwrites the first.
CanResolveTwice(r) == pending = r

CanResolve(r) == pending = r /\ ~IsSet(r)

ResolveApproval(r, d, who) ==
    IF CanResolve(r)
    THEN /\ outcome' = [outcome EXCEPT ![r] = d]
         /\ resolvedBy' = [resolvedBy EXCEPT ![r] = who]
    ELSE UNCHANGED <<outcome, resolvedBy>>

-----------------------------------------------------------------------------
(* The session thread. *)

\* Bug: one session approval allows every tool.
AllowedByAnyGrant(t) == approvedTools # {}

AllowedForSession(t) == t \in approvedTools

\* request() for a tool already allowed for the session returns at once.
ShortCircuit(t) ==
    /\ pc = "idle"
    /\ AllowedForSession(t)
    /\ reply' = [tool |-> t, decision |-> "approve_for_session", asked |-> FALSE]
    /\ UNCHANGED <<busVars, promptVars, pc, typed, tool, result, approvedTools,
                   requested, reported>>

\* request() otherwise: render_approval, then open_approval.
OpenApproval(t) ==
    /\ pc = "idle"
    /\ ~AllowedForSession(t)
    /\ counter < MaxRequests
    /\ counter' = counter + 1
    /\ pending' = counter + 1
    /\ tool' = [tool EXCEPT ![counter + 1] = t]
    /\ pc' = "opened"
    /\ UNCHANGED <<outcome, resolvedBy, watchers, promptVars,
                   typed, result, approvedTools, requested, reported, reply>>

PublishRequested ==
    /\ pc = "opened"
    /\ requested' = requested \cup {counter}
    /\ pc' = "published"
    /\ UNCHANGED <<busVars, promptVars, typed, tool, result, approvedTools,
                   reported, reply>>

\* watch_approval: only this thread clears or replaces _pending, so the request
\* is still pending here and the helper thread is started.
WatchApproval ==
    /\ pc = "published"
    /\ watchers' = watchers \cup {counter}
    /\ pc' = "ask"
    /\ UNCHANGED <<counter, pending, outcome, resolvedBy, promptVars, typed,
                   tool, result, approvedTools, requested, reported, reply>>

\* prompt_interruptible: a token that has tripped already ends it at once.
EnterPrompt ==
    /\ pc = "ask"
    /\ \/ /\ counter \in tripped
          /\ typed' = "interrupted"
          /\ pc' = "returned"
       \/ /\ counter \notin tripped
          /\ pc' = "register"
          /\ UNCHANGED typed
    /\ UNCHANGED <<busVars, promptVars, tool, result, approvedTools, requested,
                   reported, reply>>

\* Bug: a listener added after the trip is stored and never called.
CallsListenerNever == FALSE

CallsListenerNow == counter \in tripped

\* add_listener: on a token that tripped meanwhile, on_cancel runs right here.
AddListener ==
    /\ pc = "register"
    /\ listening' = ~CallsListenerNow
    /\ dismissers' = IF CallsListenerNow THEN dismissers + 1 ELSE dismissers
    /\ pc' = "starting"
    /\ UNCHANGED <<busVars, tripped, prompt, typed, tool, result, approvedTools,
                   requested, reported, reply>>

StartPrompt ==
    /\ pc = "starting"
    /\ prompt' = "choice"
    /\ pc' = "prompt"
    /\ UNCHANGED <<busVars, tripped, listening, dismissers, typed, tool, result,
                   approvedTools, requested, reported, reply>>

\* The user answers; Ctrl-C, Ctrl-D and a bare Enter count as "n".
Answer(key) ==
    /\ pc = "prompt"
    /\ prompt' = "none"
    /\ typed' = key
    /\ pc' = "returned"
    /\ UNCHANGED <<busVars, tripped, listening, dismissers, tool, result,
                   approvedTools, requested, reported, reply>>

\* The finally clause of prompt_interruptible and the loop in _ask_choice.
AskChoiceReturns ==
    /\ pc = "returned"
    /\ listening' = FALSE
    /\ pc' = CASE typed = "invalid"     -> "ask"
               [] typed = "interrupted" -> "wait"
               [] OTHER                 -> "resolve"
    /\ UNCHANGED <<busVars, tripped, dismissers, prompt, typed, tool, result,
                   approvedTools, requested, reported, reply>>

ResolveFromTerminal ==
    /\ pc = "resolve"
    /\ ResolveApproval(counter, OutcomeFor(typed), "terminal")
    /\ pc' = "wait"
    /\ UNCHANGED <<counter, pending, watchers, promptVars, typed, tool, result,
                   approvedTools, requested, reported, reply>>

\* Bug: the caller trusts the key typed here, not the decision that won.
DecisionOfTerminal(r) == [decision |-> OutcomeFor(typed), by |-> "terminal"]

DecisionOf(r) == [decision |-> outcome[r], by |-> resolvedBy[r]]

\* wait_for_decision returns once the event is set, and clears _pending.
WaitForDecision ==
    /\ pc = "wait"
    /\ IsSet(counter)
    /\ result' = DecisionOf(counter)
    /\ pending' = 0
    /\ pc' = IF DecisionOf(counter) = [decision |-> "reject", by |-> "terminal"]
             THEN "feedback" ELSE "finish"
    /\ UNCHANGED <<counter, outcome, resolvedBy, watchers, promptVars, typed,
                   tool, approvedTools, requested, reported, reply>>

\* _ask_feedback runs on the same PromptSession, with no token of its own.
StartFeedback ==
    /\ pc = "feedback"
    /\ prompt' = "feedback"
    /\ pc' = "feedback_prompt"
    /\ UNCHANGED <<busVars, tripped, listening, dismissers, typed, tool, result,
                   approvedTools, requested, reported, reply>>

\* The feedback only replaces the text of the rejection, never the decision.
AnswerFeedback ==
    /\ pc = "feedback_prompt"
    /\ prompt' = "none"
    /\ pc' = "finish"
    /\ UNCHANGED <<busVars, tripped, listening, dismissers, typed, tool, result,
                   approvedTools, requested, reported, reply>>

\* Bug: the grant is taken from the key typed here.
GrantsOfTerminal == IF typed = "a" THEN {tool[counter]} ELSE {}

Grants == IF result.decision = "approve_for_session" THEN {tool[counter]} ELSE {}

RememberGrant ==
    /\ pc = "finish"
    /\ approvedTools' = approvedTools \cup Grants
    /\ pc' = "report"
    /\ UNCHANGED <<busVars, promptVars, typed, tool, result, requested, reported,
                   reply>>

\* ApprovalResolvedEvent goes out and request() returns.
ReportAndReturn ==
    /\ pc = "report"
    /\ reported' = [reported EXCEPT ![counter] = result]
    /\ reply' = [tool |-> tool[counter], decision |-> result.decision,
                 asked |-> TRUE]
    /\ result' = None
    /\ pc' = "idle"
    /\ UNCHANGED <<busVars, promptVars, typed, tool, approvedTools, requested>>

\* Ctrl-C outside a prompt: KeyboardInterrupt unwinds request() up to _run_turn.
Interrupt ==
    /\ pc \in {"opened", "published", "resolve", "wait", "finish",
              "report"}
    /\ result' = None
    /\ reply' = None
    /\ pc' = "idle"
    /\ UNCHANGED <<busVars, promptVars, typed, tool, approvedTools, requested,
                   reported>>

-----------------------------------------------------------------------------
(* The other threads. *)

Alive == pc # "crashed"

\* An approval message from a phone that was shown request r.
ResolveFromRemote(r, d) ==
    /\ Alive
    /\ r \in requested
    /\ CanResolve(r)
    /\ ResolveApproval(r, d, "remote")
    /\ UNCHANGED <<counter, pending, watchers, promptVars, callVars>>

\* The watch thread wakes and trips the token; a registered on_cancel starts a
\* dismisser.  The token of an earlier request has no listener left.
WatcherTrips(r) ==
    /\ Alive
    /\ r \in watchers
    /\ IsSet(r)
    /\ watchers' = watchers \ {r}
    /\ tripped' = tripped \cup {r}
    /\ IF r = counter /\ listening
       THEN /\ listening' = FALSE
            /\ dismissers' = dismissers + 1
       ELSE UNCHANGED <<listening, dismissers>>
    /\ UNCHANGED <<counter, pending, outcome, resolvedBy, prompt, callVars>>

\* _dismiss_prompt finds an application running and exits it: the approval
\* prompt raises PromptInterrupted, which _ask_feedback does not catch.
DismissPrompt ==
    /\ dismissers > 0
    /\ \/ /\ prompt = "choice"
          /\ typed' = "interrupted"
          /\ pc' = "returned"
       \/ /\ prompt = "feedback"
          /\ pc' = "crashed"
          /\ UNCHANGED typed
    /\ dismissers' = dismissers - 1
    /\ prompt' = "none"
    /\ UNCHANGED <<busVars, tripped, listening, tool, result, approvedTools,
                   requested, reported, reply>>

\* The retries of _dismiss_prompt run out with no prompt running, or the prompt
\* it found ended first.  A prompt that is starting is assumed to be up before
\* the second of retries is over.
GiveUp ==
    /\ dismissers > 0
    /\ prompt = "none"
    /\ pc # "starting"
    /\ dismissers' = dismissers - 1
    /\ UNCHANGED <<busVars, tripped, listening, prompt, callVars>>

-----------------------------------------------------------------------------

\* Steps main takes by itself, between two waits for somebody else.
MainStep ==
    \/ PublishRequested \/ WatchApproval \/ EnterPrompt \/ AddListener
    \/ StartPrompt \/ AskChoiceReturns \/ ResolveFromTerminal
    \/ WaitForDecision \/ StartFeedback \/ RememberGrant \/ ReportAndReturn

HelperStep ==
    \/ \E r \in Requests : WatcherTrips(r)
    \/ DismissPrompt
    \/ GiveUp

UserStep ==
    \/ \E t \in Tools : ShortCircuit(t) \/ OpenApproval(t)
    \/ \E key \in Keys \cup {"invalid"} : Answer(key)
    \/ AnswerFeedback
    \/ Interrupt
    \/ \E r \in Requests, d \in Decisions : ResolveFromRemote(r, d)

Next == MainStep \/ HelperStep \/ UserStep

Spec == Init /\ [][Next]_vars

\* Threads that can run do run; nobody has to type, tap or call a tool.
Fairness ==
    /\ WF_vars(MainStep)
    /\ \A r \in Requests : WF_vars(WatcherTrips(r))
    /\ WF_vars(DismissPrompt)
    /\ WF_vars(GiveUp)

FairSpec == Spec /\ Fairness

-----------------------------------------------------------------------------
(* Properties. *)

Phases == {"idle", "opened", "published", "ask", "register", "starting",
           "prompt", "returned", "resolve", "wait", "feedback",
           "feedback_prompt", "finish", "report", "crashed"}

BusTypes ==
    /\ counter \in 0 .. MaxRequests
    /\ pending \in 0 .. MaxRequests
    /\ outcome \in [Requests -> Decisions \cup {None}]
    /\ resolvedBy \in [Requests -> Responders]
    /\ watchers \in SUBSET Requests

PromptTypes ==
    /\ tripped \in SUBSET Requests
    /\ listening \in BOOLEAN
    /\ dismissers \in Nat
    /\ prompt \in {"none", "choice", "feedback"}

CallTypes ==
    /\ pc \in Phases
    /\ typed \in Keys \cup {"invalid", "interrupted"}
    /\ tool \in [Requests -> Tools \cup {None}]
    /\ result \in Reports \cup {None}
    /\ approvedTools \in SUBSET Tools
    /\ requested \in SUBSET Requests
    /\ reported \in [Requests -> Reports \cup {None}]
    /\ reply \in Replies \cup {None}

\* The range of every variable; only decisions of the enumeration are ever
\* stored, whichever side they come from.
TypeOK == BusTypes /\ PromptTypes /\ CallTypes

\* What a tool and every client are told of a request is the first responder's
\* decision and name: a losing terminal key, a late phone or a second tap never
\* shows in ApprovalResolvedEvent.
Agreement ==
    \A r \in Requests : reported[r] # None =>
        IsSet(r) /\ reported[r] = [decision |-> outcome[r], by |-> resolvedBy[r]]

\* No tool is told to go ahead unless somebody answered a request for that very
\* tool with that very decision: an abandoned request, a stale answer or a
\* prompt dismissed by mistake never turns into an approval.
Consent ==
    (reply # None /\ reply.decision # "reject") =>
        \E r \in 1 .. counter : /\ tool[r] = reply.tool
                               /\ outcome[r] = reply.decision

\* The tools that are no longer asked about are tools for which the winning
\* answer was "for the session", not ones where that answer lost the race.
GrantsWereGiven ==
    \A t \in approvedTools :
        \E r \in Requests : /\ tool[r] = t
                           /\ outcome[r] = "approve_for_session"

\* An answer to a request that was abandoned (Ctrl-C) is dead once the next one
\* is open, and a request already reported never changes its decision.
ClosedStaysClosed ==
    [][\A r \in Requests :
          (reported[r] # None \/ r < counter) => outcome'[r] = outcome[r]]_vars

\* The event bus keeps the promise of Arbitration.
Promise == INSTANCE Arbitration WITH
    latest <- counter,
    decided <- [r \in Requests |->
                   IF IsSet(r) THEN [decision |-> outcome[r], by |-> resolvedBy[r]]
                   ELSE None]

FirstResponderWins == Promise!Spec

\* Once a phone has answered, the terminal prompt cannot hold the session up:
\* request() ends although nobody touches the keyboard.
RemoteAnswerUnblocks ==
    (pc # "idle" /\ IsSet(counter) /\ resolvedBy[counter] = "remote")
        ~> (pc = "idle")

\* approver.py:116, "None means a remote client answered first": the terminal
\* gives up its prompt only for a decision that has been made.
DismissedOnlyIfAnswered ==
    (pc = "wait" /\ typed = "interrupted") => IsSet(counter)

=============================================================================
