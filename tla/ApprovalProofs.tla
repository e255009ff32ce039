--------------------------- MODULE ApprovalProofs ---------------------------
(***************************************************************************)
(* What holds of Approval for every set of tools and every number of       *)
(* requests: its types, the inductive invariant that ties the session      *)
(* thread's phase to the pending request, and from it the agreement of     *)
(* what is reported with what was decided, consent, and the refinement of  *)
(* Arbitration.                                                            *)
(***************************************************************************)
EXTENDS Approval, TLAPS

\* The session thread still waits for a decision.
OpenPhases == {"opened", "published", "ask", "register", "starting", "prompt",
               "returned", "resolve", "wait"}

\* The session thread holds a decision in its local variables.
DecidedPhases == {"feedback", "feedback_prompt", "finish", "report"}

\* Nothing has happened yet to a request that is not open.
Fresh ==
    \A r \in Requests : r > counter => outcome[r] = None /\ reported[r] = None

\* Every request that was opened has a tool.
ToolsKnown == \A r \in Requests : r <= counter => tool[r] \in Tools

\* _pending is the latest request or None.
PendingIsLatest == pending \in {0, counter}

WaitsForLatest ==
    pc \in OpenPhases =>
        counter \in Requests /\ pending = counter /\ reported[counter] = None

HoldsDecision ==
    pc \in DecidedPhases =>
        /\ counter \in Requests
        /\ IsSet(counter)
        /\ result = [decision |-> outcome[counter], by |-> resolvedBy[counter]]
        /\ reported[counter] = None

\* The application that runs is the one the session thread blocks on.
PromptMatchesPhase ==
    /\ prompt = "choice" <=> pc = "prompt"
    /\ prompt = "feedback" <=> pc = "feedback_prompt"

PhaseInv == PendingIsLatest /\ WaitsForLatest /\ HoldsDecision /\ PromptMatchesPhase

HistoryInv == Fresh /\ ToolsKnown /\ Agreement /\ GrantsWereGiven /\ Consent

IInv == TypeOK /\ PhaseInv /\ HistoryInv

USE DEF Requests, Decisions, Responders, Keys, IsSet

LEMMA InitIInv == Init => IInv
<1> SUFFICES ASSUME Init PROVE IInv
  OBVIOUS
<1> USE MaxRequestsAssumption, NoneAssumption DEF Init
<1>1. BusTypes
  BY DEF BusTypes
<1>2. PromptTypes /\ CallTypes
  BY DEF PromptTypes, CallTypes, Phases
<1>3. PhaseInv
  BY DEF PhaseInv, PendingIsLatest, WaitsForLatest, HoldsDecision,
         PromptMatchesPhase, OpenPhases, DecidedPhases
<1>4. HistoryInv
  BY DEF HistoryInv, Fresh, ToolsKnown, Agreement, GrantsWereGiven, Consent
<1> QED
  BY <1>1, <1>2, <1>3, <1>4 DEF IInv, TypeOK

-----------------------------------------------------------------------------
(* Lemmas about the operators, and about what a step leaves alone. *)

\* Whatever is typed maps to a decision of the enumeration.
LEMMA OutcomeForType ==
    ASSUME NEW key PROVE OutcomeFor(key) \in Decisions
BY DEF OutcomeFor

\* The part of the invariant about past requests only speaks of these variables.
LEMMA HistoryFrame ==
    ASSUME HistoryInv,
           UNCHANGED <<counter, outcome, resolvedBy, tool, approvedTools, reported,
                       reply>>
    PROVE  HistoryInv'
BY DEF HistoryInv, Fresh, ToolsKnown, Agreement, GrantsWereGiven, Consent

\* resolve_approval decides the pending request, once, and touches no other:
\* whatever the bus held before is kept.
LEMMA ResolveKeepsDecisions ==
    ASSUME BusTypes, PhaseInv, NEW r \in Requests, NEW d \in Decisions,
           NEW who \in Responders, ResolveApproval(r, d, who)
    PROVE  /\ outcome' \in [Requests -> Decisions \cup {None}]
           /\ resolvedBy' \in [Requests -> Responders]
           /\ \A q \in Requests : IsSet(q) => /\ outcome'[q] = outcome[q]
                                            /\ resolvedBy'[q] = resolvedBy[q]
           /\ \A q \in Requests : q > counter => outcome'[q] = outcome[q]
<1>1. CASE CanResolve(r)
  <2>1. r = counter /\ ~IsSet(r)
    BY <1>1 DEF BusTypes, PhaseInv, PendingIsLatest, CanResolve
  <2>2. /\ outcome' = [outcome EXCEPT ![r] = d]
        /\ resolvedBy' = [resolvedBy EXCEPT ![r] = who]
    BY <1>1 DEF ResolveApproval
  <2>3. /\ outcome' \in [Requests -> Decisions \cup {None}]
        /\ resolvedBy' \in [Requests -> Responders]
    BY <2>2 DEF BusTypes
  <2>4. \A q \in Requests : q # r => /\ outcome'[q] = outcome[q]
                                    /\ resolvedBy'[q] = resolvedBy[q]
    BY <2>2 DEF BusTypes
  <2>5. \A q \in Requests : q > counter => q # r
    BY <2>1, MaxRequestsAssumption DEF BusTypes
  <2> QED
    BY <2>1, <2>3, <2>4, <2>5
<1>2. CASE ~CanResolve(r)
  BY <1>2 DEF BusTypes, ResolveApproval
<1> QED
  BY <1>1, <1>2

\* So the invariant about past requests survives a resolve.
LEMMA ResolveKeepsHistory ==
    ASSUME IInv, NEW r \in Requests, NEW d \in Decisions,
           NEW who \in Responders, ResolveApproval(r, d, who),
           UNCHANGED <<counter, tool, approvedTools, reported, reply>>
    PROVE  HistoryInv'
<1> USE NoneAssumption
<1>1. /\ \A q \in Requests : IsSet(q) => /\ outcome'[q] = outcome[q]
                                       /\ resolvedBy'[q] = resolvedBy[q]
      /\ \A q \in Requests : q > counter => outcome'[q] = outcome[q]
  BY ResolveKeepsDecisions DEF IInv, TypeOK
<1>2. HistoryInv
  BY DEF IInv
<1>3. (Fresh /\ ToolsKnown)'
  BY <1>1, <1>2 DEF HistoryInv, Fresh, ToolsKnown
<1>4. Agreement'
  BY <1>1, <1>2 DEF HistoryInv, Agreement
<1>5. GrantsWereGiven'
  BY <1>1, <1>2 DEF HistoryInv, GrantsWereGiven
<1>6. Consent'
  <2> SUFFICES ASSUME reply # None, reply.decision # "reject"
               PROVE  \E q \in 1 .. counter : /\ tool[q] = reply.tool
                                             /\ outcome'[q] = reply.decision
    BY DEF Consent
  <2>1. PICK q \in 1 .. counter : tool[q] = reply.tool /\ outcome[q] = reply.decision
    BY <1>2 DEF HistoryInv, Consent
  <2>2. q \in Requests /\ reply.decision \in Decisions
    BY MaxRequestsAssumption DEF IInv, TypeOK, BusTypes, CallTypes, Replies
  <2> QED
    BY <1>1, <2>1, <2>2
<1> QED
  BY <1>3, <1>4, <1>5, <1>6 DEF HistoryInv

-----------------------------------------------------------------------------
(* Every step keeps the invariant. *)

LEMMA StepIInv == IInv /\ [Next]_vars => IInv'
<1> SUFFICES ASSUME IInv, [Next]_vars PROVE IInv'
  OBVIOUS
<1> USE MaxRequestsAssumption, NoneAssumption
<1>0. /\ BusTypes /\ PromptTypes /\ CallTypes
      /\ PhaseInv /\ HistoryInv
  BY DEF IInv, TypeOK
<1>1. ASSUME NEW t \in Tools, ShortCircuit(t) PROVE IInv'
  <2> USE <1>0, <1>1 DEF ShortCircuit, AllowedForSession, busVars, promptVars, callVars
  <2>1. BusTypes'
    BY DEF BusTypes
  <2>2. PromptTypes'
    BY DEF PromptTypes
  <2>3. CallTypes'
    <3>1. reply' \in Replies
      BY DEF Replies
    <3> QED
      BY <3>1 DEF CallTypes
  <2>4. PhaseInv'
    BY DEF BusTypes, CallTypes, PhaseInv, PendingIsLatest, WaitsForLatest, HoldsDecision,
           PromptMatchesPhase, OpenPhases, DecidedPhases
  <2>5. HistoryInv'
    <3>1. PICK q \in Requests : tool[q] = t /\ outcome[q] = "approve_for_session"
      BY DEF HistoryInv, GrantsWereGiven
    <3>2. q \in 1 .. counter
      BY <3>1 DEF HistoryInv, Fresh, BusTypes
    <3>3. Consent'
      BY <3>1, <3>2 DEF Consent
    <3> QED
      BY <3>3 DEF HistoryInv, Fresh, ToolsKnown, Agreement, GrantsWereGiven
  <2> QED
    BY <2>1, <2>2, <2>3, <2>4, <2>5 DEF IInv, TypeOK
<1>2. ASSUME NEW t \in Tools, OpenApproval(t) PROVE IInv'
  <2> USE <1>0, <1>2 DEF OpenApproval, busVars, promptVars, callVars
  <2>1. BusTypes'
    BY DEF BusTypes
  <2>2. PromptTypes'
    BY DEF PromptTypes
  <2>3. CallTypes'
    BY DEF CallTypes, Phases
  <2>4. PhaseInv'
    <3>1. counter' \in Requests /\ pending' = counter' /\ reported'[counter'] = None
      BY DEF BusTypes, HistoryInv, Fresh
    <3> QED
      BY <3>1 DEF CallTypes, PhaseInv, PendingIsLatest, WaitsForLatest,
                  HoldsDecision, PromptMatchesPhase, OpenPhases, DecidedPhases
  <2>5. HistoryInv'
    <3>1. /\ counter + 1 \in Requests
          /\ \A q \in Requests : q > counter + 1 => q > counter
          /\ \A q \in 1 .. counter : q \in 1 .. counter + 1 /\ q \in Requests
                                     /\ q # counter + 1
      BY DEF BusTypes
    <3>2. \A q \in Requests : q # counter + 1 => tool'[q] = tool[q]
      BY <3>1 DEF CallTypes
    <3>3. tool'[counter + 1] = t
      BY <3>1 DEF CallTypes
    <3>4. Fresh'
      BY <3>1 DEF HistoryInv, Fresh
    <3>5. ToolsKnown'
      BY <3>1, <3>2, <3>3 DEF HistoryInv, ToolsKnown, BusTypes
    <3>6. GrantsWereGiven'
      BY <3>1, <3>2 DEF HistoryInv, GrantsWereGiven, Fresh, BusTypes
    <3>7. Consent'
      BY <3>1, <3>2 DEF HistoryInv, Consent
    <3> QED
      BY <3>4, <3>5, <3>6, <3>7 DEF HistoryInv, Agreement
  <2> QED
    BY <2>1, <2>2, <2>3, <2>4, <2>5 DEF IInv, TypeOK
<1>3. CASE PublishRequested
  <2> USE <1>0, <1>3 DEF PublishRequested, busVars, promptVars, callVars
  <2>1. BusTypes'
    BY DEF BusTypes
  <2>2. PromptTypes'
    BY DEF PromptTypes
  <2>3. CallTypes'
    BY DEF CallTypes, Phases, PhaseInv, WaitsForLatest, OpenPhases
  <2>4. PhaseInv'
    BY DEF BusTypes, CallTypes, PhaseInv, PendingIsLatest, WaitsForLatest, HoldsDecision,
           PromptMatchesPhase, OpenPhases, DecidedPhases
  <2>5. HistoryInv'
    BY HistoryFrame
  <2> QED
    BY <2>1, <2>2, <2>3, <2>4, <2>5 DEF IInv, TypeOK
<1>4. CASE WatchApproval
  <2> USE <1>0, <1>4 DEF WatchApproval, busVars, promptVars, callVars
  <2>1. BusTypes'
    BY DEF BusTypes, PhaseInv, WaitsForLatest, OpenPhases
  <2>2. PromptTypes'
    BY DEF PromptTypes
  <2>3. CallTypes'
    BY DEF CallTypes, Phases
  <2>4. PhaseInv'
    BY DEF BusTypes, CallTypes, PhaseInv, PendingIsLatest, WaitsForLatest, HoldsDecision,
           PromptMatchesPhase, OpenPhases, DecidedPhases
  <2>5. HistoryInv'
    BY HistoryFrame
  <2> QED
    BY <2>1, <2>2, <2>3, <2>4, <2>5 DEF IInv, TypeOK
<1>5. CASE EnterPrompt
  <2> USE <1>0, <1>5 DEF EnterPrompt, busVars, promptVars, callVars
  <2>1. BusTypes'
    BY DEF BusTypes
  <2>2. PromptTypes'
    BY DEF PromptTypes
  <2>3. CallTypes'
    BY DEF CallTypes, Phases
  <2>4. PhaseInv'
    BY DEF BusTypes, CallTypes, PhaseInv, PendingIsLatest, WaitsForLatest, HoldsDecision,
           PromptMatchesPhase, OpenPhases, DecidedPhases
  <2>5. HistoryInv'
    BY HistoryFrame
  <2> QED
    BY <2>1, <2>2, <2>3, <2>4, <2>5 DEF IInv, TypeOK
<1>6. CASE AddListener
  <2> USE <1>0, <1>6 DEF AddListener, CallsListenerNow, busVars, promptVars, callVars
  <2>1. BusTypes'
    BY DEF BusTypes
  <2>2. PromptTypes'
    BY DEF PromptTypes
  <2>3. CallTypes'
    BY DEF CallTypes, Phases
  <2>4. PhaseInv'
    BY DEF BusTypes, CallTypes, PhaseInv, PendingIsLatest, WaitsForLatest, HoldsDecision,
           PromptMatchesPhase, OpenPhases, DecidedPhases
  <2>5. HistoryInv'
    BY HistoryFrame
  <2> QED
    BY <2>1, <2>2, <2>3, <2>4, <2>5 DEF IInv, TypeOK
<1>7. CASE StartPrompt
  <2> USE <1>0, <1>7 DEF StartPrompt, busVars, promptVars, callVars
  <2>1. BusTypes'
    BY DEF BusTypes
  <2>2. PromptTypes'
    BY DEF PromptTypes
  <2>3. CallTypes'
    BY DEF CallTypes, Phases
  <2>4. PhaseInv'
    BY DEF BusTypes, CallTypes, PhaseInv, PendingIsLatest, WaitsForLatest, HoldsDecision,
           PromptMatchesPhase, OpenPhases, DecidedPhases
  <2>5. HistoryInv'
    BY HistoryFrame
  <2> QED
    BY <2>1, <2>2, <2>3, <2>4, <2>5 DEF IInv, TypeOK
<1>8. ASSUME NEW key \in Keys \cup {"invalid"}, Answer(key) PROVE IInv'
  <2> USE <1>0, <1>8 DEF Answer, busVars, promptVars, callVars
  <2>1. BusTypes'
    BY DEF BusTypes
  <2>2. PromptTypes'
    BY DEF PromptTypes
  <2>3. CallTypes'
    BY DEF CallTypes, Phases
  <2>4. PhaseInv'
    BY DEF BusTypes, CallTypes, PhaseInv, PendingIsLatest, WaitsForLatest, HoldsDecision,
           PromptMatchesPhase, OpenPhases, DecidedPhases
  <2>5. HistoryInv'
    BY HistoryFrame
  <2> QED
    BY <2>1, <2>2, <2>3, <2>4, <2>5 DEF IInv, TypeOK
<1>9. CASE AskChoiceReturns
  <2> USE <1>0, <1>9 DEF AskChoiceReturns, busVars, promptVars, callVars
  <2>1. BusTypes'
    BY DEF BusTypes
  <2>2. PromptTypes'
    BY DEF PromptTypes
  <2>3. CallTypes'
    BY DEF CallTypes, Phases
  <2>4. PhaseInv'
    BY DEF BusTypes, CallTypes, PhaseInv, PendingIsLatest, WaitsForLatest, HoldsDecision,
           PromptMatchesPhase, OpenPhases, DecidedPhases
  <2>5. HistoryInv'
    BY HistoryFrame
  <2> QED
    BY <2>1, <2>2, <2>3, <2>4, <2>5 DEF IInv, TypeOK
<1>10. CASE ResolveFromTerminal
  <2> USE <1>0, <1>10 DEF ResolveFromTerminal, busVars, promptVars, callVars
  <2>0. counter \in Requests
    BY DEF PhaseInv, WaitsForLatest, OpenPhases
  <2>1. BusTypes'
    BY <2>0, OutcomeForType, ResolveKeepsDecisions DEF BusTypes
  <2>2. PromptTypes'
    BY DEF PromptTypes
  <2>3. CallTypes'
    BY DEF CallTypes, Phases
  <2>4. PhaseInv'
    BY DEF BusTypes, CallTypes, PhaseInv, PendingIsLatest, WaitsForLatest, HoldsDecision,
           PromptMatchesPhase, OpenPhases, DecidedPhases
  <2>5. HistoryInv'
    BY <2>0, OutcomeForType, ResolveKeepsHistory
  <2> QED
    BY <2>1, <2>2, <2>3, <2>4, <2>5 DEF IInv, TypeOK
<1>11. CASE WaitForDecision
  <2> USE <1>0, <1>11 DEF WaitForDecision, busVars, promptVars, callVars
  <2>1. BusTypes'
    BY DEF BusTypes
  <2>2. PromptTypes'
    BY DEF PromptTypes
  <2>3. CallTypes'
    <3>1. outcome[counter] \in Decisions /\ resolvedBy[counter] \in Responders
      BY DEF BusTypes, PhaseInv, WaitsForLatest, OpenPhases
    <3>2. result' \in Reports
      BY <3>1 DEF DecisionOf, Reports
    <3> QED
      BY <3>2 DEF CallTypes, Phases
  <2>4. PhaseInv'
    <3>1. counter \in Requests /\ reported[counter] = None
      BY DEF PhaseInv, WaitsForLatest, OpenPhases
    <3>2. pc' \in {"feedback", "finish"} /\ prompt' = prompt /\ pending' = 0
      OBVIOUS
    <3>3. HoldsDecision'
      BY <3>1, <3>2 DEF HoldsDecision, DecisionOf
    <3> QED
      BY <3>2, <3>3 DEF PhaseInv, PendingIsLatest, WaitsForLatest,
                        PromptMatchesPhase, OpenPhases
  <2>5. HistoryInv'
    BY HistoryFrame
  <2> QED
    BY <2>1, <2>2, <2>3, <2>4, <2>5 DEF IInv, TypeOK
<1>12. CASE StartFeedback
  <2> USE <1>0, <1>12 DEF StartFeedback, busVars, promptVars, callVars
  <2>1. BusTypes'
    BY DEF BusTypes
  <2>2. PromptTypes'
    BY DEF PromptTypes
  <2>3. CallTypes'
    BY DEF CallTypes, Phases
  <2>4. PhaseInv'
    BY DEF BusTypes, CallTypes, PhaseInv, PendingIsLatest, WaitsForLatest, HoldsDecision,
           PromptMatchesPhase, OpenPhases, DecidedPhases
  <2>5. HistoryInv'
    BY HistoryFrame
  <2> QED
    BY <2>1, <2>2, <2>3, <2>4, <2>5 DEF IInv, TypeOK
<1>13. CASE AnswerFeedback
  <2> USE <1>0, <1>13 DEF AnswerFeedback, busVars, promptVars, callVars
  <2>1. BusTypes'
    BY DEF BusTypes
  <2>2. PromptTypes'
    BY DEF PromptTypes
  <2>3. CallTypes'
    BY DEF CallTypes, Phases
  <2>4. PhaseInv'
    BY DEF BusTypes, CallTypes, PhaseInv, PendingIsLatest, WaitsForLatest, HoldsDecision,
           PromptMatchesPhase, OpenPhases, DecidedPhases
  <2>5. HistoryInv'
    BY HistoryFrame
  <2> QED
    BY <2>1, <2>2, <2>3, <2>4, <2>5 DEF IInv, TypeOK
<1>14. CASE RememberGrant
  <2> USE <1>0, <1>14 DEF RememberGrant, Grants, busVars, promptVars, callVars
  <2>0. /\ counter \in Requests /\ IsSet(counter) /\ tool[counter] \in Tools
        /\ result = [decision |-> outcome[counter], by |-> resolvedBy[counter]]
        /\ result \in Reports
    BY DEF BusTypes, CallTypes, PhaseInv, HoldsDecision, DecidedPhases, HistoryInv,
           ToolsKnown, Reports
  <2>1. BusTypes'
    BY DEF BusTypes
  <2>2. PromptTypes'
    BY DEF PromptTypes
  <2>3. CallTypes'
    BY <2>0 DEF CallTypes, Phases
  <2>4. PhaseInv'
    BY DEF BusTypes, CallTypes, PhaseInv, PendingIsLatest, WaitsForLatest, HoldsDecision,
           PromptMatchesPhase, OpenPhases, DecidedPhases
  <2>5. HistoryInv'
    <3>1. \A t \in Grants : tool[counter] = t /\ outcome[counter] = "approve_for_session"
      BY <2>0
    <3>2. GrantsWereGiven'
      BY <2>0, <3>1 DEF HistoryInv, GrantsWereGiven
    <3> QED
      BY <3>2 DEF HistoryInv, Fresh, ToolsKnown, Agreement, Consent
  <2> QED
    BY <2>1, <2>2, <2>3, <2>4, <2>5 DEF IInv, TypeOK
<1>15. CASE ReportAndReturn
  <2> USE <1>0, <1>15 DEF ReportAndReturn, busVars, promptVars, callVars
  <2>0. /\ counter \in Requests /\ IsSet(counter) /\ tool[counter] \in Tools
        /\ result = [decision |-> outcome[counter], by |-> resolvedBy[counter]]
        /\ result \in Reports
    BY DEF BusTypes, CallTypes, PhaseInv, HoldsDecision, DecidedPhases, HistoryInv,
           ToolsKnown, Reports
  <2>1. BusTypes'
    BY DEF BusTypes
  <2>2. PromptTypes'
    BY DEF PromptTypes
  <2>3. CallTypes'
    <3>1. reported' \in [Requests -> Reports \cup {None}]
      BY <2>0 DEF CallTypes
    <3>2. reply' \in Replies
      BY <2>0 DEF Replies, Reports
    <3> QED
      BY <3>1, <3>2 DEF CallTypes, Phases
  <2>4. PhaseInv'
    BY DEF BusTypes, CallTypes, PhaseInv, PendingIsLatest, WaitsForLatest, HoldsDecision,
           PromptMatchesPhase, OpenPhases, DecidedPhases
  <2>5. HistoryInv'
    <3>1. Fresh'
      BY <2>0 DEF HistoryInv, Fresh, CallTypes, BusTypes
    <3>2. Agreement'
      BY <2>0 DEF HistoryInv, Agreement, CallTypes
    <3>3. counter \in 1 .. counter
      BY <2>0
    <3>4. Consent'
      BY <2>0, <3>3 DEF Consent
    <3> QED
      BY <3>1, <3>2, <3>4 DEF HistoryInv, ToolsKnown, GrantsWereGiven
  <2> QED
    BY <2>1, <2>2, <2>3, <2>4, <2>5 DEF IInv, TypeOK
<1>16. CASE Interrupt
  <2> USE <1>0, <1>16 DEF Interrupt, busVars, promptVars, callVars
  <2>1. BusTypes'
    BY DEF BusTypes
  <2>2. PromptTypes'
    BY DEF PromptTypes
  <2>3. CallTypes'
    BY DEF CallTypes, Phases
  <2>4. PhaseInv'
    BY DEF BusTypes, CallTypes, PhaseInv, PendingIsLatest, WaitsForLatest, HoldsDecision,
           PromptMatchesPhase, OpenPhases, DecidedPhases
  <2>5. HistoryInv'
    BY DEF HistoryInv, Fresh, ToolsKnown, Agreement, GrantsWereGiven, Consent
  <2> QED
    BY <2>1, <2>2, <2>3, <2>4, <2>5 DEF IInv, TypeOK
<1>17. ASSUME NEW r \in Requests, NEW d \in Decisions, ResolveFromRemote(r, d)
      PROVE IInv'
  <2> USE <1>0, <1>17 DEF ResolveFromRemote, busVars, promptVars, callVars
  <2>1. BusTypes'
    BY ResolveKeepsDecisions DEF BusTypes
  <2>2. PromptTypes'
    BY DEF PromptTypes
  <2>3. CallTypes'
    BY DEF CallTypes, Phases
  <2>4. PhaseInv'
    <3>1. IsSet(counter) /\ counter \in Requests =>
              outcome'[counter] = outcome[counter] /\ resolvedBy'[counter] = resolvedBy[counter]
      BY ResolveKeepsDecisions
    <3> QED
      BY <3>1 DEF PhaseInv, PendingIsLatest, WaitsForLatest, HoldsDecision,
                  PromptMatchesPhase, OpenPhases, DecidedPhases
  <2>5. HistoryInv'
    BY ResolveKeepsHistory
  <2> QED
    BY <2>1, <2>2, <2>3, <2>4, <2>5 DEF IInv, TypeOK
<1>18. ASSUME NEW r \in Requests, WatcherTrips(r) PROVE IInv'
  <2> USE <1>0, <1>18 DEF WatcherTrips, busVars, promptVars, callVars
  <2>1. BusTypes'
    BY DEF BusTypes
  <2>2. PromptTypes'
    <3>1. CASE r = counter /\ listening
      <4>1. listening' = FALSE /\ dismissers' = dismissers + 1
        BY <3>1
      <4>2. tripped' \in SUBSET Requests /\ prompt' = prompt
        BY DEF PromptTypes
      <4>3. listening' \in BOOLEAN
        BY <4>1
      <4>4. dismissers' \in Nat
        BY <4>1 DEF PromptTypes
      <4> QED
        BY <4>2, <4>3, <4>4 DEF PromptTypes
    <3>2. CASE ~(r = counter /\ listening)
      BY <3>2 DEF PromptTypes
    <3> QED
      BY <3>1, <3>2
  <2>3. CallTypes'
    BY DEF CallTypes, Phases
  <2>4. PhaseInv'
    BY DEF BusTypes, CallTypes, PhaseInv, PendingIsLatest, WaitsForLatest, HoldsDecision,
           PromptMatchesPhase, OpenPhases, DecidedPhases
  <2>5. HistoryInv'
    BY HistoryFrame
  <2> QED
    BY <2>1, <2>2, <2>3, <2>4, <2>5 DEF IInv, TypeOK
<1>19. CASE DismissPrompt
  <2> USE <1>0, <1>19 DEF DismissPrompt, busVars, promptVars, callVars
  <2>1. BusTypes'
    BY DEF BusTypes
  <2>2. PromptTypes'
    BY DEF PromptTypes
  <2>3. CallTypes'
    BY DEF CallTypes, Phases
  <2>4. PhaseInv'
    BY DEF BusTypes, CallTypes, PhaseInv, PendingIsLatest, WaitsForLatest, HoldsDecision,
           PromptMatchesPhase, OpenPhases, DecidedPhases
  <2>5. HistoryInv'
    BY HistoryFrame
  <2> QED
    BY <2>1, <2>2, <2>3, <2>4, <2>5 DEF IInv, TypeOK
<1>20. CASE GiveUp
  <2> USE <1>0, <1>20 DEF GiveUp, busVars, promptVars, callVars
  <2>1. BusTypes'
    BY DEF BusTypes
  <2>2. PromptTypes'
    BY DEF PromptTypes
  <2>3. CallTypes'
    BY DEF CallTypes, Phases
  <2>4. PhaseInv'
    BY DEF BusTypes, CallTypes, PhaseInv, PendingIsLatest, WaitsForLatest, HoldsDecision,
           PromptMatchesPhase, OpenPhases, DecidedPhases
  <2>5. HistoryInv'
    BY HistoryFrame
  <2> QED
    BY <2>1, <2>2, <2>3, <2>4, <2>5 DEF IInv, TypeOK
<1>21. CASE UNCHANGED vars
  <2> USE <1>0, <1>21 DEF vars, busVars, promptVars, callVars
  <2>1. TypeOK'
    BY DEF TypeOK, BusTypes, PromptTypes, CallTypes
  <2>2. PhaseInv'
    BY DEF PhaseInv, PendingIsLatest, WaitsForLatest, HoldsDecision,
           PromptMatchesPhase
  <2>3. HistoryInv'
    BY HistoryFrame
  <2> QED
    BY <2>1, <2>2, <2>3 DEF IInv
<1> QED
  BY <1>1, <1>2, <1>3, <1>4, <1>5, <1>6, <1>7, <1>8, <1>9, <1>10, <1>11, <1>12,
     <1>13, <1>14, <1>15, <1>16, <1>17, <1>18, <1>19, <1>20, <1>21
  DEF Next, MainStep, HelperStep, UserStep

-----------------------------------------------------------------------------

\* The strengthened invariant holds in every reachable state.
THEOREM Invariance == Spec => []IInv
BY InitIInv, StepIInv, PTL DEF Spec

\* Types: whatever side answers, only decisions of the enumeration are stored.
THEOREM TypeCorrect == Spec => []TypeOK
<1>1. IInv => TypeOK
  BY DEF IInv
<1> QED
  BY Invariance, <1>1, PTL

\* What is reported of a request is what its first responder decided.
THEOREM ReportsAgree == Spec => []Agreement
<1>1. IInv => Agreement
  BY DEF IInv, HistoryInv
<1> QED
  BY Invariance, <1>1, PTL

\* No tool is told to go ahead without a decision to that effect for that tool.
THEOREM NothingRunsUnapproved == Spec => [](Consent /\ GrantsWereGiven)
<1>1. IInv => Consent /\ GrantsWereGiven
  BY DEF IInv, HistoryInv
<1> QED
  BY Invariance, <1>1, PTL

\* A tool is exempted from asking only by a decision for the session on a
\* request of that tool: no losing answer and no other tool's grant leaves one.
THEOREM GrantsAreGiven == Spec => []GrantsWereGiven
<1>1. IInv => GrantsWereGiven
  BY DEF IInv, HistoryInv
<1> QED
  BY Invariance, <1>1, PTL

-----------------------------------------------------------------------------
(* The action property and the refinement, from the same invariant. *)

\* Only resolve_approval writes an outcome, and only of the pending request
\* while it is undecided.
LEMMA OutcomeStep ==
    ASSUME IInv, [Next]_vars, NEW q \in Requests
    PROVE  \/ outcome'[q] = outcome[q]
           \/ q = counter /\ outcome[q] = None
<1> USE DEF busVars, promptVars, callVars
<1>1. ASSUME NEW r \in Requests, NEW d, NEW w, ResolveApproval(r, d, w)
      PROVE  \/ outcome'[q] = outcome[q]
             \/ q = counter /\ outcome[q] = None
  <2>1. CASE CanResolve(r)
    <3>1. r = counter /\ outcome[r] = None
      BY <2>1 DEF CanResolve, IInv, TypeOK, BusTypes, PhaseInv, PendingIsLatest
    <3>2. q # r => outcome'[q] = outcome[q]
      BY <1>1, <2>1 DEF ResolveApproval, IInv, TypeOK, BusTypes
    <3> QED
      BY <3>1, <3>2
  <2>2. CASE ~CanResolve(r)
    BY <1>1, <2>2 DEF ResolveApproval
  <2> QED
    BY <2>1, <2>2
<1>2. CASE ResolveFromTerminal
  <2>1. counter \in Requests
    BY <1>2 DEF ResolveFromTerminal, IInv, PhaseInv, WaitsForLatest, OpenPhases
  <2> QED
    BY <1>1, <1>2, <2>1 DEF ResolveFromTerminal
<1>3. ASSUME NEW r \in Requests, NEW d \in Decisions, ResolveFromRemote(r, d)
      PROVE  \/ outcome'[q] = outcome[q]
             \/ q = counter /\ outcome[q] = None
  BY <1>1, <1>3 DEF ResolveFromRemote
<1>4. CASE UNCHANGED outcome
  BY <1>4
<1>5. \/ ResolveFromTerminal
      \/ \E r \in Requests, d \in Decisions : ResolveFromRemote(r, d)
      \/ UNCHANGED outcome
  BY DEF Next, MainStep, HelperStep, UserStep, vars, ShortCircuit, OpenApproval,
         PublishRequested, WatchApproval, EnterPrompt, AddListener, StartPrompt,
         Answer, AskChoiceReturns, WaitForDecision, StartFeedback,
         AnswerFeedback, RememberGrant, ReportAndReturn, Interrupt,
         WatcherTrips, DismissPrompt, GiveUp
<1> QED
  BY <1>2, <1>3, <1>4, <1>5

\* A reported or superseded request never changes its decision.
THEOREM ClosedRequestsStay == Spec => ClosedStaysClosed
<1>1. ASSUME IInv, [Next]_vars
      PROVE  [\A r \in Requests :
                 (reported[r] # None \/ r < counter) => outcome'[r] = outcome[r]]_vars
  <2>1. \A r \in Requests : reported[r] # None => outcome[r] # None
    BY <1>1 DEF IInv, HistoryInv, Agreement
  <2>2. \A r \in Requests : r < counter => r # counter
    BY <1>1 DEF IInv, TypeOK, BusTypes
  <2> QED
    BY <1>1, <2>1, <2>2, OutcomeStep
<1> QED
  BY Invariance, <1>1, PTL DEF Spec, ClosedStaysClosed

\* The state of Arbitration that a state of the bus stands for.
LEMMA PromiseInit == Init => Promise!Init
BY DEF Init, Promise!Init

LEMMA PromiseStep == IInv /\ IInv' /\ [Next]_vars => [Promise!Next]_Promise!vars
<1> SUFFICES ASSUME IInv, IInv', [Next]_vars PROVE [Promise!Next]_Promise!vars
  OBVIOUS
<1> USE NoneAssumption DEF busVars, promptVars, callVars
<1> DEFINE decided(r) ==
             IF IsSet(r) THEN [decision |-> outcome[r], by |-> resolvedBy[r]] ELSE None
<1>1. ASSUME NEW t \in Tools, OpenApproval(t) PROVE Promise!Open
  <2>1. counter + 1 \in Requests
    BY <1>1, MaxRequestsAssumption DEF OpenApproval, IInv, TypeOK, BusTypes
  <2> QED
    BY <1>1, <2>1 DEF OpenApproval, Promise!Open
<1>2. ASSUME NEW r \in Requests, NEW d \in Decisions, NEW w \in Responders,
             ResolveApproval(r, d, w), UNCHANGED <<counter, reported>>
      PROVE  Promise!Decide(d, w) \/ UNCHANGED Promise!vars
  <2>1. CASE CanResolve(r)
    <3>1. r = counter /\ outcome[r] = None
      BY <2>1 DEF CanResolve, IInv, TypeOK, BusTypes, PhaseInv, PendingIsLatest
    <3>2. /\ \A q \in Requests : q # r => /\ outcome'[q] = outcome[q]
                                         /\ resolvedBy'[q] = resolvedBy[q]
          /\ outcome'[r] = d /\ resolvedBy'[r] = w
      BY <1>2, <2>1 DEF ResolveApproval, IInv, TypeOK, BusTypes
    <3>3. [q \in Requests |-> decided(q)]' =
              [[q \in Requests |-> decided(q)] EXCEPT ![r] = [decision |-> d, by |-> w]]
      BY <3>1, <3>2
    <3> QED
      BY <1>2, <3>1, <3>3 DEF Promise!Decide
  <2>2. CASE ~CanResolve(r)
    BY <1>2, <2>2 DEF ResolveApproval, Promise!vars
  <2> QED
    BY <2>1, <2>2
<1>3. CASE ResolveFromTerminal
  <2>1. counter \in Requests
    BY <1>3 DEF ResolveFromTerminal, IInv, PhaseInv, WaitsForLatest, OpenPhases
  <2> QED
    BY <1>2, <1>3, <2>1, OutcomeForType DEF ResolveFromTerminal, Promise!Next
<1>4. ASSUME NEW r \in Requests, NEW d \in Decisions, ResolveFromRemote(r, d)
      PROVE  [Promise!Next]_Promise!vars
  BY <1>2, <1>4 DEF ResolveFromRemote, Promise!Next
<1>5. CASE ReportAndReturn
  <2>1. /\ counter \in Requests /\ IsSet(counter) /\ reported[counter] = None
        /\ result = decided(counter)
        /\ result \in Reports
    BY <1>5 DEF ReportAndReturn, IInv, PhaseInv, HoldsDecision, DecidedPhases,
                TypeOK, BusTypes, Reports
  <2> QED
    BY <1>5, <2>1 DEF ReportAndReturn, Promise!Report, Promise!Next
<1>6. CASE UNCHANGED <<counter, outcome, resolvedBy, reported>>
  BY <1>6 DEF Promise!vars
<1>7. \/ \E t \in Tools : OpenApproval(t)
      \/ ResolveFromTerminal
      \/ \E r \in Requests, d \in Decisions : ResolveFromRemote(r, d)
      \/ ReportAndReturn
      \/ UNCHANGED <<counter, outcome, resolvedBy, reported>>
  BY DEF Next, MainStep, HelperStep, UserStep, vars, ShortCircuit,
         PublishRequested, WatchApproval, EnterPrompt, AddListener, StartPrompt,
         Answer, AskChoiceReturns, WaitForDecision, StartFeedback,
         AnswerFeedback, RememberGrant, Interrupt,
         WatcherTrips, DismissPrompt, GiveUp
<1> QED
  BY <1>1, <1>3, <1>4, <1>5, <1>6, <1>7 DEF Promise!Next

\* The bus, its prompts and its threads implement Arbitration: at most one
\* decision per request, only of the open one, and reports that repeat it.
THEOREM ImplementsArbitration == Spec => FirstResponderWins
BY PromiseInit, PromiseStep, Invariance, PTL DEF Spec, FirstResponderWins, Promise!Spec

=============================================================================
