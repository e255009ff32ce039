---------------------------- MODULE Arbitration ----------------------------
(***************************************************************************)
(* What the approval half of the event bus promises, without threads or    *)
(* prompts: requests are opened one at a time, the request that is open is *)
(* decided at most once, by whoever answers first, and what the tool that  *)
(* asked is told is exactly that decision.  A request may also be          *)
(* abandoned: it is then never reported, and opening the next one closes   *)
(* it to late answers.                                                     *)
(***************************************************************************)
EXTENDS Naturals

CONSTANTS Requests,    \* the request numbers
          Decisions,   \* what a responder may answer
          Responders,  \* who may answer
          None         \* no decision, or no report, yet

VARIABLES latest,      \* the number of the request opened last
          decided,     \* per request, the first responder's decision
          reported     \* per request, the decision its caller was told

vars == <<latest, decided, reported>>

Init ==
    /\ latest = 0
    /\ decided = [r \in Requests |-> None]
    /\ reported = [r \in Requests |-> None]

Open ==
    /\ latest + 1 \in Requests
    /\ latest' = latest + 1
    /\ UNCHANGED <<decided, reported>>

Decide(d, w) ==
    /\ latest \in Requests
    /\ decided[latest] = None
    /\ decided' = [decided EXCEPT ![latest] = [decision |-> d, by |-> w]]
    /\ UNCHANGED <<latest, reported>>

Report ==
    /\ latest \in Requests
    /\ decided[latest] # None
    /\ reported[latest] = None
    /\ reported' = [reported EXCEPT ![latest] = decided[latest]]
    /\ UNCHANGED <<latest, decided>>

Next ==
    \/ Open
    \/ \E d \in Decisions, w \in Responders : Decide(d, w)
    \/ Report

Spec == Init /\ [][Next]_vars

=============================================================================
