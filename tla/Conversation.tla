---------------------------- MODULE Conversation ----------------------------
(***************************************************************************)
(* The agent loop over one session: the message list in memory, the JSON   *)
(* Lines transcript and the metadata file on disk, compaction, and what    *)
(* cuts a turn short: a provider failure, Ctrl-C, an exception no handler  *)
(* expects, the process dying.                                             *)
(*                                                                         *)
(* Session.append is three steps (memory, transcript line, metadata), and  *)
(* a file write can be caught half way by a crash: a torn line or an       *)
(* emptied metadata file, neither of which the store can parse.            *)
(***************************************************************************)
EXTENDS Integers, Sequences, FiniteSets, SequencesExt

CONSTANTS MaxTurns,        \* bound on the user messages of a behaviour
          MaxIterations,   \* max_iterations of the agent
          CallCounts,      \* how many tool calls a response may have
          MaxCalls,        \* the most of them
          Retries,         \* _MALFORMED_RETRIES
          KeepRecentTurns  \* keep_recent_turns, at least 1

ASSUME ConversationAssumption ==
    /\ MaxTurns \in Nat /\ MaxIterations \in Nat
    /\ MaxCalls \in Nat /\ CallCounts \subseteq 0 .. MaxCalls /\ 0 \in CallCounts
    /\ Retries \in Nat /\ KeepRecentTurns \in Nat \ {0}

VARIABLES
    messages,    \* Session._messages
    through,     \* meta.summary_through
    disk,        \* lines of the transcript file
    metaOnDisk,  \* summary_through in the metadata file, or Torn
    pc, after,   \* where the session thread is, and where append returns to
    turns, round, attempt,  \* user messages, model calls and retries this turn
    calls, answered,        \* tool calls of the last response, those answered
    disturbed,   \* a turn was cut off by Ctrl-C, an exception or a crash
    hole         \* Ctrl-C fell between memory and transcript in an append

sessionVars == <<messages, through, disk, metaOnDisk>>
turnVars == <<turns, round, attempt, calls, answered>>
vars == <<sessionVars, pc, after, turnVars, disturbed, hole>>

Torn == -1  \* no index
User == [role |-> "user"]
Assistant(k) == [role |-> "assistant", calls |-> k]
ToolResult(i) == [role |-> "tool", call |-> i]
TornLine == [role |-> "torn"]

\* The locals of a turn are gone with it.
TurnOver ==
    /\ round' = 0 /\ attempt' = 0 /\ calls' = 0 /\ answered' = 0
    /\ UNCHANGED turns

Init ==
    /\ messages = <<>> /\ through = 0 /\ disk = <<>> /\ metaOnDisk = 0
    /\ pc = "idle" /\ after = "idle"
    /\ turns = 0 /\ round = 0 /\ attempt = 0 /\ calls = 0 /\ answered = 0
    /\ disturbed = FALSE /\ hole = FALSE

-----------------------------------------------------------------------------
(* Session.append and _write_meta. *)

AppendMessage(m, next) ==
    /\ messages' = Append(messages, m)
    /\ pc' = "write"
    /\ after' = next
    /\ UNCHANGED <<through, disk, metaOnDisk>>

WriteLine ==
    /\ pc = "write"
    /\ disk' = Append(disk, Last(messages))
    /\ pc' = "meta"
    /\ UNCHANGED <<messages, through, metaOnDisk, after, turnVars, disturbed, hole>>

WriteMeta ==
    /\ pc = "meta"
    /\ metaOnDisk' = through
    /\ pc' = IF after = "command" THEN "idle" ELSE after
    /\ after' = "idle"
    /\ IF pc' = "idle" THEN TurnOver ELSE UNCHANGED turnVars
    /\ UNCHANGED <<messages, through, disk, disturbed, hole>>

-----------------------------------------------------------------------------
(* ContextManager. *)

IsTurnStart(m) == m.role = "user"
TurnStarts(msgs) == {i \in DOMAIN msgs : IsTurnStart(msgs[i])}
TailMessages == SubSeq(messages, through + 1, Len(messages))

\* Bug: the cut ignores turns and keeps the last few messages.
CutAnywhere(pending) ==
    IF Len(pending) <= KeepRecentTurns THEN 0 ELSE Len(pending) - KeepRecentTurns

\* Bug: one turn too few is kept.
CutOneTurnMore(pending) ==
    LET starts == TurnStarts(pending)
    IN IF Cardinality(starts) < KeepRecentTurns THEN 0
       ELSE IF Cardinality(starts) = KeepRecentTurns THEN Len(pending)
       ELSE (CHOOSE i \in starts :
               Cardinality({j \in starts : j > i}) = KeepRecentTurns - 1) - 1

\* _cut_index: how many messages come before the last KeepRecentTurns turns.
CutIndex(pending) ==
    LET starts == TurnStarts(pending)
    IN IF Cardinality(starts) <= KeepRecentTurns THEN 0
       ELSE (CHOOSE i \in starts :
               Cardinality({j \in starts : j >= i}) = KeepRecentTurns) - 1

\* _compact with a summary: set_summary moves the index and writes the metadata.
CompactAndReturnTo(next) ==
    /\ CutIndex(TailMessages) > 0
    /\ through' = through + CutIndex(TailMessages)
    /\ pc' = "meta"
    /\ after' = next
    /\ UNCHANGED <<messages, disk, metaOnDisk>>

\* /compact between turns.
ForceCompact ==
    /\ pc = "idle"
    /\ CompactAndReturnTo("command")
    /\ UNCHANGED <<turnVars, disturbed, hole>>

-----------------------------------------------------------------------------
(* Agent. *)

\* run_turn: the first one titles the session, which writes the metadata.
RunTurn ==
    /\ pc = "idle" /\ turns < MaxTurns
    /\ turns' = turns + 1
    /\ UNCHANGED <<round, attempt, calls, answered>>
    /\ IF messages = <<>> THEN pc' = "meta" /\ after' = "user"
                          ELSE pc' = "user" /\ UNCHANGED after
    /\ UNCHANGED <<sessionVars, disturbed, hole>>

AppendUser ==
    /\ pc = "user"
    /\ AppendMessage(User, "loop")
    /\ UNCHANGED <<turnVars, disturbed, hole>>

MoreRounds == round < MaxIterations

\* The head of _loop: another round, or the warning that ends the turn.
NextRound ==
    /\ pc = "loop"
    /\ \/ /\ MoreRounds
          /\ round' = round + 1 /\ attempt' = 0
          /\ pc' = "compact"
          /\ UNCHANGED <<turns, calls, answered>>
       \/ ~MoreRounds /\ pc' = "idle" /\ TurnOver
    /\ UNCHANGED <<sessionVars, after, disturbed, hole>>

\* _maybe_compact: within budget, without a usable summary, or compacted.
MaybeCompact ==
    /\ pc = "compact"
    /\ \/ /\ pc' = "complete"
          /\ UNCHANGED <<sessionVars, after>>
       \/ CompactAndReturnTo("complete")
    /\ UNCHANGED <<turnVars, disturbed, hole>>

\* The model answers with k tool calls; without any the turn is over.
ModelAnswers(k) ==
    /\ pc = "complete"
    /\ AppendMessage(Assistant(k), IF k = 0 THEN "idle" ELSE "tool")
    /\ calls' = k /\ answered' = 0
    /\ UNCHANGED <<turns, round, attempt, disturbed, hole>>

\* Malformed output may be retried; another provider error ends the turn, in
\* _run_turn.
ModelFails ==
    /\ pc = "complete"
    /\ \/ pc' = "malformed" /\ UNCHANGED turnVars
       \/ pc' = "idle" /\ TurnOver
    /\ UNCHANGED <<sessionVars, after, disturbed, hole>>

\* Bug: one retry too many.
MayRetryOnceMore == attempt <= Retries

MayRetry == attempt < Retries

\* Bug: retried until it works.
NextAttemptStuck == attempt

NextAttempt == attempt + 1

RetryOrRaise ==
    /\ pc = "malformed"
    /\ \/ /\ MayRetry
          /\ attempt' = NextAttempt
          /\ pc' = "complete"
          /\ UNCHANGED <<turns, round, calls, answered>>
       \/ /\ ~MayRetry
          /\ pc' = "idle"
          /\ TurnOver
    /\ UNCHANGED <<sessionVars, after, disturbed, hole>>

\* Bug: a failing tool ends the batch.
NextCallStopsEarly == "loop"

NextAfterCall == IF answered + 1 < calls THEN "tool" ELSE "loop"

\* MutatingTool.execute: a tool that changes something asks, unless it is allowed
\* for the session.  request has no time-out: main waits for the terminal or a
\* phone.  Ctrl-C at the terminal's prompt is an answer too.
AskUser ==
    /\ pc = "tool"
    /\ pc' = "asking"
    /\ UNCHANGED <<sessionVars, after, turnVars, disturbed, hole>>

UserDecides ==
    /\ pc = "asking"
    /\ pc' = "decided"
    /\ UNCHANGED <<sessionVars, after, turnVars, disturbed, hole>>

\* _handle_tool_call: a result, a rejection, or the text of a ToolError or
\* violation.
AnswerToolCall ==
    /\ pc \in {"tool", "decided"}
    /\ answered' = answered + 1
    /\ AppendMessage(ToolResult(answered + 1), NextAfterCall)
    /\ UNCHANGED <<turns, round, attempt, calls, disturbed, hole>>

\* Any other exception of a tool goes through _run_turn and ends the process.
ToolRaises ==
    /\ pc \in {"tool", "decided"}
    /\ pc' = "down"
    /\ TurnOver
    /\ disturbed' = TRUE
    /\ UNCHANGED <<sessionVars, after, hole>>

-----------------------------------------------------------------------------
(* Ctrl-C, crashes, and /resume. *)

InCommand == pc = "meta" /\ after = "command"
InTurn == pc \notin {"idle", "down"} /\ ~InCommand

\* KeyboardInterrupt leaves the turn; caught in _write_meta it may leave the
\* file truncated until the next write.  Outside a turn nothing catches it: that
\* is Crash.
Interrupt ==
    /\ InTurn
    /\ pc' = "idle"
    /\ disturbed' = TRUE
    /\ hole' = (hole \/ pc = "write")
    /\ metaOnDisk' \in IF pc = "meta" THEN {metaOnDisk, Torn} ELSE {metaOnDisk}
    /\ after' = "idle" /\ TurnOver
    /\ UNCHANGED <<messages, through, disk>>

Crash ==
    /\ pc # "down"
    /\ pc' = "down"
    /\ disturbed' = (disturbed \/ InTurn)
    /\ disk' \in IF pc = "write" THEN {disk, Append(disk, TornLine)} ELSE {disk}
    /\ metaOnDisk' \in IF pc = "meta" THEN {metaOnDisk, Torn} ELSE {metaOnDisk}
    /\ after' = "idle" /\ TurnOver
    /\ UNCHANGED <<messages, through, hole>>

\* Bug: only what the summary does not cover is read back.
ReadFromSummary == SubSeq(disk, metaOnDisk + 1, Len(disk))

ReadMessages == disk

Openable == metaOnDisk # Torn /\ TornLine \notin ToSet(disk)

\* SessionStore.open, by /resume in a new process or in the same one.
Resume ==
    /\ pc \in {"idle", "down"}
    /\ Openable
    /\ messages' = ReadMessages
    /\ through' = metaOnDisk
    /\ pc' = "idle"
    /\ UNCHANGED <<disk, metaOnDisk, after, turnVars, disturbed, hole>>

\* What cannot be parsed raises through _cmd_resume, which expects only a
\* missing file, and ends the process.
ResumeFails ==
    /\ pc = "idle"
    /\ ~Openable
    /\ pc' = "down"
    /\ UNCHANGED <<sessionVars, after, turnVars, disturbed, hole>>

-----------------------------------------------------------------------------

AgentStep ==
    \/ WriteLine \/ WriteMeta \/ AppendUser \/ NextRound \/ MaybeCompact
    \/ \E k \in CallCounts : ModelAnswers(k)
    \/ ModelFails \/ RetryOrRaise \/ AskUser \/ AnswerToolCall \/ ToolRaises

Next ==
    \/ AgentStep \/ UserDecides
    \/ RunTurn \/ ForceCompact \/ Interrupt \/ Crash \/ Resume \/ ResumeFails

Spec == Init /\ [][Next]_vars

\* The thread takes its steps, as the model and the tools answer or fail in the
\* end: tools have time-outs, and that a call of the model ends is left to its
\* client.  UserDecides is no step of the thread: nobody has to answer a question.
FairSpec == Spec /\ WF_vars(AgentStep)

-----------------------------------------------------------------------------
(* Properties. *)

Lines == {User, TornLine} \cup {Assistant(k) : k \in CallCounts}
         \cup {ToolResult(i) : i \in 1 .. MaxCalls}

TypeOK ==
    /\ messages \in Seq(Lines \ {TornLine}) /\ disk \in Seq(Lines)
    /\ through \in Nat /\ metaOnDisk \in Nat \cup {Torn}
    /\ pc \in {"idle", "user", "write", "meta", "loop", "compact", "complete",
               "malformed", "tool", "asking", "decided", "down"}
    /\ after \in {"idle", "command", "user", "loop", "complete", "tool"}
    /\ turns \in 0 .. MaxTurns /\ round \in 0 .. MaxIterations
    /\ attempt \in 0 .. Retries
    /\ calls \in CallCounts /\ answered \in 0 .. calls
    /\ disturbed \in BOOLEAN /\ hole \in BOOLEAN

\* The message list, from the index on that the model is sent.
IsAnswerTo(msgs, a, i, j) ==
    /\ msgs[a].role = "assistant" /\ msgs[a].calls >= i
    /\ j = a + i
    /\ \A k \in 1 .. i : msgs[a + k] = ToolResult(k)

\* compaction.py:9-11, cuts on turn boundaries guarantee "that an assistant
\* message carrying tool calls is never separated from its tool-result messages":
\* in what the model is sent, every result follows its call, also after an
\* interrupted turn, a crash and a resume.
NoOrphanResult ==
    ~hole => \A j \in DOMAIN TailMessages :
        TailMessages[j].role = "tool" =>
            \E a \in 1 .. j - 1 :
                IsAnswerTo(TailMessages, a, TailMessages[j].call, j)

\* Compaction never folds away one of the most recent turns, whenever it happens
\* and wherever a restart put the index.
RecentTurnsKept ==
    ~hole =>
        \/ Cardinality(TurnStarts(TailMessages)) >= KeepRecentTurns
        \/ TailMessages = messages

\* "The full transcript is never altered on disk ... resuming a session still has
\* the complete record" (compaction.py:6-7): between two appends the transcript
\* is the conversation, and a dead process has lost at most its last message.
TranscriptComplete ==
    ~hole =>
        /\ pc \notin {"write", "down"} => disk = messages
        /\ pc \in {"write", "down"} =>
              disk \in {messages, Front(messages), Append(Front(messages), TornLine)}

Answered(msgs, a) ==
    \A i \in 1 .. msgs[a].calls : /\ a + i <= Len(msgs)
                                  /\ msgs[a + i] = ToolResult(i)

ConversationValid ==
    \A a \in DOMAIN TailMessages :
        TailMessages[a].role = "assistant" => Answered(TailMessages, a)

\* loop.py:5-7 as far as it goes: a conversation no turn of which was cut off has
\* a result for every call when the model is next called, through tool errors,
\* retries, the round limit, provider failures and compaction.
UndisturbedIsValid == (pc = "complete" /\ ~disturbed) => ConversationValid

\* loop.py:5-7, "Every tool call produces a tool result message, including on
\* error, so the conversation stays valid for the next model turn."
AlwaysValid == pc = "complete" => ConversationValid

\* Rounds, retries and calls are bounded: every turn comes to an end, unless it
\* stops for good at a question that nobody answers.
TurnEnds == InTurn ~> (~InTurn \/ [](pc = "asking"))

=============================================================================
