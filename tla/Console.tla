------------------------------- MODULE Console -------------------------------
(***************************************************************************)
(* The interactive session (Repl): its start-up, its commands, its turns   *)
(* as far as they call MCP tools, and its end; with what the session holds *)
(* open, the MCP client and the embedded server.  The session thread does  *)
(* one thing at a time and blocks on either; all else goes on meanwhile.   *)
(*                                                                         *)
(* What the agent's loop does in a turn is in Conversation, how input is   *)
(* awaited in InputLoop, and what clients see in RemoteFeed.               *)
(***************************************************************************)
EXTENDS McpTools, RemoteServer

CONSTANTS Models,        \* the configured models
          ActiveModel,   \* active_model, perhaps not configured
          SummaryModel,  \* context.summary_model, or NoModel
          NoModel,
          RemoteEnabled, \* remote.enabled
          MaxLines,      \* bound on the lines entered
          MaxSessions,   \* bound on the sessions created
          MaxEdits       \* bound on the edits of the workspace

ASSUME ConsoleAssumption ==
    /\ NoModel \notin Models
    /\ RemoteEnabled \in BOOLEAN
    /\ {MaxLines, MaxSessions, MaxEdits} \subseteq Nat

VARIABLES
    at,       \* the session thread: "init", "connect", "serve",
              \* "ready", "turn", "closing", "over", "failed"
    next,     \* the next server to connect to
    lines,    \* lines entered
    disk,     \* what the workspace's files are, as a number of edits
    created,  \* sessions in the store: 1..created
    state,    \* Repl's fields: active, session, memory, map, prompt, manager
    undo,     \* the session that context.snapshots belongs to
    agent     \* what the agent was built from

consoleVars == <<at, next, lines, disk, created, state, undo, agent>>
vars == <<mcpVars, serverVars, consoleVars>>

Bound == UNCHANGED <<created, state, undo, agent>>
NoAgent == [llm |-> NoModel]

Init ==
    /\ McpInit /\ ServerInit
    /\ at = "init" /\ next = 1 /\ lines = 0 /\ disk = 0 /\ created = 0
    /\ state = NoAgent /\ undo = 0 /\ agent = NoAgent

\* The session thread blocks on nothing.
Free == waiting = Nothing /\ watch = "none"

-----------------------------------------------------------------------------
(* Start-up: __init__ and the beginning of run *)

\* Up to the tools.  A sandbox backend that is not installed is a ConfigError.
Prepare ==
    /\ at = "init"
    /\ at' \in {"connect", "failed"}
    /\ UNCHANGED <<mcpVars, serverVars, next, lines, disk>> /\ Bound

\* _connect_mcp_servers: one server after the other.
ConnectNext ==
    /\ at = "connect" /\ Free /\ next \in Server
    /\ IF loop = "none" THEN StartLoop /\ UNCHANGED next
                        ELSE SubmitOpen(next) /\ next' = next + 1
    /\ UNCHANGED <<serverVars, at, lines, disk>> /\ Bound

\* _compose_system_prompt, _build_context_manager and _build_agent.
PromptOf(s) == [tools |-> DOMAIN registry, memory |-> s.memory, map |-> s.map]

ManagerOf(s) ==
    [window |-> s.active, prompt |-> s.prompt,
     summarizer |-> IF SummaryModel = NoModel THEN s.active ELSE SummaryModel]

AgentOf(s) == [llm |-> s.active, session |-> s.session, prompt |-> s.prompt, manager |-> s.manager]

Recompose(s) ==
    LET composed == [s EXCEPT !.prompt = PromptOf(s)]
    IN [composed EXCEPT !.manager = ManagerOf(composed)]

\* The rest of __init__.  A model that is not configured is a ConfigError, and
\* the servers connected to before it are not closed.
Build ==
    /\ at = "connect" /\ Free /\ next \notin Server
    /\ IF ActiveModel \notin Models \/ SummaryModel \notin Models \cup {NoModel}
       THEN at' = "failed" /\ Bound
       ELSE LET fields == [active |-> ActiveModel, session |-> 1, memory |-> disk, map |-> disk,
                           prompt |-> NoModel, manager |-> NoModel]
            IN /\ at' = "serve"
               /\ created' = 1
               /\ state' = Recompose(fields)
               /\ undo' = 1
               /\ agent' = AgentOf(state')
    /\ UNCHANGED <<mcpVars, serverVars, next, lines, disk>>

\* _start_remote.
StartRemote ==
    /\ at = "serve"
    /\ at' = "ready"
    /\ IF RemoteEnabled THEN StartThread ELSE UNCHANGED serverVars
    /\ UNCHANGED <<mcpVars, next, lines, disk>> /\ Bound

-----------------------------------------------------------------------------
(* Commands *)

\* A line is entered, and the command leaves the fields s and may build a new
\* agent or bind another session's snapshots.
Enter ==
    /\ at = "ready" /\ Free /\ lines < MaxLines
    /\ lines' = lines + 1

Command ==
    /\ Enter
    /\ UNCHANGED <<mcpVars, serverVars, at, next, disk>>

\* _rebind_session.
Rebind(s) ==
    /\ state' = s
    /\ undo' = s.session
    /\ agent' = AgentOf(s)

\* /new
CmdNew ==
    /\ Command /\ created < MaxSessions
    /\ created' = created + 1
    /\ Rebind([state EXCEPT !.session = created'])

\* /resume, with an id that may not exist.
CmdResume(id) ==
    /\ Command
    /\ IF id \in 1..created THEN Rebind([state EXCEPT !.session = id]) /\ UNCHANGED created
                            ELSE Bound

\* /model, with a name that may not be configured.
CmdModel(name) ==
    /\ Command
    /\ IF name \in Models
       THEN LET active == [state EXCEPT !.active = name]
            IN /\ state' = [active EXCEPT !.manager = ManagerOf(active)]
               /\ agent' = AgentOf(state')
               /\ UNCHANGED <<created, undo>>
       ELSE Bound

\* Bug: the agent keeps the context manager that was sized for the old prompt.
KeepManager(s) ==
    /\ state' = [s EXCEPT !.prompt = PromptOf(s)]
    /\ agent' = AgentOf(state')
    /\ UNCHANGED <<created, undo>>

\* _rebuild_prompt_dependents.
RebuildPromptDependents(s) ==
    /\ state' = Recompose(s)
    /\ agent' = AgentOf(state')
    /\ UNCHANGED <<created, undo>>

\* /map refresh and /memory reload
CmdMap == Command /\ RebuildPromptDependents([state EXCEPT !.map = disk])
CmdMemory == Command /\ RebuildPromptDependents([state EXCEPT !.memory = disk])

-----------------------------------------------------------------------------
(* Turns *)

StartTurn ==
    /\ Enter
    /\ at' = "turn"
    /\ UNCHANGED <<mcpVars, serverVars, next, disk>> /\ Bound

\* An approved call of an MCP tool.  Its server has a session as long as the
\* console runs, so the error result for one that has none does not occur.
CallTool ==
    /\ at = "turn" /\ Free
    /\ \E name \in DOMAIN registry : SubmitCall(name)
    /\ UNCHANGED <<serverVars, at, next, lines, disk>> /\ Bound

\* Arguments that are no JSON object: parse_args raises what nobody catches.
BadArguments ==
    /\ at = "turn" /\ Free /\ registry # NoEntries
    /\ at' = "closing"
    /\ UNCHANGED <<mcpVars, serverVars, next, lines, disk>> /\ Bound

\* The turn is over, or Ctrl-C interrupts it between two calls.
EndTurn ==
    /\ at = "turn" /\ Free
    /\ at' = "ready"
    /\ UNCHANGED <<mcpVars, serverVars, next, lines, disk>> /\ Bound

\* Ctrl-C while a call is awaited.
InterruptCall ==
    /\ at = "turn" /\ at' = "ready"
    /\ GiveUp
    /\ UNCHANGED <<serverVars, next, lines, disk>> /\ Bound

\* The call ended in an error of the connection.  Neither the tool nor the
\* agent nor the session catches it, unless nobody waits for the call.
CallBreaks ==
    /\ \E c \in coro :
         /\ CallFails(c)
         /\ at' = IF waiting = c THEN "closing" ELSE at
    /\ UNCHANGED <<serverVars, next, lines, disk>> /\ Bound

\* future.result raises TimeoutError.  connect turns it into a skipped server
\* and close swallows it; out of a call it ends the session.
WaitTimesOut ==
    /\ GiveUp
    /\ at' = IF waiting.op = "call" THEN "closing" ELSE at
    /\ UNCHANGED <<serverVars, next, lines, disk>> /\ Bound

-----------------------------------------------------------------------------
(* The end *)

\* /exit, end of input, or Ctrl-C or an exception in a command.
Exit ==
    /\ at = "ready" /\ Free
    /\ at' = "closing"
    /\ UNCHANGED <<mcpVars, serverVars, next, lines, disk>> /\ Bound

\* _close: first the embedded server, if it is held ...
CloseServer ==
    /\ at = "closing" /\ Free /\ AskExit
    /\ UNCHANGED <<mcpVars, at, next, lines, disk>> /\ Bound

\* ... then the MCP client, if there is one: its sessions, and its loop ...
CloseSession ==
    /\ at = "closing" /\ Free /\ ~held
    /\ \E key \in DOMAIN sessions : SubmitClose(key)
    /\ UNCHANGED <<serverVars, at, next, lines, disk>> /\ Bound

\* Bug: the loop is stopped while there are sessions.
StopAnyTime ==
    /\ at = "closing" /\ Free /\ ~held
    /\ IF loop = "running" THEN StopLoop ELSE UNCHANGED mcpVars
    /\ at' = "over"
    /\ UNCHANGED <<serverVars, next, lines, disk>> /\ Bound

\* ... which is stopped last.
Finish ==
    /\ at = "closing" /\ Free /\ ~held /\ sessions = NoEntries
    /\ IF loop = "running" THEN StopLoop ELSE UNCHANGED mcpVars
    /\ at' = "over"
    /\ UNCHANGED <<serverVars, next, lines, disk>> /\ Bound

\* Ctrl-C outside of the loop's try, or in _close: nothing more is closed.
BreakOff ==
    /\ at \in {"init", "connect", "serve", "closing"} \/ (at = "ready" /\ watch = "start")
    /\ at' = "failed"
    /\ waiting' = Nothing /\ watch' = "none"
    /\ UNCHANGED <<loop, coro, process, sessions, registry, approved, ran, lost,
                   thread, held, exitAsked, givenUp, next, lines, disk>> /\ Bound

-----------------------------------------------------------------------------

\* Files change, by tools or otherwise; before and after the session's commands
\* that would not be noticed.
Edit ==
    /\ at \in {"ready", "turn"} /\ disk < MaxEdits
    /\ disk' = disk + 1
    /\ UNCHANGED <<mcpVars, serverVars, at, next, lines>> /\ Bound

\* The loop's thread and the server processes.
McpWorld ==
    \/ \E i \in Server :
         OpenSucceeds(i) \/ OpenFails(i) \/ CloseSucceeds(i) \/ CloseFails(i) \/ ServerDies(i)
    \/ \E c \in coro : SendRequest(c) \/ ServerActs(c) \/ ServerAnswers(c)

World ==
    /\ at \notin {"over", "failed"}
    /\ \/ McpWorld /\ UNCHANGED serverVars
       \/ ServerWorld /\ UNCHANGED mcpVars
    /\ UNCHANGED consoleVars

WatchServer == Watches /\ UNCHANGED <<mcpVars, consoleVars>>

StartUp == Prepare \/ ConnectNext \/ Build \/ StartRemote

Commands ==
    \/ CmdNew \/ CmdMap \/ CmdMemory
    \/ \E id \in 1..MaxSessions : CmdResume(id)
    \/ \E name \in Models \cup {NoModel} : CmdModel(name)

Turns == StartTurn \/ CallTool \/ BadArguments \/ EndTurn \/ InterruptCall \/ CallBreaks

Close == CloseServer \/ CloseSession \/ Finish

Next ==
    \/ StartUp \/ Commands \/ Turns \/ Exit \/ BreakOff
    \/ WaitTimesOut \/ WatchServer \/ Close
    \/ World \/ Edit

\* The session thread comes back from what it waits for, by the time-outs if
\* not otherwise, and goes on closing.
Spec == Init /\ [][Next]_vars /\ WF_vars(WaitTimesOut \/ WatchServer \/ Close)

-----------------------------------------------------------------------------
(* Properties *)

\* Types; the session thread waits for one thing at most.
TypeOK ==
    /\ ServerTypeOK
    /\ loop \in {"none", "running", "stopped"}
    /\ process \in [Server -> {"none", "starting", "up", "gone"}]
    /\ lost \subseteq Server
    /\ waiting # Nothing => waiting \in coro
    /\ at \in {"init", "connect", "serve", "ready", "turn", "closing", "over", "failed"}
    /\ undo \in 0..created
    /\ waiting = Nothing \/ watch = "none"

\* Whatever commands came in what order, the next turn uses the active model,
\* the open session and its snapshots, a prompt of the tools that exist, the
\* memory and the map as loaded last, and a context manager sized for it.
AgentIsCurrent ==
    at \in {"ready", "turn"} =>
        /\ agent.llm = state.active
        /\ agent.session = state.session /\ undo = state.session
        /\ agent.prompt = PromptOf(state)
        /\ agent.manager = ManagerOf(state)

\* A server only ever does what the user approved for it by name, once it was
\* approved: also with names that differ in punctuation only, after time-outs
\* and after other servers of the same name.
OnlyApprovedRuns ==
    \A r \in ran :
        /\ r.id \in DOMAIN approved
        /\ approved[r.id] = [server |-> Servers[r.server].name, tool |-> r.tool]

\* When the session has closed, a server process or the web server that still
\* runs is one whose open, close or start was given up or failed, or whose
\* name was used again.
LeftoversExplained ==
    at = "over" =>
        /\ \A i \in Server : process[i] \in {"starting", "up"} => i \in lost
        /\ thread \in {"starting", "listening"} => givenUp # {}

\* A session that closes comes to its end, whatever its servers do.
CloseEnds == at = "closing" ~> at \in {"over", "failed"}

=============================================================================
