---------------------------- MODULE ConsoleProofs ----------------------------
(***************************************************************************)
(* What holds of Console and of CommandRunner for any servers, tools,      *)
(* names, models, backends and any number of lines and commands.  The      *)
(* first part follows an MCP call from the session it is taken to, through *)
(* the coroutine, to the effect: a server never does what the user was not *)
(* shown under its name.  The second is about the console's own state:     *)
(* turns run with the fields as they are, and each server process that     *)
(* runs is kept by a session of the client, being opened or closed, or     *)
(* lost.  The third is about the other processes a session starts, those   *)
(* of shell commands: one reported as stopped is stopped.                  *)
(***************************************************************************)
EXTENDS Console, CommandRunner, TLAPS

Entry(server, tool) == [server |-> server, tool |-> tool]

\* A registered tool is a server's name and a tool's.
RegistryKnown == \A n \in DOMAIN registry : \E server, tool : registry[n] = Entry(server, tool)

\* A session is kept under its server's name.
SessionsNamed ==
    \A key \in DOMAIN sessions : sessions[key] \in Server /\ Servers[sessions[key]].name = key

ApprovedIsSeq == \E S : approved \in Seq(S)

\* A call that has not ended was approved for its server by name.
CallsApproved ==
    \A c \in coro : c.op = "call" =>
        /\ c = Calling(c.server, c.tool, c.id, c.at)
        /\ c.id \in 1..Len(approved)
        /\ approved[c.id] = Entry(Servers[c.server].name, c.tool)

EffectsApproved ==
    \A r \in ran :
        /\ r.id \in 1..Len(approved)
        /\ approved[r.id] = Entry(Servers[r.server].name, r.tool)

CallsHaveNames == RegistryKnown /\ SessionsNamed /\ ApprovedIsSeq /\ CallsApproved /\ EffectsApproved

-----------------------------------------------------------------------------
(* What the steps do to the client's state. *)

\* Nothing but coroutines that end, or that are no calls, and servers.
LEMMA OtherStepInv ==
    ASSUME CallsHaveNames, UNCHANGED <<sessions, registry, approved, ran>>,
           \A c \in coro' : c \in coro \/ c.op # "call"
    PROVE  CallsHaveNames'
BY DEF CallsHaveNames, RegistryKnown, SessionsNamed, ApprovedIsSeq, CallsApproved, EffectsApproved

LEMMA OpenInv ==
    ASSUME CallsHaveNames, NEW i \in Server, OpenSucceeds(i)
    PROVE  CallsHaveNames'
<1> USE DEF CallsHaveNames, OpenSucceeds, Ended, Resume
<1>1. ApprovedIsSeq' /\ CallsApproved' /\ EffectsApproved'
  BY DEF ApprovedIsSeq, CallsApproved, EffectsApproved
<1>2. RegistryKnown'
  <2>1. CASE waiting = Opening(i)
    <3> SUFFICES ASSUME NEW n \in DOMAIN registry'
                 PROVE  \E server, tool : registry'[n] = Entry(server, tool)
      BY DEF RegistryKnown
    <3>1. registry' = Register(registry, i)
      BY <2>1 DEF KeepSession
    <3>2. CASE n \in DOMAIN registry
      <4>1. registry'[n] = registry[n]
        BY <3>1, <3>2 DEF Register
      <4>2. QED
        BY <3>2, <4>1 DEF RegistryKnown
    <3>3. CASE n \notin DOMAIN registry
      <4>1. \E k : registry'[n] = Tool(i, k)
        BY <3>1, <3>3 DEF Register
      <4>2. QED
        BY <4>1 DEF Tool, Entry
    <3>4. QED
      BY <3>2, <3>3
  <2>2. CASE waiting # Opening(i)
    BY <2>2 DEF RegistryKnown, KeepSession
  <2>3. QED
    BY <2>1, <2>2
<1>3. SessionsNamed'
  BY DEF SessionsNamed, KeepSession, With, SessionKey
<1>4. QED
  BY <1>1, <1>2, <1>3

LEMMA SubmitCallInv ==
    ASSUME CallsHaveNames, NEW n \in DOMAIN registry, SubmitCall(n)
    PROVE  CallsHaveNames'
<1> DEFINE id == Len(approved) + 1
           entry == registry[n]
           call == Calling(sessions[entry.server], entry.tool, id, "queued")
<1>1. PICK server, tool : entry = Entry(server, tool)
  BY DEF CallsHaveNames, RegistryKnown
<1>2. /\ approved' = Append(approved, entry) /\ coro' = coro \cup {call}
      /\ entry.server \in DOMAIN sessions
      /\ UNCHANGED <<sessions, registry, ran>>
  BY DEF SubmitCall, Submit, SessionKey
<1>3. PICK S : approved \in Seq(S)
  BY DEF CallsHaveNames, ApprovedIsSeq
<1>4. /\ approved' \in Seq(S \cup {entry})
      /\ Len(approved) \in Nat /\ Len(approved') = id /\ approved'[id] = entry
      /\ \A k \in 1..Len(approved) : approved'[k] = approved[k]
  <2>1. approved \in Seq(S \cup {entry})
    BY <1>3
  <2>2. QED
    BY <1>2, <2>1
<1>5. entry = Entry(Servers[call.server].name, call.tool)
  <2>1. Servers[sessions[entry.server]].name = entry.server
    BY <1>2 DEF CallsHaveNames, SessionsNamed
  <2>2. entry = Entry(entry.server, entry.tool)
    BY <1>1 DEF Entry
  <2>3. call.server = sessions[entry.server] /\ call.tool = entry.tool
    BY DEF Calling
  <2>4. QED
    BY <2>1, <2>2, <2>3
<1>6. /\ call = Calling(call.server, call.tool, call.id, call.at) /\ call.id = id
  BY DEF Calling
<1>7. RegistryKnown' /\ SessionsNamed' /\ ApprovedIsSeq'
  BY <1>2, <1>4 DEF CallsHaveNames, RegistryKnown, SessionsNamed, ApprovedIsSeq
<1>8. CallsApproved'
  <2> SUFFICES ASSUME NEW c \in coro', c.op = "call"
               PROVE  /\ c = Calling(c.server, c.tool, c.id, c.at)
                      /\ c.id \in 1..Len(approved')
                      /\ approved'[c.id] = Entry(Servers[c.server].name, c.tool)
    BY DEF CallsApproved
  <2>1. CASE c = call
    BY <1>4, <1>5, <1>6, <2>1
  <2>2. CASE c \in coro
    BY <1>4, <2>2 DEF CallsHaveNames, CallsApproved
  <2>3. QED
    BY <1>2, <2>1, <2>2
<1>9. EffectsApproved'
  BY <1>2, <1>4 DEF CallsHaveNames, EffectsApproved
<1>10. QED
  BY <1>7, <1>8, <1>9 DEF CallsHaveNames

LEMMA SendInv ==
    ASSUME CallsHaveNames, NEW c \in coro, SendRequest(c)
    PROVE  CallsHaveNames'
<1> DEFINE sent == [c EXCEPT !.at = "sent"]
<1>1. coro' = (coro \ {c}) \cup {sent} /\ UNCHANGED <<sessions, registry, approved, ran>>
  BY DEF SendRequest
<1>2. c.op = "call" /\ c = Calling(c.server, c.tool, c.id, c.at)
  BY DEF SendRequest, CallsHaveNames, CallsApproved
<1>3. /\ sent.op = "call" /\ sent.server = c.server /\ sent.tool = c.tool /\ sent.id = c.id
      /\ sent = Calling(sent.server, sent.tool, sent.id, sent.at)
  BY <1>2 DEF Calling
<1>4. CallsApproved'
  <2> SUFFICES ASSUME NEW d \in coro', d.op = "call"
               PROVE  /\ d = Calling(d.server, d.tool, d.id, d.at)
                      /\ d.id \in 1..Len(approved')
                      /\ approved'[d.id] = Entry(Servers[d.server].name, d.tool)
    BY DEF CallsApproved
  <2>1. CASE d = sent
    <3>1. c.id \in 1..Len(approved) /\ approved[c.id] = Entry(Servers[c.server].name, c.tool)
      BY <1>2 DEF CallsHaveNames, CallsApproved
    <3> HIDE DEF sent
    <3>2. QED
      BY <1>1, <1>3, <2>1, <3>1
  <2>2. CASE d \in coro
    BY <1>1, <2>2 DEF CallsHaveNames, CallsApproved
  <2>3. QED
    BY <1>1, <2>1, <2>2
<1>5. QED
  BY <1>1, <1>4 DEF CallsHaveNames, RegistryKnown, SessionsNamed, ApprovedIsSeq, EffectsApproved

LEMMA ActInv ==
    ASSUME CallsHaveNames, NEW c \in coro, ServerActs(c)
    PROVE  CallsHaveNames'
<1> DEFINE effect == [id |-> c.id, server |-> c.server, tool |-> c.tool]
<1>1. ran' = ran \cup {effect} /\ UNCHANGED <<coro, sessions, registry, approved>>
  BY DEF ServerActs
<1>2. /\ c.id \in 1..Len(approved)
      /\ approved[c.id] = Entry(Servers[c.server].name, c.tool)
  BY DEF ServerActs, CallsHaveNames, CallsApproved
<1>3. EffectsApproved'
  BY <1>1, <1>2 DEF CallsHaveNames, EffectsApproved
<1>4. QED
  BY <1>1, <1>3 DEF CallsHaveNames, RegistryKnown, SessionsNamed, ApprovedIsSeq, CallsApproved

LEMMA CloseInv ==
    ASSUME CallsHaveNames, NEW key \in DOMAIN sessions, SubmitClose(key)
    PROVE  CallsHaveNames'
<1>1. /\ coro' = coro \cup {Closing(sessions[key])}
      /\ sessions' = [other \in DOMAIN sessions \ {key} |-> sessions[other]]
      /\ UNCHANGED <<registry, approved, ran>>
  BY DEF SubmitClose, Submit
<1>2. CallsApproved'
  BY <1>1 DEF CallsHaveNames, CallsApproved, Closing
<1>3. SessionsNamed'
  BY <1>1 DEF CallsHaveNames, SessionsNamed
<1>4. QED
  BY <1>1, <1>2, <1>3 DEF CallsHaveNames, RegistryKnown, ApprovedIsSeq, EffectsApproved

LEMMA StopInv == ASSUME CallsHaveNames, StopLoop PROVE CallsHaveNames'
BY DEF CallsHaveNames, StopLoop, NoEntries, RegistryKnown, SessionsNamed, ApprovedIsSeq, CallsApproved,
       EffectsApproved

-----------------------------------------------------------------------------
(* The console. *)

LEMMA InitNames == Init => CallsHaveNames
<1> SUFFICES ASSUME Init PROVE CallsHaveNames
  OBVIOUS
<1>1. approved \in Seq({})
  BY DEF Init, McpInit
<1>2. QED
  BY <1>1 DEF Init, McpInit, NoEntries, CallsHaveNames, RegistryKnown, SessionsNamed, ApprovedIsSeq,
              CallsApproved, EffectsApproved

LEMMA NextNames == CallsHaveNames /\ [Next]_vars => CallsHaveNames'
<1> SUFFICES ASSUME CallsHaveNames, [Next]_vars PROVE CallsHaveNames'
  OBVIOUS
<1>1. CASE UNCHANGED mcpVars
  BY <1>1, OtherStepInv DEF mcpVars
<1>2. CASE StartUp
  <2>1. CASE ConnectNext
    <3>1. CASE StartLoop
      BY <3>1, OtherStepInv DEF StartLoop
    <3>2. CASE SubmitOpen(next)
      BY <3>2, OtherStepInv DEF SubmitOpen, Submit, Opening
    <3>3. QED
      BY <2>1, <3>1, <3>2 DEF ConnectNext
  <2>2. QED
    BY <1>1, <1>2, <2>1 DEF StartUp, Prepare, Build, StartRemote
<1>3. CASE Commands
  BY <1>1, <1>3 DEF Commands, Command, CmdNew, CmdMap, CmdMemory, CmdResume, CmdModel
<1>4. CASE Turns
  <2>1. CASE CallTool
    BY <2>1, SubmitCallInv DEF CallTool
  <2>2. CASE InterruptCall
    BY <2>2, OtherStepInv DEF InterruptCall, GiveUp
  <2>3. CASE CallBreaks
    BY <2>3, OtherStepInv DEF CallBreaks, CallFails, Ended
  <2>4. QED
    BY <1>1, <1>4, <2>1, <2>2, <2>3 DEF Turns, StartTurn, BadArguments, EndTurn
<1>5. CASE WaitTimesOut
  BY <1>5, OtherStepInv DEF WaitTimesOut, GiveUp
<1>6. CASE BreakOff
  BY <1>6, OtherStepInv DEF BreakOff
<1>7. CASE Close
  <2>1. ASSUME NEW key \in DOMAIN sessions, SubmitClose(key) PROVE CallsHaveNames'
    BY <2>1, CloseInv
  <2>2. CASE StopLoop
    BY <2>2, StopInv
  <2>3. QED
    BY <1>1, <1>7, <2>1, <2>2 DEF Close, CloseServer, CloseSession, Finish
<1>8. CASE World
  <2>1. CASE McpWorld
    <3>1. ASSUME NEW i \in Server,
                 OpenFails(i) \/ CloseSucceeds(i) \/ CloseFails(i) \/ ServerDies(i)
          PROVE  CallsHaveNames'
      BY <3>1, OtherStepInv DEF OpenFails, CloseSucceeds, CloseFails, ServerDies, Ended
    <3>2. ASSUME NEW c \in coro, ServerAnswers(c) PROVE CallsHaveNames'
      BY <3>2, OtherStepInv DEF ServerAnswers, Ended
    <3>3. QED
      BY <2>1, <3>1, <3>2, OpenInv, SendInv, ActInv DEF McpWorld
  <2>2. QED
    BY <1>1, <1>8, <2>1 DEF World
<1>9. CASE WatchServer \/ Edit \/ Exit
  BY <1>1, <1>9 DEF WatchServer, Edit, Exit
<1>10. CASE UNCHANGED vars
  BY <1>1, <1>10 DEF vars
<1>11. QED
  BY <1>2, <1>3, <1>4, <1>5, <1>6, <1>7, <1>8, <1>9, <1>10 DEF Next

-----------------------------------------------------------------------------
(* The session's own state. *)

IsOperation(c) ==
    \/ \E i : c \in {Opening(i), Closing(i)}
    \/ \E i, tool, id, where : c = Calling(i, tool, id, where)

Shape ==
    /\ DOMAIN process = Server
    /\ \A c \in coro : IsOperation(c)
    /\ waiting = Nothing \/ IsOperation(waiting)

Stands == at \in {"init", "over", "failed"}

\* An open is awaited only during start-up, and nothing before it or at the
\* end.
WaitingKnown ==
    /\ waiting.op = "open" => at = "connect"
    /\ Stands => Free
    /\ at = "over" => ~held /\ sessions = NoEntries

Fields(active, session, memory, map, prompt, manager) ==
    [active |-> active, session |-> session, memory |-> memory, map |-> map,
     prompt |-> prompt, manager |-> manager]

\* Once it is built, the agent is built from Repl's fields.
AgentKnown ==
    at \in {"serve", "ready", "turn"} =>
        /\ \E active, session, memory, map, prompt, manager :
              state = Fields(active, session, memory, map, prompt, manager)
        /\ state.prompt = PromptOf(state) /\ state.manager = ManagerOf(state)
        /\ agent = AgentOf(state)
        /\ undo = state.session

\* The processes that run are kept, being opened or closed, or lost.
ProcessesHeld ==
    at # "failed" => \A i \in Server : process[i] \in {"starting", "up"} =>
        \/ i \in lost
        \/ \E key \in DOMAIN sessions : sessions[key] = i
        \/ waiting \in {Opening(i), Closing(i)}

\* An open nobody waits for was given up.
OpensKnown ==
    at # "failed" => \A i \in Server : Opening(i) \in coro => waiting = Opening(i) \/ i \in lost

\* The server's thread is held, watched or given up.
ThreadHeld ==
    at # "failed" =>
        (thread \in {"starting", "listening"} => held \/ watch # "none" \/ givenUp # {})

Inv == Shape /\ WaitingKnown /\ AgentKnown /\ ProcessesHeld /\ OpensKnown /\ ThreadHeld

LEMMA Operations ==
    ASSUME NEW i, NEW j
    PROVE  /\ Opening(i) # Closing(j) /\ Opening(i) # Nothing /\ Closing(i) # Nothing
           /\ (Opening(i) = Opening(j) => i = j) /\ (Closing(i) = Closing(j) => i = j)
           /\ Opening(i).op = "open" /\ Opening(i).server = i
           /\ Closing(i).op = "close" /\ Closing(i).server = i
           /\ Nothing.op = "none"
<1>1. Opening(i).op = "open" /\ Opening(i).server = i
  BY DEF Opening
<1>2. Opening(j).op = "open" /\ Opening(j).server = j
  BY DEF Opening
<1>3. Closing(i).op = "close" /\ Closing(i).server = i
  BY DEF Closing
<1>4. Closing(j).op = "close" /\ Closing(j).server = j
  BY DEF Closing
<1>5. Nothing.op = "none"
  BY DEF Nothing
<1>6. QED
  BY <1>1, <1>2, <1>3, <1>4, <1>5

-----------------------------------------------------------------------------
(* The agent. *)

\* What every builder of the agent leaves.
LEMMA BuiltAgent ==
    ASSUME NEW active, NEW session, NEW memory, NEW map, NEW prompt, NEW manager,
           state' = Fields(active, session, memory, map, prompt, manager),
           prompt = PromptOf(state'), manager = ManagerOf(state'),
           registry' = registry, agent' = AgentOf(state'), undo' = session
    PROVE  AgentKnown'
<1>1. /\ state'.manager = manager /\ state'.prompt = prompt /\ state'.session = session
  BY DEF Fields
<1>2. PromptOf(state)' = PromptOf(state') /\ ManagerOf(state)' = ManagerOf(state')
      /\ AgentOf(state)' = AgentOf(state')
  BY DEF PromptOf, ManagerOf, AgentOf
<1>3. QED
  BY <1>1, <1>2 DEF AgentKnown

LEMMA SameAgent ==
    ASSUME AgentKnown, UNCHANGED <<registry, state, agent, undo>>,
           at' \in {"serve", "ready", "turn"} => at \in {"serve", "ready", "turn"}
    PROVE  AgentKnown'
BY DEF AgentKnown, PromptOf, ManagerOf, AgentOf

LEMMA BuildAgent == ASSUME Build PROVE AgentKnown'
<1>1. CASE at' = "failed"
  BY <1>1 DEF AgentKnown
<1>2. CASE at' # "failed"
  <2> DEFINE fields == Fields(ActiveModel, 1, disk, disk, NoModel, NoModel)
             prompt == PromptOf(fields)
             composed == Fields(ActiveModel, 1, disk, disk, prompt, NoModel)
             manager == ManagerOf(composed)
             built == Fields(ActiveModel, 1, disk, disk, prompt, manager)
  <2>1. state' = Recompose(fields) /\ agent' = AgentOf(state') /\ undo' = 1 /\ registry' = registry
    BY <1>2 DEF Build, Fields, mcpVars
  <2>2. Recompose(fields) = built
    <3>1. [fields EXCEPT !.prompt = prompt] = composed
      BY DEF Fields
    <3>2. [composed EXCEPT !.manager = manager] = built
      BY DEF Fields
    <3>3. QED
      BY <3>1, <3>2 DEF Recompose
  <2>3. prompt = PromptOf(built) /\ manager = ManagerOf(built)
    BY DEF PromptOf, ManagerOf, Fields
  <2> HIDE DEF prompt, manager
  <2>4. QED
    BY <2>1, <2>2, <2>3, BuiltAgent
<1>3. QED
  BY <1>1, <1>2

LEMMA RebuildAgent ==
    ASSUME NEW active, NEW session, NEW memory, NEW map, NEW p, NEW m, undo = session,
           registry' = registry,
           RebuildPromptDependents(Fields(active, session, memory, map, p, m))
    PROVE  AgentKnown'
<1> DEFINE fields == Fields(active, session, memory, map, p, m)
           prompt == PromptOf(fields)
           composed == Fields(active, session, memory, map, prompt, m)
           manager == ManagerOf(composed)
           built == Fields(active, session, memory, map, prompt, manager)
<1>1. state' = Recompose(fields) /\ agent' = AgentOf(state') /\ undo' = session
  BY DEF RebuildPromptDependents
<1>2. Recompose(fields) = built
  <2>1. [fields EXCEPT !.prompt = prompt] = composed
    BY DEF Fields
  <2>2. [composed EXCEPT !.manager = manager] = built
    BY DEF Fields
  <2>3. QED
    BY <2>1, <2>2 DEF Recompose
<1>3. prompt = PromptOf(built) /\ manager = ManagerOf(built)
  BY DEF PromptOf, ManagerOf, Fields
<1> HIDE DEF prompt, manager
<1>4. QED
  BY <1>1, <1>2, <1>3, BuiltAgent

LEMMA CommandAgent == ASSUME AgentKnown, Commands PROVE AgentKnown'
<1>1. at = "ready" /\ registry' = registry
  BY DEF Commands, CmdNew, CmdMap, CmdMemory, CmdResume, CmdModel, Command, Enter, mcpVars
<1>2. PICK active, session, memory, map, prompt, manager :
        state = Fields(active, session, memory, map, prompt, manager)
  BY <1>1 DEF AgentKnown
<1>3. prompt = PromptOf(state) /\ manager = ManagerOf(state) /\ undo = session
  BY <1>1, <1>2 DEF AgentKnown, Fields
<1>4. ASSUME NEW id, Rebind([state EXCEPT !.session = id]) PROVE AgentKnown'
  <2> DEFINE bound == Fields(active, id, memory, map, prompt, manager)
  <2>1. [state EXCEPT !.session = id] = bound
    BY <1>2 DEF Fields
  <2>2. PromptOf(bound) = PromptOf(state) /\ ManagerOf(bound) = ManagerOf(state)
    BY <1>2 DEF PromptOf, ManagerOf, Fields
  <2>3. state' = bound /\ agent' = AgentOf(state') /\ undo' = id
    BY <1>4, <2>1 DEF Rebind, Fields
  <2>4. QED
    BY <1>1, <1>3, <2>2, <2>3, BuiltAgent
<1>5. ASSUME NEW name \in Models \cup {NoModel}, CmdModel(name) PROVE AgentKnown'
  <2>1. CASE name \in Models
    <3> DEFINE chosen == Fields(name, session, memory, map, prompt, manager)
               fresh == ManagerOf(chosen)
               bound == Fields(name, session, memory, map, prompt, fresh)
    <3>1. state' = bound
      <4>1. [state EXCEPT !.active = name] = chosen
        BY <1>2 DEF Fields
      <4>2. state' = [chosen EXCEPT !.manager = fresh]
        BY <1>5, <2>1, <4>1 DEF CmdModel
      <4>3. QED
        BY <4>2 DEF Fields
    <3>2. agent' = AgentOf(state') /\ undo' = session
      BY <1>3, <1>5, <2>1 DEF CmdModel
    <3>3. prompt = PromptOf(bound) /\ fresh = ManagerOf(bound)
      BY <1>2, <1>3 DEF PromptOf, ManagerOf, Fields
    <3> HIDE DEF fresh
    <3>4. QED
      BY <1>1, <3>1, <3>2, <3>3, BuiltAgent
  <2>2. CASE name \notin Models
    BY <1>1, <1>5, <2>2, SameAgent DEF CmdModel, Bound
  <2>3. QED
    BY <2>1, <2>2
<1>6. ASSUME CmdMap \/ CmdMemory PROVE AgentKnown'
  <2>1. [state EXCEPT !.map = disk] = Fields(active, session, memory, disk, prompt, manager)
    BY <1>2 DEF Fields
  <2>2. [state EXCEPT !.memory = disk] = Fields(active, session, disk, map, prompt, manager)
    BY <1>2 DEF Fields
  <2>3. QED
    BY <1>1, <1>3, <1>6, <2>1, <2>2, RebuildAgent DEF CmdMap, CmdMemory
<1>7. ASSUME NEW id, CmdResume(id) PROVE AgentKnown'
  BY <1>1, <1>4, <1>7, SameAgent DEF CmdResume, Bound
<1>8. QED
  BY <1>4, <1>5, <1>6, <1>7 DEF Commands, CmdNew

LEMMA NextAgent == ASSUME Inv, [Next]_vars PROVE AgentKnown'
<1> USE DEF Bound, mcpVars, consoleVars
<1>1. CASE StartUp
  BY <1>1, SameAgent, BuildAgent DEF Inv, AgentKnown, StartUp, Prepare, ConnectNext, StartRemote
<1>2. CASE Commands
  BY <1>2, CommandAgent DEF Inv
<1>3. CASE Turns
  BY <1>3, SameAgent DEF Inv, Turns, StartTurn, Enter, CallTool, BadArguments, EndTurn, InterruptCall,
     CallBreaks, SubmitCall, GiveUp, CallFails
<1>4. CASE Exit \/ BreakOff \/ WaitTimesOut \/ WatchServer \/ Edit
  BY <1>4, SameAgent DEF Inv, Exit, BreakOff, WaitTimesOut, WatchServer, Edit, GiveUp
<1>5. CASE Close
  BY <1>5 DEF AgentKnown, Close, CloseServer, CloseSession, Finish
<1>6. CASE World
  <2>1. at \in {"serve", "ready", "turn"} => registry' = registry
    <3> SUFFICES ASSUME at \in {"serve", "ready", "turn"} PROVE registry' = registry
      OBVIOUS
    <3>1. ASSUME NEW i \in Server, OpenSucceeds(i) PROVE registry' = registry
      <4>1. waiting # Opening(i)
        BY Operations DEF Inv, WaitingKnown
      <4>2. QED
        BY <3>1, <4>1 DEF OpenSucceeds, KeepSession
    <3>2. QED
      BY <1>6, <3>1 DEF World, McpWorld, OpenFails, CloseSucceeds, CloseFails, ServerDies,
         SendRequest, ServerActs, ServerAnswers
  <2>2. QED
    BY <1>6, <2>1, SameAgent DEF Inv, AgentKnown, World
<1>7. CASE UNCHANGED vars
  BY <1>7, SameAgent DEF Inv, vars
<1>8. QED
  BY <1>1, <1>2, <1>3, <1>4, <1>5, <1>6, <1>7 DEF Next

-----------------------------------------------------------------------------
(* The steps of a coroutine. *)

LEMMA CallOperation ==
    ASSUME NEW i, NEW tool, NEW id, NEW where
    PROVE  /\ Calling(i, tool, id, where).op = "call"
           /\ [Calling(i, tool, id, where) EXCEPT !.at = "sent"] = Calling(i, tool, id, "sent")
           /\ \A j : Calling(i, tool, id, where) \notin {Opening(j), Closing(j), Nothing}
<1>1. Calling(i, tool, id, where).op = "call"
  BY DEF Calling
<1>2. [Calling(i, tool, id, where) EXCEPT !.at = "sent"] = Calling(i, tool, id, "sent")
  BY DEF Calling
<1>3. QED
  BY <1>1, <1>2, Operations

\* A request that goes out stays a call.
LEMMA Sent ==
    ASSUME NEW c, IsOperation(c), c.op = "call"
    PROVE  /\ IsOperation([c EXCEPT !.at = "sent"])
           /\ [c EXCEPT !.at = "sent"].op = "call"
           /\ \A j : c \notin {Opening(j), Closing(j), Nothing}
           /\ \A j : [c EXCEPT !.at = "sent"] \notin {Opening(j), Closing(j), Nothing}
<1>1. PICK i, tool, id, where : c = Calling(i, tool, id, where)
  BY Operations DEF IsOperation
<1>2. [c EXCEPT !.at = "sent"] = Calling(i, tool, id, "sent")
  BY <1>1, CallOperation
<1>3. QED
  BY <1>1, <1>2, CallOperation DEF IsOperation

LEMMA NextShape == ASSUME Shape, [Next]_vars PROVE Shape'
<1> USE DEF mcpVars
<1>1. ASSUME UNCHANGED <<process, coro>>, waiting' \in {waiting, Nothing} PROVE Shape'
  BY <1>1 DEF Shape
<1>2. ASSUME NEW c, Ended(c), DOMAIN process' = DOMAIN process PROVE Shape'
  BY <1>2 DEF Shape, Ended, Resume
<1>3. ASSUME NEW c, Submit(c), IsOperation(c), DOMAIN process' = DOMAIN process PROVE Shape'
  BY <1>3 DEF Shape, Submit
<1>4. CASE StartUp
  <2>1. CASE \E i \in Server : SubmitOpen(i)
    BY <1>3, <2>1 DEF SubmitOpen, IsOperation
  <2>2. CASE ~ \E i \in Server : SubmitOpen(i)
    BY <1>1, <1>4, <2>2 DEF StartUp, Prepare, ConnectNext, StartLoop, Build, StartRemote
  <2>3. QED
    BY <2>1, <2>2
<1>5. CASE Commands
  BY <1>1, <1>5 DEF Commands, CmdNew, CmdMap, CmdMemory, CmdResume, CmdModel, Command
<1>6. CASE Turns
  <2>1. ASSUME NEW name \in DOMAIN registry, SubmitCall(name) PROVE Shape'
    BY <1>3, <2>1 DEF SubmitCall, IsOperation
  <2>2. CASE CallBreaks
    BY <1>2, <2>2 DEF CallBreaks, CallFails
  <2>3. CASE InterruptCall
    BY <1>1, <2>3 DEF InterruptCall, GiveUp, Resume
  <2>4. QED
    BY <1>1, <1>6, <2>1, <2>2, <2>3 DEF Turns, StartTurn, CallTool, BadArguments, EndTurn
<1>7. CASE Exit \/ BreakOff \/ WaitTimesOut \/ WatchServer \/ Edit
  BY <1>1, <1>7 DEF Exit, BreakOff, WaitTimesOut, WatchServer, Edit, GiveUp, Resume
<1>8. CASE Close
  <2>1. ASSUME NEW key, SubmitClose(key) PROVE Shape'
    BY <1>3, <2>1 DEF SubmitClose, IsOperation
  <2>2. QED
    BY <1>1, <1>8, <2>1 DEF Close, CloseServer, CloseSession, Finish, StopLoop
<1>9. CASE World
  <2>1. ASSUME NEW i \in Server, OpenSucceeds(i) \/ OpenFails(i) \/ CloseSucceeds(i) \/ CloseFails(i)
        PROVE Shape'
    BY <1>2, <2>1 DEF OpenSucceeds, OpenFails, CloseSucceeds, CloseFails
  <2>2. ASSUME NEW c \in coro, SendRequest(c) PROVE Shape'
    BY <2>2, Sent DEF Shape, SendRequest
  <2>3. ASSUME NEW i \in Server, ServerDies(i) PROVE Shape'
    BY <2>3 DEF Shape, ServerDies
  <2>4. QED
    BY <1>1, <1>2, <1>9, <2>1, <2>2, <2>3 DEF World, McpWorld, ServerActs, ServerAnswers
<1>10. CASE UNCHANGED vars
  BY <1>1, <1>10 DEF vars
<1>11. QED
  BY <1>4, <1>5, <1>6, <1>7, <1>8, <1>9, <1>10 DEF Next

-----------------------------------------------------------------------------
(* What the session thread waits for. *)

LEMMA NextWaiting == ASSUME Inv, [Next]_vars PROVE WaitingKnown'
<1> USE Operations DEF mcpVars, consoleVars, serverVars
<1>1. CASE Stands
  <2>1. waiting = Nothing /\ watch = "none" /\ (at = "over" => ~held /\ sessions = NoEntries)
    BY <1>1 DEF Inv, WaitingKnown, Free
  <2>2. ASSUME NEW c \in coro, c.op = "call" PROVE c # Nothing
    BY <2>2
  <2>3. waiting' = Nothing /\ watch' = "none" /\ (at = "over" => UNCHANGED <<held, sessions>>)
    <3>1. ASSUME World PROVE waiting' = Nothing /\ watch' = "none" /\ at # "over"
      BY <2>1, <2>2, <3>1 DEF World, McpWorld, OpenSucceeds, OpenFails, CloseSucceeds, CloseFails, ServerDies,
         SendRequest, ServerActs, ServerAnswers, Ended, ServerWorld, Listens, CannotListen, Exits
    <3>2. QED
      BY <1>1, <2>1, <2>2, <3>1 DEF Stands, Next, StartUp, Prepare, ConnectNext, Build, StartRemote, Commands,
         CmdNew, CmdMap, CmdMemory, CmdResume, CmdModel, Command, Enter, Turns, StartTurn, CallTool,
         BadArguments, EndTurn, InterruptCall, CallBreaks, CallFails, Ended, GiveUp, Exit, BreakOff,
         WaitTimesOut, WatchServer, Watches, SeenListening, SeenEnded, StartGivenUp, Joined, JoinGivenUp, Close,
         CloseServer, CloseSession, Finish, Edit, vars
  <2>4. at' = "over" => at = "over"
    BY <1>1, <2>1, <2>2 DEF Stands, Next, StartUp, Prepare, ConnectNext, Build, StartRemote, Commands,
       CmdNew, CmdMap, CmdMemory, CmdResume, CmdModel, Command, Enter, Turns, StartTurn, CallTool,
       BadArguments, EndTurn, InterruptCall, CallBreaks, Exit, BreakOff, WaitTimesOut, WatchServer, Close,
       CloseServer, CloseSession, Finish, World, Edit, vars
  <2>5. QED
    BY <2>1, <2>3, <2>4 DEF WaitingKnown, Free
<1>2. CASE ~Stands
  <2>1. ASSUME Stands' PROVE Free' /\ (at' = "over" => ~held' /\ sessions' = NoEntries)
    <3>1. Finish \/ BreakOff \/ Build
      BY <1>2, <2>1 DEF Stands, Next, StartUp, Prepare, ConnectNext, StartRemote, Commands, CmdNew, CmdMap,
         CmdMemory, CmdResume, CmdModel, Command, Turns, StartTurn, CallTool, BadArguments, EndTurn,
         InterruptCall, CallBreaks, Exit, WaitTimesOut, WatchServer, Close, CloseServer, CloseSession,
         World, Edit, vars
    <3>2. QED
      BY <3>1 DEF Finish, BreakOff, Build, Free, StopLoop
  <2>2. ASSUME waiting'.op = "open" PROVE at' = "connect"
    <3>1. CASE waiting' = waiting
      <4>1. at = "connect" /\ waiting # Nothing
        BY <2>2, <3>1 DEF Inv, WaitingKnown
      <4>2. ~BreakOff
        BY <2>2 DEF BreakOff
      <4>3. QED
        BY <3>1, <4>1, <4>2 DEF Next, StartUp, Prepare, ConnectNext, Build, StartRemote, Free, Commands, CmdNew,
           CmdMap, CmdMemory, CmdResume, CmdModel, Command, Enter, Turns, StartTurn, CallTool, BadArguments,
           EndTurn, InterruptCall, CallBreaks, CallFails, Ended, Resume, GiveUp, Exit, WaitTimesOut, WatchServer,
           Close, CloseServer, CloseSession, Finish, World, Edit, vars
    <3>2. CASE waiting' # waiting
      <4>1. waiting' # Nothing
        BY <2>2
      <4>2. ASSUME NEW name \in DOMAIN registry PROVE ~SubmitCall(name)
        BY <2>2, CallOperation DEF SubmitCall, Submit
      <4>3. ASSUME NEW key PROVE ~SubmitClose(key)
        BY <2>2 DEF SubmitClose, Submit
      <4>4. ASSUME NEW c \in coro PROVE ~SendRequest(c)
        BY <2>2, <3>2, Sent DEF SendRequest, Inv, Shape
      <4>5. ~BreakOff /\ ~WaitTimesOut /\ ~Turns
        BY <3>2, <4>1, <4>2 DEF BreakOff, WaitTimesOut, GiveUp, Resume, Turns, StartTurn, CallTool, BadArguments,
           EndTurn, InterruptCall, CallBreaks, CallFails, Ended
      <4>6. ~World
        BY <3>2, <4>1, <4>4 DEF World, McpWorld, OpenSucceeds, OpenFails, CloseSucceeds, CloseFails, ServerDies,
           ServerActs, ServerAnswers, Ended, Resume
      <4>7. ~Close
        BY <3>2, <4>1, <4>3 DEF Close, CloseServer, CloseSession, Finish, StopLoop
      <4>8. StartUp
        BY <3>2, <4>5, <4>6, <4>7 DEF Next, Commands, CmdNew, CmdMap, CmdMemory, CmdResume, CmdModel, Command,
           Exit, WatchServer, Edit, vars
      <4>9. QED
        BY <3>2, <4>8 DEF StartUp, Prepare, ConnectNext, Build, StartRemote
    <3>3. QED
      BY <3>1, <3>2
  <2>3. QED
    BY <2>1, <2>2 DEF WaitingKnown, Stands
<1>3. QED
  BY <1>1, <1>2

-----------------------------------------------------------------------------
(* The server's thread. *)

LEMMA Failed == ASSUME Inv, [Next]_vars, at' # "failed" PROVE at # "failed"
<1> SUFFICES ASSUME at = "failed" PROVE FALSE
  OBVIOUS
<1>1. waiting = Nothing
  BY DEF Inv, WaitingKnown, Stands, Free
<1>2. ASSUME NEW c \in coro, c.op = "call" PROVE c # Nothing
  BY <1>2, Operations
<1>3. QED
  BY <1>1, <1>2 DEF Next, StartUp, Prepare, ConnectNext, Build, StartRemote, Commands, CmdNew, CmdMap,
     CmdMemory, CmdResume, CmdModel, Command, Enter, Turns, StartTurn, CallTool, BadArguments, EndTurn,
     InterruptCall, CallBreaks, CallFails, GiveUp, Exit, BreakOff, WaitTimesOut, WatchServer,
     Close, CloseServer, CloseSession, Finish, World, Edit, vars, consoleVars

LEMMA NextThread == ASSUME Inv, [Next]_vars PROVE ThreadHeld'
<1> SUFFICES ASSUME at' # "failed", thread' \in {"starting", "listening"}
             PROVE  held' \/ watch' # "none" \/ givenUp' # {}
  BY DEF ThreadHeld
<1>1. ASSUME thread \in {"starting", "listening"} PROVE held \/ watch # "none" \/ givenUp # {}
  BY <1>1, Failed DEF Inv, ThreadHeld
<1> USE DEF serverVars
<1>2. CASE UNCHANGED serverVars
  BY <1>1, <1>2
<1>3. CASE StartRemote
  BY <1>1, <1>3 DEF StartRemote, StartThread
<1>4. CASE WatchServer
  BY <1>1, <1>4 DEF WatchServer, Watches, SeenListening, SeenEnded, StartGivenUp, Joined, JoinGivenUp
<1>5. CASE CloseServer
  BY <1>1, <1>5 DEF CloseServer, AskExit
<1>6. CASE ServerWorld
  BY <1>1, <1>6 DEF ServerWorld, Listens, CannotListen, Exits
<1>7. QED
  BY <1>2, <1>3, <1>4, <1>5, <1>6 DEF Next, StartUp, Prepare, ConnectNext, Build, Commands, CmdNew, CmdMap,
     CmdMemory, CmdResume, CmdModel, Command, Turns, StartTurn, CallTool, BadArguments, EndTurn,
     InterruptCall, CallBreaks, Exit, BreakOff, WaitTimesOut, Close, CloseSession, Finish, World, Edit, vars

-----------------------------------------------------------------------------
(* The processes. *)

Held(i) ==
    \/ i \in lost
    \/ \E key \in DOMAIN sessions : sessions[key] = i
    \/ waiting \in {Opening(i), Closing(i)}

\* The console leaves the client alone.
LEMMA SameClient ==
    ASSUME Inv, UNCHANGED <<process, sessions, waiting, coro, lost>>, at' # "failed" => at # "failed"
    PROVE  ProcessesHeld' /\ OpensKnown'
BY DEF Inv, ProcessesHeld, OpensKnown

\* Nothing new runs, nothing is opened, and whatever was held is.
LEMMA SameHolders ==
    ASSUME Inv, at' # "failed" => at # "failed", \A i \in Server : Held(i) => Held(i)',
           \A i \in Server : process'[i] \in {"starting", "up"} => process[i] \in {"starting", "up"} \/ Held(i)',
           \A i \in Server : Opening(i) \in coro' =>
               \/ Opening(i) \in coro /\ (waiting = Opening(i) => waiting' = Opening(i) \/ i \in lost')
               \/ waiting' = Opening(i),
           lost \subseteq lost'
    PROVE  ProcessesHeld' /\ OpensKnown'
<1>1. ProcessesHeld'
  BY DEF Inv, ProcessesHeld, Held
<1>2. OpensKnown'
  BY DEF Inv, OpensKnown
<1>3. QED
  BY <1>1, <1>2

LEMMA OpenHolders ==
    ASSUME Inv, NEW i \in Server, at # "failed", OpenSucceeds(i)
    PROVE  ProcessesHeld' /\ OpensKnown'
<1> USE Operations
<1>1. ASSUME NEW j \in Server PROVE process'[j] = IF j = i THEN "up" ELSE process[j]
  BY DEF OpenSucceeds, Inv, Shape
<1> DEFINE key == SessionKey(Servers[i].name)
<1>2. CASE waiting = Opening(i)
  <2>1. /\ sessions' = With(sessions, key, i)
        /\ lost' = lost \cup {j \in Server : key \in DOMAIN sessions /\ j = sessions[key]}
        /\ waiting' = Nothing /\ coro' = coro \ {Opening(i)}
    BY <1>2 DEF OpenSucceeds, KeepSession, Ended, Resume
  <2>2. key \in DOMAIN sessions' /\ sessions'[key] = i
    BY <2>1 DEF With
  <2>3. ASSUME NEW other \in DOMAIN sessions, other # key
        PROVE  other \in DOMAIN sessions' /\ sessions'[other] = sessions[other]
    BY <2>1, <2>3 DEF With
  <2>4. ASSUME NEW j \in Server, Held(j) PROVE Held(j)'
    BY <1>2, <2>1, <2>2, <2>3, <2>4 DEF Held
  <2>5. Held(i)'
    BY <2>2 DEF Held
  <2>6. ASSUME NEW j \in Server, Opening(j) \in coro' PROVE Opening(j) \in coro /\ waiting # Opening(j)
    BY <1>2, <2>1, <2>6
  <2>7. QED
    BY <1>1, <2>1, <2>4, <2>5, <2>6, SameHolders
<1>3. CASE waiting # Opening(i)
  <2>1. i \in lost /\ UNCHANGED <<sessions, lost, waiting>> /\ coro' = coro \ {Opening(i)}
    BY <1>3 DEF OpenSucceeds, KeepSession, Ended, Inv, OpensKnown
  <2>2. QED
    BY <1>1, <2>1, SameHolders DEF Held
<1>4. QED
  BY <1>2, <1>3

LEMMA WorldHolders == ASSUME Inv, World PROVE ProcessesHeld' /\ OpensKnown'
<1> USE Operations
<1>1. at # "failed" /\ at' = at
  BY DEF World, consoleVars
<1>2. CASE UNCHANGED mcpVars
  BY <1>1, <1>2, SameClient DEF mcpVars
<1>3. ASSUME NEW i \in Server, OpenFails(i) PROVE ProcessesHeld' /\ OpensKnown'
  <2>1. ASSUME NEW j \in Server, j # i PROVE process'[j] = process[j]
    BY <1>3, <2>1 DEF OpenFails, Inv, Shape
  <2>2. sessions' = sessions /\ lost' = lost \cup {i} /\ coro' = coro \ {Opening(i)}
        /\ waiting' = IF waiting = Opening(i) THEN Nothing ELSE waiting
    BY <1>3 DEF OpenFails, Ended, Resume
  <2>3. QED
    BY <1>1, <2>1, <2>2, SameHolders DEF Held
<1>4. ASSUME NEW i \in Server, CloseSucceeds(i) PROVE ProcessesHeld' /\ OpensKnown'
  <2>1. ASSUME NEW j \in Server PROVE process'[j] = IF j = i THEN "gone" ELSE process[j]
    BY <1>4 DEF CloseSucceeds, Inv, Shape
  <2>2. sessions' = sessions /\ lost' = lost /\ coro' = coro \ {Closing(i)}
        /\ waiting' = IF waiting = Closing(i) THEN Nothing ELSE waiting
    BY <1>4 DEF CloseSucceeds, Ended, Resume
  <2>3. ASSUME NEW j \in Server, process'[j] \in {"starting", "up"} PROVE Held(j)'
    BY <1>1, <2>1, <2>2, <2>3 DEF Held, Inv, ProcessesHeld
  <2>4. ProcessesHeld'
    BY <2>3 DEF ProcessesHeld, Held
  <2>5. OpensKnown'
    BY <1>1, <2>2 DEF OpensKnown, Inv
  <2>6. QED
    BY <2>4, <2>5
<1>5. ASSUME NEW i \in Server, CloseFails(i) PROVE ProcessesHeld' /\ OpensKnown'
  BY <1>1, <1>5, SameHolders DEF CloseFails, Ended, Resume, Held
<1>6. ASSUME NEW i \in Server, ServerDies(i) PROVE ProcessesHeld' /\ OpensKnown'
  <2>1. ASSUME NEW j \in Server PROVE process'[j] = IF j = i THEN "gone" ELSE process[j]
    BY <1>6 DEF ServerDies, Inv, Shape
  <2>2. QED
    BY <1>1, <1>6, <2>1, SameHolders DEF ServerDies, Held
<1>7. ASSUME NEW c \in coro, SendRequest(c) PROVE ProcessesHeld' /\ OpensKnown'
  <2> DEFINE sent == [c EXCEPT !.at = "sent"]
  <2>1. c.op = "call" /\ IsOperation(c) /\ coro' = (coro \ {c}) \cup {sent}
        /\ waiting' = (IF waiting = c THEN sent ELSE waiting) /\ UNCHANGED <<process, sessions, lost>>
    BY <1>7 DEF SendRequest, Inv, Shape
  <2>2. \A j : c \notin {Opening(j), Closing(j)} /\ sent \notin {Opening(j), Closing(j)}
    BY <2>1, Sent
  <2> HIDE DEF sent
  <2>3. QED
    BY <1>1, <2>1, <2>2, SameHolders DEF Held
<1>8. ASSUME NEW c \in coro, ServerAnswers(c) PROVE ProcessesHeld' /\ OpensKnown'
  BY <1>1, <1>8, SameHolders DEF ServerAnswers, Ended, Resume, Held
<1>9. ASSUME NEW c \in coro, ServerActs(c) PROVE ProcessesHeld' /\ OpensKnown'
  BY <1>1, <1>9, SameClient DEF ServerActs
<1>10. QED
  BY <1>1, <1>2, <1>3, <1>4, <1>5, <1>6, <1>7, <1>8, <1>9, OpenHolders DEF World, McpWorld

\* An open or a close that is given up is lost; a call holds nothing.
LEMMA GiveUpHolders ==
    ASSUME Inv, GiveUp, at' # "failed" => at # "failed"
    PROVE  ProcessesHeld' /\ OpensKnown'
<1> USE Operations
<1>1. waiting' = Nothing /\ UNCHANGED <<process, sessions, coro>>
      /\ lost' = IF waiting.op = "call" THEN lost ELSE lost \cup {waiting.server}
  BY DEF GiveUp, Resume
<1>2. ASSUME NEW i \in Server, waiting \in {Opening(i), Closing(i)} PROVE i \in lost'
  BY <1>1, <1>2
<1>3. QED
  BY <1>1, <1>2, SameHolders DEF Held

LEMMA NextHeld == ASSUME Inv, [Next]_vars PROVE ProcessesHeld' /\ OpensKnown'
<1> USE Operations DEF mcpVars
<1>1. CASE at' = "failed"
  BY <1>1 DEF ProcessesHeld, OpensKnown
<1>2. CASE at' # "failed"
  <2>1. at # "failed"
    BY <1>2, Failed
  <2>2. ASSUME NEW i \in Server, SubmitOpen(i) PROVE ProcessesHeld' /\ OpensKnown'
    <3>1. ASSUME NEW j \in Server, j # i PROVE process'[j] = process[j]
      BY <2>2, <3>1 DEF SubmitOpen, Inv, Shape
    <3>2. waiting = Nothing /\ waiting' = Opening(i) /\ coro' = coro \cup {Opening(i)}
          /\ UNCHANGED <<sessions, lost>>
      BY <2>2 DEF SubmitOpen, Submit
    <3>3. QED
      BY <2>1, <3>1, <3>2, SameHolders DEF Held
  <2>3. ASSUME NEW name \in DOMAIN registry, SubmitCall(name) PROVE ProcessesHeld' /\ OpensKnown'
    <3>1. PICK i, tool, id, where : Submit(Calling(i, tool, id, where)) /\ UNCHANGED <<process, sessions, lost>>
      BY <2>3 DEF SubmitCall
    <3>2. \A j : Calling(i, tool, id, where) \notin {Opening(j), Closing(j)}
      BY CallOperation
    <3>3. QED
      BY <2>1, <3>1, <3>2, SameHolders DEF Submit, Held
  <2>4. ASSUME NEW key \in DOMAIN sessions, SubmitClose(key) PROVE ProcessesHeld' /\ OpensKnown'
    <3>1. waiting = Nothing /\ waiting' = Closing(sessions[key]) /\ coro' = coro \cup {Closing(sessions[key])}
          /\ UNCHANGED <<process, lost>>
          /\ sessions' = [other \in DOMAIN sessions \ {key} |-> sessions[other]]
      BY <2>4 DEF SubmitClose, Submit
    <3>2. ASSUME NEW j \in Server, Held(j) PROVE Held(j)'
      BY <3>1, <3>2 DEF Held
    <3>3. QED
      BY <2>1, <3>1, <3>2, SameHolders
  <2>5. CASE Finish
    <3>1. sessions' = sessions /\ UNCHANGED <<process, waiting, coro, lost>>
      BY <2>5 DEF Finish, StopLoop
    <3>2. QED
      BY <2>1, <3>1, SameClient
  <2>6. CASE CallBreaks
    <3>1. PICK c \in coro : CallFails(c)
      BY <2>6 DEF CallBreaks
    <3>2. QED
      BY <2>1, <3>1, SameHolders DEF CallFails, Ended, Resume, Held
  <2>7. CASE InterruptCall \/ WaitTimesOut
    BY <2>1, <2>7, GiveUpHolders DEF InterruptCall, WaitTimesOut
  <2>8. CASE World
    BY <2>8, WorldHolders
  <2>9. CASE UNCHANGED <<process, sessions, waiting, coro, lost>>
    BY <2>1, <2>9, SameClient
  <2>10. QED
    BY <1>2, <2>2, <2>3, <2>4, <2>5, <2>6, <2>7, <2>8, <2>9 DEF Next, StartUp, Prepare, ConnectNext, StartLoop,
       Build, StartRemote, Commands, CmdNew, CmdMap, CmdMemory, CmdResume, CmdModel, Command, Turns, StartTurn,
       CallTool, BadArguments, EndTurn, Exit, BreakOff, WatchServer, Close, CloseServer, CloseSession, Edit, vars
<1>3. QED
  BY <1>1, <1>2

-----------------------------------------------------------------------------
(* Types. *)

\* What is awaited is in the loop, an open or close is of a server, and nothing
\* is awaited when the embedded server is started.
ClientTypes ==
    /\ loop \in {"none", "running", "stopped"}
    /\ process \in [Server -> {"none", "starting", "up", "gone"}]
    /\ lost \subseteq Server
    /\ waiting # Nothing => waiting \in coro
    /\ waiting.op \in {"open", "close"} => waiting.server \in Server
    /\ waiting = Nothing \/ watch = "none"
    /\ at = "serve" => waiting = Nothing

ThreadTypes ==
    /\ at \in {"init", "connect", "serve", "ready", "turn", "closing", "over", "failed"}
    /\ created \in Nat /\ undo \in 0..created

Types == ServerTypeOK /\ ClientTypes /\ ThreadTypes

LEMMA InitTypes == Init => Types
<1> SUFFICES ASSUME Init PROVE Types
  OBVIOUS
<1>1. Nothing.op = "none"
  BY Operations
<1>2. ServerTypeOK
  BY DEF Init, ServerInit, ServerTypeOK
<1>3. ClientTypes
  BY <1>1 DEF Init, McpInit, ServerInit, ClientTypes
<1>4. ThreadTypes
  BY DEF Init, ThreadTypes
<1>5. QED
  BY <1>2, <1>3, <1>4 DEF Types

LEMMA NextServerTypes == ASSUME ServerTypeOK, [Next]_vars PROVE ServerTypeOK'
<1>1. CASE UNCHANGED serverVars
  BY <1>1 DEF serverVars, ServerTypeOK
<1>2. CASE StartThread \/ AskExit \/ ServerWorld \/ Watches
  <2>1. CASE StartThread \/ AskExit
    <3>1. thread' \in {"none", "starting", "listening", "ended"} /\ watch' \in {"none", "start", "exit"}
      BY <2>1 DEF ServerTypeOK, StartThread, AskExit
    <3>2. held' \in BOOLEAN /\ exitAsked' \in BOOLEAN /\ givenUp' \subseteq {"start", "exit"}
      BY <2>1, Zenon DEF ServerTypeOK, StartThread, AskExit
    <3>3. held' => thread' \in {"listening", "ended"}
      BY <2>1 DEF ServerTypeOK, StartThread, AskExit
    <3>4. QED
      BY <3>1, <3>2, <3>3 DEF ServerTypeOK
  <2>2. CASE ServerWorld
    BY <2>2 DEF ServerTypeOK, ServerWorld, Listens, CannotListen, Exits
  <2>3. CASE Watches
    <3>1. thread' \in {"none", "starting", "listening", "ended"} /\ watch' \in {"none", "start", "exit"}
      BY <2>3
      DEF ServerTypeOK, Watches, SeenListening, SeenEnded, StartGivenUp, Joined, JoinGivenUp
    <3>2. held' \in BOOLEAN /\ exitAsked' \in BOOLEAN
      BY <2>3, Zenon
      DEF ServerTypeOK, Watches, SeenListening, SeenEnded, StartGivenUp, Joined, JoinGivenUp
    <3>3. givenUp' \subseteq {"start", "exit"}
      BY <2>3
      DEF ServerTypeOK, Watches, SeenListening, SeenEnded, StartGivenUp, Joined, JoinGivenUp
    <3>4. held' => thread' \in {"listening", "ended"}
      BY <2>3
      DEF ServerTypeOK, Watches, SeenListening, SeenEnded, StartGivenUp, Joined, JoinGivenUp
    <3>5. QED
      BY <3>1, <3>2, <3>3, <3>4 DEF ServerTypeOK
  <2>4. QED
    BY <1>2, <2>1, <2>2, <2>3
<1>3. CASE BreakOff
  BY <1>3 DEF BreakOff, ServerTypeOK
<1>4. QED
  BY <1>1, <1>2, <1>3
  DEF Next, StartUp, Prepare, ConnectNext, Build, StartRemote, Commands, CmdNew, CmdMap, CmdMemory,
      CmdResume, CmdModel, Command, Turns, StartTurn, CallTool, BadArguments, EndTurn, InterruptCall,
      CallBreaks, Exit, WaitTimesOut, WatchServer, Close, CloseServer, CloseSession, Finish, World,
      Edit, vars

LEMMA EndedTypes ==
    ASSUME ClientTypes, NEW c, c # Nothing, Ended(c), UNCHANGED <<loop, watch, at>>,
           process' \in [Server -> {"none", "starting", "up", "gone"}], lost' \subseteq Server
    PROVE  ClientTypes'
BY Operations DEF ClientTypes, Ended, Resume

LEMMA GiveUpTypes ==
    ASSUME ClientTypes, Shape, GiveUp, UNCHANGED watch, at' \in {at, "closing", "ready"}
    PROVE  ClientTypes'
<1>1. waiting.op \in {"open", "close", "call"}
  BY Operations, CallOperation DEF Shape, GiveUp, IsOperation
<1>2. lost' \subseteq Server
  BY <1>1 DEF ClientTypes, GiveUp
<1>3. QED
  BY <1>2, Operations DEF ClientTypes, GiveUp, Resume

LEMMA WorldTypes ==
    ASSUME ClientTypes, Shape, CallsHaveNames, McpWorld, UNCHANGED <<watch, at>>
    PROVE  ClientTypes'
<1>1. ASSUME NEW i \in Server, OpenSucceeds(i) PROVE ClientTypes'
  <2>1. lost' \subseteq Server
    BY <1>1 DEF OpenSucceeds, KeepSession, ClientTypes
  <2>2. process' \in [Server -> {"none", "starting", "up", "gone"}]
    BY <1>1 DEF OpenSucceeds, ClientTypes
  <2>3. QED
    BY <1>1, <2>1, <2>2, Operations, EndedTypes DEF OpenSucceeds
<1>2. ASSUME NEW i \in Server, OpenFails(i) PROVE ClientTypes'
  <2>1. process' \in [Server -> {"none", "starting", "up", "gone"}] /\ lost' \subseteq Server
    BY <1>2 DEF OpenFails, ClientTypes
  <2>2. QED
    BY <1>2, <2>1, Operations, EndedTypes DEF OpenFails
<1>3. ASSUME NEW i \in Server, CloseSucceeds(i) \/ CloseFails(i) PROVE ClientTypes'
  <2>1. process' \in [Server -> {"none", "starting", "up", "gone"}] /\ lost' \subseteq Server
    BY <1>3 DEF CloseSucceeds, CloseFails, ClientTypes
  <2>2. QED
    BY <1>3, <2>1, Operations, EndedTypes DEF CloseSucceeds, CloseFails
<1>4. ASSUME NEW i \in Server, ServerDies(i) PROVE ClientTypes'
  BY <1>4 DEF ServerDies, ClientTypes
<1>5. ASSUME NEW c \in coro, SendRequest(c) PROVE ClientTypes'
  <2> DEFINE sent == [c EXCEPT !.at = "sent"]
  <2>1. /\ coro' = (coro \ {c}) \cup {sent} /\ waiting' = IF waiting = c THEN sent ELSE waiting
        /\ UNCHANGED <<loop, process, lost>> /\ c.op = "call"
    BY <1>5 DEF SendRequest
  <2>2. sent.op = "call" /\ c # Nothing
    BY <1>5, <2>1, Sent DEF Shape
  <2> HIDE DEF sent
  <2>3. QED
    BY <2>1, <2>2 DEF ClientTypes
<1>6. ASSUME NEW c \in coro, ServerActs(c) PROVE ClientTypes'
  BY <1>6 DEF ServerActs, ClientTypes
<1>7. ASSUME NEW c \in coro, ServerAnswers(c) PROVE ClientTypes'
  <2>1. c # Nothing
    BY <1>7, Operations DEF ServerAnswers
  <2>2. QED
    BY <1>7, <2>1, EndedTypes DEF ServerAnswers, ClientTypes
<1>8. QED
  BY <1>1, <1>2, <1>3, <1>4, <1>5, <1>6, <1>7 DEF McpWorld

LEMMA NextClientTypes ==
    ASSUME ClientTypes, Shape, CallsHaveNames, [Next]_vars
    PROVE  ClientTypes'
<1>1. ASSUME UNCHANGED <<loop, process, lost, waiting, coro>>, watch' \in {watch, "none"},
             at' = "serve" => at = "serve" \/ waiting = Nothing
      PROVE  ClientTypes'
  BY <1>1 DEF ClientTypes
<1>2. CASE StartUp
  <2>1. CASE StartLoop /\ UNCHANGED <<watch, at>>
    BY <2>1 DEF StartLoop, ClientTypes
  <2>2. CASE at = "connect" /\ Free /\ next \in Server /\ SubmitOpen(next) /\ UNCHANGED <<watch, at>>
    BY <2>2, Operations DEF SubmitOpen, Submit, ClientTypes, Free
  <2>3. CASE StartRemote
    BY <2>3 DEF StartRemote, StartThread, ClientTypes, mcpVars, serverVars
  <2>4. CASE Prepare \/ Build
    BY <1>1, <2>4 DEF Prepare, Build, Free, mcpVars, serverVars
  <2>5. QED
    BY <1>2, <2>1, <2>2, <2>3, <2>4 DEF StartUp, ConnectNext, serverVars
<1>3. CASE Commands \/ StartTurn \/ BadArguments \/ EndTurn \/ Exit \/ Edit
  BY <1>1, <1>3
  DEF Commands, CmdNew, CmdMap, CmdMemory, CmdResume, CmdModel, Command, StartTurn, BadArguments,
      EndTurn, Exit, Edit, mcpVars, serverVars, consoleVars
<1>4. CASE CallTool
  <2>1. PICK name \in DOMAIN registry : SubmitCall(name)
    BY <1>4 DEF CallTool
  <2>2. PICK i, tool, id, where : Submit(Calling(i, tool, id, where))
    BY <2>1 DEF SubmitCall
  <2>3. at = "turn" /\ UNCHANGED <<loop, process, lost, watch, at>> /\ Free
    BY <1>4, <2>1 DEF CallTool, SubmitCall, serverVars
  <2>4. QED
    BY <2>2, <2>3, CallOperation DEF Submit, ClientTypes, Free
<1>5. CASE InterruptCall \/ WaitTimesOut
  BY <1>5, GiveUpTypes DEF InterruptCall, WaitTimesOut, serverVars
<1>6. CASE CallBreaks
  <2>1. PICK c \in coro : CallFails(c) /\ at' = IF waiting = c THEN "closing" ELSE at
    BY <1>6 DEF CallBreaks
  <2>2. c # Nothing /\ UNCHANGED <<loop, process, lost, watch>>
    BY <1>6, <2>1, Operations DEF CallFails, CallBreaks, serverVars
  <2>3. QED
    BY <2>1, <2>2, Operations DEF CallFails, Ended, Resume, ClientTypes
<1>7. CASE CloseServer
  BY <1>7 DEF CloseServer, AskExit, Free, ClientTypes, mcpVars
<1>8. CASE CloseSession
  <2>1. PICK key \in DOMAIN sessions : SubmitClose(key)
    BY <1>8 DEF CloseSession
  <2>2. sessions[key] \in Server
    BY DEF CallsHaveNames, SessionsNamed
  <2>3. at = "closing" /\ Free /\ UNCHANGED <<loop, process, lost, watch, at>>
    BY <1>8, <2>1 DEF CloseSession, SubmitClose, serverVars
  <2>4. QED
    BY <2>1, <2>2, <2>3, Operations DEF SubmitClose, Submit, ClientTypes, Free
<1>9. CASE Finish
  BY <1>9 DEF Finish, StopLoop, ClientTypes, mcpVars, serverVars
<1>10. CASE BreakOff
  BY <1>10, Operations DEF BreakOff, ClientTypes
<1>11. CASE World
  BY <1>1, <1>11, WorldTypes
  DEF World, ServerWorld, Listens, CannotListen, Exits, mcpVars, serverVars, consoleVars
<1>12. CASE WatchServer
  BY <1>1, <1>12
  DEF WatchServer, Watches, SeenListening, SeenEnded, StartGivenUp, Joined, JoinGivenUp, mcpVars,
      consoleVars
<1>13. CASE UNCHANGED vars
  BY <1>1, <1>13 DEF vars, mcpVars, serverVars, consoleVars
<1>14. QED
  BY <1>2, <1>3, <1>4, <1>5, <1>6, <1>7, <1>8, <1>9, <1>10, <1>11, <1>12, <1>13
  DEF Next, Turns, Close

LEMMA NextThreadTypes ==
    ASSUME ThreadTypes, AgentKnown, [Next]_vars
    PROVE  ThreadTypes'
<1>1. ASSUME UNCHANGED <<created, undo>>,
             at' \in {at, "connect", "serve", "ready", "turn", "closing", "over", "failed"}
      PROVE  ThreadTypes'
  BY <1>1 DEF ThreadTypes
<1>2. CASE Build
  BY <1>1, <1>2 DEF Build, Bound, ThreadTypes
<1>3. CASE Commands
  <2>1. at = "ready" /\ UNCHANGED at
    BY <1>3 DEF Commands, CmdNew, CmdMap, CmdMemory, CmdResume, CmdModel, Command, Enter
  <2>2. PICK active, session, memory, map, prompt, manager :
            state = Fields(active, session, memory, map, prompt, manager)
    BY <2>1 DEF AgentKnown
  <2>3. \A id : [state EXCEPT !.session = id].session = id
    BY <2>2 DEF Fields
  <2>4. CASE CmdNew
    BY <2>1, <2>3, <2>4 DEF CmdNew, Rebind, ThreadTypes
  <2>5. ASSUME NEW id \in 1..MaxSessions, CmdResume(id) PROVE ThreadTypes'
    BY <1>1, <2>1, <2>3, <2>5 DEF CmdResume, Rebind, ThreadTypes, Bound
  <2>6. ASSUME NEW name, CmdModel(name) PROVE ThreadTypes'
    BY <1>1, <2>1, <2>6 DEF CmdModel, Bound
  <2>7. CASE CmdMap \/ CmdMemory
    BY <1>1, <2>1, <2>7 DEF CmdMap, CmdMemory, RebuildPromptDependents
  <2>8. QED
    BY <1>3, <2>4, <2>5, <2>6, <2>7 DEF Commands
<1>4. CASE ~Build /\ ~Commands
  <2>1. UNCHANGED <<created, undo>>
    BY <1>4
    DEF Next, StartUp, Prepare, ConnectNext, StartRemote, Turns, StartTurn, CallTool, BadArguments,
        EndTurn, InterruptCall, CallBreaks, Exit, BreakOff, WaitTimesOut, WatchServer, Close,
        CloseServer, CloseSession, Finish, World, Edit, Bound, vars, consoleVars
  <2>2. at' \in {at, "connect", "serve", "ready", "turn", "closing", "over", "failed"}
    BY <1>4
    DEF Next, StartUp, Prepare, ConnectNext, StartRemote, Turns, StartTurn, CallTool, BadArguments,
        EndTurn, InterruptCall, CallBreaks, Exit, BreakOff, WaitTimesOut, WatchServer, Close,
        CloseServer, CloseSession, Finish, World, Edit, Bound, vars, consoleVars
  <2>3. QED
    BY <1>1, <2>1, <2>2
<1>5. QED
  BY <1>2, <1>3, <1>4

-----------------------------------------------------------------------------
(* The theorems. *)

LEMMA InitInv == Init => Inv
<1> SUFFICES ASSUME Init PROVE Inv
  OBVIOUS
<1> USE DEF Init, McpInit, ServerInit
<1>1. Shape
  BY DEF Shape
<1>2. WaitingKnown
  BY DEF WaitingKnown, Stands, Free, Nothing
<1>3. AgentKnown /\ ThreadHeld
  BY DEF AgentKnown, ThreadHeld
<1>4. ProcessesHeld /\ OpensKnown
  BY DEF ProcessesHeld, OpensKnown
<1>5. QED
  BY <1>1, <1>2, <1>3, <1>4 DEF Inv

\* The invariants of the session, its agent and what it holds open are kept by
\* every step.
THEOREM Invariance == Spec => []Inv
<1>1. Inv /\ [Next]_vars => Inv'
  BY NextShape, NextWaiting, NextAgent, NextHeld, NextThread DEF Inv
<1>2. QED
  BY InitInv, <1>1, PTL DEF Spec

\* Whatever commands come in what order, the next turn runs with the active
\* model, the open session and its snapshots, a prompt of the tools, memory and
\* map as last loaded, and a context manager sized for it (Repl's _cmd_*,
\* _rebind_session and _rebuild_prompt_dependents).
THEOREM TurnsUseTheFields == Spec => []AgentIsCurrent
<1>1. Inv => AgentIsCurrent
  BY DEF Inv, AgentKnown, AgentIsCurrent, AgentOf
<1>2. QED
  BY <1>1, Invariance, PTL

\* When the session has closed, only what an open, a close or a start that
\* failed or was given up has left, or a session whose name was used again,
\* still runs (Repl._close, MCPClient.close, RemoteServer.stop).
THEOREM LeftoversHaveReasons == Spec => []LeftoversExplained
<1>1. Inv => LeftoversExplained
  <2> SUFFICES ASSUME Inv, at = "over" PROVE LeftoversExplained
    BY DEF LeftoversExplained
  <2>1. waiting = Nothing /\ watch = "none" /\ ~held /\ DOMAIN sessions = {}
    BY DEF Inv, WaitingKnown, Stands, Free, NoEntries
  <2>2. QED
    BY <2>1, Operations DEF Inv, ProcessesHeld, ThreadHeld, LeftoversExplained
<1>2. QED
  BY <1>1, Invariance, PTL

\* From the session a call is taken to, to what the server does: every step
\* is under the name that was approved.
THEOREM NamesAreKept == Spec => []CallsHaveNames
  BY InitNames, NextNames, PTL DEF Spec

\* MCP servers only do what the user approved for them by name, for any
\* servers, names and tools, with time-outs, Ctrl-C and servers that die.
THEOREM NothingUnapprovedRuns == Spec => []OnlyApprovedRuns
<1>1. CallsHaveNames => OnlyApprovedRuns
  BY DEF CallsHaveNames, EffectsApproved, ApprovedIsSeq, OnlyApprovedRuns, Entry
<1>2. QED
  BY <1>1, NamesAreKept, PTL

\* The client, the embedded server and the session thread keep to their types: the
\* thread waits for one thing at most, for a coroutine that is in the loop, and
\* the snapshots are those of a session that was created.
THEOREM TypeCorrect == Spec => []TypeOK
<1>1. Init => Types
  BY InitTypes
<1>2. Types /\ Inv /\ CallsHaveNames /\ [Next]_vars => Types'
  BY NextServerTypes, NextClientTypes, NextThreadTypes DEF Types, Inv
<1>3. Types => TypeOK
  BY DEF Types, ClientTypes, ThreadTypes, TypeOK
<1>4. QED
  BY <1>1, <1>2, <1>3, Invariance, NamesAreKept, PTL DEF Spec

-----------------------------------------------------------------------------
(* Shell commands.  The invariant says which processes a command can have:    *)
(* those of its backend, none before it was run, and no client once its       *)
(* container is being removed; so nothing is left that could start another    *)
(* process of a command that was stopped.                                     *)

USE CommandAssumption

HostPart == InGroup \cup {"detached"}
SandboxPart == {"client", "container"}

\* Processes are of commands that were run, and of the kind of the backend.
PartsKnown ==
    \A n \in CommandNumbers, part \in Part : <<n, part>> \in alive =>
        /\ n <= count
        /\ runner = "host" => part \in HostPart
        /\ runner \in Engine => part \in SandboxPart

\* The command in hand has no result yet, nor have those to come.
Pending ==
    /\ runner = "none" => count = 0
    /\ stage # "idle" => count >= 1 /\ results[count] = "none" /\ runner # "none"
    /\ \A n \in CommandNumbers : n > count => results[n] = "none"

\* A container is removed when its client is dead.
Removing == stage \in {"kill", "rm"} => runner \in Engine /\ <<count, "client">> \notin alive

CommandInv == CommandTypeOK /\ PartsKnown /\ Pending /\ Removing /\ StoppedIsStopped

-----------------------------------------------------------------------------

LEMMA CommandInitInv == CommandInit => CommandInv
  BY DEF CommandInit, CommandInv, CommandTypeOK, PartsKnown, Pending, Removing, StoppedIsStopped,
         Engine, CommandNumbers, Part, InGroup, Own, Result

\* A command that comes to a result leaves at most what there was of it; the
\* invariant lasts if, stopped, it left nothing that it should not have.
LEMMA ConcludesInv ==
    ASSUME CommandInv, NEW result \in Result, stage # "idle", Concludes(result),
           alive' \subseteq alive,
           unkilled \subseteq unkilled', unkilled' \subseteq CommandNumbers,
           unremoved \subseteq unremoved', unremoved' \subseteq CommandNumbers,
           UNCHANGED <<runner, installed, count>>,
           result = "timeout" =>
             /\ \A part \in {"shell", "client"} : <<count, part>> \notin alive'
             /\ \A part \in InGroup : <<count, part>> \in alive' => count \in unkilled'
             /\ <<count, "container">> \in alive' => count \in unremoved'
    PROVE  CommandInv'
<1> USE DEF CommandInv, Concludes
<1>1. count \in CommandNumbers /\ runner # "none"
  BY DEF CommandTypeOK, Pending, CommandNumbers
<1>2. \A n \in CommandNumbers : results'[n] = IF n = count THEN result ELSE results[n]
  BY <1>1 DEF CommandTypeOK
<1>3. CommandTypeOK'
  BY <1>1 DEF CommandTypeOK
<1>4. PartsKnown'
  BY DEF PartsKnown
<1>5. Pending' /\ Removing'
  BY <1>1, <1>2 DEF Pending, Removing, CommandTypeOK
<1>6. StoppedIsStopped'
  BY <1>2 DEF StoppedIsStopped
<1>7. QED
  BY <1>3, <1>4, <1>5, <1>6

\* What is known of the processes there are does not get less when the count of
\* commands grows.
LEMMA PartsKept ==
    ASSUME CommandInv, count' \in {count, count + 1}, runner' = runner,
           NEW m \in CommandNumbers, NEW p \in Part, <<m, p>> \in alive
    PROVE  /\ m <= count'
           /\ runner' = "host" => p \in HostPart
           /\ runner' \in Engine => p \in SandboxPart
<1>1. /\ m <= count
      /\ runner = "host" => p \in HostPart
      /\ runner \in Engine => p \in SandboxPart
  BY DEF CommandInv, PartsKnown
<1>2. count \in Nat /\ m \in Nat
  BY DEF CommandInv, CommandTypeOK, CommandNumbers
<1> QED
  BY <1>1, <1>2

LEMMA CommandNextInv == CommandInv /\ [CommandNext]_commandVars => CommandInv'
<1> SUFFICES ASSUME CommandInv, [CommandNext]_commandVars PROVE CommandInv'
  OBVIOUS
<1> USE DEF CommandInv, CommandTypeOK, PartsKnown, Pending, Removing, StoppedIsStopped, HostPart, SandboxPart,
            Engine, CommandNumbers, Part, InGroup, Own, Result
<1>1. CASE ChooseRunner
  <2>1. /\ runner = "none" /\ runner' \in Engine \cup {"host"}
        /\ UNCHANGED <<installed, count, stage, results, alive, unkilled, unremoved>>
    BY <1>1 DEF ChooseRunner, Choice
  <2>2. \A n \in CommandNumbers, part \in Part : <<n, part>> \notin alive
    <3>1. count = 0
      BY <2>1
    <3>2. SUFFICES ASSUME NEW n \in CommandNumbers, NEW part \in Part, <<n, part>> \in alive PROVE FALSE
      OBVIOUS
    <3>3. n <= count
      BY <3>2
    <3>4. QED
      BY <3>1, <3>3
  <2>3. CommandTypeOK'
    BY <2>1
  <2>4. PartsKnown' /\ StoppedIsStopped'
    BY <2>1, <2>2
  <2>5. Pending' /\ Removing'
    BY <2>1
  <2>6. QED
    BY <2>3, <2>4, <2>5
<1>2. ASSUME NEW engine \in Engine, RemoveEngine(engine) PROVE CommandInv'
  BY <1>2 DEF RemoveEngine
<1>3. ASSUME NEW part \in {"shell", "client"}, Start(part),
             runner = "host" => part = "shell", runner \in Engine => part = "client"
      PROVE  CommandInv'
  <2>1. /\ count' = count + 1 /\ count' \in CommandNumbers
        /\ runner # "none" /\ stage = "idle" /\ stage' = "running"
        /\ UNCHANGED <<runner, installed, results, unkilled, unremoved>>
    BY <1>3 DEF Start
  <2>2. \A m \in CommandNumbers, p \in Part :
          <<m, p>> \in alive' => <<m, p>> \in alive \/ (m = count' /\ p = part)
    BY <1>3 DEF Start
  <2>3. CommandTypeOK'
    BY <1>3, <2>1 DEF Start
  <2>4. PartsKnown'
    <3>1. ASSUME NEW m \in CommandNumbers, NEW p \in Part, <<m, p>> \in alive'
          PROVE  /\ m <= count'
                 /\ runner' = "host" => p \in HostPart
                 /\ runner' \in Engine => p \in SandboxPart
      <4>1. CASE <<m, p>> \in alive
        BY <2>1, <4>1, PartsKept
      <4>2. CASE m = count' /\ p = part
        BY <1>3, <2>1, <4>2
      <4>3. QED
        BY <2>2, <3>1, <4>1, <4>2
    <3>2. QED
      BY <3>1
  <2>5. Pending' /\ Removing'
    BY <2>1
  <2>6. StoppedIsStopped'
    <3>1. ASSUME NEW n \in CommandNumbers, results'[n] = "timeout"
          PROVE  /\ results[n] = "timeout" /\ n # count'
                 /\ \A p \in Part : <<n, p>> \in alive' => <<n, p>> \in alive
      <4>1. results[n] = "timeout" /\ n # count'
        BY <2>1, <3>1
      <4>2. QED
        BY <2>2, <4>1
    <3>2. QED
      BY <2>1, <3>1
  <2>7. QED
    BY <2>3, <2>4, <2>5, <2>6
<1>4. CASE StartOnHost \/ StartInContainer
  BY <1>3, <1>4 DEF StartOnHost, StartInContainer
<1>5. CASE EngineNotFound
  <2>1. /\ runner \in Engine /\ stage = "idle"
        /\ count' = count + 1 /\ count' \in CommandNumbers
        /\ results' = [results EXCEPT ![count'] = "error"]
        /\ UNCHANGED <<runner, installed, stage, alive, unkilled, unremoved>>
    BY <1>5 DEF EngineNotFound
  <2>2. CommandTypeOK'
    BY <2>1
  <2>3. PartsKnown'
    BY <2>1, PartsKept
  <2>4. Pending' /\ Removing'
    BY <2>1
  <2>5. StoppedIsStopped'
    BY <2>1
  <2>6. QED
    BY <2>2, <2>3, <2>4, <2>5
<1>6. ASSUME NEW n \in 1..count, NEW part \in Part, ProcessStarts(n, part) PROVE CommandInv'
  <2> USE <1>6 DEF ProcessStarts
  <2>1. n \in CommandNumbers /\ n <= count
    OBVIOUS
  <2>2. \A m \in CommandNumbers, p \in Part :
          <<m, p>> \in alive' => <<m, p>> \in alive \/ (m = n /\ p = part)
    OBVIOUS
  <2>3. PartsKnown'
    <3>1. CASE part = "container" /\ <<n, "client">> \in alive
      <4>1. runner # "host"
        BY <2>1, <3>1
      <4>2. QED
        BY <2>1, <2>2, <3>1, <4>1
    <3>2. CASE part \in {"child", "foreign", "detached"} /\ \E p \in InGroup : <<n, p>> \in alive
      <4>1. runner \notin Engine
        BY <2>1, <3>2
      <4>2. QED
        BY <2>1, <2>2, <3>2, <4>1
    <3>3. QED
      BY <3>1, <3>2
  <2>4. StoppedIsStopped'
    BY <2>1, <2>2
  <2>5. CommandTypeOK'
    <3>1. alive' \in SUBSET (CommandNumbers \X Part)
      <4>1. alive' = alive \cup {<<n, part>>} /\ alive \in SUBSET (CommandNumbers \X Part)
        OBVIOUS
      <4>2. <<n, part>> \in CommandNumbers \X Part
        BY <2>1
      <4>3. QED
        BY <4>1, <4>2
    <3>2. UNCHANGED <<runner, installed, count, stage, results, unkilled, unremoved>>
      OBVIOUS
    <3>3. QED
      BY <3>1, <3>2
  <2>6. Pending' /\ Removing'
    <3>1. <<count, "client">> \in alive' => <<count, "client">> \in alive
      OBVIOUS
    <3>2. QED
      BY <3>1
  <2>7. QED
    BY <2>3, <2>4, <2>5, <2>6
<1>7. ASSUME NEW n \in 1..count, NEW part \in Part, ProcessEnds(n, part) PROVE CommandInv'
  BY <1>7 DEF ProcessEnds
<1>8. CASE CommandReturns
  <2>1. PICK result \in {"exit", "oom"} : Concludes(result)
    BY <1>8 DEF CommandReturns
  <2>2. QED
    BY <1>8, <2>1, ConcludesInv DEF CommandReturns
<1>9. CASE HostTimesOut
  <2>1. count \in CommandNumbers
    BY <1>9 DEF HostTimesOut
  <2>2. /\ alive' \subseteq alive /\ <<count, "shell">> \notin alive'
        /\ unkilled \subseteq unkilled' /\ unkilled' \subseteq CommandNumbers
    BY <1>9, <2>1 DEF HostTimesOut, KillTree, Of
  <2>3. \A part \in InGroup : <<count, part>> \in alive' => count \in unkilled'
    BY <1>9, <2>1 DEF HostTimesOut, KillTree, Of, Runs
  <2>4. \A part \in SandboxPart : <<count, part>> \notin alive
    BY <1>9, <2>1 DEF HostTimesOut
  <2>5. QED
    BY <1>9, <2>2, <2>3, <2>4, ConcludesInv DEF HostTimesOut
<1>10. CASE ContainerTimesOut
  BY <1>10 DEF ContainerTimesOut, Of
<1>11. CASE Kill
  BY <1>11 DEF Kill, ContainerEnds, Of
<1>12. CASE Remove
  <2>1. count \in CommandNumbers
    BY <1>12 DEF Remove
  <2>2. /\ alive' \subseteq alive
        /\ unremoved \subseteq unremoved' /\ unremoved' \subseteq CommandNumbers
        /\ <<count, "container">> \in alive' => count \in unremoved'
    BY <1>12, <2>1 DEF Remove, ContainerEnds, Of
  <2>3. \A part \in InGroup \cup {"client"} : <<count, part>> \notin alive
    BY <1>12, <2>1 DEF Remove
  <2>4. QED
    BY <1>12, <2>2, <2>3, ConcludesInv DEF Remove
<1>13. CASE Interrupt
  BY <1>13, ConcludesInv DEF Interrupt
<1>14. CASE KillRaises
  BY <1>14, ConcludesInv DEF KillRaises
<1>15. CASE UNCHANGED commandVars
  BY <1>15 DEF commandVars
<1>16. QED
  BY <1>1, <1>2, <1>3, <1>4, <1>5, <1>6, <1>7, <1>8, <1>9, <1>10, <1>11, <1>12, <1>13, <1>14,
     <1>15
     DEF CommandNext

\* The processes of commands, their results and the state of the runner stay
\* what run and the operating system can make of them.
THEOREM CommandInvariance == CommandSpec => []CommandInv
  BY CommandInitInv, CommandNextInv, PTL DEF CommandSpec

\* Every variable of the runner stays in its range (run, _kill_tree and
\* _force_remove), for every backend and any number of commands.
THEOREM CommandTypesCorrect == CommandSpec => []CommandTypeOK
<1>1. CommandInv => CommandTypeOK
  BY DEF CommandInv
<1>2. QED
  BY <1>1, CommandInvariance, PTL

\* What the model is told was stopped after a time-out is stopped, but for the
\* process group where killpg raised or passed over a process (_kill_tree), and
\* a container that neither attempt removed (_force_remove).
THEOREM TimedOutIsStopped == CommandSpec => []StoppedIsStopped
<1>1. CommandInv => StoppedIsStopped
  BY DEF CommandInv
<1>2. QED
  BY <1>1, CommandInvariance, PTL

=============================================================================
