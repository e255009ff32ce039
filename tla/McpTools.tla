------------------------------ MODULE McpTools ------------------------------
(***************************************************************************)
(* The MCP client and the tools made of it.  The session thread submits    *)
(* coroutines to the event loop of a background thread and blocks on the   *)
(* future, with a time-out; a coroutine that was given up on goes on.  The *)
(* servers are processes of their own.                                     *)
(*                                                                         *)
(* What the session thread does between the calls is the console's part.   *)
(***************************************************************************)
EXTENDS Naturals, Sequences, FiniteSets

CONSTANTS Servers,  \* the enabled servers in the order of the configuration:
                    \* [name, tools], the tools a sequence of names
          Words,    \* a name as _sanitize leaves it: its alphanumeric words
          MaxCalls  \* bound on the calls of a behaviour

Server == DOMAIN Servers

ASSUME McpAssumption ==
    /\ MaxCalls \in Nat
    /\ \A i \in Server : /\ Servers[i].name \in DOMAIN Words
                         /\ \A k \in DOMAIN Servers[i].tools : Servers[i].tools[k] \in DOMAIN Words

VARIABLES
    loop,      \* the background loop: "none", "running" or "stopped"
    coro,      \* coroutines in it that have not ended
    waiting,   \* the coroutine the session thread blocks on, or Nothing
    process,   \* the server processes: "none", "starting", "up", "gone"
    sessions,  \* MCPClient._sessions: from a server's name to the process
    registry,  \* ToolRegistry._tools: from a registered name to the tool
    approved,  \* by call: what the user was shown and approved
    ran,       \* what servers were made to do
    lost       \* history: the servers the client has lost hold of, by an open
               \* or a close that failed or was given up or a name used again

mcpVars == <<loop, coro, waiting, process, sessions, registry, approved, ran, lost>>

Nothing == [op |-> "none"]
Opening(i) == [op |-> "open", server |-> i]
Closing(i) == [op |-> "close", server |-> i]
Calling(i, tool, id, at) == [op |-> "call", server |-> i, tool |-> tool, id |-> id, at |-> at]
NoEntries == [n \in {} |-> 0]
With(f, x, y) == [z \in DOMAIN f \cup {x} |-> IF z = x THEN y ELSE f[z]]

McpInit ==
    /\ loop = "none" /\ coro = {} /\ waiting = Nothing
    /\ process = [i \in Server |-> "none"]
    /\ sessions = NoEntries /\ registry = NoEntries /\ approved = <<>> /\ ran = {}
    /\ lost = {}

-----------------------------------------------------------------------------
(* Names and the registry *)

\* MCPTool.name
RegisteredName(server, tool) == <<"mcp">> \o Words[server] \o Words[tool]

Tool(i, k) == [server |-> Servers[i].name, tool |-> Servers[i].tools[k]]

\* register_mcp_tools with ToolRegistry.register: a name that is taken keeps
\* its tool, and the newcomer is skipped.
Register(tools, i) ==
    LET names == {RegisteredName(Servers[i].name, Servers[i].tools[k]) : k \in DOMAIN Servers[i].tools}
        first(n) == CHOOSE k \in DOMAIN Servers[i].tools :
            /\ RegisteredName(Servers[i].name, Servers[i].tools[k]) = n
            /\ \A j \in 1..(k - 1) : RegisteredName(Servers[i].name, Servers[i].tools[j]) # n
    IN [n \in DOMAIN tools \cup names |-> IF n \in DOMAIN tools THEN tools[n] ELSE Tool(i, first(n))]

\* Bug: sessions are kept under the sanitised name.
KeyByWords(name) == Words[name]

\* The key of MCPClient._sessions.
SessionKey(name) == name

-----------------------------------------------------------------------------
(* MCPClient.connect *)

\* The session thread hands a coroutine to the loop and blocks: run.
Submit(c) ==
    /\ waiting = Nothing
    /\ coro' = coro \cup {c}
    /\ waiting' = c

Resume == waiting' = Nothing

\* Bug: the thread that waits for the coroutine is not told.
EndedUnseen(c) == coro' = coro \ {c} /\ UNCHANGED waiting

\* A coroutine has ended; only a thread that still waits for it learns of it.
Ended(c) ==
    /\ coro' = coro \ {c}
    /\ IF waiting = c THEN Resume ELSE UNCHANGED waiting

StartLoop ==
    /\ loop = "none"
    /\ loop' = "running"
    /\ UNCHANGED <<coro, waiting, process, sessions, registry, approved, ran, lost>>

SubmitOpen(i) ==
    /\ Submit(Opening(i))
    /\ process' = [process EXCEPT ![i] = "starting"]
    /\ UNCHANGED <<loop, sessions, registry, approved, ran, lost>>

\* Bug: tools are registered when the open ends, awaited or not.
KeepAlways(i) ==
    /\ sessions' = With(sessions, SessionKey(Servers[i].name), i)
    /\ registry' = Register(registry, i)
    /\ UNCHANGED lost

\* connect and register_mcp_tools after it: only a caller that still waits
\* stores the session and registers the tools.  A name used again takes the
\* place of the session that had it.
KeepSession(i) ==
    LET key == SessionKey(Servers[i].name)
    IN IF waiting = Opening(i)
       THEN /\ sessions' = With(sessions, key, i)
            /\ registry' = Register(registry, i)
            /\ lost' = lost \cup {j \in Server : key \in DOMAIN sessions /\ j = sessions[key]}
       ELSE UNCHANGED <<sessions, registry, lost>>

OpenSucceeds(i) ==
    /\ loop = "running" /\ Opening(i) \in coro
    /\ process' = [process EXCEPT ![i] = "up"]
    /\ KeepSession(i)
    /\ Ended(Opening(i))
    /\ UNCHANGED <<loop, approved, ran>>

\* The process could not be started, or fails while it is asked for its tools:
\* nothing closes the exit stack then, and the process may be left.
OpenFails(i) ==
    /\ loop = "running" /\ Opening(i) \in coro
    /\ \E state \in {"up", "gone"} : process' = [process EXCEPT ![i] = state]
    /\ lost' = lost \cup {i}
    /\ Ended(Opening(i))
    /\ UNCHANGED <<loop, sessions, registry, approved, ran>>

\* Bug: a close is waited for without a time-out.
GiveUpCalls ==
    /\ waiting # Nothing /\ waiting.op # "close"
    /\ Resume
    /\ lost' = IF waiting.op = "call" THEN lost ELSE lost \cup {waiting.server}
    /\ UNCHANGED <<loop, coro, process, sessions, registry, approved, ran>>

\* future.result(timeout) gives up, and so does Ctrl-C; the coroutine goes on.
GiveUp ==
    /\ waiting # Nothing
    /\ Resume
    /\ lost' = IF waiting.op = "call" THEN lost ELSE lost \cup {waiting.server}
    /\ UNCHANGED <<loop, coro, process, sessions, registry, approved, ran>>

-----------------------------------------------------------------------------
(* MCPTool and MCPClient.call_tool *)

\* An approved call: the preview named the server and the tool of the entry.
SubmitCall(n) ==
    LET entry == registry[n]
        id == Len(approved) + 1
    IN /\ id <= MaxCalls
       /\ SessionKey(entry.server) \in DOMAIN sessions
       /\ approved' = Append(approved, entry)
       /\ Submit(Calling(sessions[SessionKey(entry.server)], entry.tool, id, "queued"))
       /\ UNCHANGED <<loop, process, sessions, registry, ran, lost>>

\* The request goes out to the server ...
SendRequest(c) ==
    /\ loop = "running" /\ c \in coro /\ c.op = "call" /\ c.at = "queued"
    /\ process[c.server] = "up"
    /\ LET sent == [c EXCEPT !.at = "sent"]
       IN /\ coro' = (coro \ {c}) \cup {sent}
          /\ waiting' = IF waiting = c THEN sent ELSE waiting
    /\ UNCHANGED <<loop, process, sessions, registry, approved, ran, lost>>

\* ... which acts on it at any time, whether or not anybody still waits ...
ServerActs(c) ==
    /\ c \in coro /\ c.op = "call" /\ c.at = "sent"
    /\ process[c.server] = "up"
    /\ ran' = ran \cup {[id |-> c.id, server |-> c.server, tool |-> c.tool]}
    /\ UNCHANGED <<loop, coro, waiting, process, sessions, registry, approved, lost>>

\* ... and answers, with a result or a tool error.
ServerAnswers(c) ==
    /\ loop = "running" /\ c \in coro /\ c.op = "call" /\ c.at = "sent"
    /\ \E e \in ran : e.id = c.id
    /\ Ended(c)
    /\ UNCHANGED <<loop, process, sessions, registry, approved, ran, lost>>

\* The connection is closed under the call: an McpError.
CallFails(c) ==
    /\ loop = "running" /\ c \in coro /\ c.op = "call"
    /\ process[c.server] = "gone"
    /\ Ended(c)
    /\ UNCHANGED <<loop, process, sessions, registry, approved, ran, lost>>

\* A server ends while it has a call; at other times nobody would notice.
ServerDies(i) ==
    /\ process[i] = "up"
    /\ \E c \in coro : c.op = "call" /\ c.server = i
    /\ process' = [process EXCEPT ![i] = "gone"]
    /\ UNCHANGED <<loop, coro, waiting, sessions, registry, approved, ran, lost>>

-----------------------------------------------------------------------------
(* MCPClient.close *)

\* The next session is taken and its close awaited.
SubmitClose(key) ==
    /\ Submit(Closing(sessions[key]))
    /\ sessions' = [other \in DOMAIN sessions \ {key} |-> sessions[other]]
    /\ UNCHANGED <<loop, process, registry, approved, ran, lost>>

CloseSucceeds(i) ==
    /\ loop = "running" /\ Closing(i) \in coro
    /\ process' = [process EXCEPT ![i] = "gone"]
    /\ Ended(Closing(i))
    /\ UNCHANGED <<loop, sessions, registry, approved, ran, lost>>

\* An exception of the exit stack, which close swallows.
CloseFails(i) ==
    /\ loop = "running" /\ Closing(i) \in coro
    /\ lost' = lost \cup {i}
    /\ Ended(Closing(i))
    /\ UNCHANGED <<loop, process, sessions, registry, approved, ran>>

\* The sessions are forgotten and the loop stopped, with what is still in it.
StopLoop ==
    /\ loop = "running" /\ waiting = Nothing
    /\ loop' = "stopped"
    /\ sessions' = NoEntries
    /\ UNCHANGED <<coro, waiting, process, registry, approved, ran, lost>>

=============================================================================
