# termcoder in TLA+

termcoder is a coding agent for the terminal. One *session thread* runs the
read-eval loop, the model calls and the tools; a *server thread* lets phones on
the same network watch the session, send it messages and answer its approval
prompts; short-lived helper threads dismiss prompts. Conversations, snapshots of
changed files, a repository map and a semantic index live on disk. MCP servers are
processes of their own behind a background event loop, and shell commands run on
the host or in a container.

This directory holds specifications of the parts where the order of events or the
boundaries of an algorithm matter, the TLC configurations that check them on small
instances, and proofs, checked by TLAPS, about all of them. Paths below are relative
to `src/src/termcoder/`.

    tlc -workers 2 -config MCApproval.cfg MCApproval      # any MC*.cfg likewise
    tlapm ApprovalProofs.tla                              # any *Proofs.tla likewise

`PROJECT.json` maps every definition to the lines it models and lists the runs,
the hazards, the findings and a plausible bug (operators commented `Bug:`) that
each property catches.

## 1. Inventory

| component | state | operations | talks to | hard because | correct when |
|---|---|---|---|---|---|
| Approval race (`ui/approver.py`, `ui/interruptible.py`, `remote/bus.py`) | the pending request, its outcome and event; cancel tokens; session grants; the shared `PromptSession` | open, watch, ask, resolve (terminal or phone), wait, report | tools, server thread, helper threads | five kinds of thread, one prompt object shared by successive prompts, Ctrl-C anywhere | the first answer wins and everybody is told that one; nothing runs unapproved; a phone's answer unblocks the terminal |
| Input loop (`ui/repl.py`, `remote/bus.py`) | the queue of remote messages, the listeners, the open prompt | poll, register, prompt, submit, dismiss, run a turn | server thread, turns | check-then-register, listeners called from a copy outside the lock | messages are handled once, in order, and soon |
| Remote feed (`remote/bus.py`, `remote/server.py`, `remote/webpage.py`) | history, subscriber queues, connections; each page's view | publish, subscribe, snapshot, pump, drop, toggle reasoning | session thread, phones | two publishers, two senders per socket, reconnects, a bounded history | no event is missed; a page at rest shows the session |
| Agent loop and session (`agent/loop.py`, `sessions/`, `context/compaction.py`) | the message list, `summary_through`, transcript and metadata files | turn, model call, retry, tool call, append, compact, resume | model, tools, disk | cut off anywhere; three-step append; boundaries of compaction | every call has its result; results follow their calls; the transcript is complete; turns end |
| Snapshots and file tools (`snapshots/store.py`, `tools/`) | the workspace, group files, the current group, a previewed change | preview, approve, capture, write, undo | approval, other programs, disk | crash between steps, others' edits, index reuse | `/undo` gives back exactly the newest turn |
| Model call and reasoning filter (`providers/llm_client.py`, `llm/thinking.py`) | the filter's buffer and channel; what was shown | fragment, flush, assemble, retry | provider, renderer | tags cut anywhere; two independent implementations of one split | what is shown is what is stored |
| MCP client and tools (`mcp/`) | background loop, sessions, registered names | connect, call, close | server processes, registry | time-outs and Ctrl-C abandon work that goes on; names meet after sanitising | a server does only what was approved for it; what is left running has a reason; closing ends |
| Semantic index (`semantic/`) | the table of chunks | build (always of the whole workspace), search | disk, embedding model | the table is dropped before it is written; several processes share it | rows cover every file read, with the right vectors; a failed build keeps the old table |
| Repository map (`repomap/`) | tag cache on disk, ranked tags | parse or reuse, rank, fit to a budget | disk | files change between stat and read; the cache is rewritten in place by several processes; binary search | the map is fresh, and the longest that fits its budget |
| Repl commands (`ui/repl.py`) | the active model, session, memory, map, prompt, context manager, agent | start-up, `/new`, `/resume`, `/model`, `/map`, `/memory`, close | all of the above | each command rebuilds another part of what a turn uses | a turn uses what the fields say now |
| Sandbox (`sandbox/runner.py`, `tools/run_command.py`) | backend choice, child processes | choose, run, time out, kill, remove | OS, container engines | children, detached processes, clients and containers outlive each other | a command reported as stopped is stopped, as far as kill and removal work |
| Server life cycle (`remote/server.py`) | thread, loop binding | start, stop | session thread | both are given up after five seconds while the thread goes on | a server left behind was given up |
| Loaders, read-only tools, web search, configuration, rendering | none that changes | read, format | disk, network | nothing concurrent | - |

The last row has no module; section 6 says why.

## 2. Modules

### Arbitration, Approval, ApprovalProofs

`Approval` is `ConsoleApprover.request` on its arbitrated path (`approver.py:36-137`)
with `EventBus.open_approval`, `resolve_approval`, `wait_for_decision` and
`watch_approval` (`bus.py:193-276`), `CancelToken`, `prompt_interruptible` and
`_dismiss_prompt` (`interruptible.py`). The variable `pc` is the position of the
session thread; each bus method that holds the lock is one step, and every window
between two of them is a step boundary: between the test of a token and the
registration of its listener (`EnterPrompt`, `AddListener`), between that and the
prompt's start (`StartPrompt`), between a prompt's return and the finally clause
(`AskChoiceReturns`). A dismisser is a counter because all of them act alike: each
exits whatever prompt of the shared session it finds, or gives up when none runs
within its retries (50 of 0.02 s). `GiveUp` is disabled while a prompt is starting:
prompt_toolkit is taken to be up well within that second. KeyboardInterrupt is
taken at named points (`Interrupt`), the lines between two calls that matter; in a
prompt it is an answer. The mismatch branches of `wait_for_decision` and
`watch_approval` cannot be reached: only the session thread replaces `_pending`.

`Arbitration` is what the bus promises without threads or prompts: open, decide
once, report that decision. `FirstResponderWins` is the refinement.

Not modelled: the path without a bus (`_decide_local`), which has one actor; the
text of a rejection; `approve_for_session` offered by `run_command` although its
documentation asks each time (`tools/run_command.py:63`).

### InputLoop, InputLoopProofs

`Repl._loop`, `_next_input`, `EventBus.submit_input`, `poll_input` and
`add_input_listener`. A message is its number; `handled` is the history of what was
run. `submit_input` is three steps (queue, copy the listeners under the lock, call
them), so a copied listener may belong to a token the session thread has dropped
(`copied = "dropped"`). A turn is one step: what happens inside is in the other
modules. `wait_input` has no caller.

### RemoteFeed, RemoteFeedProofs

`EventBus.publish` in its two halves (record under the lock, deliver after it), the
websocket endpoint with its snapshot, pump and finally clause, and the page's
`handle`. The session thread runs a command (`HandleCommand`, and `SetThinking` for
/thinking) or a turn, which may ask for one approval; `MainStep` has the observable
steps. Ctrl-C may end the turn at any of them (`InterruptTurn`): a publish under way
is then not recorded or reaches some queues only (`missed`), and a request that was
open is never reported (`abandoned`), so that its card stays on the pages. The server thread is one thread: between two awaits nothing else runs on it
(`LoopFree`). A send may yield, when the socket pushes back; that is what lets the
pump and the snapshot alternate. All that the session thread prints or streams
through `BroadcastingRenderer` is one kind of event, `StatusLine`, as the page's
marks do not depend on it; but it fills the history and disturbs a snapshot
(`PrintLine`; `MaxEvents` bounds it, and the toggles). A switch of the reasoning display is two
events, the second from `_set_thinking`'s own status line (`AfterDelivery`).

`mixed` notes that an event was recorded while a snapshot was going out. `late`
notes that the turn's message had already left the history when `_run_turn` set the
busy flag; 200 other events would have to fall between the two. `leaked` counts
subscriber queues that `Close` leaves on the bus when the pump died of a send
error. A put still on its way when a connection closes goes to its old queue, so
`Close` takes the phone out of the delivery (`WithoutReader`): the phone's next
connection has a queue of its own.

### Conversation, ConversationProofs

`Agent.run_turn`, `_loop`, `_complete_with_retry`, `_handle_tool_call`,
`Session.append`, `_write_meta`, `set_summary`, `ContextManager._cut_index`,
`SessionStore.open`. A message is its role, with the number of calls or the call it
answers. A tool that changes something stops at its question (`AskUser`,
`MutatingTool.execute`) until a user or a phone answers (`UserDecides`), for which the
code has no time limit. Whether the context is over budget and whether the summary
call succeeds are free choices. Ctrl-C (`Interrupt`), an exception no handler expects
(`ToolRaises`) and a crash (`Crash`) may come at any step; a crash may leave a torn
transcript line (`TornLine`) or an emptied metadata file (`Torn`), which `Openable`
refuses as the JSON parser does. The number of calls in a response is one of
`CallCounts`, at most `MaxCalls`. Two history variables excuse what cannot hold:
`disturbed` (some turn was cut off) and `hole` (Ctrl-C fell between the in-memory
append and the line on disk). A transcript line cut exactly before its newline is
not modelled.

### Snapshots, SnapshotsProofs

`SnapshotStore` and the file tools' preview, approval, capture and write. A content
is what `read_text` tells apart: line ends (`AsRead`), too big to keep (`Big`), no
file (`Absent`). `replaced` is the history the properties compare with: per
undoable turn, what its first write to each file overwrote. Other programs change
files at any moment (`OtherChange`); a file changed after its capture is in
`meddled`, for its content between capture and write is nobody's to give back.
Ctrl-C and crashes catch a step half done (`HalfDone`). A POSIX host is assumed:
`write_text` writes "\n". Snapshots are kept per session, so `/undo` after
`/resume` reverts a turn of the resumed session; that is one session here.

### ModelStream, ModelStreamProofs

`LLMClient._complete_streaming` with `ThinkingFilter`, one step per iteration of
`_drain`, against `strip_thinking`, and the retry of malformed output around it.
The provider ends a fragment anywhere, sends reasoning fields in between, and may
break off. Characters are abstract; the tags are sequences of them. A reasoning
field is one element of the reasoning channel, `Field`; `TextOf` is what the channel
was shown without them. A message that refuses its stripped content would keep the
raw one; LiteLLM's messages do not, so `Assemble` leaves that out.

### SourceFiles, RepoMap, SemanticIndex, WorkspaceIndex, WorkspaceIndexProofs

`SourceFiles` is the workspace that both indexes read and the walk they share
(`repomap/builder.py`, `semantic/chunker.py`: `_discover`,
`discover_source_files`). A file has a text and a modification time; a write takes
the clock's reading, which need not have moved since the last one, so two writes
can leave the same time. `recurred` is the history of files that came back to a
time and size they had had.

`RepoMap` is `RepoMapBuilder.build` with `TagCache`: the walk and load
(`BeginMap`), per file the stat with the look-up (`StatFile`) and the parse
(`ReadFile`), the rewrite of the cache in its two halves (`TruncateCache`,
`WriteCache`), then ranking and fitting (`FinishMap`). A process may die in any of
them. `ExtractTags`, `PageRank`, `RankOf`, `Ordered` and `Fit` are the pure parts.
A text stands for its tags, since tags are a function of the text. Ranks are
integers in units of 1/`Scale`; the power iteration runs a fixed number of rounds
where the code also stops at a tolerance. `Precedes` is the sort key: rank, path (in
the order `Sorted`) and line, and the order of discovery where these agree, since the
sort is stable. `Fit` is the loop of `_fit` as a function of its range `low..high`.
`Rankings` holds the ranking of every set of texts, so that TLC computes each once.

`SemanticIndex` is `SemanticIndex.build`, its chunking and batches, and `search`.
A vector is named by the chunk it was made from. Dropping and creating the table
are two steps. `WorkspaceIndex` composes the two: any number of termcoder
processes, each of which does one thing at a time, and files changing under all.

Assumed: tree-sitter and the vector database are installed, memory and the map are
enabled, the budget is positive, and the embedding model gives one vector for each
text (the code does not count them). Left out: the distances of a search and the
wording of results.

### McpTools, RemoteServer, Console, ConsoleProofs

`McpTools` is `MCPClient`, `_BackgroundLoop`, `_ServerSession`, `MCPTool` and
`register_mcp_tools`. The session thread hands a coroutine to the loop and blocks
(`Submit`); the coroutine ends by itself (`Ended`) or the thread gives up first
(`GiveUp`: a time-out or Ctrl-C), after which the coroutine goes on unwatched. A
call goes out, is acted on and is answered in three steps. A registered name is
the sequence of words `_sanitize` leaves of server and tool, so different names can
meet; the first keeps the name. `lost` is the history of servers the client lost
hold of. Ids of `approved` number the calls.

`RemoteServer` is the life of the web server's thread: `start` waits for it up to
five seconds, `stop` joins it up to five; `givenUp` records waits that ran out.

`Console` composes both with `Repl`: start-up (`__init__`,
`_connect_mcp_servers`, `_start_remote`), the commands that rebind parts of the
session, turns as far as they call MCP tools, and `_close`. `state` holds Repl's
fields and `agent` what the agent was built from. The files of the workspace are
one number, `disk`, that edits raise, so that memory and map can be older than the
disk. Position "failed" is an end without `_close`: a configuration error or
Ctrl-C during start-up, or Ctrl-C in `_close` itself; nothing is claimed there.

### CommandRunner (proofs in ConsoleProofs)

`sandbox/runner.py` and `run_command` on a POSIX host: the choice of the backend,
`HostCommandRunner.run`, `ContainerCommandRunner.run`, `_kill_tree` and
`_force_remove` as separate steps. `alive` is the set of processes, by command and
part: the shell and the children of its process group, "foreign" members of the
group that run as another user, processes that left the group, the engine's client
and the container. Processes start others and end at any time;
what an earlier command left goes on beside the next. The engine can be
uninstalled at any time. Two histories record what the code cannot stop and does not
look at: `unkilled`, the commands whose group was not killed whole, because killpg
raised and only the shell was killed, or because it passed over a foreign member;
and `unremoved`, those whose container neither attempt removed. A shell that has
become another user's process makes `_kill_tree` raise (`KillRaises`). The Windows
branch, which terminates the child only, is left out.

## 3. Runs

| run | configuration | question | bounds, and why they are enough |
|---|---|---|---|
| `approval` | `MCApproval.cfg` | first answer wins, consent, grants, closed requests, refinement, a phone's answer unblocks | two requests, two tools: a helper of one request can meet the next prompt, a grant of one tool can be tried on the other. The proofs lift the bound for all but liveness |
| `input_loop` | `MCInputLoop.cfg` | nothing lost, doubled or reordered; a notified message is handled | three messages, so that one arrives while another's notification is on its way; two typed lines. Proved without bounds but for liveness |
| `remote_feed` | `MCRemoteFeed.cfg` | no gap between snapshot and live feed; an undisturbed join shows the session | one phone (phones do not interact) that connects twice, a turn with one approval or a command, Ctrl-C, a toggle; up to three events before a line is printed or the display toggled; a history of two, so that it forgets the turn's message and a pending request, which a printed line can push out too. `ShowsSession` demands the card of a request only while the history has it (`Remembered`), and the busy sign unless `late`, and allows the card of a request that Ctrl-C ended: without any of these, this run has a counterexample. All three are proved for any limit |
| `conversation` | `MCConversation.cfg` | results follow calls, recent turns survive compaction, transcript complete, undisturbed turns valid, turns end or wait at a question | three turns, so that compaction can happen twice; two rounds, batches of two, one retry, one kept turn. The proofs lift all of these, but not for liveness |
| `snapshots` | `MCSnapshots.cfg` | a turn's snapshots are its own; undo gives them back and touches nothing else | two files (symmetric), two turns, three changes, one change by others. Proved without bounds |
| `model_stream` | `MCModelStream.cfg` | shown text = stored text, released promptly, nothing lost | all texts of eight characters over the letters of the tags, cut in all ways; tags of two and three characters with the common first letter that makes the real ones ambiguous. Proved for all texts and all tags |
| `workspace_index` | `MCWorkspaceIndex.cfg` | the map is fresh and the longest that fits, ranks are shared out whole; the index covers what was read, old index kept until the new one is ready | two processes (symmetric), two source files and an ignored one, four texts (two that refer to each other, a blank one, one too large and not parseable), two edits within one or two clock readings, two jobs: enough for a build during another, a write between stat and read, a recurring stamp, a cache left by a dead process. Texts of up to seven lines in windows of three with overlap one; batches of two |
| `console` | `MCConsole.cfg` | turns use the current fields; only approved calls run; leftovers have a reason; closing ends | three servers, two of whose names differ in punctuation only and two of which share a name; one call, two lines, two sessions, one edit. The proofs lift the bounds for the four invariants |
| `commands` | `MCCommandRunner.cfg` | "timed out and was stopped" is true, but for what is recorded in `unkilled` and `unremoved` | two commands, so that one runs beside what the other left; `auto` reaches every backend. Proved without bounds |
| `dismissed_by_mistake` | `MCApprovalDismissed.cfg` | finding 1 | as `approval` |
| `lost_wakeup` | `MCInputLoopWakeup.cfg` | finding 2 | one message |
| `dangling_calls` | `MCConversationValid.cfg` | finding 3 | as `conversation` |

Deadlock is not checked: every one of these systems may rest (nobody types, the
bounds are reached, the process is down). Progress is stated as liveness instead.

### Findings

1. A dismisser that outlives its prompt exits the next approval prompt, which
   nobody answered; the session then waits for a phone (`interruptible.py:113`).
   The same helper in the feedback prompt raises out of `_ask_feedback`.
2. A message that arrives between the look at the queue and the registration of the
   listener waits for the keyboard (`repl.py:175`).
3. A turn cut off in a batch of tool calls leaves calls without results in the
   conversation (`loop.py:109`).

Observed on the way, and not stated as properties. Most are things no text of the
repository promises otherwise; where one does, it is quoted.

- Remote feed: an event pumped while the backlog is being sent is followed by older
  ones, and the page can settle on a stale view (`server.py:137`); two toggles of
  the reasoning display can be announced in the opposite order of their effect
  (`bus.py:125`, `repl.py:286`); a pump that died of a send error makes the
  endpoint skip `unsubscribe`, and the queue stays (`server.py:148`).
- Approval: after Ctrl-C the card stays on the phones, and comes back to one that
  reconnects while the history still has it (`abandoned` in `RemoteFeed`);
  grants for the session outlive `/new` and `/resume`.
- Disk: `/undo` gives CRLF files back with LF (`snapshots/store.py:105`), where
  the repository's README says "prior contents are restored"; torn group
  and metadata files end the process at `/undo` and `/resume`; `/resume` does not
  restore the model of the session.
- MCP: arguments that are no JSON object, a call that times out and a server that
  dies raise through the tool and the agent and end the session
  (`mcp/tools.py:62,85`). Two servers of one name: the second takes the first's
  place and the first is never closed. Names that differ in punctuation only
  collide ("a-b", "a_b"), although `mcp/tools.py:10` says that names cannot; the
  second tool is skipped with a notice, and the count includes it.
- Web server: when `start` gives up, its thread may listen later with nobody
  holding it.
- Commands: a container has no time limit of its own; Ctrl-C leaves a command
  on the host running; processes that left the group survive a time-out. The model
  is told "The command timed out and was stopped" (`tools/run_command.py:45`) also
  when `killpg` raised, or passed over a process it may not signal, and children of
  the shell run on (`sandbox/runner.py:199-202`), and when `_force_remove`, which
  does not look whether it worked, failed twice.
- Indexes: when creating the table fails after the drop there is no index; a build
  that finds no source files keeps the old one; a file that returns to the same
  time and size shows its old tags.

### Fairness

`Approval` and `InputLoop` assume weak fairness of each thread that has a step to
take (the operating system schedules it) and none of the user, the phones or
Ctrl-C. `Conversation` assumes it of the agent's own steps: a model call or a tool
that has been allowed returns or fails in the end. Nobody is obliged to answer a
question (`UserDecides` is no step of the agent), nor to interrupt or crash, so
`TurnEnds` says that a turn ends unless it stays at a question for ever.
`Console` assumes it of the session thread while it waits or closes
(`WaitTimesOut \/ WatchServer \/ Close`): every wait of the code has a time-out, and
between two waits `_close` just goes on; servers and the loop are obliged to
nothing. No strong fairness is used. The remaining modules state safety only.

## 4. Proofs

`ApprovalProofs` proves, for any set of tools and any number of requests:

| theorem | of | says |
|---|---|---|
| `TypeCorrect` | `TypeOK` | every variable stays in its range |
| `Invariance` | `IInv` | the inductive invariant |
| `ReportsAgree` | `Agreement` | what is reported is the first responder's decision |
| `NothingRunsUnapproved` | `Consent`, `GrantsWereGiven` | no approval without such an answer to a request for that tool, or a grant |
| `GrantsAreGiven` | `GrantsWereGiven` | a tool is exempt only by a decision for the session on one of its own requests |
| `ClosedRequestsStay` | `ClosedStaysClosed` | no step changes a closed request |
| `ImplementsArbitration` | `FirstResponderWins` | refinement of `Arbitration` |

Assumptions: `MaxRequestsAssumption` (the bound is a positive natural) and
`NoneAssumption` (`None` is no decision, report or reply).

`Agreement` is not inductive: it needs that, at the moment of the report, the local
result is the stored outcome of the latest request. `IInv` adds this
(`HoldsDecision`), that a waiting session thread waits for the latest and pending
request (`WaitsForLatest`, `PendingIsLatest`), that requests not yet opened are
untouched and opened ones have a tool (`Fresh`, `ToolsKnown`), and that the running
prompt is the one `pc` is in (`PromptMatchesPhase`). `Consent` rests on
`GrantsWereGiven` for the short circuit. One lemma per action preserves `IInv`; the
action property and the refinement follow from `IInv` step by step: opening maps to
`Open`, a successful `ResolveApproval` to `Decide`, `ReportAndReturn` to `Report`,
everything else to a stutter.

`InputLoopProofs` proves, for any number of messages and typed lines, `TypeCorrect`
(`TypeOK`) and `HandledInOrder` (`RemoteInOrder`), from `BoundsAssumption`. The
invariant adds that a message is in hand only in phase "got" (`HandMatchesPhase`:
otherwise polling or a typed line would overwrite one) and that the prompt is up
only in phase "prompt" (`PromptMatchesPhase`: otherwise a dismisser could throw the
session thread out of a turn with a message in hand). `SeeOneMore` is the lemma about
the sequence of things seen; each of the four actions that move messages has a lemma
of its own, the others leave the queue and that sequence alone (`OrderUntouched`).

`RemoteFeedProofs`, for any number of phones and any limit of the history, from
`FeedAssumption`:

| theorem | of | says |
|---|---|---|
| `TypeCorrect` | `TypeOK` | types; the history within its limit; queues left behind are counted |
| `NothingIsMissed` | `NoGap` | what the bus remembers is on a phone that has its copy, or certain to get there, but for what a delivery cut off by Ctrl-C left out |
| `QuietJoin` | `QuietJoinShowsSession` | a phone that caught up undisturbed shows the session, and no card beside the open request's but those of requests that Ctrl-C ended |

`NoGap` is not inductive: an event that is recorded, or delivered, must find the
phone among the subscribers. The invariant adds that a phone is a subscriber from
before its snapshot until its connection is closed (`JoinedSubscribes`) and that
what is appended to and taken from are sequences (`Shape`). `NoGapKept` reduces most
steps to one question: is anything that was on its way to a phone withdrawn. The
types need an event's value to fit its kind from the moment a thread means to
publish it until a page shows it (`KnownValue`, `EventsKnown`, `ScreensKnown`), a
request for approval only within a turn (`SessionKnown`), and, for the queues left
behind, that they and the open connections together are no more than the
connections ever made (`ConnectionsCounted`).

`QuietJoin` treats the busy sign and each card alike, as marks that events raise
and lower (`Raises`, `Lowers`). Whether a page that shows `v` has a mark on after
being sent `s` depends on the last event of `s` about it (`EndsOn`), so sending the
first event of `s` changes nothing (`EndsHead`), nor does an event about no turn
(`QuietIsNeutral`). Four invariants carry the proof.

1. `SessionFits`: what the session thread is publishing about the turn fits the step
   it has reached, and the server thread publishes nothing about the turn. From the
   step follows which marks must be on once all recorded events are seen (`Due`) and
   which off (`Excluded`; the card of a request that Ctrl-C ended is neither, so it may
   stay); this changes only when the session thread records
   (`DuesKept`, `DuesRecorded`).
2. `HistoryTells`: the history leaves on a mark that is due and raises none that is
   excluded. Dropping its oldest event can lose a mark but never take one off
   (`BoundedKeeps`). This is why the endpoint sends the session state first: the busy
   flag stands for the message of a running turn that the history has dropped.
3. `Undisturbed`: until an event disturbs it, a phone that is catching up has an
   empty queue and nothing on its way, and no card from an earlier connection.
4. `PageFollows`: with what is still `Coming` to it (the history, its backlog, or its
   queue and what the session thread has yet to put there), a page ends up with
   every mark that is due and that it was told of (`Told`), and no excluded one.

`Told` is where the history's limit comes in: a phone cannot know of a request that
has left the history before it was copied. A step can make `Told` false but never
true again, so it suffices to ask for it when the page is looked at.

`ConversationProofs`, for any bounds, from `ConversationAssumption`:

| theorem | of | says |
|---|---|---|
| `TypeCorrect` | `TypeOK` | types; no result beyond the calls of its response |
| `TranscriptIsComplete` | `TranscriptComplete` | the transcript is the conversation, or lags by the message being appended |
| `RecentTurnsAreKept` | `RecentTurnsKept` | the last turns stay out of every summary |
| `NoResultIsOrphaned` | `NoOrphanResult` | what the model is sent starts inside no batch |
| `UndisturbedConversationIsValid` | `UndisturbedIsValid` | every call has its result when the model is called |

The invariant follows an append through its three steps (`Recorded`: which of them
is done decides by how much the transcript lags) and a batch of calls (`BatchIsLast`:
the response and the results so far are the end of the conversation; `Settled`: all
earlier calls have theirs; `Follows`: every result has its call before it).
`CutsAreTurns` is about all indexes a summary can have, the one in memory and the
one on disk, because a resume goes back to the latter: each is the start of a turn
with at least `KeepRecentTurns - 1` turns after it. `CompactionCuts` shows that of
`_cut_index`, by counting starts of turns from the end (`FromTheTop`). The invariant
drops what it says of a conversation once it has a `hole`, and of its calls once it
was `disturbed`, as the properties do. `NoResultIsOrphaned` then is an argument
about positions: a batch that starts before a cut would have a result where the cut
has a user message.

`SnapshotsProofs`, for any files, contents and bounds, from `SnapshotAssumption`:

| theorem | of | says |
|---|---|---|
| `TypeCorrect` | `TypeOK` | types; one group file for each turn that captured and was not undone |
| `TurnsStayUndoable` | `UndoableTurns` | each turn's group gives back what its first writes replaced |
| `UndoReverts` | `UndoRevertsTurn` | `/undo` puts back every file it does not report as skipped and nobody else changed |
| `UndoConfined` | `UndoIsConfined` | `/undo` touches only the files of the newest group, and no other turn's snapshots |

`Turn` is the heart of the invariant: within a turn that has captured, its group is
the newest, and what the group holds is the file as it still is, until the agent
writes it (then the write is in `replaced`) or somebody else does (then the file is
in `meddled`). Without the first half an index could be reused; without the second
a later capture could keep what the agent had written. `WellFormed` has a file once
in a group, so that restoring its entries in any order gives one result, and `Undo`
says that each file of the turn is restored or still to do, which an undo cut off
half way leaves to the next.

`ModelStreamProofs`, for any two non-empty tags, any text cut in any way, any
number of reasoning fields and retries, from `StreamAssumption` (which also says
that a field is no character):

| theorem | of | says |
|---|---|---|
| `TypeCorrect` | `TypeOK` | types |
| `PromptRelease` | `ReleasesPromptly` | between fragments the filter withholds only the beginning of a tag |
| `StoredAsShown` | `ShownIsStored` | what streamed to the screen is what `strip_thinking` stores |
| `NoReasoningLost` | `ReasoningIsKept` | the rest, and every reasoning field, was shown as reasoning, in order |

`FilterIsAhead` says that what was shown, with what `StripThinking` and
`ReasoningOf` give of the text from the filter's position on, is what they give of
the whole: for the text received and for *every continuation of it*. The last is
needed because a fragment still to come can complete a tag that the text so far
only begins. Hence the lemmas about tags that are found in a text, in the rest of
it, and in a longer one (`FoundInside`, `FoundInRest`, `FoundLater`), that a tag
found in the buffer is the next section's end for both pieces of code (`AtTag`,
`NoTagBefore`, `SortedPart`), and that the tail held back hides every place where a
tag can still begin (`TailIsHeld`). `StripThinking`, `ReasoningOf` and `TextOf` are
recursive functions; that they exist and are unique is proved by an argument on the
least position where they would not be (`LeastNumber`, from the well-foundedness of
`<`; `ChainExists`, `ChainIsUnique`), which stands in for an induction.

| module | theorem | of | says |
|---|---|---|---|
| `ConsoleProofs` | `TypeCorrect` | `TypeOK` | types; the thread waits for one thing at most, and for a coroutine that is in the loop |
| `ConsoleProofs` | `NothingUnapprovedRuns` | `OnlyApprovedRuns` | a server does only what was approved for it by name |
| `ConsoleProofs` | `TurnsUseTheFields` | `AgentIsCurrent` | a turn uses the active model, the open session, its snapshots, and a prompt and context manager that fit |
| `ConsoleProofs` | `LeftoversHaveReasons` | `LeftoversExplained` | what runs on after the close was lost or given up |
| `ConsoleProofs` | `CommandTypesCorrect` | `CommandTypeOK` | types of `CommandRunner` |
| `ConsoleProofs` | `TimedOutIsStopped` | `StoppedIsStopped` | a command reported as stopped has no shell or client left; nothing of its group unless `unkilled`, no container unless `unremoved` |

They hold for any servers and names, any models, any number of lines, calls,
sessions and commands, from `McpAssumption`, `ConsoleAssumption` and
`CommandAssumption`. The first part of `ConsoleProofs` follows a call: every call in
the loop, queued or sent, is one that was approved, for the server that has the
session under the approved name; so keeping, replacing and forgetting sessions
cannot redirect it. The invariant of the second part says who holds each process.
`ProcessesHeld`: a server process that runs is lost, or in a session, or the one
whose open or close is awaited. That needs `OpensKnown` (an open nobody waits for
was given up), otherwise a late success would make a process nobody holds, and
`WaitingKnown` (an open is awaited only during start-up, and at the end nothing is).
`ThreadHeld` is the same for the web server. `AgentKnown` keeps agent, manager,
prompt and fields together from the build on. The third part is about the
processes of shell commands (`CommandRunner`): its invariant adds that processes are
of the kind of the backend (`PartsKnown`) and that no client is alive once its
container is being removed (`Removing`): so nothing is left that could start a
process of a stopped command.

`WorkspaceIndexProofs`, for any files, texts, processes, edits and bounds, any sizes of
windows, overlap and batches, any budget and costs, from `SourceFilesAssumption`,
`RepoMapAssumption` and `SemanticIndexAssumption`:

| theorem | of | says |
|---|---|---|
| `TypeCorrect` | `TypeOK` | types; only source files get into the cache and the index |
| `Invariance` | `Inv` | the inductive invariant |
| `MapStaysFresh` | `MapIsFresh` | a file nobody changed during a build is in the map as it is on disk |
| `FitIsLargest` | `Fit` | the binary search finds the longest prefix within the budget |
| `MapStaysLargest` | `MapIsLargest` | every map shown fits, and one more definition would not |
| `IndexStaysComplete` | `IndexIsComplete` | each row has its own vector; no stretch of lines falls between windows or batches |
| `EmptyStaysExplained` | `EmptyIsExplained` | a search without hits says why |
| `OldIndexStays` | `OldIndexKept` | the old table goes only for a build with all its vectors |

`MapIsFresh` needs to know what a stamp taken at one time tells of a file later
(`Known`: the stamp is older than the clock's present reading, or among those the file
has had at it). `Moved` is what any step does to the files, and `OnlyRecurring` that a
file outside `recurred` which has a known stamp after a step is as it was before.
On this rests `Honest`: an entry of a cache, on disk or in the hands of a build, is
right about a file that still has its stamp. It holds of entries that were written by
others, of caches read while another process rewrote them, and of a text read after a
change that came between stat and read. A build adds `AsSeen`: what it has parsed of a
file that is still as it was at the start is that text.

`IndexIsComplete` needs that windows are complete file by file while a build reads
(`CoversAll`), and that the vectors so far are those of the first chunks, in order,
up to the start of the next batch (`BuildGood`); a table is written only from a build
in which both are complete (`TableGood`), which is also why a search without hits has
a reason other than "found".

Windows, `Fit` and `FlattenSeq` are recursive functions. `RecursionExists` shows that
an equation whose every step makes a measure smaller has a solution, and `ByMeasure`
that what holds of an argument if it holds of all smaller ones holds of all: the
general form of the least-counterexample argument used for the filter. With them,
`WindowsCover` is about `ChunkText` (it uses that the windows advance by their size
less the overlap, so any `ChunkOverlap + 1` lines lie in one) and `FitIsLargest`
about the search. The latter needs `ShorterFits`: a prefix of a list that fits fits,
since it has no more files and no more lines. `MapStaysLargest` adds that what is
ranked is a finite list (`TagsFound`, `FewDefinitions`, `OrderedIsList`).

Model-checked only:

- liveness (`RemoteAnswerUnblocks`, `NotifiedIsHandled`, `TurnEnds`, `CloseEnds`):
  TLAPS has no backend for fairness and ENABLED here;
- `RankIsShared`, an estimate of rounding errors: its bound depends on the number of
  rounds and of files, and its sums are folds over sets, so a proof would be an
  induction over data.

## 5. Plan

Everything planned at first is in place. What is left, in order of use:

1. `Approval` and `InputLoop` over one prompt session and one pool of dismissers,
   for what crosses from an approval to the next prompt. Finding 1 shows the main
   case within `Approval`; the composition would add it at the input prompt.
2. `/sessions` against the metadata files.

## 6. Not modelled

- Authorisation and addresses of the web server: a token is compared, nothing
  changes.
- Configuration and command line: read once at start; a wrong name's effect is in
  `Console` (`Prepare`, `Build`) and `CommandRunner` (`Choice`).
- Memory and skills loaders, read-only tools, workspace guard: they read files and
  change nothing; what memory contains is a number in `Console`.
- Web search and the providers' network: pure input and output. How a stream breaks
  off is in `ModelStream`.
- Terminal rendering, and the texts of results and prompts.
- Windows: process groups and line ends are those of POSIX.
- What the embedding model, the vector database, tree-sitter, uvicorn, the MCP
  library and prompt_toolkit do inside: they appear as steps that succeed or fail.
