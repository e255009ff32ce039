---------------------------- MODULE CommandRunner ----------------------------
(***************************************************************************)
(* The shell commands of run_command and the processes they leave.  On the *)
(* host a command is a shell in a session of its own, with children in the *)
(* shell's process group and others that have left it.  In a sandbox it is *)
(* an engine's client and the container that the client starts.  The tool  *)
(* has one command run at a time; what an earlier one left goes on.        *)
(***************************************************************************)
EXTENDS Naturals

CONSTANTS Backend,     \* sandbox.backend of the configuration
          MaxCommands  \* bound on the commands of a behaviour

Engine == {"podman", "docker"}

ASSUME CommandAssumption == Backend \in Engine \cup {"auto", "host"} /\ MaxCommands \in Nat

VARIABLES
    runner,    \* the backend chosen, or "none"
    installed, \* the engines on the PATH
    count,     \* commands run, the latest included
    stage,     \* the position of the latest in run
    results,   \* by command: what its run came to
    alive,     \* the processes of commands: <<command, part>>
    unkilled,  \* history: commands whose process group was not killed whole
    unremoved  \* history: commands whose container could not be removed

commandVars == <<runner, installed, count, stage, results, alive, unkilled, unremoved>>

CommandNumbers == 1..MaxCommands
Own == {"shell", "child"}            \* of the group, and the user's
InGroup == Own \cup {"foreign"}       \* "foreign": of the group, another user's
Part == InGroup \cup {"detached", "client", "container"}
Result == {"none", "exit", "oom", "error", "timeout", "raised", "interrupted"}

CommandInit ==
    /\ runner = "none" /\ installed \in SUBSET Engine
    /\ count = 0 /\ stage = "idle"
    /\ results = [n \in CommandNumbers |-> "none"]
    /\ alive = {} /\ unkilled = {} /\ unremoved = {}

\* Processes of the latest command.
Of(parts) == {count} \X parts
Runs(part) == <<count, part>> \in alive

\* run returns, and _apply words its result for the model.
Concludes(result) ==
    /\ results' = [results EXCEPT ![count] = result]
    /\ stage' = "idle"

-----------------------------------------------------------------------------
(* build_command_runner *)

\* The backend that the configuration and the PATH lead to.  An engine asked
\* for by name that is not installed is an error: there is none, and no session.
Choice ==
    CASE Backend \in Engine -> {Backend} \cap installed
      [] Backend = "auto" /\ "podman" \in installed -> {"podman"}
      [] Backend = "auto" /\ installed = {"docker"} -> {"docker"}
      [] OTHER -> {"host"}

ChooseRunner ==
    /\ runner = "none"
    /\ runner' \in Choice
    /\ UNCHANGED <<installed, count, stage, results, alive, unkilled, unremoved>>

RemoveEngine(engine) ==
    /\ engine \in installed
    /\ installed' = installed \ {engine}
    /\ UNCHANGED <<runner, count, stage, results, alive, unkilled, unremoved>>

-----------------------------------------------------------------------------
(* run *)

Start(part) ==
    /\ runner # "none" /\ stage = "idle" /\ count < MaxCommands
    /\ count' = count + 1
    /\ stage' = "running"
    /\ alive' = alive \cup {<<count', part>>}
    /\ UNCHANGED <<runner, installed, results, unkilled, unremoved>>

StartOnHost == runner = "host" /\ Start("shell")
StartInContainer == runner \in installed /\ Start("client")

\* An engine that is gone since the choice is reported; the command does not
\* run, on the host neither.
EngineNotFound ==
    /\ runner \in Engine \ installed /\ stage = "idle" /\ count < MaxCommands
    /\ count' = count + 1
    /\ results' = [results EXCEPT ![count'] = "error"]
    /\ UNCHANGED <<runner, installed, stage, alive, unkilled, unremoved>>

\* A process starts another one, in its group or out of it, and there may run
\* it, or itself, as another user; the client starts the container.
ProcessStarts(n, part) ==
    /\ \/ part \in {"child", "foreign", "detached"} /\ \E p \in InGroup : <<n, p>> \in alive
       \/ part = "container" /\ <<n, "client">> \in alive
    /\ alive' = alive \cup {<<n, part>>}
    /\ UNCHANGED <<runner, installed, count, stage, results, unkilled, unremoved>>

\* A client ends with its container and not before.
ProcessEnds(n, part) ==
    /\ part = "client" => <<n, "container">> \notin alive
    /\ alive' = alive \ ({n} \X IF part = "container" THEN {part, "client"} ELSE {part})
    /\ UNCHANGED <<runner, installed, count, stage, results, unkilled, unremoved>>

\* communicate returns: the process has ended, and what it left on the host has
\* let go of the pipes.  A container's exit code 137 is taken for the memory
\* limit.
CommandReturns ==
    /\ stage = "running" /\ ~Runs("shell") /\ ~Runs("client")
    /\ \/ Concludes("exit")
       \/ runner \in Engine /\ Concludes("oom")
    /\ UNCHANGED <<runner, installed, count, alive, unkilled, unremoved>>

\* Bug: subprocess.run(timeout=...), which kills the immediate child.
KillShell == alive' = alive \ Of({"shell"}) /\ UNCHANGED unkilled

\* _kill_tree: killpg passes over what it may not signal in the group, and says
\* nothing of it.  If it raises, or getpgid does, only the shell is killed.  What
\* has left the group lives on.
KillTree ==
    \/ /\ alive' = alive \ Of(Own)
       /\ unkilled' = unkilled \cup {n \in {count} : Runs("foreign")}
    \/ /\ alive' = alive \ Of({"shell"})
       /\ unkilled' = unkilled \cup {count}

HostTimesOut ==
    /\ stage = "running" /\ runner = "host"
    /\ KillTree
    /\ Concludes("timeout")
    /\ UNCHANGED <<runner, installed, count, unremoved>>

\* A shell that has become another user's may not be signalled alone either:
\* kill raises, and so does run.
KillRaises ==
    /\ stage = "running" /\ runner = "host"
    /\ ~Runs("shell") /\ Runs("foreign")
    /\ Concludes("raised")
    /\ UNCHANGED <<runner, installed, count, alive, unkilled, unremoved>>

\* The client is killed, which does not end its container ...
ContainerTimesOut ==
    /\ stage = "running" /\ runner \in Engine
    /\ alive' = alive \ Of({"client"})
    /\ stage' = "kill"
    /\ UNCHANGED <<runner, installed, count, results, unkilled, unremoved>>

\* ... so _force_remove kills and removes it by name.  Either may fail, for
\* want of the engine, of time or of the container; neither is checked.
ContainerEnds == runner \in installed /\ alive' = alive \ Of({"container"})

Kill ==
    /\ stage = "kill"
    /\ stage' = "rm"
    /\ ContainerEnds \/ UNCHANGED alive
    /\ UNCHANGED <<runner, installed, count, results, unkilled, unremoved>>

Remove ==
    /\ stage = "rm"
    /\ \/ ContainerEnds /\ UNCHANGED unremoved
       \/ unremoved' = unremoved \cup {count} /\ UNCHANGED alive
    /\ Concludes("timeout")
    /\ UNCHANGED <<runner, installed, count, unkilled>>

\* Ctrl-C: a command on the host is in another session, does not get it and is
\* not killed; a client is, and its container may or may not end with it.
Interrupt ==
    /\ stage # "idle"
    /\ alive' \in {alive \ Of({"client"}), alive \ Of({"client", "container"})}
    /\ Concludes("interrupted")
    /\ UNCHANGED <<runner, installed, count, unkilled, unremoved>>

CommandNext ==
    \/ ChooseRunner \/ \E engine \in Engine : RemoveEngine(engine)
    \/ StartOnHost \/ StartInContainer \/ EngineNotFound
    \/ \E n \in 1..count, part \in Part : ProcessStarts(n, part) \/ ProcessEnds(n, part)
    \/ CommandReturns \/ HostTimesOut \/ KillRaises \/ ContainerTimesOut
    \/ Kill \/ Remove \/ Interrupt

CommandSpec == CommandInit /\ [][CommandNext]_commandVars

-----------------------------------------------------------------------------
(* Properties *)

\* Types; a process belongs to a command that was run.
CommandTypeOK ==
    /\ runner \in Engine \cup {"none", "host"}
    /\ installed \in SUBSET Engine
    /\ count \in 0..MaxCommands
    /\ stage \in {"idle", "running", "kill", "rm"}
    /\ results \in [CommandNumbers -> Result]
    /\ alive \in SUBSET (CommandNumbers \X Part)
    /\ unkilled \in SUBSET CommandNumbers
    /\ unremoved \in SUBSET CommandNumbers

\* The model is told that a command "timed out and was stopped" (_format_result)
\* only if its shell or client does not run, nor ever will again; nor anything
\* of the shell's process group, unless killpg raised or passed over a process;
\* nor a container, unless both attempts to remove it failed.  Checked with what
\* other commands left, before and after.
StoppedIsStopped ==
    \A n \in CommandNumbers : results[n] = "timeout" =>
        /\ \A part \in {"shell", "client"} : <<n, part>> \notin alive
        /\ \A part \in InGroup : <<n, part>> \in alive => n \in unkilled
        /\ <<n, "container">> \in alive => n \in unremoved

=============================================================================
