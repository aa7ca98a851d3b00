---------------------------- MODULE BackgroundWork ----------------------------
(***************************************************************************)
(* What runs beside the turns: subagents (nanobot/agent/subagent.py,       *)
(* tools/spawn.py) and the processes they start (tools/exec_session.py),   *)
(* under /stop and the shutdown of the gateway (_cancel_active_tasks,      *)
(* close_mcp in nanobot/agent/loop.py; cli/gateway_runtime.py).            *)
(*                                                                         *)
(* A process is in the table of the ExecSessionManager, whose lock is held *)
(* while a session is started, looked up or taken out, but not while it is *)
(* polled or killed.  A subagent is a task that may be cancelled wherever  *)
(* it awaits; run(), which serves /stop and closes everything in the end,  *)
(* is cancelled itself, up to twice, when the gateway shuts down.          *)
(*                                                                         *)
(* A kill sends its signal at its first step.  A deadline ends a process   *)
(* like an exit.  Output is left out; so are the manager of the main       *)
(* agent, which is closed the same way, and commands that are not sessions *)
(* (their call kills them when it is cancelled).                           *)
(***************************************************************************)
EXTENDS Naturals, FiniteSets, SequencesExt

CONSTANTS
  Keys,            \* sessions
  Subagents,       \* tasks of subagents
  ParentOf,        \* the session whose turn spawns each
  Inline,          \* those run with wait=True: the turn awaits them
  Commands,        \* processes that may be started
  NoCommand,
  MaxSubagents,    \* max_concurrent_subagents
  MaxSessions,     \* max_sessions
  MaxAgentStops,   \* bound of the model: /stop commands
  MaxKillFaults    \* bound of the model: kills that raise

ASSUME BackgroundAssumption ==
  /\ ParentOf \in [Subagents -> Keys] /\ Inline \subseteq Subagents
  /\ NoCommand \notin Commands
  /\ "run" \notin Subagents /\ "none" \notin Keys /\ Subagents \cap Commands = {}
  /\ MaxSubagents \in Nat \ {0} /\ MaxSessions \in Nat \ {0}
  /\ MaxAgentStops \in Nat /\ MaxKillFaults \in Nat

VARIABLES
  agent,       \* where each subagent is, what it calls and on which command
  cancels,     \* subagents with a cancellation under way
  managerLock, \* ExecSessionManager._lock: its owner, then the waiters
  sessions,    \* _sessions
  alive,       \* processes that run
  owner,       \* owner_session_key: the session a process was started for
  refusing,    \* _closed
  run,         \* where run() is, the session of its /stop, what it awaits and kills
  signals,     \* cancellations of run() by the gateway
  stopsServed,
  killFaults,
  cutShort,    \* history: killing or closing was cancelled half way
  stopped      \* history: subagents and processes a completed /stop was to end

agentVars == <<agent, cancels>>
managerVars == <<managerLock, sessions, alive, owner, refusing>>
runVars == <<run, signals, stopsServed, killFaults, cutShort, stopped>>
backgroundVars == <<agentVars, managerVars, runVars>>

NoTask == [at |-> "none", op |-> "none", cmd |-> NoCommand]
Serving == [at |-> "serving", key |-> "none", agents |-> {}, victims |-> {}]
Runs(a) == agent[a].at \notin {"none", "ended"}
RunningTasks == {a \in Subagents : Runs(a)}  \* _running_tasks
OfKey(key) == {a \in Subagents : ParentOf[a] = key /\ Runs(a)}
Waits == {"stopLock", "stopPutBack", "closeLock", "closePutBack"}

BackgroundTypeOK ==
  /\ agent \in [Subagents -> [at : {"none", "working", "lock", "spawning", "polling",
                                    "ended"},
                              op : {"none", "start", "write", "pop"},
                              cmd : Commands \cup {NoCommand}]]
  /\ cancels \subseteq RunningTasks /\ Cardinality(RunningTasks) <= MaxSubagents
  /\ managerLock \in Seq(Subagents \cup {"run"}) /\ IsInjective(managerLock)
  /\ ToSet(managerLock) = {a \in Subagents : agent[a].at \in {"lock", "spawning"}}
                            \cup {r \in {"run"} : run.at \in Waits}
  /\ sessions \subseteq Commands /\ alive \subseteq Commands
  /\ owner \in [Commands -> Keys \cup {"none"}]
  /\ run \in [at : Waits \cup {"serving", "stopTurns", "stopAgents", "stopKills",
                               "drains", "closeAgents", "closeKills", "down"},
              key : Keys \cup {"none"}, agents : SUBSET Subagents, victims : SUBSET Commands]
  /\ {refusing, cutShort} \subseteq BOOLEAN
  /\ signals \in 0..2 /\ stopsServed \in 0..MaxAgentStops /\ killFaults \in 0..MaxKillFaults
  /\ stopped \subseteq Subagents \cup Commands

BackgroundInit ==
  /\ agent = [a \in Subagents |-> NoTask] /\ cancels = {}
  /\ managerLock = <<>> /\ sessions = {} /\ alive = {} /\ refusing = FALSE
  /\ owner = [c \in Commands |-> "none"]
  /\ run = Serving /\ signals = 0 /\ stopsServed = 0 /\ killFaults = 0
  /\ cutShort = FALSE /\ stopped = {}

Moves(a, at, op, cmd) == agent' = [agent EXCEPT ![a] = [at |-> at, op |-> op, cmd |-> cmd]]
Works(a) == Moves(a, "working", "none", NoCommand)
Goes(a, at) == agent[a].at = at /\ a \notin cancels
Released(x) ==
  IF Contains(managerLock, x)
  THEN RemoveAt(managerLock, CHOOSE i \in DOMAIN managerLock : managerLock[i] = x)
  ELSE managerLock
Owns(x) == managerLock # <<>> /\ Head(managerLock) = x
-----------------------------------------------------------------------------
(* Subagents.                                                              *)

(* SpawnTool.execute, spawn and run_inline.  A turn of a session that was  *)
(* stopped is over until run() has served the /stop.                       *)
SpawnAgent(a) ==
  /\ agent[a].at = "none" /\ Cardinality(RunningTasks) < MaxSubagents
  /\ ParentOf[a] = run.key => run.at = "stopTurns"
  /\ Works(a)
  /\ UNCHANGED <<cancels, managerVars, runVars>>

(* The end of _run_subagent, well or not.  Its result is a message of the  *)
(* parent session on the inbound bus.  The callback of the task, or the    *)
(* finally clause of run_inline, takes it out of _running_tasks.           *)
AgentEnds(a) ==
  /\ Goes(a, "working")
  /\ Moves(a, "ended", "none", NoCommand)
  /\ UNCHANGED <<cancels, managerVars, runVars>>

(* A cancellation arrives wherever the subagent awaits: the lock goes on,  *)
(* and a process that is being created is closed by asyncio.               *)
CancelArrives(a) ==
  /\ a \in cancels
  /\ Moves(a, "ended", "none", NoCommand)
  /\ cancels' = cancels \ {a} /\ managerLock' = Released(a)
  /\ UNCHANGED <<sessions, alive, owner, refusing, runVars>>

(* asyncio.wait_for before Python 3.12 keeps a cancellation to itself when *)
(* what it waits for, here the end of the process, has come as well.       *)
CancelSwallowed(a) ==
  /\ a \in cancels
  /\ agent[a].at = "polling" /\ agent[a].cmd \notin alive
  /\ cancels' = cancels \ {a}
  /\ UNCHANGED <<agent, managerVars, runVars>>
-----------------------------------------------------------------------------
(* The ExecSessionManager, called by the exec tools of a subagent.         *)

Asks(a, op, c) ==
  /\ Moves(a, "lock", op, c) /\ managerLock' = Append(managerLock, a)
  /\ UNCHANGED <<cancels, sessions, alive, owner, refusing, runVars>>

Unused == {c \in Commands : owner[c] = "none" /\ \A a \in Subagents : agent[a].cmd # c}

(* start with a new command, or write to a session, of whatever owner.     *)
(* list_exec_sessions does no more than a refused write.                   *)
Calls(a, c) ==
  /\ Goes(a, "working")
  /\ \/ c \in Unused /\ c = (CHOOSE new \in Unused : TRUE) /\ Asks(a, "start", c)
     \/ c \in sessions /\ Asks(a, "write", c)

(* _cleanup_locked kills and takes out a session nobody used for a while.  *)
(* A cancellation while it waits for the killed process leaves the session *)
(* in the table.                                                           *)
ReapsIdle(a, c) ==
  /\ Owns(a) /\ agent[a].at = "lock" /\ agent[a].op \in {"start", "write"}
  /\ agent[a].op = "start" => ~refusing
  /\ c \in sessions /\ \A b \in Subagents : ~(agent[b].at = "polling" /\ agent[b].cmd = c)
  /\ alive' = alive \ {c}
  /\ \/ /\ sessions' = sessions \ {c}
        /\ UNCHANGED <<agentVars, managerLock>>
     \/ /\ a \in cancels /\ cancels' = cancels \ {a}
        /\ Moves(a, "ended", "none", NoCommand) /\ managerLock' = Released(a)
        /\ UNCHANGED sessions
  /\ UNCHANGED <<owner, refusing, runVars>>

MayStartMutant == Cardinality(sessions) < MaxSessions
MayStart == ~refusing /\ Cardinality(sessions) < MaxSessions

StartGranted(a) ==
  /\ Owns(a) /\ Goes(a, "lock") /\ agent[a].op = "start"
  /\ \/ /\ MayStart
        /\ Moves(a, "spawning", "start", agent[a].cmd) /\ UNCHANGED managerLock
     \/ /\ ~MayStart
        /\ Works(a) /\ managerLock' = Released(a)
  /\ UNCHANGED <<cancels, sessions, alive, owner, refusing, runVars>>

SpawnReturns(a) ==
  /\ Goes(a, "spawning")
  /\ LET c == agent[a].cmd
     IN /\ Moves(a, "polling", "start", c) /\ managerLock' = Released(a)
        /\ sessions' = sessions \cup {c} /\ alive' = alive \cup {c}
        /\ owner' = [owner EXCEPT ![c] = ParentOf[a]]
  /\ UNCHANGED <<cancels, refusing, runVars>>

SpawnFails(a) ==
  /\ Goes(a, "spawning")
  /\ Works(a) /\ managerLock' = Released(a)
  /\ UNCHANGED <<cancels, sessions, alive, owner, refusing, runVars>>

(* Only the session that started a process reaches it, and may kill it.    *)
(* Input for a process that has exited is refused, and its session stays.  *)
WriteTurn(a) ==
  /\ Owns(a) /\ Goes(a, "lock") /\ agent[a].op = "write"
  /\ managerLock' = Released(a)
  /\ LET c == agent[a].cmd
         found == c \in sessions /\ owner[c] = ParentOf[a]
     IN \/ /\ found /\ Moves(a, "polling", "write", c)
           /\ alive' \in {alive, alive \ {c}}
        \/ /\ ~found \/ c \notin alive
           /\ Works(a) /\ UNCHANGED alive
  /\ UNCHANGED <<cancels, sessions, owner, refusing, runVars>>

PollReturns(a) ==
  /\ Goes(a, "polling")
  /\ \/ /\ agent[a].cmd \in alive
        /\ Works(a)
        /\ UNCHANGED <<cancels, managerVars, runVars>>
     \/ /\ agent[a].cmd \notin alive
        /\ Asks(a, "pop", agent[a].cmd)

PopTurn(a) ==
  /\ Owns(a) /\ Goes(a, "lock") /\ agent[a].op = "pop"
  /\ sessions' = sessions \ {agent[a].cmd}
  /\ Works(a) /\ managerLock' = Released(a)
  /\ UNCHANGED <<cancels, alive, owner, refusing, runVars>>

Exit(c) ==
  /\ c \in alive /\ alive' = alive \ {c}
  /\ UNCHANGED <<agentVars, managerLock, sessions, owner, refusing, runVars>>
-----------------------------------------------------------------------------
(* run(): a /stop (_cancel_active_tasks), and closing (close_mcp).         *)

RunMoves(at) == run' = [run EXCEPT !.at = at]

(* The turns of the session are cancelled, with a turn the subagent it     *)
(* awaits.                                                                 *)
CancelBegins(key) ==
  /\ run.at = "serving" /\ stopsServed < MaxAgentStops
  /\ run' = [Serving EXCEPT !.at = "stopTurns", !.key = key]
  /\ stopsServed' = stopsServed + 1
  /\ cancels' = cancels \cup (OfKey(key) \cap Inline)
  /\ UNCHANGED <<agent, managerVars, signals, killFaults, cutShort, stopped>>

(* All turns of the session are over: cancel_by_session.                   *)
StopTurnsEnd ==
  /\ run.at = "stopTurns" /\ OfKey(run.key) \cap Inline = {}
  /\ run' = [run EXCEPT !.at = "stopAgents", !.agents = OfKey(run.key)]
  /\ cancels' = cancels \cup OfKey(run.key)
  /\ UNCHANGED <<agent, managerVars, signals, stopsServed, killFaults, cutShort, stopped>>

AgentsEnd ==
  /\ run.at \in {"stopAgents", "closeAgents"} /\ \A a \in run.agents : ~Runs(a)
  /\ run' = [run EXCEPT !.at = IF @ = "stopAgents" THEN "stopLock" ELSE "closeLock",
                        !.agents = {}]
  /\ managerLock' = Append(managerLock, "run")
  /\ UNCHANGED <<agentVars, sessions, alive, owner, refusing, signals, stopsServed,
                 killFaults, cutShort, stopped>>

(* terminate_by_owner and close_all take their sessions out of the table   *)
(* before the first of them is killed.                                     *)
TakesOut(victims, at) ==
  /\ Owns("run") /\ managerLock' = Released("run")
  /\ sessions' = sessions \ victims
  /\ run' = [run EXCEPT !.at = at, !.victims = victims]
  /\ UNCHANGED <<agentVars, alive, owner, signals, stopsServed, killFaults, cutShort, stopped>>

StopTakesOut ==
  /\ run.at = "stopLock" /\ UNCHANGED refusing
  /\ TakesOut({c \in sessions : owner[c] = run.key}, "stopKills")

CloseTakesOut ==
  /\ run.at = "closeLock" /\ refusing' = TRUE
  /\ TakesOut(sessions, "closeKills")

Kills ==
  /\ run.at \in {"stopKills", "closeKills"}
  /\ alive' = alive \ run.victims
  /\ IF run.at = "closeKills"
       THEN run' = [Serving EXCEPT !.at = "down"] /\ UNCHANGED stopped
       ELSE /\ run' = Serving
            /\ stopped' = stopped \cup {c \in Commands : owner[c] = run.key}
                 \cup {a \in Subagents : ParentOf[a] = run.key /\ agent[a].at # "none"}
  /\ UNCHANGED <<agentVars, managerLock, sessions, owner, refusing, signals, stopsServed,
                 killFaults, cutShort>>

(* The sessions whose kill raised go back into the table.                  *)
KillsFail ==
  /\ run.at \in {"stopKills", "closeKills"} /\ killFaults < MaxKillFaults
  /\ \E failing \in SUBSET run.victims \ {{}} :
       /\ alive' = alive \ (run.victims \ failing)
       /\ run' = [run EXCEPT !.at = IF @ = "stopKills" THEN "stopPutBack" ELSE "closePutBack",
                             !.victims = failing]
  /\ killFaults' = killFaults + 1
  /\ managerLock' = Append(managerLock, "run")
  /\ UNCHANGED <<agentVars, sessions, owner, refusing, signals, stopsServed, cutShort, stopped>>

(* The exception of a /stop ends run(), which closes everything.           *)
PutsBack ==
  /\ run.at \in {"stopPutBack", "closePutBack"}
  /\ Owns("run") /\ managerLock' = Released("run")
  /\ sessions' = sessions \cup run.victims
  /\ run' = [Serving EXCEPT !.at = IF run.at = "stopPutBack" THEN "drains" ELSE "down"]
  /\ UNCHANGED <<agentVars, alive, owner, refusing, signals, stopsServed, killFaults,
                 cutShort, stopped>>

(* agent.stop() was called, and run() is back from a /stop that kept its   *)
(* cancellation to itself.                                                 *)
RunStops ==
  /\ run.at = "serving" /\ signals > 0
  /\ RunMoves("drains")
  /\ UNCHANGED <<agentVars, managerVars, signals, stopsServed, killFaults, cutShort, stopped>>

(* close_mcp: the background tasks are over, SubagentManager.close.        *)
DrainEnds ==
  /\ run.at = "drains"
  /\ run' = [Serving EXCEPT !.at = "closeAgents", !.agents = RunningTasks]
  /\ cancels' = cancels \cup RunningTasks
  /\ UNCHANGED <<agent, managerVars, signals, stopsServed, killFaults, cutShort, stopped>>

Closes == {"drains", "closeAgents", "closeLock", "closeKills", "closePutBack"}

(* The gateway cancels run(), and again if it is not done once all         *)
(* channels are closed.  While it awaits the turns of a /stop it keeps the *)
(* cancellation to itself.  The second one ends what close_mcp is at: the  *)
(* subagents and their sessions are not closed.                            *)
Signal ==
  /\ signals < 2 /\ run.at # "down"
  /\ signals' = signals + 1
  /\ \/ /\ run.at = "stopTurns"
        /\ UNCHANGED <<cancels, managerLock, run, cutShort>>
     \/ /\ run.at # "stopTurns"
        /\ run' = [Serving EXCEPT !.at = IF run.at \in Closes THEN "down" ELSE "drains"]
        /\ cancels' = cancels \cup (run.agents \cap RunningTasks)
        /\ managerLock' = Released("run")
        /\ cutShort' = (\/ cutShort \/ run.victims # {}
                        \/ run.at \in {"drains", "closeAgents", "closeLock"})
  /\ UNCHANGED <<agent, sessions, alive, owner, refusing, stopsServed, killFaults, stopped>>
-----------------------------------------------------------------------------
BackgroundNext ==
  \/ \E a \in Subagents : \/ SpawnAgent(a) \/ AgentEnds(a)
                          \/ CancelArrives(a) \/ CancelSwallowed(a)
                          \/ StartGranted(a) \/ SpawnReturns(a) \/ SpawnFails(a)
                          \/ WriteTurn(a) \/ PollReturns(a) \/ PopTurn(a)
                          \/ \E c \in Commands : Calls(a, c) \/ ReapsIdle(a, c)
  \/ \E c \in Commands : Exit(c)
  \/ \E key \in Keys : CancelBegins(key)
  \/ StopTurnsEnd \/ AgentsEnd \/ StopTakesOut \/ CloseTakesOut
  \/ Kills \/ KillsFail \/ PutsBack \/ RunStops \/ DrainEnds \/ Signal

BackgroundSpec == BackgroundInit /\ [][BackgroundNext]_backgroundVars

(* A process that runs can be reached: it is in the table of its manager,  *)
(* or about to be killed.  There are no more of them than allowed.  When a *)
(* /stop is over, no subagent of the session runs and none of the          *)
(* processes they had started.  When everything is closed, no process is   *)
(* left.  Excepted are a kill that raised, and killing or closing that was *)
(* itself cancelled half way.                                              *)
NothingOutlives ==
  /\ ~cutShort => alive \subseteq sessions \cup run.victims
  /\ killFaults = 0 => Cardinality(sessions) <= MaxSessions
  /\ stopped \cap (RunningTasks \cup alive) = {}
  /\ (run.at = "down" /\ ~cutShort /\ killFaults = 0) => alive = {}

(* The inductive invariant behind it.  A process is started under the      *)
(* lock, by one subagent, and has an owner from then on; who takes it out  *)
(* of the table has seen it end.                                           *)
StartsAlone ==
  /\ \A c \in sessions \cup alive \cup run.victims : owner[c] # "none"
  /\ \A a \in Subagents :
       /\ agent[a].at = "spawning" => agent[a].op = "start" /\ Owns(a)
       /\ agent[a].at \in {"lock", "spawning"} /\ agent[a].op = "start" =>
            /\ agent[a].cmd \in Commands /\ owner[agent[a].cmd] = "none"
            /\ \A b \in Subagents \ {a} : agent[b].cmd # agent[a].cmd
       /\ agent[a].at = "polling" \/ (agent[a].at = "lock" /\ agent[a].op # "start") =>
            agent[a].cmd \in Commands /\ owner[agent[a].cmd] # "none"
       /\ agent[a].at = "lock" /\ agent[a].op = "pop" => agent[a].cmd \notin alive

(* A table that refuses is closed: nothing is being started for it, and    *)
(* what is in it could not be killed.                                      *)
TableClosed ==
  /\ refusing => \A a \in Subagents : agent[a].at # "spawning"
  /\ refusing /\ killFaults = 0 => sessions = {}
  /\ run.at = "closeKills" => refusing
  /\ run.at = "down" /\ ~cutShort /\ killFaults = 0 => refusing

(* While a /stop awaits the subagents of its session, and then kills its   *)
(* processes, no turn of the session is there to spawn others.             *)
StopInOrder ==
  /\ cutShort => run.at \in Closes \cup {"down"}
  /\ run.victims # {} => run.at \in {"stopKills", "closeKills", "stopPutBack", "closePutBack"}
  /\ run.at \in {"stopPutBack", "closePutBack"} => killFaults > 0
  /\ run.at \in {"stopTurns", "stopAgents", "stopLock", "stopKills"} => run.key \in Keys
  /\ run.at = "stopAgents" => OfKey(run.key) \subseteq run.agents
  /\ run.at \in {"stopLock", "stopKills"} => OfKey(run.key) = {}
  /\ run.at = "stopKills" => \A c \in sessions : owner[c] # run.key

(* One more may be started only where there is room for it.                *)
WithinLimits ==
  /\ IsFiniteSet(sessions) /\ IsFiniteSet(run.victims) /\ IsFiniteSet(RunningTasks)
  /\ killFaults = 0 /\ (\E a \in Subagents : agent[a].at = "spawning") =>
       Cardinality(sessions) < MaxSessions

(* What was stopped is over, for good.                                     *)
StoppedIsOver ==
  /\ \A a \in Subagents : a \in stopped => agent[a].at = "ended"
  /\ \A c \in Commands : c \in stopped => owner[c] # "none"

(* The inductive invariant behind NothingOutlives: who runs is in the table *)
(* it was put in, and knows what /stop or close_mcp has taken out of it    *)
(* (SubagentManager, ExecSessionManager).                                  *)
BackgroundIInv ==
  /\ BackgroundTypeOK /\ StartsAlone /\ TableClosed /\ StopInOrder
  /\ WithinLimits /\ StoppedIsOver /\ NothingOutlives
=============================================================================
