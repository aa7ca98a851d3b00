------------------------ MODULE BackgroundWorkProofs ------------------------
(***************************************************************************)
(* Machine-checked proofs about BackgroundWork, for every set of sessions, *)
(* subagents and commands and every limit: nothing outlives a /stop, and   *)
(* no process runs that nobody can reach.                                  *)
(***************************************************************************)
EXTENDS BackgroundWork, QueueLemmas, FiniteSetTheorems

Places == {"none", "working", "lock", "spawning", "polling", "ended"}
Operations == {"none", "start", "write", "pop"}
Tasks == [at : Places, op : Operations, cmd : Commands \cup {NoCommand}]
Users == Subagents \cup {"run"}

(* The parts of the type invariant.                                        *)
AgentTypes ==
  /\ agent \in [Subagents -> Tasks]
  /\ cancels \subseteq RunningTasks /\ Cardinality(RunningTasks) <= MaxSubagents
LockTypes ==
  /\ managerLock \in Seq(Users) /\ IsInjective(managerLock)
  /\ ToSet(managerLock) = {a \in Subagents : agent[a].at \in {"lock", "spawning"}}
                            \cup {r \in {"run"} : run.at \in Waits}
ManagerTypes ==
  /\ sessions \subseteq Commands /\ alive \subseteq Commands
  /\ owner \in [Commands -> Keys \cup {"none"}] /\ refusing \in BOOLEAN
RunTypes ==
  /\ run \in [at : Waits \cup {"serving", "stopTurns", "stopAgents", "stopKills",
                               "drains", "closeAgents", "closeKills", "down"},
              key : Keys \cup {"none"}, agents : SUBSET Subagents, victims : SUBSET Commands]
  /\ cutShort \in BOOLEAN
  /\ signals \in 0..2 /\ stopsServed \in 0..MaxAgentStops /\ killFaults \in 0..MaxKillFaults
  /\ stopped \subseteq Subagents \cup Commands

LEMMA TypeParts == BackgroundTypeOK <=> AgentTypes /\ LockTypes /\ ManagerTypes /\ RunTypes
BY DEF BackgroundTypeOK, AgentTypes, LockTypes, ManagerTypes, RunTypes, Tasks, Places, Operations, Users

(* A subagent moves: it is where it moved to, and the others stay.         *)
Moved(a, at, op, c) ==
  /\ agent' \in [Subagents -> Tasks]
  /\ agent'[a].at = at /\ agent'[a].op = op /\ agent'[a].cmd = c
  /\ \A b \in Subagents \ {a} : agent'[b] = agent[b]

LEMMA MovesFacts ==
  ASSUME BackgroundTypeOK, NEW a \in Subagents, NEW at \in Places, NEW op \in Operations,
         NEW c \in Commands \cup {NoCommand}, Moves(a, at, op, c)
  PROVE  Moved(a, at, op, c)
<1>1. agent \in [Subagents -> Tasks]
  BY TypeParts DEF AgentTypes
<1> QED BY <1>1 DEF Moves, Moved, Tasks

LEMMA TaskFacts ==
  ASSUME BackgroundTypeOK, NEW a \in Subagents
  PROVE  /\ agent[a].at \in Places /\ agent[a].op \in Operations
         /\ agent[a].cmd \in Commands \cup {NoCommand}
         /\ a \in RunningTasks <=> agent[a].at \notin {"none", "ended"}
<1>1. agent \in [Subagents -> Tasks]
  BY TypeParts DEF AgentTypes
<1> QED BY <1>1 DEF Tasks, RunningTasks, Runs

(* The table of running subagents follows.                                 *)
LEMMA MovedTasks ==
  ASSUME NEW a \in Subagents, NEW at, NEW op, NEW c, Moved(a, at, op, c)
  PROVE  /\ at \notin {"none", "ended"} => RunningTasks' = RunningTasks \cup {a}
         /\ at = "ended" => RunningTasks' = RunningTasks \ {a}
         /\ \A b \in Subagents : b # a => (Runs(b)' <=> Runs(b))
         /\ Runs(a)' <=> at \notin {"none", "ended"}
BY DEF Moved, RunningTasks, Runs

LEMMA AgentTypesKept ==
  ASSUME BackgroundIInv, NEW a \in Subagents, NEW at, NEW op, NEW c, Moved(a, at, op, c),
         \/ at = "ended" /\ cancels' \subseteq cancels \ {a}
         \/ /\ at \notin {"none", "ended"} /\ cancels' \subseteq cancels
            /\ Runs(a) \/ Cardinality(RunningTasks) < MaxSubagents
  PROVE  AgentTypes' /\ IsFiniteSet(RunningTasks)'
<1>1. /\ cancels \subseteq RunningTasks /\ Cardinality(RunningTasks) <= MaxSubagents
      /\ IsFiniteSet(RunningTasks) /\ Cardinality(RunningTasks) \in Nat /\ MaxSubagents \in Nat
  BY TypeParts, FS_CardinalityType, BackgroundAssumption DEF BackgroundIInv, AgentTypes, WithinLimits
<1>2. agent' \in [Subagents -> Tasks]
  BY DEF Moved
<1>3. CASE at = "ended" /\ cancels' \subseteq cancels \ {a}
  <2>1. RunningTasks' = RunningTasks \ {a}
    BY <1>3, MovedTasks
  <2>2. IsFiniteSet(RunningTasks)' /\ Cardinality(RunningTasks') <= Cardinality(RunningTasks)
    BY <1>1, <2>1, FS_RemoveElement
  <2>3. (Cardinality(RunningTasks) <= MaxSubagents)'
    <3>1. Cardinality(RunningTasks') \in Nat
      BY <2>2, FS_CardinalityType
    <3> QED BY <1>1, <2>2, <3>1
  <2> QED BY <1>1, <1>2, <1>3, <2>1, <2>2, <2>3 DEF AgentTypes
<1>4. CASE /\ at \notin {"none", "ended"} /\ cancels' \subseteq cancels
           /\ Runs(a) \/ Cardinality(RunningTasks) < MaxSubagents
  <2>1. RunningTasks' = RunningTasks \cup {a}
    BY <1>4, MovedTasks
  <2>2. IsFiniteSet(RunningTasks)'
    BY <1>1, <2>1, FS_AddElement
  <2>3. Cardinality(RunningTasks') = IF a \in RunningTasks THEN Cardinality(RunningTasks)
                                     ELSE Cardinality(RunningTasks) + 1
    BY <1>1, <2>1, FS_AddElement
  <2>4. (Cardinality(RunningTasks) <= MaxSubagents)'
    BY <1>1, <1>4, <2>3 DEF RunningTasks
  <2> QED BY <1>1, <1>2, <1>4, <2>1, <2>2, <2>4 DEF AgentTypes
<1> QED BY <1>3, <1>4

(* The lock: who joins is the last, who leaves passes it on.               *)
LEMMA LockFacts ==
  ASSUME BackgroundTypeOK
  PROVE  /\ managerLock \in Seq(Users) /\ IsInjective(managerLock)
         /\ \A a \in Subagents : a \in ToSet(managerLock) <=> agent[a].at \in {"lock", "spawning"}
         /\ "run" \in ToSet(managerLock) <=> run.at \in Waits
         /\ ToSet(managerLock) \subseteq Users
BY TypeParts, BackgroundAssumption DEF LockTypes, Users

LEMMA JoinFacts ==
  ASSUME BackgroundTypeOK, NEW x \in Users, x \notin ToSet(managerLock)
  PROVE  /\ Append(managerLock, x) \in Seq(Users) /\ IsInjective(Append(managerLock, x))
         /\ ToSet(Append(managerLock, x)) = ToSet(managerLock) \cup {x}
         /\ \A y : Owns(y) => Append(managerLock, x) # <<>> /\ Head(Append(managerLock, x)) = y
<1>1. managerLock \in Seq(Users) /\ IsInjective(managerLock)
  BY LockFacts
<1> DEFINE q == managerLock
<1> HIDE DEF q
<1>2. /\ Append(q, x) \in Seq(Users) /\ ToSet(Append(q, x)) = ToSet(q) \cup {x}
      /\ IsInjective(Append(q, x))
  BY <1>1, AppendFacts DEF q
<1>3. Append(q, x) # <<>> /\ (q # <<>> => Head(Append(q, x)) = Head(q))
  <2>1. /\ Append(q, x) \in Seq(Users) /\ Len(Append(q, x)) = Len(q) + 1 /\ Len(q) \in Nat
        /\ \A i \in 1..Len(q) : Append(q, x)[i] = q[i]
    BY <1>1, AppendProperties DEF q
  <2>2. Append(q, x) # <<>>
    BY <2>1
  <2>3. q # <<>> => 1 \in 1..Len(q)
    BY <1>1 DEF q
  <2> QED BY <2>1, <2>2, <2>3
<1> QED BY <1>2, <1>3 DEF q, Owns

LEMMA LeaveFacts ==
  ASSUME BackgroundTypeOK, NEW x
  PROVE  /\ Released(x) \in Seq(Users) /\ IsInjective(Released(x))
         /\ ToSet(Released(x)) = ToSet(managerLock) \ {x}
         /\ \A y : Owns(y) /\ y # x => Released(x) # <<>> /\ Head(Released(x)) = y
<1> DEFINE q == managerLock
<1>1. q \in Seq(Users) /\ IsInjective(q)
  BY LockFacts
<1> HIDE DEF q
<1>2. CASE ~Contains(q, x)
  <2>1. x \notin ToSet(q) /\ Released(x) = q
    BY <1>1, <1>2 DEF Contains, Released, ToSet, q
  <2> QED BY <1>1, <2>1 DEF Owns, q
<1>3. CASE Contains(q, x)
  <2>1. \E i \in DOMAIN q : q[i] = x
    BY <1>1, <1>3 DEF Contains
  <2>2. PICK i \in DOMAIN q : q[i] = x /\ i = CHOOSE j \in DOMAIN q : q[j] = x
    BY <2>1
  <2>3. Released(x) = RemoveAt(q, i)
    BY <1>3, <2>2 DEF Released, q
  <2>4. /\ RemoveAt(q, i) \in Seq(Users) /\ IsInjective(RemoveAt(q, i))
        /\ ToSet(RemoveAt(q, i)) = ToSet(q) \ {x}
    BY <1>1, <2>2, RemoveAtFacts
  <2>5. ASSUME NEW y, Owns(y), y # x
        PROVE  RemoveAt(q, i) # <<>> /\ Head(RemoveAt(q, i)) = y
    <3>1. /\ Len(RemoveAt(q, i)) = Len(q) - 1 /\ Len(q) \in Nat /\ i \in 1..Len(q)
          /\ \A j \in 1..Len(q) - 1 : RemoveAt(q, i)[j] = IF j < i THEN q[j] ELSE q[j + 1]
      BY <1>1, RemoveAtShape
    <3>2. q[1] = y /\ i # 1
      BY <1>1, <2>2, <2>5 DEF Owns, q
    <3>3. RemoveAt(q, i)[1] = y /\ Len(RemoveAt(q, i)) >= 1
      BY <3>1, <3>2
    <3> QED BY <2>4, <3>3
  <2> QED BY <2>3, <2>4, <2>5 DEF q
<1> QED BY <1>2, <1>3

(* The users of the lock are those who wait for it or hold it.             *)
LEMMA LockTypesKept ==
  ASSUME BackgroundTypeOK, NEW a \in Subagents, NEW at, NEW op, NEW c, Moved(a, at, op, c),
         run' = run,
         \/ at \notin {"lock", "spawning"} /\ managerLock' = Released(a)
         \/ /\ at = "lock" /\ agent[a].at \notin {"lock", "spawning"}
            /\ managerLock' = Append(managerLock, a)
         \/ /\ at \in {"lock", "spawning"} <=> agent[a].at \in {"lock", "spawning"}
            /\ managerLock' = managerLock
  PROVE  LockTypes'
<1>1. a \in Users /\ a # "run"
  BY BackgroundAssumption DEF Users
<1>2. \A b \in Subagents \ {a} : agent'[b].at = agent[b].at
  BY DEF Moved
<1>3. agent'[a].at = at
  BY DEF Moved
<1>4. SUFFICES /\ managerLock' \in Seq(Users) /\ IsInjective(managerLock')
               /\ \A b \in Subagents : b \in ToSet(managerLock') <=> agent'[b].at \in {"lock", "spawning"}
               /\ "run" \in ToSet(managerLock') <=> run.at \in Waits
               /\ ToSet(managerLock') \subseteq Users
  BY DEF LockTypes, Users
<1>5. CASE at \notin {"lock", "spawning"} /\ managerLock' = Released(a)
  BY <1>1, <1>2, <1>3, <1>5, LockFacts, LeaveFacts
<1>6. CASE /\ at = "lock" /\ agent[a].at \notin {"lock", "spawning"}
           /\ managerLock' = Append(managerLock, a)
  BY <1>1, <1>2, <1>3, <1>6, LockFacts, JoinFacts
<1>7. CASE /\ at \in {"lock", "spawning"} <=> agent[a].at \in {"lock", "spawning"}
           /\ managerLock' = managerLock
  BY <1>1, <1>2, <1>3, <1>7, LockFacts
<1> QED BY <1>5, <1>6, <1>7

LEMMA RunLockKept ==
  ASSUME BackgroundTypeOK, agent' = agent,
         \/ run'.at \notin Waits /\ managerLock' = Released("run")
         \/ run'.at \in Waits /\ run.at \notin Waits /\ managerLock' = Append(managerLock, "run")
         \/ (run'.at \in Waits <=> run.at \in Waits) /\ managerLock' = managerLock
  PROVE  LockTypes'
<1>1. "run" \in Users /\ "run" \notin Subagents
  BY BackgroundAssumption DEF Users
<1>2. SUFFICES /\ managerLock' \in Seq(Users) /\ IsInjective(managerLock')
               /\ \A b \in Subagents : b \in ToSet(managerLock') <=> agent[b].at \in {"lock", "spawning"}
               /\ "run" \in ToSet(managerLock') <=> run'.at \in Waits
               /\ ToSet(managerLock') \subseteq Users
  BY <1>1 DEF LockTypes, Users
<1>3. CASE run'.at \notin Waits /\ managerLock' = Released("run")
  BY <1>1, <1>3, LockFacts, LeaveFacts
<1>4. CASE run'.at \in Waits /\ run.at \notin Waits /\ managerLock' = Append(managerLock, "run")
  BY <1>1, <1>4, LockFacts, JoinFacts
<1>5. CASE (run'.at \in Waits <=> run.at \in Waits) /\ managerLock' = managerLock
  BY <1>5, LockFacts
<1> QED BY <1>3, <1>4, <1>5
-----------------------------------------------------------------------------
THEOREM BackgroundStart == BackgroundInit => BackgroundIInv
<1> SUFFICES ASSUME BackgroundInit PROVE BackgroundIInv
  OBVIOUS
<1> USE DEF BackgroundInit
<1>1. \A a \in Subagents : agent[a] = NoTask
  OBVIOUS
<1>2. RunningTasks = {} /\ IsFiniteSet(RunningTasks) /\ Cardinality(RunningTasks) = 0
  BY <1>1, FS_EmptySet DEF RunningTasks, Runs, NoTask
<1>3. AgentTypes
  <2>1. NoTask \in Tasks
    BY DEF NoTask, Tasks, Places, Operations
  <2> QED BY <1>2, <2>1, BackgroundAssumption DEF AgentTypes
<1>4. LockTypes
  <2>1. /\ {a \in Subagents : agent[a].at \in {"lock", "spawning"}} = {}
        /\ {r \in {"run"} : run.at \in Waits} = {}
    BY <1>1 DEF NoTask, Serving, Waits
  <2>2. <<>> \in Seq(Users) /\ IsInjective(<<>>) /\ ToSet(<<>>) = {}
    BY EmptyFacts
  <2> QED BY <2>1, <2>2 DEF LockTypes
<1>5. ManagerTypes /\ RunTypes
  <2>1. ManagerTypes
    BY DEF ManagerTypes
  <2>2. Serving \in [at : Waits \cup {"serving", "stopTurns", "stopAgents", "stopKills",
                                      "drains", "closeAgents", "closeKills", "down"},
                     key : Keys \cup {"none"}, agents : SUBSET Subagents, victims : SUBSET Commands]
    BY DEF Serving
  <2>3. 0 \in 0..2 /\ 0 \in 0..MaxAgentStops /\ 0 \in 0..MaxKillFaults
    BY BackgroundAssumption
  <2>4. RunTypes
    BY <2>2, <2>3 DEF RunTypes
  <2> QED BY <2>1, <2>4
<1>6. StartsAlone /\ TableClosed /\ StopInOrder
  BY <1>1 DEF StartsAlone, TableClosed, StopInOrder, NoTask, Serving
<1>7. IsFiniteSet(sessions) /\ Cardinality(sessions) = 0
  BY FS_EmptySet
<1>8. WithinLimits /\ StoppedIsOver /\ NothingOutlives
  BY <1>1, <1>2, <1>7, BackgroundAssumption
     DEF WithinLimits, StoppedIsOver, NothingOutlives, NoTask, Serving
<1> QED BY <1>3, <1>4, <1>5, <1>6, <1>8, TypeParts DEF BackgroundIInv
-----------------------------------------------------------------------------
(* What each step of a subagent does.                                      *)
StaysBut(a, at, op, c) ==
  Moved(a, at, op, c) /\ UNCHANGED <<refusing, runVars>>

LEMMA SpawnAgentDoes ==
  ASSUME BackgroundTypeOK, NEW a \in Subagents, SpawnAgent(a)
  PROVE  /\ StaysBut(a, "working", "none", NoCommand)
         /\ UNCHANGED <<cancels, managerLock, sessions, alive, owner>>
         /\ agent[a].at = "none" /\ Cardinality(RunningTasks) < MaxSubagents
         /\ ParentOf[a] = run.key => run.at = "stopTurns"
BY MovesFacts DEF SpawnAgent, Works, StaysBut, managerVars, Places, Operations

LEMMA AgentEndsDoes ==
  ASSUME BackgroundTypeOK, NEW a \in Subagents, AgentEnds(a)
  PROVE  /\ StaysBut(a, "ended", "none", NoCommand)
         /\ UNCHANGED <<cancels, managerLock, sessions, alive, owner>>
         /\ agent[a].at = "working" /\ a \notin cancels
BY MovesFacts DEF AgentEnds, Goes, StaysBut, managerVars, Places, Operations

LEMMA CancelArrivesDoes ==
  ASSUME BackgroundTypeOK, NEW a \in Subagents, CancelArrives(a)
  PROVE  /\ StaysBut(a, "ended", "none", NoCommand)
         /\ UNCHANGED <<sessions, alive, owner>>
         /\ cancels' = cancels \ {a} /\ managerLock' = Released(a)
BY MovesFacts DEF CancelArrives, StaysBut, managerVars, Places, Operations

LEMMA AsksDoes ==
  ASSUME BackgroundTypeOK, NEW a \in Subagents, NEW op \in Operations,
         NEW c \in Commands \cup {NoCommand}, Asks(a, op, c)
  PROVE  /\ StaysBut(a, "lock", op, c)
         /\ UNCHANGED <<cancels, sessions, alive, owner>> /\ managerLock' = Append(managerLock, a)
BY MovesFacts DEF Asks, StaysBut, managerVars, Places

LEMMA CallsDoes ==
  ASSUME BackgroundTypeOK, NEW a \in Subagents, NEW c \in Commands, Calls(a, c)
  PROVE  \E op \in {"start", "write"} :
           /\ StaysBut(a, "lock", op, c)
           /\ UNCHANGED <<cancels, sessions, alive, owner>> /\ managerLock' = Append(managerLock, a)
           /\ agent[a].at = "working"
           /\ op = "start" => owner[c] = "none" /\ \A b \in Subagents : agent[b].cmd # c
           /\ op = "write" => c \in sessions
BY AsksDoes DEF Calls, Goes, Unused, Operations

LEMMA ReapsIdleDoes ==
  ASSUME BackgroundTypeOK, NEW a \in Subagents, NEW c \in Commands, ReapsIdle(a, c)
  PROVE  /\ UNCHANGED <<owner, refusing, runVars>> /\ c \in sessions /\ alive' = alive \ {c}
         /\ Owns(a) /\ agent[a].at = "lock" /\ agent[a].op \in {"start", "write"}
         /\ \/ sessions' = sessions \ {c} /\ UNCHANGED <<agentVars, managerLock>>
            \/ /\ Moved(a, "ended", "none", NoCommand) /\ sessions' = sessions
               /\ cancels' = cancels \ {a} /\ managerLock' = Released(a)
BY MovesFacts DEF ReapsIdle, Places, Operations

LEMMA StartGrantedDoes ==
  ASSUME BackgroundTypeOK, NEW a \in Subagents, StartGranted(a)
  PROVE  /\ UNCHANGED <<cancels, sessions, alive, owner>>
         /\ Owns(a) /\ agent[a].at = "lock" /\ agent[a].op = "start"
         /\ \/ /\ StaysBut(a, "spawning", "start", agent[a].cmd) /\ managerLock' = managerLock
               /\ ~refusing /\ Cardinality(sessions) < MaxSessions
            \/ StaysBut(a, "working", "none", NoCommand) /\ managerLock' = Released(a)
BY MovesFacts, TaskFacts DEF StartGranted, MayStart, Goes, Works, StaysBut, Places, Operations

LEMMA SpawnReturnsDoes ==
  ASSUME BackgroundTypeOK, NEW a \in Subagents, SpawnReturns(a)
  PROVE  /\ StaysBut(a, "polling", "start", agent[a].cmd)
         /\ cancels' = cancels /\ managerLock' = Released(a) /\ agent[a].at = "spawning"
         /\ sessions' = sessions \cup {agent[a].cmd} /\ alive' = alive \cup {agent[a].cmd}
         /\ owner' = [owner EXCEPT ![agent[a].cmd] = ParentOf[a]]
BY MovesFacts, TaskFacts DEF SpawnReturns, Goes, StaysBut, Places, Operations

LEMMA SpawnFailsDoes ==
  ASSUME BackgroundTypeOK, NEW a \in Subagents, SpawnFails(a)
  PROVE  /\ StaysBut(a, "working", "none", NoCommand) /\ agent[a].at = "spawning"
         /\ UNCHANGED <<cancels, sessions, alive, owner>> /\ managerLock' = Released(a)
BY MovesFacts DEF SpawnFails, Goes, Works, StaysBut, Places, Operations

LEMMA WriteTurnDoes ==
  ASSUME BackgroundTypeOK, NEW a \in Subagents, WriteTurn(a)
  PROVE  /\ UNCHANGED <<cancels, sessions, owner>> /\ managerLock' = Released(a)
         /\ Owns(a) /\ agent[a].at = "lock" /\ agent[a].op = "write"
         /\ alive' \in {alive, alive \ {agent[a].cmd}}
         /\ \/ StaysBut(a, "polling", "write", agent[a].cmd)
            \/ StaysBut(a, "working", "none", NoCommand)
BY MovesFacts, TaskFacts DEF WriteTurn, Goes, Works, StaysBut, Places, Operations

LEMMA PollReturnsDoes ==
  ASSUME BackgroundTypeOK, NEW a \in Subagents, PollReturns(a)
  PROVE  /\ UNCHANGED <<cancels, sessions, alive, owner>> /\ agent[a].at = "polling"
         /\ \/ StaysBut(a, "working", "none", NoCommand) /\ managerLock' = managerLock
            \/ /\ StaysBut(a, "lock", "pop", agent[a].cmd) /\ agent[a].cmd \notin alive
               /\ managerLock' = Append(managerLock, a)
<1>1. CASE Works(a) /\ UNCHANGED <<cancels, managerVars, runVars>>
  BY <1>1, MovesFacts DEF PollReturns, Goes, Works, StaysBut, managerVars, Places, Operations
<1>2. CASE agent[a].cmd \notin alive /\ Asks(a, "pop", agent[a].cmd)
  BY <1>2, AsksDoes, TaskFacts DEF PollReturns, Goes, Operations
<1> QED BY <1>1, <1>2 DEF PollReturns

LEMMA PopTurnDoes ==
  ASSUME BackgroundTypeOK, NEW a \in Subagents, PopTurn(a)
  PROVE  /\ StaysBut(a, "working", "none", NoCommand) /\ managerLock' = Released(a)
         /\ UNCHANGED <<cancels, alive, owner>> /\ sessions' = sessions \ {agent[a].cmd}
         /\ Owns(a) /\ agent[a].at = "lock" /\ agent[a].op = "pop"
BY MovesFacts DEF PopTurn, Goes, Works, StaysBut, Places, Operations
-----------------------------------------------------------------------------
SubagentStep(a) ==
  \/ SpawnAgent(a) \/ AgentEnds(a) \/ CancelArrives(a) \/ CancelSwallowed(a)
  \/ StartGranted(a) \/ SpawnReturns(a) \/ SpawnFails(a)
  \/ WriteTurn(a) \/ PollReturns(a) \/ PopTurn(a)
  \/ \E c \in Commands : Calls(a, c) \/ ReapsIdle(a, c)

(* Types through the steps of subagents.                                   *)
LEMMA SubagentTypes ==
  ASSUME BackgroundIInv, NEW a \in Subagents, SubagentStep(a)
  PROVE  BackgroundTypeOK' /\ IsFiniteSet(RunningTasks)'
<1>1. /\ BackgroundTypeOK /\ AgentTypes /\ LockTypes /\ ManagerTypes /\ RunTypes
      /\ IsFiniteSet(RunningTasks) /\ cancels \subseteq RunningTasks
      /\ ParentOf[a] \in Keys
  BY TypeParts, BackgroundAssumption DEF BackgroundIInv, WithinLimits, AgentTypes
<1>2. /\ agent[a].at \in Places /\ agent[a].cmd \in Commands \cup {NoCommand}
      /\ Runs(a) <=> agent[a].at \notin {"none", "ended"}
  BY <1>1, TaskFacts DEF Runs
<1>3. SUFFICES AgentTypes' /\ LockTypes' /\ ManagerTypes' /\ RunTypes' /\ IsFiniteSet(RunningTasks)'
  BY TypeParts DEF BackgroundTypeOK, AgentTypes, LockTypes, ManagerTypes, RunTypes, Tasks,
                   Places, Operations, Users
<1>4. UNCHANGED runVars => RunTypes'
  BY <1>1 DEF RunTypes, runVars
<1>5. UNCHANGED <<agent, cancels>> => AgentTypes' /\ IsFiniteSet(RunningTasks)'
  BY <1>1 DEF AgentTypes, RunningTasks, Runs
<1>6. UNCHANGED <<sessions, alive, owner, refusing>> => ManagerTypes'
  BY <1>1 DEF ManagerTypes
<1>7. UNCHANGED runVars => run' = run
  BY DEF runVars
<1>8. CASE SpawnAgent(a)
  BY <1>1, <1>2, <1>4, <1>6, <1>7, <1>8, SpawnAgentDoes, AgentTypesKept, LockTypesKept DEF StaysBut
<1>9. CASE AgentEnds(a)
  BY <1>1, <1>2, <1>4, <1>6, <1>7, <1>9, AgentEndsDoes, AgentTypesKept, LockTypesKept DEF StaysBut
<1>10. CASE CancelArrives(a)
  BY <1>1, <1>2, <1>4, <1>6, <1>7, <1>10, CancelArrivesDoes, AgentTypesKept, LockTypesKept DEF StaysBut
<1>11. CASE CancelSwallowed(a)
  BY <1>1, <1>11 DEF CancelSwallowed, AgentTypes, LockTypes, ManagerTypes, RunTypes, RunningTasks,
                     Runs, managerVars, runVars
<1>12. CASE StartGranted(a)
  BY <1>1, <1>2, <1>4, <1>6, <1>7, <1>12, StartGrantedDoes, AgentTypesKept, LockTypesKept DEF StaysBut
<1>13. CASE SpawnReturns(a)
  <2>1. agent[a].cmd \in Commands
    BY <1>13, SpawnReturnsDoes DEF BackgroundIInv, StartsAlone
  <2>2. ManagerTypes'
    BY <1>1, <1>13, <2>1, SpawnReturnsDoes DEF ManagerTypes, StaysBut
  <2> QED BY <1>1, <1>2, <1>4, <1>7, <1>13, <2>2, SpawnReturnsDoes, AgentTypesKept, LockTypesKept
          DEF StaysBut
<1>14. CASE SpawnFails(a)
  BY <1>1, <1>2, <1>4, <1>6, <1>7, <1>14, SpawnFailsDoes, AgentTypesKept, LockTypesKept DEF StaysBut
<1>15. CASE WriteTurn(a)
  <2>1. ManagerTypes'
    BY <1>1, <1>15, WriteTurnDoes DEF ManagerTypes, StaysBut
  <2> QED BY <1>1, <1>2, <1>4, <1>7, <1>15, <2>1, WriteTurnDoes, AgentTypesKept, LockTypesKept
          DEF StaysBut
<1>16. CASE PollReturns(a)
  BY <1>1, <1>2, <1>4, <1>6, <1>7, <1>16, PollReturnsDoes, AgentTypesKept, LockTypesKept DEF StaysBut
<1>17. CASE PopTurn(a)
  <2>1. ManagerTypes'
    BY <1>1, <1>17, PopTurnDoes DEF ManagerTypes, StaysBut
  <2> QED BY <1>1, <1>2, <1>4, <1>7, <1>17, <2>1, PopTurnDoes, AgentTypesKept, LockTypesKept
          DEF StaysBut
<1>18. ASSUME NEW c \in Commands, Calls(a, c)
       PROVE  AgentTypes' /\ LockTypes' /\ ManagerTypes' /\ RunTypes' /\ IsFiniteSet(RunningTasks)'
  <2>1. PICK op \in {"start", "write"} :
          /\ StaysBut(a, "lock", op, c)
          /\ UNCHANGED <<cancels, sessions, alive, owner>> /\ managerLock' = Append(managerLock, a)
          /\ agent[a].at = "working"
    BY <1>1, <1>18, CallsDoes
  <2> QED BY <1>1, <1>2, <1>4, <1>6, <1>7, <2>1, AgentTypesKept, LockTypesKept DEF StaysBut
<1>19. ASSUME NEW c \in Commands, ReapsIdle(a, c)
       PROVE  AgentTypes' /\ LockTypes' /\ ManagerTypes' /\ RunTypes' /\ IsFiniteSet(RunningTasks)'
  <2>1. ManagerTypes' /\ RunTypes' /\ run' = run
    BY <1>1, <1>4, <1>7, <1>19, ReapsIdleDoes DEF ManagerTypes
  <2>2. CASE UNCHANGED <<agentVars, managerLock>>
    BY <1>1, <2>1, <2>2 DEF AgentTypes, LockTypes, RunningTasks, Runs, agentVars
  <2>3. CASE /\ Moved(a, "ended", "none", NoCommand)
             /\ cancels' = cancels \ {a} /\ managerLock' = Released(a)
    BY <1>1, <2>1, <2>3, AgentTypesKept, LockTypesKept
  <2> QED BY <1>1, <1>19, <2>1, <2>2, <2>3, ReapsIdleDoes
<1> QED BY <1>8, <1>9, <1>10, <1>11, <1>12, <1>13, <1>14, <1>15, <1>16, <1>17, <1>18, <1>19
        DEF SubagentStep

(* What a subagent does to the table: it adds a process of its own, or     *)
(* takes one out.                                                          *)
LEMMA SubagentTable ==
  ASSUME BackgroundIInv, NEW a \in Subagents, SubagentStep(a)
  PROVE  /\ UNCHANGED <<refusing, runVars>>
         /\ \/ UNCHANGED <<sessions, owner>> /\ alive' \subseteq alive
            \/ /\ UNCHANGED owner /\ alive' \subseteq alive
               /\ \E c \in Commands : sessions' = sessions \ {c} /\ c \notin alive'
            \/ /\ SpawnReturns(a) /\ agent[a].at = "spawning"
               /\ sessions' = sessions \cup {agent[a].cmd} /\ alive' = alive \cup {agent[a].cmd}
               /\ agent[a].cmd \in Commands /\ owner[agent[a].cmd] = "none"
               /\ owner' = [owner EXCEPT ![agent[a].cmd] = ParentOf[a]]
<1>1. BackgroundTypeOK /\ StartsAlone
  BY DEF BackgroundIInv
<1>2. CASE SpawnAgent(a)
  BY <1>1, <1>2, SpawnAgentDoes DEF StaysBut
<1>3. CASE AgentEnds(a)
  BY <1>1, <1>3, AgentEndsDoes DEF StaysBut
<1>4. CASE CancelArrives(a)
  BY <1>1, <1>4, CancelArrivesDoes DEF StaysBut
<1>5. CASE CancelSwallowed(a)
  BY <1>5 DEF CancelSwallowed, managerVars
<1>6. CASE StartGranted(a)
  BY <1>1, <1>6, StartGrantedDoes DEF StaysBut
<1>7. CASE SpawnReturns(a)
  BY <1>1, <1>7, SpawnReturnsDoes DEF StaysBut, StartsAlone
<1>8. CASE SpawnFails(a)
  BY <1>1, <1>8, SpawnFailsDoes DEF StaysBut
<1>9. CASE WriteTurn(a)
  BY <1>1, <1>9, WriteTurnDoes DEF StaysBut
<1>10. CASE PollReturns(a)
  BY <1>1, <1>10, PollReturnsDoes DEF StaysBut
<1>11. CASE PopTurn(a)
  <2>1. agent[a].cmd \in Commands /\ agent[a].cmd \notin alive
    BY <1>1, <1>11, PopTurnDoes DEF StartsAlone
  <2> QED BY <1>1, <1>11, <2>1, PopTurnDoes DEF StaysBut
<1>12. ASSUME NEW c \in Commands, Calls(a, c)
       PROVE  UNCHANGED <<refusing, runVars, sessions, alive, owner>>
  BY <1>1, <1>12, CallsDoes DEF StaysBut
<1>13. ASSUME NEW c \in Commands, ReapsIdle(a, c)
       PROVE  /\ UNCHANGED <<refusing, runVars, owner>> /\ alive' \subseteq alive
              /\ sessions' = sessions \/ (sessions' = sessions \ {c} /\ c \notin alive')
  BY <1>1, <1>13, ReapsIdleDoes
<1> QED BY <1>2, <1>3, <1>4, <1>5, <1>6, <1>7, <1>8, <1>9, <1>10, <1>11, <1>12, <1>13
        DEF SubagentStep

(* A process has one starter, and an owner from then on.                   *)
LEMMA SubagentStartsAlone ==
  ASSUME BackgroundIInv, NEW a \in Subagents, SubagentStep(a)
  PROVE  StartsAlone'
<1>1. /\ BackgroundTypeOK /\ StartsAlone /\ NoCommand \notin Commands /\ ParentOf[a] \in Keys
      /\ "none" \notin Keys /\ managerLock \in Seq(Users)
  BY BackgroundAssumption, LockFacts DEF BackgroundIInv
<1>2. \A b \in Subagents : /\ agent[b].at \in Places /\ agent[b].op \in Operations
                           /\ agent[b].cmd \in Commands \cup {NoCommand}
  BY <1>1, TaskFacts
<1>3. owner \in [Commands -> Keys \cup {"none"}]
  BY <1>1, TypeParts DEF ManagerTypes
<1>4. ASSUME NEW b \in Subagents, agent[b].at = "spawning", b # a, managerLock' = Released(a)
      PROVE  Owns(b)'
  BY <1>1, <1>4, LeaveFacts DEF StartsAlone, Owns
<1>5. ASSUME NEW b \in Subagents, agent[b].at = "spawning", managerLock' = Append(managerLock, a),
             agent[a].at \notin {"lock", "spawning"}
      PROVE  Owns(b)'
  <2>1. a \notin ToSet(managerLock) /\ a \in Users
    BY <1>1, <1>5, LockFacts DEF Users
  <2>2. Owns(b)
    BY <1>1, <1>5 DEF StartsAlone
  <2> QED BY <1>1, <1>5, <2>1, <2>2, JoinFacts DEF Owns
<1>6. /\ managerLock' = managerLock => \A b : Owns(b) => Owns(b)'
      /\ run' = run
  BY SubagentTable DEF Owns, runVars
<1>7. CASE SpawnAgent(a)
  BY <1>1, <1>2, <1>6, <1>7, SpawnAgentDoes DEF StartsAlone, StaysBut, Moved
<1>8. CASE AgentEnds(a)
  BY <1>1, <1>2, <1>6, <1>8, AgentEndsDoes DEF StartsAlone, StaysBut, Moved
<1>9. CASE CancelArrives(a)
  BY <1>1, <1>2, <1>4, <1>6, <1>9, CancelArrivesDoes DEF StartsAlone, StaysBut, Moved
<1>10. CASE CancelSwallowed(a)
  BY <1>1, <1>6, <1>10 DEF CancelSwallowed, StartsAlone, managerVars
<1>11. CASE StartGranted(a)
  BY <1>1, <1>2, <1>4, <1>6, <1>11, StartGrantedDoes DEF StartsAlone, StaysBut, Moved
<1>12. CASE SpawnReturns(a)
  <2> DEFINE c == agent[a].cmd
  <2>1. /\ c \in Commands /\ owner[c] = "none" /\ Owns(a)
        /\ \A b \in Subagents \ {a} : agent[b].cmd # c /\ agent[b].at # "spawning"
    BY <1>1, <1>12, SpawnReturnsDoes DEF StartsAlone, Owns
  <2>2. /\ sessions' = sessions \cup {c} /\ alive' = alive \cup {c}
        /\ owner'[c] # "none" /\ \A d \in Commands \ {c} : owner'[d] = owner[d]
        /\ \A d \in Commands : owner[d] # "none" => owner'[d] # "none"
    BY <1>1, <1>3, <1>12, <2>1, SpawnReturnsDoes DEF StaysBut
  <2>3. /\ agent'[a].at = "polling" /\ agent'[a].cmd = c
        /\ \A b \in Subagents \ {a} : agent'[b] = agent[b]
    BY <1>1, <1>12, SpawnReturnsDoes DEF StaysBut, Moved
  <2> HIDE DEF c
  <2>4. \A d \in sessions' \cup alive' \cup run'.victims : owner'[d] # "none"
    <3>1. sessions \cup alive \cup run.victims \subseteq Commands
      BY <1>1, TypeParts DEF ManagerTypes, RunTypes
    <3> QED BY <1>1, <1>6, <2>1, <2>2, <3>1 DEF StartsAlone
  <2>5. ASSUME NEW b \in Subagents
        PROVE  /\ agent'[b].at # "spawning"
               /\ agent'[b].at = "lock" /\ agent'[b].op = "start" =>
                    /\ agent'[b].cmd \in Commands /\ owner'[agent'[b].cmd] = "none"
                    /\ \A d \in Subagents \ {b} : agent'[d].cmd # agent'[b].cmd
               /\ agent'[b].at = "polling" \/ (agent'[b].at = "lock" /\ agent'[b].op # "start") =>
                    agent'[b].cmd \in Commands /\ owner'[agent'[b].cmd] # "none"
               /\ agent'[b].at = "lock" /\ agent'[b].op = "pop" => agent'[b].cmd \notin alive'
    <3>1. CASE b = a
      BY <2>1, <2>2, <2>3, <3>1
    <3>2. CASE b # a
      <4>1. agent'[b] = agent[b] /\ agent[b].cmd # c
        BY <2>1, <2>3, <3>2
      <4>2. agent[b].at = "lock" /\ agent[b].op = "start" =>
              /\ agent[b].cmd \in Commands /\ owner'[agent[b].cmd] = "none"
              /\ \A d \in Subagents \ {b} : agent'[d].cmd # agent[b].cmd
        BY <1>1, <2>1, <2>2, <2>3, <4>1 DEF StartsAlone
      <4>3. /\ agent[b].at = "polling" \/ (agent[b].at = "lock" /\ agent[b].op # "start") =>
                 agent[b].cmd \in Commands /\ owner'[agent[b].cmd] # "none"
            /\ agent[b].at = "lock" /\ agent[b].op = "pop" => agent[b].cmd \notin alive'
        BY <1>1, <2>2, <4>1 DEF StartsAlone
      <4> QED BY <2>1, <3>2, <4>1, <4>2, <4>3
    <3> QED BY <3>1, <3>2
  <2> QED BY <2>4, <2>5 DEF StartsAlone
<1>13. CASE SpawnFails(a)
  BY <1>1, <1>2, <1>4, <1>6, <1>13, SpawnFailsDoes DEF StartsAlone, StaysBut, Moved
<1>14. CASE WriteTurn(a)
  BY <1>1, <1>2, <1>4, <1>6, <1>14, WriteTurnDoes DEF StartsAlone, StaysBut, Moved
<1>15. CASE PollReturns(a)
  BY <1>1, <1>2, <1>5, <1>6, <1>15, PollReturnsDoes DEF StartsAlone, StaysBut, Moved
<1>16. CASE PopTurn(a)
  BY <1>1, <1>2, <1>4, <1>6, <1>16, PopTurnDoes DEF StartsAlone, StaysBut, Moved
<1>17. ASSUME NEW c \in Commands, Calls(a, c)
       PROVE  StartsAlone'
  <2>1. PICK op \in {"start", "write"} :
           /\ StaysBut(a, "lock", op, c)
           /\ UNCHANGED <<cancels, sessions, alive, owner>> /\ managerLock' = Append(managerLock, a)
           /\ agent[a].at = "working"
           /\ op = "start" => owner[c] = "none" /\ \A b \in Subagents : agent[b].cmd # c
           /\ op = "write" => c \in sessions
    BY <1>1, <1>17, CallsDoes
  <2> QED BY <1>1, <1>2, <1>5, <1>6, <2>1 DEF StartsAlone, StaysBut, Moved
<1>18. ASSUME NEW c \in Commands, ReapsIdle(a, c)
       PROVE  StartsAlone'
  <2>1. CASE sessions' = sessions \ {c} /\ UNCHANGED <<agentVars, managerLock>>
    BY <1>1, <1>6, <1>18, <2>1, ReapsIdleDoes DEF StartsAlone, agentVars
  <2>2. CASE /\ Moved(a, "ended", "none", NoCommand) /\ sessions' = sessions
             /\ cancels' = cancels \ {a} /\ managerLock' = Released(a)
    BY <1>1, <1>2, <1>4, <1>6, <1>18, <2>2, ReapsIdleDoes DEF StartsAlone, Moved
  <2> QED BY <1>1, <1>18, <2>1, <2>2, ReapsIdleDoes
<1> QED BY <1>7, <1>8, <1>9, <1>10, <1>11, <1>12, <1>13, <1>14, <1>15, <1>16, <1>17, <1>18
        DEF SubagentStep

(* Nothing is started for a table that refuses.                            *)
LEMMA SubagentTableClosed ==
  ASSUME BackgroundIInv, NEW a \in Subagents, SubagentStep(a)
  PROVE  TableClosed'
<1>1. /\ BackgroundTypeOK /\ TableClosed
      /\ \A b \in Subagents : agent[b].at \in Places
  BY TaskFacts DEF BackgroundIInv
<1>2. UNCHANGED runVars => UNCHANGED <<run, cutShort, killFaults>>
  BY DEF runVars
<1>3. CASE SpawnAgent(a)
  BY <1>1, <1>2, <1>3, SpawnAgentDoes DEF TableClosed, StaysBut, Moved
<1>4. CASE AgentEnds(a)
  BY <1>1, <1>2, <1>4, AgentEndsDoes DEF TableClosed, StaysBut, Moved
<1>5. CASE CancelArrives(a)
  BY <1>1, <1>2, <1>5, CancelArrivesDoes DEF TableClosed, StaysBut, Moved
<1>6. CASE CancelSwallowed(a)
  BY <1>1, <1>2, <1>6 DEF CancelSwallowed, TableClosed, managerVars
<1>7. CASE StartGranted(a)
  BY <1>1, <1>2, <1>7, StartGrantedDoes DEF TableClosed, StaysBut, Moved
<1>8. CASE SpawnReturns(a)
  BY <1>1, <1>2, <1>8, SpawnReturnsDoes DEF TableClosed, StaysBut, Moved
<1>9. CASE SpawnFails(a)
  BY <1>1, <1>2, <1>9, SpawnFailsDoes DEF TableClosed, StaysBut, Moved
<1>10. CASE WriteTurn(a)
  BY <1>1, <1>2, <1>10, WriteTurnDoes DEF TableClosed, StaysBut, Moved
<1>11. CASE PollReturns(a)
  BY <1>1, <1>2, <1>11, PollReturnsDoes DEF TableClosed, StaysBut, Moved
<1>12. CASE PopTurn(a)
  BY <1>1, <1>2, <1>12, PopTurnDoes DEF TableClosed, StaysBut, Moved
<1>13. ASSUME NEW c \in Commands, Calls(a, c)
       PROVE  TableClosed'
  BY <1>1, <1>2, <1>13, CallsDoes DEF TableClosed, StaysBut, Moved
<1>14. ASSUME NEW c \in Commands, ReapsIdle(a, c)
       PROVE  TableClosed'
  BY <1>1, <1>2, <1>14, ReapsIdleDoes DEF TableClosed, Moved, agentVars
<1> QED BY <1>3, <1>4, <1>5, <1>6, <1>7, <1>8, <1>9, <1>10, <1>11, <1>12, <1>13, <1>14
        DEF SubagentStep

(* Whose subagents run() awaits spawns no others.                          *)
LEMMA SubagentsOfKey ==
  ASSUME BackgroundIInv, NEW a \in Subagents, SubagentStep(a), run.at # "stopTurns"
  PROVE  OfKey(run.key)' \subseteq OfKey(run.key)
<1>1. /\ BackgroundTypeOK
      /\ \A b \in Subagents : /\ agent[b].at \in Places
                              /\ Runs(b) <=> agent[b].at \notin {"none", "ended"}
  BY TaskFacts DEF BackgroundIInv, Runs
<1>2. ASSUME NEW at, NEW op, NEW c, Moved(a, at, op, c), ParentOf[a] = run.key => agent[a].at \notin {"none", "ended"},
             run' = run
      PROVE  OfKey(run.key)' \subseteq OfKey(run.key)
  <2>1. \A b \in Subagents : b # a => (Runs(b)' <=> Runs(b))
    BY <1>2, MovedTasks
  <2>2. ParentOf[a] = run.key => Runs(a)
    BY <1>1, <1>2
  <2> QED BY <1>2, <2>1, <2>2 DEF OfKey
<1>3. ASSUME NEW at, NEW op, NEW c, Moved(a, at, op, c), at = "ended", run' = run
      PROVE  OfKey(run.key)' \subseteq OfKey(run.key)
  <2>1. (\A b \in Subagents : b # a => (Runs(b)' <=> Runs(b))) /\ ~Runs(a)'
    BY <1>3, MovedTasks
  <2> QED BY <1>3, <2>1 DEF OfKey
<1>4. UNCHANGED runVars => run' = run
  BY DEF runVars
<1>5. run' = run /\ agent' = agent => OfKey(run.key)' \subseteq OfKey(run.key)
  BY DEF OfKey, Runs
<1>6. CASE SpawnAgent(a)
  BY <1>1, <1>2, <1>4, <1>6, SpawnAgentDoes DEF StaysBut
<1>7. CASE AgentEnds(a)
  BY <1>1, <1>2, <1>4, <1>7, AgentEndsDoes DEF StaysBut
<1>8. CASE CancelArrives(a)
  BY <1>1, <1>3, <1>4, <1>8, CancelArrivesDoes DEF StaysBut
<1>9. CASE CancelSwallowed(a)
  BY <1>4, <1>5, <1>9 DEF CancelSwallowed
<1>10. CASE StartGranted(a)
  BY <1>1, <1>2, <1>4, <1>10, StartGrantedDoes DEF StaysBut
<1>11. CASE SpawnReturns(a)
  BY <1>1, <1>2, <1>4, <1>11, SpawnReturnsDoes DEF StaysBut
<1>12. CASE SpawnFails(a)
  BY <1>1, <1>2, <1>4, <1>12, SpawnFailsDoes DEF StaysBut
<1>13. CASE WriteTurn(a)
  BY <1>1, <1>2, <1>4, <1>13, WriteTurnDoes DEF StaysBut
<1>14. CASE PollReturns(a)
  BY <1>1, <1>2, <1>4, <1>14, PollReturnsDoes DEF StaysBut
<1>15. CASE PopTurn(a)
  BY <1>1, <1>2, <1>4, <1>15, PopTurnDoes DEF StaysBut
<1>16. ASSUME NEW c \in Commands, Calls(a, c)
       PROVE  OfKey(run.key)' \subseteq OfKey(run.key)
  BY <1>1, <1>2, <1>4, <1>16, CallsDoes DEF StaysBut
<1>17. ASSUME NEW c \in Commands, ReapsIdle(a, c)
       PROVE  OfKey(run.key)' \subseteq OfKey(run.key)
  BY <1>1, <1>3, <1>4, <1>5, <1>17, ReapsIdleDoes DEF agentVars
<1> QED BY <1>6, <1>7, <1>8, <1>9, <1>10, <1>11, <1>12, <1>13, <1>14, <1>15, <1>16, <1>17
        DEF SubagentStep

(* What is over does not move, and a start needs room in the table.        *)
LEMMA SubagentMoves ==
  ASSUME BackgroundIInv, NEW a \in Subagents, SubagentStep(a)
  PROVE  /\ \A b \in Subagents : agent[b].at = "ended" => agent'[b].at = "ended"
         /\ \A b \in Subagents : agent'[b].at = "spawning" =>
              \/ agent[b].at = "spawning" /\ (sessions' \subseteq sessions)
              \/ Cardinality(sessions) < MaxSessions /\ sessions' = sessions
<1>1. /\ BackgroundTypeOK /\ cancels \subseteq RunningTasks /\ StartsAlone
      /\ \A b \in Subagents : agent[b].at \in Places
      /\ \A b \in Subagents : b \in RunningTasks => agent[b].at # "ended"
  BY TaskFacts, TypeParts DEF BackgroundIInv, AgentTypes
<1>2. CASE SpawnAgent(a)
  BY <1>1, <1>2, SpawnAgentDoes DEF StaysBut, Moved
<1>3. CASE AgentEnds(a)
  BY <1>1, <1>3, AgentEndsDoes DEF StaysBut, Moved
<1>4. CASE CancelArrives(a)
  BY <1>1, <1>4, CancelArrivesDoes DEF StaysBut, Moved, CancelArrives
<1>5. CASE CancelSwallowed(a)
  BY <1>1, <1>5 DEF CancelSwallowed, managerVars
<1>6. CASE StartGranted(a)
  BY <1>1, <1>6, StartGrantedDoes DEF StaysBut, Moved
<1>7. CASE SpawnReturns(a)
  <2>1. \A b \in Subagents \ {a} : agent[b].at # "spawning"
    BY <1>1, <1>7, SpawnReturnsDoes DEF StartsAlone, Owns
  <2> QED BY <1>1, <1>7, <2>1, SpawnReturnsDoes DEF StaysBut, Moved
<1>8. CASE SpawnFails(a)
  BY <1>1, <1>8, SpawnFailsDoes DEF StaysBut, Moved
<1>9. CASE WriteTurn(a)
  BY <1>1, <1>9, WriteTurnDoes DEF StaysBut, Moved
<1>10. CASE PollReturns(a)
  BY <1>1, <1>10, PollReturnsDoes DEF StaysBut, Moved
<1>11. CASE PopTurn(a)
  BY <1>1, <1>11, PopTurnDoes DEF StaysBut, Moved
<1>12. ASSUME NEW c \in Commands, Calls(a, c)
       PROVE  /\ \A b \in Subagents : agent[b].at = "ended" => agent'[b].at = "ended"
              /\ \A b \in Subagents : agent'[b].at = "spawning" => agent[b].at = "spawning"
              /\ sessions' = sessions
  BY <1>1, <1>12, CallsDoes DEF StaysBut, Moved
<1>13. ASSUME NEW c \in Commands, ReapsIdle(a, c)
       PROVE  /\ \A b \in Subagents : agent[b].at = "ended" => agent'[b].at = "ended"
              /\ \A b \in Subagents : agent'[b].at = "spawning" => agent[b].at = "spawning"
              /\ sessions' \subseteq sessions
  BY <1>1, <1>13, ReapsIdleDoes DEF Moved, agentVars
<1> QED BY <1>2, <1>3, <1>4, <1>5, <1>6, <1>7, <1>8, <1>9, <1>10, <1>11, <1>12, <1>13
        DEF SubagentStep

LEMMA SubagentInOrder ==
  ASSUME BackgroundIInv, NEW a \in Subagents, SubagentStep(a)
  PROVE  StopInOrder'
<1>1. StopInOrder /\ UNCHANGED <<run, cutShort, killFaults>>
  BY SubagentTable DEF BackgroundIInv, runVars
<1>2. run.at # "stopTurns" => OfKey(run.key)' \subseteq OfKey(run.key)
  BY SubagentsOfKey
<1>3. ASSUME run.at = "stopKills", NEW c \in sessions'
      PROVE  owner'[c] # run.key
  <2>1. OfKey(run.key) = {} /\ \A d \in sessions : owner[d] # run.key
    BY <1>1, <1>3 DEF StopInOrder
  <2>2. CASE owner' = owner /\ sessions' \subseteq sessions
    BY <1>3, <2>1, <2>2
  <2>3. CASE /\ agent[a].at = "spawning" /\ sessions' = sessions \cup {agent[a].cmd}
             /\ agent[a].cmd \in Commands
             /\ owner' = [owner EXCEPT ![agent[a].cmd] = ParentOf[a]]
    <3>1. ParentOf[a] # run.key
      BY <2>1, <2>3 DEF OfKey, Runs
    <3>2. owner \in [Commands -> Keys \cup {"none"}] /\ sessions \subseteq Commands
      BY TypeParts DEF BackgroundIInv, ManagerTypes
    <3> QED BY <1>3, <2>1, <2>3, <3>1, <3>2
  <2> QED BY <2>2, <2>3, SubagentTable
<1>4. run' = run /\ cutShort' = cutShort /\ killFaults' = killFaults
  BY <1>1
<1>5. (run.at = "stopAgents" => OfKey(run.key) \subseteq run.agents)'
  BY <1>1, <1>2, <1>4 DEF StopInOrder
<1>6. (run.at \in {"stopLock", "stopKills"} => OfKey(run.key) = {})'
  BY <1>1, <1>2, <1>4 DEF StopInOrder
<1>7. (run.at = "stopKills" => \A c \in sessions : owner[c] # run.key)'
  BY <1>3, <1>4
<1> QED BY <1>1, <1>4, <1>5, <1>6, <1>7 DEF StopInOrder

LEMMA SubagentLimits ==
  ASSUME BackgroundIInv, NEW a \in Subagents, SubagentStep(a)
  PROVE  WithinLimits' /\ (killFaults = 0 => Cardinality(sessions) <= MaxSessions)'
<1>1. /\ IsFiniteSet(sessions) /\ Cardinality(sessions) \in Nat /\ MaxSessions \in Nat
      /\ killFaults' = killFaults /\ BackgroundTypeOK /\ StartsAlone
      /\ IsFiniteSet(run.victims)'
      /\ killFaults = 0 => Cardinality(sessions) <= MaxSessions
  BY SubagentTable, FS_CardinalityType, BackgroundAssumption
     DEF BackgroundIInv, WithinLimits, NothingOutlives, runVars
<1>2. IsFiniteSet(RunningTasks)'
  BY SubagentTypes
<1>3. killFaults = 0 => \A b \in Subagents : agent[b].at = "spawning" => Cardinality(sessions) < MaxSessions
  BY DEF BackgroundIInv, WithinLimits
<1>4. CASE sessions' \subseteq sessions
  <2>1. IsFiniteSet(sessions') /\ Cardinality(sessions') <= Cardinality(sessions)
    BY <1>1, <1>4, FS_Subset
  <2>2. Cardinality(sessions') \in Nat
    BY <2>1, FS_CardinalityType
  <2>3. ASSUME killFaults = 0, NEW b \in Subagents, agent'[b].at = "spawning"
        PROVE  Cardinality(sessions') < MaxSessions
    <3>1. CASE agent[b].at = "spawning"
      BY <1>1, <1>3, <2>1, <2>2, <2>3, <3>1
    <3>2. CASE Cardinality(sessions) < MaxSessions /\ sessions' = sessions
      BY <3>2
    <3> QED BY <2>3, <3>1, <3>2, SubagentMoves
  <2>4. (killFaults = 0 => Cardinality(sessions) <= MaxSessions)'
    BY <1>1, <2>1, <2>2
  <2> QED BY <1>1, <1>2, <2>1, <2>3, <2>4 DEF WithinLimits
<1>5. CASE SpawnReturns(a) /\ agent[a].at = "spawning" /\ sessions' = sessions \cup {agent[a].cmd}
  <2> DEFINE c == agent[a].cmd  new == sessions \cup {c}
  <2> HIDE DEF c
  <2>0. /\ IsFiniteSet(new)
        /\ Cardinality(new) = IF c \in sessions THEN Cardinality(sessions) ELSE Cardinality(sessions) + 1
    BY <1>1, FS_AddElement
  <2> HIDE DEF new
  <2>1. IsFiniteSet(sessions') /\ Cardinality(sessions') <= Cardinality(sessions) + 1
    BY <1>1, <1>5, <2>0 DEF c, new
  <2>2. Cardinality(sessions') \in Nat
    BY <2>1, FS_CardinalityType
  <2>3. killFaults = 0 => Cardinality(sessions') <= MaxSessions
    BY <1>1, <1>3, <1>5, <2>1, <2>2
  <2>4. \A b \in Subagents : agent'[b].at # "spawning"
    <3>1. \A b \in Subagents \ {a} : agent[b].at # "spawning"
      BY <1>1, <1>5 DEF StartsAlone, Owns
    <3> QED BY <1>1, <1>5, <3>1, SpawnReturnsDoes DEF StaysBut, Moved
  <2> QED BY <1>1, <1>2, <2>1, <2>3, <2>4 DEF WithinLimits
<1> QED BY <1>4, <1>5, SubagentTable

LEMMA SubagentOutlives ==
  ASSUME BackgroundIInv, NEW a \in Subagents, SubagentStep(a)
  PROVE  StoppedIsOver' /\ NothingOutlives'
<1>1. /\ StoppedIsOver /\ NothingOutlives /\ TableClosed /\ Subagents \cap Commands = {}
      /\ UNCHANGED <<run, cutShort, killFaults, stopped, refusing>>
      /\ owner \in [Commands -> Keys \cup {"none"}] /\ alive \subseteq Commands
      /\ ParentOf[a] # "none"
  BY SubagentTable, TypeParts, BackgroundAssumption DEF BackgroundIInv, runVars, ManagerTypes
<1>2. StoppedIsOver'
  <2>1. \A c \in Commands : owner[c] # "none" => owner'[c] # "none"
    BY <1>1, SubagentTable
  <2> QED BY <1>1, <2>1, SubagentMoves DEF StoppedIsOver
<1>3. (~cutShort => alive \subseteq sessions \cup run.victims)'
  BY <1>1, SubagentTable DEF NothingOutlives
<1>4. (stopped \cap (RunningTasks \cup alive) = {})'
  <2>1. \A b \in Subagents : b \in stopped => b \notin RunningTasks'
    BY <1>1, <1>2 DEF StoppedIsOver, RunningTasks, Runs
  <2>2. \A c \in Commands : c \in stopped => c \notin alive'
    BY <1>1, SubagentTable DEF NothingOutlives, StoppedIsOver
  <2>3. RunningTasks' \subseteq Subagents /\ alive' \subseteq Commands
    BY <1>1, SubagentTable DEF RunningTasks
  <2> QED BY <1>1, <2>1, <2>2, <2>3
<1>5. (run.at = "down" /\ ~cutShort /\ killFaults = 0 => alive = {})'
  <2>1. SUFFICES ASSUME run.at = "down", ~cutShort, killFaults = 0
                 PROVE  alive' = {}
    BY <1>1
  <2>2. alive = {} /\ refusing
    BY <1>1, <2>1 DEF NothingOutlives, TableClosed
  <2>3. agent[a].at # "spawning"
    BY <1>1, <2>2 DEF TableClosed
  <2> QED BY <2>2, <2>3, SubagentTable
<1> QED BY <1>2, <1>3, <1>4, <1>5, SubagentLimits DEF NothingOutlives

LEMMA SubagentKeeps ==
  ASSUME BackgroundIInv, NEW a \in Subagents, SubagentStep(a)
  PROVE  BackgroundIInv'
BY SubagentTypes, SubagentStartsAlone, SubagentTableClosed, SubagentInOrder, SubagentLimits,
   SubagentOutlives DEF BackgroundIInv
-----------------------------------------------------------------------------
(* A process exits.                                                        *)
LEMMA ExitKeeps ==
  ASSUME BackgroundIInv, NEW c \in Commands, Exit(c)
  PROVE  BackgroundIInv'
<1>1. /\ UNCHANGED <<agent, cancels, managerLock, sessions, owner, refusing, run, signals, stopsServed,
                     killFaults, cutShort, stopped>>
      /\ alive' = alive \ {c}
  BY DEF Exit, agentVars, runVars
<1>2. BackgroundTypeOK'
  BY <1>1 DEF BackgroundIInv, BackgroundTypeOK, RunningTasks, Runs
<1>3. StartsAlone'
  BY <1>1 DEF BackgroundIInv, StartsAlone, Owns
<1>4. TableClosed' /\ StopInOrder' /\ StoppedIsOver'
  BY <1>1 DEF BackgroundIInv, TableClosed, StopInOrder, StoppedIsOver, OfKey, Runs
<1>5. WithinLimits' /\ NothingOutlives'
  BY <1>1 DEF BackgroundIInv, WithinLimits, NothingOutlives, RunningTasks, Runs
<1> QED BY <1>2, <1>3, <1>4, <1>5 DEF BackgroundIInv
-----------------------------------------------------------------------------
(* run() moves no subagent, and starts no process: it may cancel those     *)
(* that run, and takes its turn at the lock.                               *)
RunPlaces == Waits \cup {"serving", "stopTurns", "stopAgents", "stopKills",
                         "drains", "closeAgents", "closeKills", "down"}
RunRecords == [at : RunPlaces, key : Keys \cup {"none"},
               agents : SUBSET Subagents, victims : SUBSET Commands]

LEMMA RunFacts ==
  ASSUME BackgroundIInv
  PROVE  /\ BackgroundTypeOK /\ run \in RunRecords
         /\ run.at \in RunPlaces /\ run.key \in Keys \cup {"none"}
         /\ run.agents \subseteq Subagents /\ run.victims \subseteq Commands
         /\ sessions \subseteq Commands /\ alive \subseteq Commands
         /\ owner \in [Commands -> Keys \cup {"none"}]
         /\ {refusing, cutShort} \subseteq BOOLEAN
         /\ killFaults \in 0..MaxKillFaults /\ MaxKillFaults \in Nat
         /\ stopped \subseteq Subagents \cup Commands
         /\ stopsServed \in 0..MaxAgentStops /\ MaxAgentStops \in Nat /\ signals \in 0..2
         /\ Serving \in RunRecords /\ "none" \notin Keys
<1>1. BackgroundTypeOK /\ ManagerTypes /\ RunTypes
  BY TypeParts DEF BackgroundIInv
<1>2. run \in RunRecords
  BY <1>1 DEF RunTypes, RunRecords, RunPlaces
<1>3. Serving \in RunRecords
  BY DEF Serving, RunRecords, RunPlaces
<1> QED BY <1>1, <1>2, <1>3, BackgroundAssumption DEF ManagerTypes, RunTypes, RunRecords

LEMMA TypesKept ==
  ASSUME AgentTypes', LockTypes', ManagerTypes', RunTypes'
  PROVE  BackgroundTypeOK'
BY DEF BackgroundTypeOK, AgentTypes, LockTypes, ManagerTypes, RunTypes, Tasks,
       Places, Operations, Users

LEMMA RunKeepsAgents ==
  ASSUME BackgroundIInv, agent' = agent, cancels' \subseteq RunningTasks
  PROVE  /\ AgentTypes' /\ RunningTasks' = RunningTasks /\ IsFiniteSet(RunningTasks)'
         /\ \A a \in Subagents : Runs(a)' <=> Runs(a)
         /\ \A key : OfKey(key)' = OfKey(key)
<1>1. RunningTasks' = RunningTasks /\ \A a \in Subagents : Runs(a)' <=> Runs(a)
  BY DEF RunningTasks, Runs
<1>2. \A key : OfKey(key)' = OfKey(key)
  BY DEF OfKey, Runs
<1> QED BY <1>1, <1>2, TypeParts DEF BackgroundIInv, AgentTypes, WithinLimits

LEMMA RunKeepsStarts ==
  ASSUME BackgroundIInv, agent' = agent, owner' = owner, alive' \subseteq alive,
         sessions' \cup run'.victims \subseteq sessions \cup run.victims,
         \/ managerLock' = managerLock
         \/ managerLock' = Released("run")
         \/ managerLock' = Append(managerLock, "run") /\ run.at \notin Waits
  PROVE  StartsAlone'
<1>1. StartsAlone /\ BackgroundTypeOK /\ "run" \notin Subagents /\ "run" \in Users
  BY BackgroundAssumption DEF BackgroundIInv, Users
<1>2. ASSUME NEW a \in Subagents, Owns(a)
      PROVE  Owns(a)'
  <2>1. CASE managerLock' = managerLock
    BY <1>2, <2>1 DEF Owns
  <2>2. CASE managerLock' = Released("run")
    BY <1>1, <1>2, <2>2, LeaveFacts DEF Owns
  <2>3. CASE managerLock' = Append(managerLock, "run") /\ run.at \notin Waits
    BY <1>1, <1>2, <2>3, LockFacts, JoinFacts DEF Owns
  <2> QED BY <2>1, <2>2, <2>3
<1>3. \A c \in sessions' \cup alive' \cup run'.victims : owner'[c] # "none"
  BY <1>1 DEF StartsAlone
<1>4. ASSUME NEW a \in Subagents
      PROVE  /\ agent'[a].at = "spawning" => agent'[a].op = "start" /\ Owns(a)'
             /\ agent'[a].at = "lock" /\ agent'[a].op = "pop" => agent'[a].cmd \notin alive'
  BY <1>1, <1>2 DEF StartsAlone
<1>5. ASSUME NEW a \in Subagents
      PROVE  /\ agent'[a].at \in {"lock", "spawning"} /\ agent'[a].op = "start" =>
                  /\ agent'[a].cmd \in Commands /\ owner'[agent'[a].cmd] = "none"
                  /\ \A b \in Subagents \ {a} : agent'[b].cmd # agent'[a].cmd
             /\ agent'[a].at = "polling" \/ (agent'[a].at = "lock" /\ agent'[a].op # "start") =>
                  agent'[a].cmd \in Commands /\ owner'[agent'[a].cmd] # "none"
  BY <1>1 DEF StartsAlone
<1> QED BY <1>3, <1>4, <1>5 DEF StartsAlone

(* While run() owns the lock nothing is being started.                     *)
LEMMA RunOwns ==
  ASSUME BackgroundIInv, Owns("run")
  PROVE  \A a \in Subagents : agent[a].at # "spawning"
BY BackgroundAssumption DEF BackgroundIInv, StartsAlone, Owns

(* Steps that leave the manager alone: run() begins a /stop, is past the   *)
(* turns of one, is stopped, or closes.                                    *)
LEMMA QuietKeeps ==
  ASSUME BackgroundIInv,
         UNCHANGED <<agent, managerVars, killFaults, cutShort, stopped, signals>>,
         cancels' \subseteq RunningTasks, stopsServed' \in 0..MaxAgentStops,
         run' \in RunRecords, run.victims = {}, run'.victims = {},
         run.at \notin Waits, run'.at \notin Waits, run'.at \notin {"stopKills", "closeKills", "down"},
         run.at # "down",
         run'.at \in {"stopTurns", "stopAgents"} => run'.key \in Keys,
         run'.at = "stopAgents" => OfKey(run'.key) \subseteq run'.agents,
         cutShort => run'.at \in Closes
  PROVE  BackgroundIInv'
<1>1. /\ agent' = agent /\ managerLock' = managerLock /\ sessions' = sessions
      /\ alive' = alive /\ owner' = owner /\ refusing' = refusing
      /\ killFaults' = killFaults /\ cutShort' = cutShort /\ stopped' = stopped /\ signals' = signals
  BY DEF managerVars
<1>2. BackgroundTypeOK'
  <2>1. AgentTypes' /\ LockTypes'
    BY <1>1, RunFacts, RunKeepsAgents, RunLockKept
  <2>2. ManagerTypes' /\ RunTypes'
    BY <1>1, TypeParts DEF ManagerTypes, RunTypes, RunRecords, RunPlaces, BackgroundIInv
  <2> QED BY <2>1, <2>2, TypesKept
<1>3. StartsAlone'
  BY <1>1, RunKeepsStarts
<1>4. TableClosed'
  BY <1>1 DEF BackgroundIInv, TableClosed
<1>5. StopInOrder'
  <2>1. (run.at = "stopAgents" => OfKey(run.key) \subseteq run.agents)'
    BY <1>1 DEF OfKey, Runs
  <2> QED BY <1>1, <2>1 DEF StopInOrder, Waits
<1>6. WithinLimits'
  BY <1>1, RunKeepsAgents, FS_EmptySet DEF BackgroundIInv, WithinLimits
<1>7. StoppedIsOver'
  BY <1>1 DEF BackgroundIInv, StoppedIsOver
<1>8. NothingOutlives'
  BY <1>1, RunKeepsAgents DEF BackgroundIInv, NothingOutlives
<1> QED BY <1>2, <1>3, <1>4, <1>5, <1>6, <1>7, <1>8 DEF BackgroundIInv

LEMMA CancelBeginsKeeps ==
  ASSUME BackgroundIInv, NEW key \in Keys, CancelBegins(key)
  PROVE  BackgroundIInv'
<1>1. /\ run.at = "serving" /\ stopsServed < MaxAgentStops /\ stopsServed' = stopsServed + 1
      /\ run' = [at |-> "stopTurns", key |-> key, agents |-> {}, victims |-> {}]
      /\ cancels' = cancels \cup (OfKey(key) \cap Inline)
      /\ UNCHANGED <<agent, managerVars, signals, killFaults, cutShort, stopped>>
  BY DEF CancelBegins, Serving
<1>2. cancels \subseteq RunningTasks /\ OfKey(key) \subseteq RunningTasks
  BY TypeParts DEF BackgroundIInv, AgentTypes, OfKey, RunningTasks
<1>3. run' \in RunRecords /\ stopsServed' \in 0..MaxAgentStops
  BY <1>1, RunFacts DEF RunRecords, RunPlaces
<1>4. run.victims = {} /\ ~cutShort
  BY <1>1, RunFacts DEF BackgroundIInv, StopInOrder, Closes
<1> QED BY <1>1, <1>2, <1>3, <1>4, QuietKeeps DEF Waits

LEMMA StopTurnsEndKeeps ==
  ASSUME BackgroundIInv, StopTurnsEnd
  PROVE  BackgroundIInv'
<1>1. /\ run.at = "stopTurns"
      /\ run' = [run EXCEPT !.at = "stopAgents", !.agents = OfKey(run.key)]
      /\ cancels' = cancels \cup OfKey(run.key)
      /\ UNCHANGED <<agent, managerVars, signals, stopsServed, killFaults, cutShort, stopped>>
  BY DEF StopTurnsEnd
<1>2. cancels \subseteq RunningTasks /\ OfKey(run.key) \subseteq RunningTasks
  BY TypeParts DEF BackgroundIInv, AgentTypes, OfKey, RunningTasks
<1>3. OfKey(run.key) \subseteq Subagents
  BY DEF OfKey
<1>4. /\ run' \in RunRecords /\ run'.at = "stopAgents" /\ run'.key = run.key
      /\ run'.agents = OfKey(run.key) /\ run'.victims = run.victims
  BY <1>1, <1>3, RunFacts DEF RunRecords, RunPlaces
<1>5. run.victims = {} /\ ~cutShort /\ run.key \in Keys
  BY <1>1, RunFacts DEF BackgroundIInv, StopInOrder, Closes
<1> QED BY <1>1, <1>2, <1>4, <1>5, RunFacts, QuietKeeps DEF Waits

LEMMA RunStopsKeeps ==
  ASSUME BackgroundIInv, RunStops
  PROVE  BackgroundIInv'
<1>1. /\ run.at = "serving" /\ run' = [run EXCEPT !.at = "drains"]
      /\ UNCHANGED <<agent, cancels, managerVars, signals, stopsServed, killFaults, cutShort, stopped>>
  BY DEF RunStops, RunMoves, agentVars
<1>2. cancels \subseteq RunningTasks
  BY TypeParts DEF BackgroundIInv, AgentTypes
<1>3. run' \in RunRecords /\ run'.at = "drains" /\ run'.victims = run.victims
  BY <1>1, RunFacts DEF RunRecords, RunPlaces
<1>4. run.victims = {} /\ ~cutShort
  BY <1>1, RunFacts DEF BackgroundIInv, StopInOrder, Closes
<1> QED BY <1>1, <1>2, <1>3, <1>4, RunFacts, QuietKeeps DEF Waits

LEMMA DrainEndsKeeps ==
  ASSUME BackgroundIInv, DrainEnds
  PROVE  BackgroundIInv'
<1>1. /\ run.at = "drains" /\ cancels' = cancels \cup RunningTasks
      /\ run' = [at |-> "closeAgents", key |-> "none", agents |-> RunningTasks, victims |-> {}]
      /\ UNCHANGED <<agent, managerVars, signals, stopsServed, killFaults, cutShort, stopped>>
  BY DEF DrainEnds, Serving
<1>2. cancels \subseteq RunningTasks /\ RunningTasks \subseteq Subagents
  BY TypeParts DEF BackgroundIInv, AgentTypes, RunningTasks
<1>3. run' \in RunRecords
  BY <1>1, <1>2 DEF RunRecords, RunPlaces
<1>4. run.victims = {}
  BY <1>1, RunFacts DEF BackgroundIInv, StopInOrder
<1> QED BY <1>1, <1>2, <1>3, <1>4, RunFacts, QuietKeeps DEF Waits, Closes
-----------------------------------------------------------------------------
(* The subagents run() awaited are over, and it waits for the lock.        *)
LEMMA AgentsEndKeeps ==
  ASSUME BackgroundIInv, AgentsEnd
  PROVE  BackgroundIInv'
<1>1. /\ run.at \in {"stopAgents", "closeAgents"} /\ \A a \in run.agents : ~Runs(a)
      /\ run' = [run EXCEPT !.at = IF @ = "stopAgents" THEN "stopLock" ELSE "closeLock",
                            !.agents = {}]
      /\ managerLock' = Append(managerLock, "run")
      /\ agent' = agent /\ cancels' = cancels /\ sessions' = sessions /\ alive' = alive
      /\ owner' = owner /\ refusing' = refusing /\ signals' = signals
      /\ stopsServed' = stopsServed /\ killFaults' = killFaults /\ cutShort' = cutShort
      /\ stopped' = stopped
  BY DEF AgentsEnd, agentVars
<1>2. /\ run' \in RunRecords /\ run'.key = run.key /\ run'.victims = run.victims
      /\ run'.at = IF run.at = "stopAgents" THEN "stopLock" ELSE "closeLock"
  BY <1>1, RunFacts DEF RunRecords, RunPlaces, Waits
<1>3. run.victims = {} /\ run.at \notin Waits
  BY <1>1 DEF BackgroundIInv, StopInOrder, Waits
<1>4. cancels' \subseteq RunningTasks
  BY <1>1, TypeParts DEF BackgroundIInv, AgentTypes
<1>5. run'.at \in Waits
  BY <1>2 DEF Waits
<1>6. BackgroundTypeOK'
  <2>1. AgentTypes' /\ LockTypes'
    BY <1>1, <1>3, <1>4, <1>5, RunFacts, RunKeepsAgents, RunLockKept
  <2>2. ManagerTypes' /\ RunTypes'
    BY <1>1, <1>2, TypeParts DEF ManagerTypes, RunTypes, RunRecords, RunPlaces, BackgroundIInv
  <2> QED BY <2>1, <2>2, TypesKept
<1>7. StartsAlone'
  BY <1>1, <1>2, <1>3, RunKeepsStarts
<1>8. TableClosed'
  BY <1>1, <1>2 DEF BackgroundIInv, TableClosed
<1>9. StopInOrder'
  <2>1. run.at = "stopAgents" => OfKey(run.key) = {}
    BY <1>1 DEF BackgroundIInv, StopInOrder, OfKey
  <2>2. (run.at \in {"stopLock", "stopKills"} => OfKey(run.key) = {})'
    BY <1>1, <1>2, <2>1 DEF OfKey, Runs
  <2>3. StopInOrder
    BY DEF BackgroundIInv
  <2> QED BY <1>1, <1>2, <1>3, <2>2, <2>3 DEF StopInOrder, Closes
<1>10. WithinLimits'
  BY <1>1, <1>2, <1>4, RunKeepsAgents DEF BackgroundIInv, WithinLimits
<1>11. StoppedIsOver'
  BY <1>1 DEF BackgroundIInv, StoppedIsOver
<1>12. NothingOutlives'
  BY <1>1, <1>2, <1>4, RunKeepsAgents DEF BackgroundIInv, NothingOutlives
<1> QED BY <1>6, <1>7, <1>8, <1>9, <1>10, <1>11, <1>12 DEF BackgroundIInv

(* It takes out of the table what it is to kill.                           *)
LEMMA TakesOutKeeps ==
  ASSUME BackgroundIInv, NEW victims, NEW at,
         TakesOut(victims, at),
         \/ /\ run.at = "stopLock" /\ at = "stopKills" /\ refusing' = refusing
            /\ victims = {c \in sessions : owner[c] = run.key}
         \/ /\ run.at = "closeLock" /\ at = "closeKills" /\ refusing' = TRUE
            /\ victims = sessions
  PROVE  BackgroundIInv'
<1>1. /\ Owns("run") /\ managerLock' = Released("run") /\ sessions' = sessions \ victims
      /\ run' = [run EXCEPT !.at = at, !.victims = victims]
      /\ agent' = agent /\ cancels' = cancels /\ alive' = alive
      /\ owner' = owner /\ signals' = signals
      /\ stopsServed' = stopsServed /\ killFaults' = killFaults /\ cutShort' = cutShort
      /\ stopped' = stopped
  BY DEF TakesOut, agentVars
<1>2. victims \subseteq sessions /\ victims \subseteq Commands /\ at \in {"stopKills", "closeKills"}
  BY RunFacts
<1>3. /\ run' \in RunRecords /\ run'.key = run.key /\ run'.victims = victims /\ run'.at = at
      /\ run'.agents = run.agents
  BY <1>1, <1>2, RunFacts DEF RunRecords, RunPlaces
<1>4. cancels' \subseteq RunningTasks
  BY <1>1, TypeParts DEF BackgroundIInv, AgentTypes
<1>5. run'.at \notin Waits /\ run.victims = {}
  BY <1>2, <1>3 DEF BackgroundIInv, StopInOrder, Waits
<1>6. BackgroundTypeOK'
  <2>1. AgentTypes' /\ LockTypes'
    BY <1>1, <1>4, <1>5, RunFacts, RunKeepsAgents, RunLockKept
  <2>2. ManagerTypes' /\ RunTypes'
    BY <1>1, <1>3, TypeParts DEF ManagerTypes, RunTypes, RunRecords, RunPlaces, BackgroundIInv
  <2> QED BY <2>1, <2>2, TypesKept
<1>7. StartsAlone'
  BY <1>1, <1>2, <1>3, RunKeepsStarts
<1>8. TableClosed'
  <2>1. TableClosed
    BY DEF BackgroundIInv
  <2> QED BY <1>1, <1>3, <2>1, RunOwns DEF TableClosed
<1>9. StopInOrder'
  <2>1. StopInOrder
    BY DEF BackgroundIInv
  <2>2. (run.at \in {"stopLock", "stopKills"} => OfKey(run.key) = {})'
    BY <1>1, <1>3, <2>1 DEF StopInOrder, OfKey, Runs
  <2> QED BY <1>1, <1>3, <2>1, <2>2 DEF StopInOrder, Closes
<1>10. IsFiniteSet(sessions') /\ IsFiniteSet(victims) /\ Cardinality(sessions') <= Cardinality(sessions)
  BY <1>1, <1>2, FS_Subset DEF BackgroundIInv, WithinLimits
<1>11. /\ Cardinality(sessions') \in Nat /\ Cardinality(sessions) \in Nat /\ MaxSessions \in Nat
  BY <1>10, FS_CardinalityType, BackgroundAssumption DEF BackgroundIInv, WithinLimits
<1>12. WithinLimits'
  BY <1>1, <1>3, <1>4, <1>10, RunOwns, RunKeepsAgents DEF WithinLimits
<1>13. StoppedIsOver'
  BY <1>1 DEF BackgroundIInv, StoppedIsOver
<1>14. NothingOutlives'
  <2>1. NothingOutlives
    BY DEF BackgroundIInv
  <2>2. (~cutShort => alive \subseteq sessions \cup run.victims)'
    BY <1>1, <1>3, <1>5, <2>1 DEF NothingOutlives
  <2>3. (killFaults = 0 => Cardinality(sessions) <= MaxSessions)'
    BY <1>1, <1>10, <1>11, <2>1 DEF NothingOutlives
  <2> QED BY <1>1, <1>2, <1>3, <1>4, <2>1, <2>2, <2>3, RunKeepsAgents DEF NothingOutlives
<1> QED BY <1>6, <1>7, <1>8, <1>9, <1>12, <1>13, <1>14 DEF BackgroundIInv

LEMMA StopTakesOutKeeps ==
  ASSUME BackgroundIInv, StopTakesOut
  PROVE  BackgroundIInv'
BY TakesOutKeeps DEF StopTakesOut

LEMMA CloseTakesOutKeeps ==
  ASSUME BackgroundIInv, CloseTakesOut
  PROVE  BackgroundIInv'
BY TakesOutKeeps DEF CloseTakesOut

(* It kills them, and a /stop is over: none of the subagents of its        *)
(* session runs, and what they started is dead or was killed now.          *)
LEMMA KillsKeeps ==
  ASSUME BackgroundIInv, Kills
  PROVE  BackgroundIInv'
<1> DEFINE over == {c \in Commands : owner[c] = run.key}
                     \cup {a \in Subagents : ParentOf[a] = run.key /\ agent[a].at # "none"}
<1>1. /\ run.at \in {"stopKills", "closeKills"} /\ alive' = alive \ run.victims
      /\ agent' = agent /\ cancels' = cancels /\ managerLock' = managerLock
      /\ sessions' = sessions /\ owner' = owner /\ refusing' = refusing /\ signals' = signals
      /\ stopsServed' = stopsServed /\ killFaults' = killFaults /\ cutShort' = cutShort
  BY DEF Kills, agentVars
<1>2. /\ run' \in RunRecords /\ run'.victims = {}
      /\ run'.at = IF run.at = "closeKills" THEN "down" ELSE "serving"
  BY <1>1 DEF Kills, Serving, RunRecords, RunPlaces
<1>3. stopped' = IF run.at = "closeKills" THEN stopped ELSE stopped \cup over
  BY DEF Kills
<1>4. cancels' \subseteq RunningTasks
  BY <1>1, TypeParts DEF BackgroundIInv, AgentTypes
<1>5. run'.at \notin Waits /\ run.at \notin Waits
  BY <1>1, <1>2 DEF Waits
<1>6. BackgroundTypeOK'
  <2>1. AgentTypes' /\ LockTypes'
    BY <1>1, <1>4, <1>5, RunFacts, RunKeepsAgents, RunLockKept
  <2>2. ManagerTypes' /\ RunTypes'
    BY <1>1, <1>2, <1>3, TypeParts DEF ManagerTypes, RunTypes, RunRecords, RunPlaces, BackgroundIInv
  <2> QED BY <2>1, <2>2, TypesKept
<1>7. StartsAlone'
  BY <1>1, <1>2, RunKeepsStarts
<1>8. TableClosed'
  BY <1>1, <1>2 DEF BackgroundIInv, TableClosed
<1>9. StopInOrder'
  BY <1>1, <1>2 DEF BackgroundIInv, StopInOrder, Closes
<1>10. WithinLimits'
  BY <1>1, <1>2, <1>4, RunKeepsAgents, FS_EmptySet DEF BackgroundIInv, WithinLimits
<1>11. run.at = "stopKills" =>
         /\ run.key \in Keys /\ ~cutShort /\ OfKey(run.key) = {}
         /\ \A c \in sessions : owner[c] # run.key
  BY RunFacts DEF BackgroundIInv, StopInOrder, Closes
<1>12. StoppedIsOver'
  <2>1. run.at = "stopKills" => \A c \in over \cap Commands : owner[c] # "none"
    BY <1>11, RunFacts, BackgroundAssumption
  <2>2. run.at = "stopKills" => \A a \in over \cap Subagents : agent[a].at = "ended"
    BY <1>11, BackgroundAssumption DEF OfKey, Runs
  <2>3. StoppedIsOver
    BY DEF BackgroundIInv
  <2> HIDE DEF over
  <2> QED BY <1>1, <1>3, <2>1, <2>2, <2>3 DEF StoppedIsOver
<1>13. alive' \subseteq sessions \/ cutShort
  BY <1>1 DEF BackgroundIInv, NothingOutlives
<1>14. (stopped \cap (RunningTasks \cup alive) = {})'
  <2>1. \A a \in Subagents : a \in stopped' => a \notin RunningTasks'
    BY <1>12 DEF StoppedIsOver, RunningTasks, Runs
  <2>2. run.at = "stopKills" => \A c \in over \cap Commands : c \notin alive'
    BY <1>11, <1>13, BackgroundAssumption
  <2>3. \A c \in Commands : c \in stopped => c \notin alive'
    BY <1>1 DEF BackgroundIInv, NothingOutlives
  <2>4. RunningTasks' \subseteq Subagents /\ alive' \subseteq Commands
    BY <1>1, RunFacts DEF RunningTasks
  <2> HIDE DEF over
  <2> QED BY <1>1, <1>3, <2>1, <2>2, <2>3, <2>4, BackgroundAssumption
<1>15. (run.at = "down" /\ ~cutShort /\ killFaults = 0 => alive = {})'
  BY <1>1, <1>2, <1>13 DEF BackgroundIInv, TableClosed
<1>16. NothingOutlives'
  <2>1. NothingOutlives
    BY DEF BackgroundIInv
  <2> QED BY <1>1, <1>2, <1>13, <1>14, <1>15, <2>1 DEF NothingOutlives
<1> QED BY <1>6, <1>7, <1>8, <1>9, <1>10, <1>12, <1>16 DEF BackgroundIInv

(* A kill raised: it waits for the lock, to put those sessions back.       *)
LEMMA KillsFailKeeps ==
  ASSUME BackgroundIInv, KillsFail
  PROVE  BackgroundIInv'
<1>1. PICK failing \in SUBSET run.victims \ {{}} :
         /\ alive' = alive \ (run.victims \ failing)
         /\ run' = [run EXCEPT !.at = IF @ = "stopKills" THEN "stopPutBack" ELSE "closePutBack",
                               !.victims = failing]
  BY DEF KillsFail
<1>2. /\ run.at \in {"stopKills", "closeKills"} /\ managerLock' = Append(managerLock, "run")
      /\ killFaults < MaxKillFaults /\ killFaults' = killFaults + 1
      /\ agent' = agent /\ cancels' = cancels
      /\ sessions' = sessions /\ owner' = owner /\ refusing' = refusing /\ signals' = signals
      /\ stopsServed' = stopsServed /\ cutShort' = cutShort /\ stopped' = stopped
  BY DEF KillsFail, agentVars
<1>3. /\ run' \in RunRecords /\ run'.victims = failing /\ run'.key = run.key
      /\ run'.at = IF run.at = "stopKills" THEN "stopPutBack" ELSE "closePutBack"
  BY <1>1, <1>2, RunFacts DEF RunRecords, RunPlaces, Waits
<1>4. failing \subseteq run.victims /\ alive' \subseteq alive
  BY <1>1
<1>5. cancels' \subseteq RunningTasks
  BY <1>2, TypeParts DEF BackgroundIInv, AgentTypes
<1>6. run'.at \in Waits /\ run.at \notin Waits
  BY <1>2, <1>3 DEF Waits
<1>7. killFaults' \in 0..MaxKillFaults /\ killFaults' > 0
  BY <1>2, RunFacts
<1>8. BackgroundTypeOK'
  <2>1. AgentTypes' /\ LockTypes'
    BY <1>2, <1>5, <1>6, RunFacts, RunKeepsAgents, RunLockKept
  <2>2. ManagerTypes' /\ RunTypes'
    BY <1>2, <1>3, <1>4, <1>7, TypeParts
       DEF ManagerTypes, RunTypes, RunRecords, RunPlaces, BackgroundIInv
  <2> QED BY <2>1, <2>2, TypesKept
<1>9. StartsAlone'
  BY <1>2, <1>3, <1>4, <1>6, RunKeepsStarts
<1>10. TableClosed'
  BY <1>2, <1>3, <1>7 DEF BackgroundIInv, TableClosed
<1>11. StopInOrder'
  BY <1>2, <1>3, <1>7 DEF BackgroundIInv, StopInOrder, Closes
<1>12. WithinLimits'
  BY <1>2, <1>3, <1>4, <1>5, <1>7, RunKeepsAgents, FS_Subset DEF BackgroundIInv, WithinLimits
<1>13. StoppedIsOver'
  BY <1>2 DEF BackgroundIInv, StoppedIsOver
<1>14. NothingOutlives'
  <2>1. NothingOutlives
    BY DEF BackgroundIInv
  <2>2. (~cutShort => alive \subseteq sessions \cup run.victims)'
    BY <1>1, <1>2, <1>3, <2>1 DEF NothingOutlives
  <2> QED BY <1>2, <1>3, <1>4, <1>5, <1>7, <2>1, <2>2, RunKeepsAgents DEF NothingOutlives
<1> QED BY <1>8, <1>9, <1>10, <1>11, <1>12, <1>13, <1>14 DEF BackgroundIInv

LEMMA PutsBackKeeps ==
  ASSUME BackgroundIInv, PutsBack
  PROVE  BackgroundIInv'
<1>1. /\ run.at \in {"stopPutBack", "closePutBack"} /\ managerLock' = Released("run")
      /\ sessions' = sessions \cup run.victims /\ agent' = agent /\ cancels' = cancels
      /\ alive' = alive /\ owner' = owner /\ refusing' = refusing /\ signals' = signals
      /\ killFaults' = killFaults /\ stopsServed' = stopsServed /\ cutShort' = cutShort
      /\ stopped' = stopped
  BY DEF PutsBack, agentVars
<1>2. /\ run' \in RunRecords /\ run'.victims = {}
      /\ run'.at = IF run.at = "stopPutBack" THEN "drains" ELSE "down"
  BY <1>1 DEF PutsBack, Serving, RunRecords, RunPlaces
<1>3. killFaults > 0 /\ killFaults' # 0
  BY <1>1, RunFacts DEF BackgroundIInv, StopInOrder
<1>4. cancels' \subseteq RunningTasks
  BY <1>1, TypeParts DEF BackgroundIInv, AgentTypes
<1>5. run'.at \notin Waits
  BY <1>1, <1>2 DEF Waits
<1>6. BackgroundTypeOK'
  <2>1. AgentTypes' /\ LockTypes'
    BY <1>1, <1>4, <1>5, RunFacts, RunKeepsAgents, RunLockKept
  <2>2. ManagerTypes' /\ RunTypes'
    BY <1>1, <1>2, RunFacts, TypeParts DEF ManagerTypes, RunTypes, RunRecords, RunPlaces, BackgroundIInv
  <2> QED BY <2>1, <2>2, TypesKept
<1>7. StartsAlone'
  BY <1>1, <1>2, RunKeepsStarts
<1>8. TableClosed'
  BY <1>1, <1>2, <1>3 DEF BackgroundIInv, TableClosed
<1>9. StopInOrder'
  BY <1>1, <1>2 DEF BackgroundIInv, StopInOrder, Closes
<1>10. WithinLimits'
  <2>1. IsFiniteSet(sessions')
    BY <1>1, FS_Union DEF BackgroundIInv, WithinLimits
  <2> QED BY <1>1, <1>2, <1>3, <1>4, <2>1, RunKeepsAgents, FS_EmptySet DEF WithinLimits
<1>11. StoppedIsOver'
  BY <1>1 DEF BackgroundIInv, StoppedIsOver
<1>12. NothingOutlives'
  BY <1>1, <1>2, <1>3, <1>4, RunKeepsAgents DEF BackgroundIInv, NothingOutlives
<1> QED BY <1>6, <1>7, <1>8, <1>9, <1>10, <1>11, <1>12 DEF BackgroundIInv

(* The gateway cancels run().                                              *)
LEMMA SignalKeeps ==
  ASSUME BackgroundIInv, Signal
  PROVE  BackgroundIInv'
<1>1. /\ signals < 2 /\ run.at # "down" /\ signals' = signals + 1
      /\ agent' = agent /\ sessions' = sessions /\ alive' = alive /\ owner' = owner
      /\ refusing' = refusing /\ stopsServed' = stopsServed /\ killFaults' = killFaults
      /\ stopped' = stopped
  BY DEF Signal
<1>2. signals' \in 0..2
  BY <1>1, RunFacts
<1>3. CASE UNCHANGED <<cancels, managerLock, run, cutShort>>
  <2>1. BackgroundTypeOK'
    BY <1>1, <1>2, <1>3 DEF BackgroundIInv, BackgroundTypeOK, RunningTasks, Runs
  <2>2. StartsAlone' /\ TableClosed' /\ StoppedIsOver'
    BY <1>1, <1>3 DEF BackgroundIInv, StartsAlone, TableClosed, StoppedIsOver, Owns
  <2>3. StopInOrder'
    BY <1>1, <1>3 DEF BackgroundIInv, StopInOrder, OfKey, Runs
  <2>4. WithinLimits' /\ NothingOutlives'
    BY <1>1, <1>3 DEF BackgroundIInv, WithinLimits, NothingOutlives, RunningTasks, Runs
  <2> QED BY <2>1, <2>2, <2>3, <2>4 DEF BackgroundIInv
<1>4. CASE /\ run.at # "stopTurns"
           /\ run' = [Serving EXCEPT !.at = IF run.at \in Closes THEN "down" ELSE "drains"]
           /\ cancels' = cancels \cup (run.agents \cap RunningTasks)
           /\ managerLock' = Released("run")
           /\ cutShort' = (\/ cutShort \/ run.victims # {}
                           \/ run.at \in {"drains", "closeAgents", "closeLock"})
  <2>1. /\ run' \in RunRecords /\ run'.victims = {}
        /\ run'.at = IF run.at \in Closes THEN "down" ELSE "drains"
    BY <1>4 DEF Serving, RunRecords, RunPlaces
  <2>2. cancels' \subseteq RunningTasks /\ cutShort' \in BOOLEAN /\ run'.at \notin Waits
    BY <1>4, <2>1, TypeParts, RunFacts DEF BackgroundIInv, AgentTypes, Waits
  <2>3. BackgroundTypeOK'
    <3>1. AgentTypes' /\ LockTypes'
      BY <1>1, <1>4, <2>2, RunFacts, RunKeepsAgents, RunLockKept
    <3>2. ManagerTypes' /\ RunTypes'
      BY <1>1, <1>2, <2>1, <2>2, TypeParts
         DEF ManagerTypes, RunTypes, RunRecords, RunPlaces, BackgroundIInv
    <3> QED BY <3>1, <3>2, TypesKept
  <2>4. StartsAlone'
    BY <1>1, <1>4, <2>1, RunKeepsStarts
  <2>5. ~cutShort' => ~cutShort /\ run.victims = {}
                      /\ run.at \notin {"drains", "closeAgents", "closeLock"}
    BY <1>4
  <2>6. run'.at = "down" /\ ~cutShort' /\ killFaults = 0 => run.at = "closeKills"
    BY <1>1, <2>1, <2>5 DEF BackgroundIInv, StopInOrder, Closes
  <2>7. TableClosed'
    BY <1>1, <2>1, <2>5, <2>6 DEF BackgroundIInv, TableClosed
  <2>8. StopInOrder'
    <3>1. cutShort' => run'.at \in Closes \cup {"down"}
      BY <2>1 DEF Closes
    <3> QED BY <2>1, <3>1 DEF StopInOrder, Closes
  <2>9. WithinLimits'
    BY <1>1, <2>1, <2>2, RunKeepsAgents, FS_EmptySet DEF BackgroundIInv, WithinLimits
  <2>10. StoppedIsOver'
    BY <1>1 DEF BackgroundIInv, StoppedIsOver
  <2>11. NothingOutlives'
    BY <1>1, <2>1, <2>2, <2>5, <2>6, RunKeepsAgents DEF BackgroundIInv, NothingOutlives, TableClosed
  <2> QED BY <2>3, <2>4, <2>7, <2>8, <2>9, <2>10, <2>11 DEF BackgroundIInv
<1> QED BY <1>3, <1>4 DEF Signal
-----------------------------------------------------------------------------
(* The invariant of the background work: locks, tables and limits as       *)
(* BackgroundIInv says, however subagents, processes, /stop and the        *)
(* shutdown interleave.                                                    *)
THEOREM BackgroundInvariant == BackgroundSpec => []BackgroundIInv
<1>1. BackgroundInit => BackgroundIInv
  BY BackgroundStart
<1>2. BackgroundIInv /\ [BackgroundNext]_backgroundVars => BackgroundIInv'
  <2> SUFFICES ASSUME BackgroundIInv, [BackgroundNext]_backgroundVars
               PROVE  BackgroundIInv'
    OBVIOUS
  <2>1. ASSUME NEW a \in Subagents, SubagentStep(a)
        PROVE  BackgroundIInv'
    BY <2>1, SubagentKeeps
  <2>2. ASSUME NEW c \in Commands, Exit(c)
        PROVE  BackgroundIInv'
    BY <2>2, ExitKeeps
  <2>3. ASSUME NEW key \in Keys, CancelBegins(key)
        PROVE  BackgroundIInv'
    BY <2>3, CancelBeginsKeeps
  <2>4. CASE UNCHANGED backgroundVars
    <3>1. UNCHANGED <<agent, cancels, managerLock, sessions, alive, owner, refusing, run, signals,
                      stopsServed, killFaults, cutShort, stopped>>
      BY <2>4 DEF backgroundVars, agentVars, managerVars, runVars
    <3>2. BackgroundTypeOK' /\ WithinLimits' /\ NothingOutlives'
      BY <3>1 DEF BackgroundIInv, BackgroundTypeOK, WithinLimits, NothingOutlives, RunningTasks, Runs
    <3>3. StartsAlone' /\ TableClosed' /\ StopInOrder' /\ StoppedIsOver'
      BY <3>1 DEF BackgroundIInv, StartsAlone, TableClosed, StopInOrder, StoppedIsOver,
                  Owns, OfKey, Runs
    <3> QED BY <3>2, <3>3 DEF BackgroundIInv
  <2>5. CASE StopTurnsEnd \/ AgentsEnd \/ StopTakesOut \/ CloseTakesOut
    BY <2>5, StopTurnsEndKeeps, AgentsEndKeeps, StopTakesOutKeeps, CloseTakesOutKeeps
  <2>6. CASE Kills \/ KillsFail \/ PutsBack \/ RunStops \/ DrainEnds \/ Signal
    BY <2>6, KillsKeeps, KillsFailKeeps, PutsBackKeeps, RunStopsKeeps, DrainEndsKeeps, SignalKeeps
  <2> QED BY <2>1, <2>2, <2>3, <2>4, <2>5, <2>6 DEF BackgroundNext, SubagentStep
<1> QED BY <1>1, <1>2, PTL DEF BackgroundSpec

(* A process that runs can be reached or is about to be killed, there are  *)
(* no more than allowed, a /stop leaves nothing of its session running,    *)
(* and closing leaves nothing at all.                                      *)
THEOREM NothingOutlivesStop == BackgroundSpec => []NothingOutlives
<1>1. BackgroundIInv => NothingOutlives
  BY DEF BackgroundIInv
<1> QED BY <1>1, BackgroundInvariant, PTL
=============================================================================
