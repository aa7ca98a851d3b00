-------------------------- MODULE SessionDispatch --------------------------
(***************************************************************************)
(* How the agent loop turns inbound messages into turns                    *)
(* (nanobot/agent/loop.py, agent/automation_turns.py, bus/queue.py,        *)
(* session/turn_continuation.py, command/builtin.py cmd_stop).             *)
(*                                                                         *)
(* One coroutine, AgentLoop.run, consumes the inbound bus.  A message of a *)
(* session with a live turn goes to that turn's pending queue (a user      *)
(* message) or is deferred (an automation turn); otherwise it becomes an   *)
(* asyncio task running _dispatch.  Tasks of one session serialise on a    *)
(* FIFO lock, all of them on a FIFO semaphore (the concurrency gate).      *)
(* process_direct shares the session lock, but neither the gate nor the    *)
(* pending queue.                                                          *)
(*                                                                         *)
(* Everything runs on one event loop, so a step of this specification is   *)
(* the code between two suspension points.  A message stands for the task  *)
(* that dispatches it: no message has two tasks at the same time.          *)
(***************************************************************************)
EXTENDS Naturals, FiniteSets, SequencesExt

CONSTANTS
  Sessions,       \* effective session keys
  Users,          \* chat messages (and subagent results) published to the bus
  Autos,          \* cron and local-trigger turns, published by submit()
  Directs,        \* calls of process_direct (SDK, HTTP API)
  SessionOf,      \* the effective session key of each message
  Goals,          \* the messages whose turns may run into the tool budget
                  \* while a sustained goal is active
  Cap,            \* maxsize of a pending queue (20)
  InjectLimit,    \* _MAX_INJECTIONS_PER_TURN (3)
  MaxCycles,      \* _MAX_INJECTION_CYCLES (5)
  MaxRounds,      \* _MAX_GOAL_CONTINUATION_ROUNDS (12)
  MaxConcurrent,  \* permits of the concurrency gate (3)
  MaxStops,       \* bound of the model: /stop commands per run
  None            \* no task, no session

Bus == Users \cup Autos
Msgs == Bus \cup Directs

ASSUME KindAssumption ==
  /\ Users \cap Autos = {} /\ Bus \cap Directs = {}
  /\ IsFiniteSet(Msgs)
  /\ SessionOf \in [Msgs -> Sessions]
  /\ Goals \subseteq Bus
  /\ None \notin Msgs \cup Sessions
ASSUME BoundAssumption ==
  /\ Cap \in Nat \ {0} /\ InjectLimit \in Nat \ {0}
  /\ MaxCycles \in Nat /\ MaxRounds \in Nat
  /\ MaxConcurrent \in Nat \ {0}
  /\ MaxStops \in Nat

VARIABLES
  inbound,      \* MessageBus.inbound
  ready,        \* tasks created by run() that have not had their first step
  phase,        \* where the task of each message is
  lock,         \* owner of each session lock (granted, resumed or not)
  lockWaiters,  \* FIFO of the tasks waiting for each session lock
  gate,         \* tasks holding a permit of the gate (granted, resumed or not)
  gateWaiters,  \* FIFO of the tasks waiting for a permit
  registered,   \* _pending_queues: whose queue is published for a session
  queue,        \* the pending queue each task created
  cycles,       \* injection cycles used by the turn of each task
  rounds,       \* goal continuation rounds used, per session
  deferred,     \* deferred_queues shared by the automation coordinators
  waiter,       \* the future submit() awaits, per automation turn
  cancelled,    \* tasks with a cancellation pending
  stopping,     \* the session whose /stop run() is awaiting
  stops,        \* /stop commands so far
  fate,         \* history: what became of each message
  skipped       \* history: the sessions whose latest task to end was cancelled
                \* before its first step, and so ran no finally clause

taskVars  == <<ready, phase, lock, lockWaiters, gate, gateWaiters>>
turnVars  == <<registered, queue, cycles, rounds>>
autoVars  == <<deferred, waiter>>
stopVars  == <<cancelled, stopping, stops, skipped>>
vars == <<inbound, taskVars, turnVars, autoVars, stopVars, fate>>

Live == {"running", "finishing", "blocked"}
Phases == {"none", "ready", "lock", "gate"} \cup Live
Settled == {"handled", "injected", "stopped", "failed"}

TypeOK ==
  /\ inbound \in Seq(Bus) /\ ready \in Seq(Bus)
  /\ phase \in [Msgs -> Phases]
  /\ lock \in [Sessions -> Msgs \cup {None}]
  /\ lockWaiters \in [Sessions -> Seq(Msgs)]
  /\ gate \subseteq Bus /\ gateWaiters \in Seq(Bus)
  /\ registered \in [Sessions -> Bus \cup {None}]
  /\ queue \in [Bus -> Seq(Bus)]
  /\ \A m \in Bus : Len(queue[m]) <= Cap
  /\ cycles \in [Bus -> 0..MaxCycles]
  /\ rounds \in [Sessions -> 0..MaxRounds]
  /\ deferred \in [Sessions -> Seq(Autos)]
  /\ waiter \in [Autos -> {"none", "waiting", "ok", "error"}]
  /\ cancelled \subseteq Bus
  /\ stopping \in Sessions \cup {None}
  /\ stops \in 0..MaxStops
  /\ fate \in [Msgs -> {"unsent", "open"} \cup Settled]
  /\ skipped \subseteq Sessions

Init ==
  /\ inbound = <<>> /\ ready = <<>>
  /\ phase = [m \in Msgs |-> "none"]
  /\ lock = [s \in Sessions |-> None]
  /\ lockWaiters = [s \in Sessions |-> <<>>]
  /\ gate = {} /\ gateWaiters = <<>>
  /\ registered = [s \in Sessions |-> None]
  /\ queue = [m \in Bus |-> <<>>]
  /\ cycles = [m \in Bus |-> 0]
  /\ rounds = [s \in Sessions |-> 0]
  /\ deferred = [s \in Sessions |-> <<>>]
  /\ waiter = [a \in Autos |-> "none"]
  /\ cancelled = {} /\ stopping = None /\ stops = 0
  /\ fate = [m \in Msgs |-> "unsent"] /\ skipped = {}
-----------------------------------------------------------------------------
(* asyncio.Lock and asyncio.Semaphore: FIFO, no barging.  A release hands  *)
(* the lock or the permit to the first waiter, which resumes later; a      *)
(* cancelled waiter leaves the queue, or gives back what it was granted.   *)

\* Mutant of LockFree: the fast path looks at the waiters only.
LockFreeMutant(s) == lockWaiters[s] = <<>>
LockFree(s) == lock[s] = None

\* Mutants of FirstWaiter: the last waiter wins; nobody is woken.
FirstWaiterLifo(q) == IF q = <<>> THEN None ELSE Last(q)
FirstWaiterLost(q) == None
FirstWaiter(q) == IF q = <<>> THEN None ELSE Head(q)

OtherWaiters(q) == IF q = <<>> THEN <<>> ELSE Tail(q)

\* Mutant of Leave: a cancelled waiter stays in the queue.
LeaveMutant(q, m) == q
Leave(q, m) ==
  IF Contains(q, m) THEN RemoveAt(q, CHOOSE i \in DOMAIN q : q[i] = m) ELSE q

ReleaseLock(m) ==
  LET s == SessionOf[m] IN
  IF lock[s] = m
  THEN /\ lock' = [lock EXCEPT ![s] = FirstWaiter(lockWaiters[s])]
       /\ lockWaiters' = [lockWaiters EXCEPT ![s] = OtherWaiters(@)]
  ELSE /\ lockWaiters' = [lockWaiters EXCEPT ![s] = Leave(@, m)]
       /\ lock' = lock

\* Mutant of GateFree: one permit too many.
GateFreeMutant == Cardinality(gate) <= MaxConcurrent /\ gateWaiters = <<>>
GateFree == Cardinality(gate) < MaxConcurrent /\ gateWaiters = <<>>

ReleaseGate(m) ==
  IF m \in gate
  THEN /\ gate' = (gate \ {m}) \cup ({FirstWaiter(gateWaiters)} \ {None})
       /\ gateWaiters' = OtherWaiters(gateWaiters)
  ELSE /\ gateWaiters' = Leave(gateWaiters, m)
       /\ gate' = gate

(* The first statements under `async with lock, gate`: the turn's pending  *)
(* queue is created and published.                                         *)
EnterTurn(m) ==
  /\ phase' = [phase EXCEPT ![m] = "running"]
  /\ registered' = [registered EXCEPT ![SessionOf[m]] = m]
  /\ queue' = [queue EXCEPT ![m] = <<>>]
  /\ cycles' = [cycles EXCEPT ![m] = 0]
  /\ UNCHANGED rounds

(* With the session lock in hand: take a permit, or wait for one.          *)
EnterGate(m) ==
  \/ /\ GateFree
     /\ gate' = gate \cup {m}
     /\ EnterTurn(m)
     /\ UNCHANGED gateWaiters
  \/ /\ ~ GateFree
     /\ gateWaiters' = Append(gateWaiters, m)
     /\ phase' = [phase EXCEPT ![m] = "gate"]
     /\ UNCHANGED <<gate, turnVars>>
-----------------------------------------------------------------------------
(* Producers.                                                              *)

(* A channel publishes a chat message.                                     *)
Publish(u) ==
  /\ u \in Users /\ fate[u] = "unsent"
  /\ inbound' = Append(inbound, u)
  /\ fate' = [fate EXCEPT ![u] = "open"]
  /\ UNCHANGED <<taskVars, turnVars, autoVars, stopVars>>

(* AutomationTurnCoordinator.submit while the loop runs.                   *)
Submit(a) ==
  /\ a \in Autos /\ fate[a] = "unsent"
  /\ waiter' = [waiter EXCEPT ![a] = "waiting"]
  /\ inbound' = Append(inbound, a)
  /\ fate' = [fate EXCEPT ![a] = "open"]
  /\ UNCHANGED <<taskVars, turnVars, deferred, stopVars>>

(* process_direct: the caller's own task, serialised by the session lock.  *)
CallDirect(d) ==
  LET s == SessionOf[d] IN
  /\ d \in Directs /\ fate[d] = "unsent"
  /\ fate' = [fate EXCEPT ![d] = "open"]
  /\ \/ /\ LockFree(s)
        /\ lock' = [lock EXCEPT ![s] = d]
        /\ phase' = [phase EXCEPT ![d] = "running"]
        /\ UNCHANGED lockWaiters
     \/ /\ ~ LockFree(s)
        /\ lockWaiters' = [lockWaiters EXCEPT ![s] = Append(@, d)]
        /\ phase' = [phase EXCEPT ![d] = "lock"]
        /\ UNCHANGED lock
  /\ UNCHANGED <<inbound, ready, gate, gateWaiters, turnVars, autoVars, stopVars>>

DirectWakes(d) ==
  /\ d \in Directs /\ phase[d] = "lock" /\ lock[SessionOf[d]] = d
  /\ phase' = [phase EXCEPT ![d] = "running"]
  /\ UNCHANGED <<inbound, ready, lock, lockWaiters, gate, gateWaiters,
                 turnVars, autoVars, stopVars, fate>>

(* It returns, raises, or its caller gives up (in the queue or in the turn). *)
DirectEnds(d) ==
  /\ d \in Directs /\ phase[d] \in {"lock", "running"}
  /\ \/ phase[d] = "running" /\ fate' = [fate EXCEPT ![d] = "handled"]
     \/ fate' = [fate EXCEPT ![d] = "failed"]
  /\ phase' = [phase EXCEPT ![d] = "none"]
  /\ ReleaseLock(d)
  /\ UNCHANGED <<inbound, ready, gate, gateWaiters, turnVars, autoVars, stopVars>>
-----------------------------------------------------------------------------
(* AgentLoop.run: one iteration per message.  When the bus is not empty,   *)
(* consuming the next message need not suspend run() (asyncio.wait_for     *)
(* awaits it inline since Python 3.12), so that run() may go on, to the    *)
(* next message or a /stop, before the task it created has had its first   *)
(* step.                                                                   *)
RunLoopIdle == stopping = None

\* Mutant of IsAutomation: no coordinator recognises the turn.
IsAutomationMutant(m) == FALSE
IsAutomation(m) == m \in Autos

HasRoom(o) == Len(queue[o]) < Cap

Defer(m) ==
  LET s == SessionOf[m] IN
  /\ IsAutomation(m) /\ registered[s] # None
  /\ deferred' = [deferred EXCEPT ![s] = Append(@, m)]
  /\ UNCHANGED <<taskVars, turnVars>>

Inject(m) ==
  LET o == registered[SessionOf[m]] IN
  /\ ~ IsAutomation(m) /\ o # None /\ HasRoom(o)
  /\ queue' = [queue EXCEPT ![o] = Append(@, m)]
  /\ UNCHANGED <<taskVars, registered, cycles, rounds, deferred>>

(* No live turn, or its pending queue is full: a task of its own.          *)
Spawn(m) ==
  LET o == registered[SessionOf[m]] IN
  /\ o # None => ~ IsAutomation(m) /\ ~ HasRoom(o)
  /\ ready' = Append(ready, m)
  /\ phase' = [phase EXCEPT ![m] = "ready"]
  /\ UNCHANGED <<lock, lockWaiters, gate, gateWaiters, turnVars, deferred>>

Consume ==
  /\ RunLoopIdle /\ inbound # <<>>
  /\ inbound' = Tail(inbound)
  /\ Defer(Head(inbound)) \/ Inject(Head(inbound)) \/ Spawn(Head(inbound))
  /\ UNCHANGED <<waiter, stopVars, fate>>

Tasks(s) == {m \in Bus : SessionOf[m] = s /\ phase[m] # "none"}

(* /stop, handled inline: run() cancels the session's tasks and awaits     *)
(* them; other tasks go on meanwhile.                                      *)
StopBegins(s) ==
  /\ RunLoopIdle /\ stops < MaxStops
  /\ stops' = stops + 1
  /\ stopping' = s
  /\ cancelled' = cancelled \cup Tasks(s)
  /\ UNCHANGED <<inbound, taskVars, turnVars, autoVars, fate, skipped>>

(* Then cmd_stop drops the pending queue still published for the session.  *)
StopEnds ==
  LET o == registered[stopping]
      dropped == IF o = None THEN {} ELSE ToSet(queue[o])
  IN
  /\ stopping # None
  /\ Tasks(stopping) \cap cancelled = {}
  /\ registered' = [registered EXCEPT ![stopping] = None]
  /\ queue' = [m \in Bus |-> IF m = o THEN <<>> ELSE queue[m]]
  /\ fate' = [m \in Msgs |-> IF m \in dropped THEN "stopped" ELSE fate[m]]
  /\ stopping' = None
  /\ UNCHANGED <<inbound, taskVars, cycles, rounds, autoVars, cancelled, stops, skipped>>
-----------------------------------------------------------------------------
(* AgentLoop._dispatch.                                                    *)

(* First step of the oldest new task.                                      *)
TaskStarts ==
  LET m == Head(ready)  s == SessionOf[m] IN
  /\ ready # <<>> /\ m \notin cancelled
  /\ ready' = Tail(ready)
  /\ \/ /\ LockFree(s)
        /\ lock' = [lock EXCEPT ![s] = m]
        /\ EnterGate(m)
        /\ UNCHANGED lockWaiters
     \/ /\ ~ LockFree(s)
        /\ lockWaiters' = [lockWaiters EXCEPT ![s] = Append(@, m)]
        /\ phase' = [phase EXCEPT ![m] = "lock"]
        /\ UNCHANGED <<lock, gate, gateWaiters, turnVars>>
  /\ UNCHANGED <<inbound, autoVars, stopVars, fate>>

LockWakes(m) ==
  /\ m \in Bus \ cancelled /\ phase[m] = "lock" /\ lock[SessionOf[m]] = m
  /\ EnterGate(m)
  /\ UNCHANGED <<inbound, ready, lock, lockWaiters, autoVars, stopVars, fate>>

GateWakes(m) ==
  /\ m \in Bus \ cancelled /\ phase[m] = "gate" /\ m \in gate
  /\ EnterTurn(m)
  /\ UNCHANGED <<inbound, ready, lock, lockWaiters, gate, gateWaiters,
                 autoVars, stopVars, fate>>

Running(m) == m \in Bus \ cancelled /\ phase[m] = "running"

(* A drain takes up to InjectLimit messages off the pending queue into the *)
(* turn's conversation, as long as the turn has injection cycles left.     *)
AfterDrain(m) ==
  IF cycles[m] = MaxCycles THEN queue[m]
  ELSE SubSeq(queue[m], IF Len(queue[m]) < InjectLimit THEN Len(queue[m]) + 1
                        ELSE InjectLimit + 1, Len(queue[m]))

TakeInjections(m) ==
  fate' = [x \in Msgs |->
             IF x \in ToSet(queue[m]) \ ToSet(AfterDrain(m)) THEN "injected" ELSE fate[x]]

(* After tools or a candidate final answer, and the turn goes on.          *)
DrainPending(m) ==
  /\ Running(m) /\ queue[m] # <<>> /\ cycles[m] < MaxCycles
  /\ TakeInjections(m)
  /\ queue' = [queue EXCEPT ![m] = AfterDrain(m)]
  /\ cycles' = [cycles EXCEPT ![m] = @ + 1]
  /\ UNCHANGED <<inbound, taskVars, registered, rounds, autoVars, stopVars>>

(* The runner stops: with an answer or an error once nothing is left to    *)
(* inject or no cycle is left, or at the end of its tool budget after one  *)
(* last drain.  What arrives from here on stays in the queue.              *)
RunnerStops(m) ==
  /\ Running(m)
  /\ TakeInjections(m)
  /\ queue' = [queue EXCEPT ![m] = AfterDrain(m)]
  /\ phase' = [phase EXCEPT ![m] = "finishing"]
  /\ UNCHANGED <<inbound, ready, lock, lockWaiters, gate, gateWaiters,
                 registered, cycles, rounds, autoVars, stopVars>>

(* The tool budget is spent while a goal is active: after the last drain   *)
(* maybe_continue_turn puts the continuation of m into m's own queue.  Only *)
(* m takes from that queue, so a put into a full one blocks for good.      *)
ContinueTurn(m) ==
  LET s == SessionOf[m]  left == AfterDrain(m) IN
  /\ Running(m) /\ m \in Goals /\ rounds[s] < MaxRounds
  /\ rounds' = [rounds EXCEPT ![s] = @ + 1]
  /\ TakeInjections(m)
  /\ \/ /\ Len(left) < Cap
        /\ queue' = [queue EXCEPT ![m] = Append(left, m)]
        /\ phase' = [phase EXCEPT ![m] = "finishing"]
     \/ /\ Len(left) >= Cap
        /\ queue' = [queue EXCEPT ![m] = left]
        /\ phase' = [phase EXCEPT ![m] = "blocked"]
  /\ UNCHANGED <<inbound, ready, lock, lockWaiters, gate, gateWaiters,
                 registered, cycles, autoVars, stopVars>>

(* publish_next_deferred_turn.                                             *)
\* Mutant of NextDeferred: the end of a turn publishes nothing.
NextDeferredMutant(s) == <<>>
NextDeferred(s) ==
  IF deferred[s] = <<>> THEN <<>> ELSE <<Head(deferred[s])>>

DropDeferred(s) ==
  deferred' = [deferred EXCEPT ![s] = IF NextDeferred(s) = <<>> THEN @ ELSE Tail(@)]

(* AutomationTurnCoordinator.complete.                                     *)
\* Mutant of Complete: errors are not reported.
CompleteMutant(m, outcome) ==
  waiter' = [a \in Autos |->
               IF a = m /\ waiter[a] = "waiting" /\ outcome = "ok" THEN "ok" ELSE waiter[a]]
Complete(m, outcome) ==
  waiter' = [a \in Autos |->
               IF a = m /\ waiter[a] = "waiting" THEN outcome ELSE waiter[a]]

\* Mutant of Leftovers: the pending queue is discarded with the turn.
LeftoversMutant(m) == <<>>
Leftovers(m) == queue[m]

\* Mutant of Unregister: the queue stays published.
UnregisterMutant(m) == registered
Unregister(m) == [registered EXCEPT ![SessionOf[m]] = IF @ = m THEN None ELSE @]

Continued(m) == m \in Bus /\ Contains(queue[m], m)

(* The finally clauses of _dispatch: leftovers go back to the tail of the  *)
(* bus, then the session's next deferred automation turn; permit and lock  *)
(* are released.  A turn that queued its continuation is not over.         *)
EndTurn(m, how, outcome) ==
  LET s == SessionOf[m] IN
  /\ Complete(m, outcome)
  /\ inbound' = inbound \o Leftovers(m) \o NextDeferred(s)
  /\ DropDeferred(s)
  /\ registered' = Unregister(m)
  /\ queue' = [queue EXCEPT ![m] = <<>>]
  /\ fate' = IF Continued(m) THEN fate ELSE [fate EXCEPT ![m] = how]
  /\ phase' = [phase EXCEPT ![m] = "none"]
  /\ cancelled' = cancelled \ {m}
  /\ skipped' = skipped \ {s}
  /\ ReleaseGate(m) /\ ReleaseLock(m)
  /\ UNCHANGED <<ready, cycles, rounds, stopping, stops>>

TurnReturns(m) ==
  /\ m \in Bus \ cancelled /\ phase[m] = "finishing"
  /\ EndTurn(m, "handled", "ok")

(* An exception escapes _process_message.                                  *)
TurnFails(m) ==
  /\ m \in Bus \ cancelled /\ phase[m] \in {"running", "finishing"}
  /\ EndTurn(m, "failed", "error")

TurnCancelled(m) ==
  /\ m \in cancelled /\ phase[m] \in Live
  /\ EndTurn(m, "stopped", "error")

(* Cancelled while waiting for the lock or the gate: pending is None, so   *)
(* only the outer finally runs, and no coordinator hears of it.            *)
WaitCancelled(m) ==
  LET s == SessionOf[m] IN
  /\ m \in cancelled /\ phase[m] \in {"lock", "gate"}
  /\ inbound' = inbound \o NextDeferred(s)
  /\ DropDeferred(s)
  /\ ReleaseGate(m) /\ ReleaseLock(m)
  /\ phase' = [phase EXCEPT ![m] = "none"]
  /\ cancelled' = cancelled \ {m}
  /\ fate' = [fate EXCEPT ![m] = "stopped"]
  /\ skipped' = skipped \ {s}
  /\ UNCHANGED <<ready, turnVars, waiter, stopping, stops>>

(* Cancelled before its first step: the coroutine body never runs, nor do  *)
(* its finally clauses.                                                    *)
StartCancelled ==
  /\ ready # <<>> /\ Head(ready) \in cancelled
  /\ ready' = Tail(ready)
  /\ phase' = [phase EXCEPT ![Head(ready)] = "none"]
  /\ cancelled' = cancelled \ {Head(ready)}
  /\ fate' = [fate EXCEPT ![Head(ready)] = "stopped"]
  /\ skipped' = skipped \cup {SessionOf[Head(ready)]}
  /\ UNCHANGED <<inbound, lock, lockWaiters, gate, gateWaiters, turnVars,
                 autoVars, stopping, stops>>
-----------------------------------------------------------------------------
Environment ==
  \/ \E u \in Users : Publish(u)
  \/ \E a \in Autos : Submit(a)
  \/ \E d \in Directs : CallDirect(d)
  \/ \E s \in Sessions : StopBegins(s)

(* What the turn of m does on its own.                                     *)
TurnStep(m) ==
  \/ DrainPending(m) \/ RunnerStops(m) \/ ContinueTurn(m)
  \/ TurnReturns(m) \/ TurnFails(m) \/ TurnCancelled(m) \/ WaitCancelled(m)

Wakes(m) == LockWakes(m) \/ GateWakes(m)
NewTask == TaskStarts \/ StartCancelled
DirectStep(d) == DirectWakes(d) \/ DirectEnds(d)

Next ==
  \/ Environment
  \/ Consume \/ StopEnds \/ NewTask
  \/ \E m \in Bus : Wakes(m) \/ TurnStep(m)
  \/ \E d \in Directs : DirectStep(d)

Spec == Init /\ [][Next]_vars

(* The event loop runs every task that can run, and a turn ends: model     *)
(* calls and tools are bounded by timeouts.  Nobody has to send anything.  *)
Fairness ==
  /\ WF_vars(Consume) /\ WF_vars(StopEnds) /\ WF_vars(NewTask)
  /\ \A m \in Bus : WF_vars(Wakes(m)) /\ WF_vars(TurnStep(m))
  /\ \A d \in Directs : WF_vars(DirectStep(d))

FairSpec == Spec /\ Fairness
-----------------------------------------------------------------------------
(* Safety.                                                                 *)

Turns(s) == {m \in Msgs : SessionOf[m] = s /\ phase[m] \in Live}

(* Per-session serial (docstring of _dispatch): whatever the mix of bus    *)
(* turns, direct calls, cancellations and lock hand-overs, a session has   *)
(* at most one turn in progress.                                           *)
OneTurnPerSession == \A s \in Sessions : Cardinality(Turns(s)) <= 1

(* Messages are injected only into the turn that owns the session lock:    *)
(* the published pending queue belongs to the live bus turn, a task that   *)
(* waits cannot replace it, and a live bus turn always has it published.   *)
PendingQueueOwned ==
  \A s \in Sessions : \A m \in Bus :
    registered[s] = m <=> m \in Turns(s)

(* The gate bounds the bus turns that run at the same time, also when      *)
(* permits are handed over to tasks that are cancelled before they resume. *)
GateBound == Cardinality({m \in Bus : phase[m] \in Live}) <= MaxConcurrent

(* Every place where an open message can be.                               *)
TaskPlaces(m) == IF phase[m] = "none" \/ Continued(m) THEN {} ELSE {<<"task", None, 0>>}
BusPlaces(m) == {<<"inbound", None, i>> : i \in {i \in DOMAIN inbound : inbound[i] = m}}
DeferredPlaces(m) ==
  UNION {{<<"deferred", s, i>> : i \in {i \in DOMAIN deferred[s] : deferred[s][i] = m}}
           : s \in Sessions}
QueuePlaces(m) ==
  UNION {{<<"queue", o, i>> : i \in {i \in DOMAIN queue[o] : queue[o][i] = m}} : o \in Bus}
Places(m) == TaskPlaces(m) \cup BusPlaces(m) \cup DeferredPlaces(m) \cup QueuePlaces(m)

(* No message is lost or processed twice: an accepted message is in        *)
(* exactly one place (bus, deferred queue, pending queue or task), and a   *)
(* settled one is in none ("rather than silently lost", _dispatch).        *)
NoMessageLost ==
  \A m \in Msgs : Cardinality(Places(m)) = (IF fate[m] = "open" THEN 1 ELSE 0)

(* An automation turn is never injected into somebody else's live turn: it *)
(* is deferred until the session is idle (agent/automation_turns.py).      *)
AutomationNeverInjected ==
  \A a \in Autos :
    /\ fate[a] # "injected"
    /\ \A o \in Bus \ {a} : ~ Contains(queue[o], a)

(* A deferred automation turn waits for something that will publish it: a  *)
(* task of its session, or an automation turn of its session on the bus    *)
(* ("the trigger waits until the session becomes idle",                    *)
(* docs/automations.md:142).  The one way to be left behind is that the    *)
(* latest task of the session to end was cancelled before its first step,  *)
(* and published nothing.                                                  *)
DeferredNotStranded ==
  \A s \in Sessions : deferred[s] # <<>> =>
    \/ Tasks(s) # {}
    \/ \E a \in Autos \cap ToSet(inbound) : SessionOf[a] = s
    \/ s \in skipped

(* An automation turn that /stop cancels reports it to its submitter.      *)
StoppedTurnReports ==
  \A a \in Autos : fate[a] = "stopped" => waiter[a] # "waiting"

(* The lock is FIFO through releases and cancellations: when it changes    *)
(* hands, its new owner had waited longest, or nobody was waiting.         *)
LockIsFifo ==
  [][\A s \in Sessions :
       lock'[s] \notin {lock[s], None} /\ lockWaiters[s] # <<>>
         => lock'[s] = lockWaiters[s][1]]_vars

(* /stop drops what is pending: a cancelled turn's queue is not processed  *)
(* (tests/command/test_stop_pending_queue.py).                             *)
StopDropsPending ==
  [][\A m \in Bus : m \in cancelled /\ phase[m] \in Live /\ phase'[m] = "none"
        => ToSet(queue[m]) \cap ToSet(inbound') = {}]_vars

(* Liveness.                                                               *)

(* Deferred behind a task that a /stop cancelled before its first step,    *)
(* with nothing of the session on its way: only a later message of the     *)
(* session gets the turn out.                                              *)
Stranded(m) ==
  LET s == SessionOf[m] IN
  /\ m \in ToSet(deferred[s]) /\ s \in skipped
  /\ Tasks(s) = {} /\ \A x \in ToSet(inbound) : SessionOf[x] # s

(* Every accepted message settles, however it is deferred, republished or  *)
(* handed on: it is answered, injected, or its turn fails or is stopped.   *)
(* Only a stranded turn waits longer, and settles when it is published.    *)
EveryMessageSettles ==
  \A m \in Msgs : fate[m] = "open" ~> fate[m] \in Settled \/ Stranded(m)

(* The future of every submitted automation turn is resolved, however long *)
(* the turn is deferred, whether it fails or continues; only a /stop, of   *)
(* the turn itself or of a task not yet started before it, leaves it open. *)
EverySubmitReturns ==
  \A a \in Autos :
    waiter[a] = "waiting" ~>
      waiter[a] \in {"ok", "error"} \/ fate[a] = "stopped" \/ Stranded(a)

(* An allowed continuation is queued (turn_continuation.py).               *)
ContinuationIsQueued == \A m \in Bus : phase[m] = "blocked" ~> phase[m] # "blocked"
-----------------------------------------------------------------------------
(* The inductive invariant behind the safety properties.                   *)

(* Lock ownership: only an owner is past the lock; waiters are distinct    *)
(* tasks of the session, none of them the owner; nobody waits for a free   *)
(* lock.                                                                   *)
LockInv ==
  /\ \A m \in Msgs : phase[m] \in Live \cup {"gate"} => lock[SessionOf[m]] = m
  /\ \A s \in Sessions : lock[s] # None =>
       SessionOf[lock[s]] = s /\ phase[lock[s]] \in Live \cup {"lock", "gate"}
  /\ \A s \in Sessions :
       /\ IsInjective(lockWaiters[s])
       /\ \A m \in ToSet(lockWaiters[s]) :
            SessionOf[m] = s /\ phase[m] = "lock" /\ lock[s] # m
       /\ lock[s] = None => lockWaiters[s] = <<>>

(* Permits: a live bus turn holds one, and there are never too many.       *)
GateInv ==
  /\ Cardinality(gate) <= MaxConcurrent
  /\ \A m \in Bus : phase[m] \in Live => m \in gate
  /\ \A m \in gate : phase[m] \in Live \cup {"gate"}
  /\ IsInjective(gateWaiters)
  /\ \A m \in ToSet(gateWaiters) : phase[m] = "gate" /\ m \notin gate

(* A message waits in one place at most, and has no task while it waits.   *)
PlaceInv ==
  /\ IsInjective(ready) /\ \A m \in ToSet(ready) : phase[m] = "ready"
  /\ IsInjective(inbound) /\ \A m \in ToSet(inbound) : phase[m] = "none"
  /\ \A s \in Sessions :
       /\ IsInjective(deferred[s])
       /\ \A a \in ToSet(deferred[s]) :
            SessionOf[a] = s /\ phase[a] = "none" /\ a \notin ToSet(inbound)

(* The same for pending queues: they belong to live turns, and hold user   *)
(* messages of the session or the turn's own continuation.                 *)
QueueInv ==
  /\ PendingQueueOwned
  /\ \A o \in Bus :
       /\ phase[o] \notin Live => queue[o] = <<>>
       /\ phase[o] = "running" => o \notin ToSet(queue[o])
       /\ IsInjective(queue[o])
       /\ \A m \in ToSet(queue[o]) :
            /\ SessionOf[m] = SessionOf[o]
            /\ m = o \/ (m \in Users /\ phase[m] = "none")
            /\ m \notin ToSet(inbound) \cup ToSet(deferred[SessionOf[o]])

(* A message that was not sent yet is nowhere.                             *)
UnsentInv ==
  \A m \in Msgs : fate[m] = "unsent" =>
    /\ phase[m] = "none" /\ m \notin ToSet(inbound)
    /\ m \notin ToSet(deferred[SessionOf[m]])
    /\ \A o \in Bus : m \notin ToSet(queue[o])

(* While run() awaits a /stop, every task of the session is cancelled: no  *)
(* other can start.                                                        *)
StopInv == stopping # None => Tasks(stopping) \subseteq cancelled

(* Together they are inductive (SessionDispatchProofs).                    *)
IInv ==
  /\ TypeOK /\ LockInv /\ GateInv /\ PlaceInv /\ QueueInv /\ UnsentInv /\ StopInv
  /\ \A a \in Autos : fate[a] # "injected"

(* Behind NoMessageLost, on top of IInv: an open message is somewhere.     *)
Somewhere(m) ==
  \/ phase[m] # "none"
  \/ m \in ToSet(inbound) \cup ToSet(deferred[SessionOf[m]])
  \/ \E o \in Bus : m \in ToSet(queue[o])

OpenInv == \A m \in Msgs : fate[m] = "open" <=> Somewhere(m)

DispatchInv == IInv /\ OpenInv
=============================================================================
