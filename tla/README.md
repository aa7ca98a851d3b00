# A verification project for BIV

BIV is a Cartesian-demon experiment on top of nanobot, an agent runtime in
Python. Agent A (nanobot) plans and calls tools; Agent B, the Demon, answers the
calls and so makes up the world A sees. This directory holds TLA+ models of the
parts whose correctness depends on interleaving, failure and order, the TLC runs
that check them, and proofs for TLAPS.

## 1. The system

| Part | Source | State it keeps | Operations |
|---|---|---|---|
| Agent dispatch | `nanobot/agent/loop.py` (`run`, `_dispatch`, `process_direct`), `bus/queue.py` | inbound bus, tasks, session locks, concurrency gate, pending queue per live turn | consume, inject, defer, spawn, wait, run, end, republish |
| Automation turns | `nanobot/agent/automation_turns.py` | deferred queues, a future per submitted turn | submit, defer, complete, publish the next one |
| Turn continuation | `nanobot/session/turn_continuation.py` | rounds of a sustained goal | queue the next turn of the goal |
| Commands | `nanobot/command/builtin.py` | none | `/stop`, `/new`, ... |
| Turn runner | `nanobot/agent/runner.py` | the conversation of a turn, injection cycles | request, run tools in batches, inject, retry, stop |
| Session history | `nanobot/agent/loop.py` (`_restore_turn` ... `_persist_turn`), `session/manager.py` | session in memory, its file, checkpoint, pending flag | restore, accept a prompt, checkpoint, persist |
| Provider thread | `nanobot/providers/conversation_state.py` | the provider's state and the row up to which it holds | prepare, observe, checkpoint, finish |
| Cartesian layer | `cartesian/agent_a.py`, `demon.py`, `tool_proxies.py` | the Demon's history per session | post, forward a call, remember the answer |
| Cron service | `nanobot/cron/service.py` | job store in memory and in `jobs.json`, action log of other processes, one timer task | run due jobs, run now, add, remove, enable, merge |
| Local triggers | `nanobot/triggers/` | a durable queue: files in inbox, processing, failed | enqueue, claim, submit, complete, retry, recover |
| Memory | `nanobot/agent/memory.py`, `autocompact.py` | an archive, the offset of what is hidden, a lock per session | consolidate before and after a turn, compact an idle session |
| History window | `session/manager.py`, `utils/helpers.py`, `agent/context_governance.py` | none | cap the file, choose what is replayed, fit a request to its budget |
| Model requests | `nanobot/providers/base.py`, `fallback_provider.py` | counter and circuit breaker of the primary | send, stream, retry, fall back |
| Outbound channels | `agent/turn_delivery.py`, `nanobot/channels/manager.py`, `telegram/runtime.py` | outbound queue, fingerprints of answers, stream buffers | publish, coalesce, send, retry, suppress |
| Subagents, exec sessions | `nanobot/agent/subagent.py`, `tools/exec_session.py` | running tasks, child processes | spawn, announce, cancel; start, poll, reap, terminate, close |
| Provider clients, other tools, API, UI, config | the rest of `nanobot/`, `webui/`, `cartesian-dashboard/`, `train/` | connections, caches | see `PROJECT.json` |

How they interact. Channels, `submit()` of the automation coordinators and the
SDK produce messages. `AgentLoop.run` is the only consumer of the inbound bus: it
either gives a message to the live turn of its session (pending queue), defers it
(automation turns), or starts a task. A task takes the session's lock and a permit
of the gate, publishes its pending queue and runs the turn: the runner asks the
model, runs tools, drains the pending queue, and the loop restores, checkpoints and
persists the session. Direct calls share only the session lock; the Cartesian
server uses nothing else. In BIV every world-touching tool of A is a `DemonProxy`,
whose call reads the Demon's history file, asks the Demon and writes the file.

The cron service and the runner of local triggers submit automation turns and wait
for them. Between turns, the consolidator and the idle compaction archive rows of a
session and move its offset; before a request, history window and context governance
choose what the model is shown. What a turn says goes through the outbound queue to
one dispatcher, which sends to the channels.

What is hard: every `await` is a place where another task runs; a task may be
cancelled while it waits, before its first step, or while it holds a lock it has
just been handed; a turn is spread over several saves, any of which may fail and
between any of which the process may die; a session is changed in memory before it
is saved; calls of one reply run concurrently on one file. The list of hazards,
each at its line, is in `PROJECT.json`.

What makes the parts correct:

- dispatch: turns of a session are serial; no message is lost or handled twice; a
  pending queue belongs to the live turn; an automation turn stays whole; every
  accepted message settles and every submitter is answered;
- history: after any interruption tool calls are paired with results and replies
  are in order, none twice; the prompt of a running turn is on file; a kept provider
  thread knows the history it is continued with;
- automations: a delivery runs at least once, a one-time job once; what was added is
  not lost between two processes and their files; what is due runs;
- memory and window: what the model no longer sees is in the archive, once; a request
  pairs calls with results and has the prompt;
- background work: no subagent or process outlives the `/stop` of its session or the
  gateway;
- requests and channels: the user reads one answer, whole, in order and not twice;
- Cartesian layer: worlds do not mix, what the Demon is sent is a conversation under
  one law, and what A did is remembered.

## 2. Modules

| Module | Models | Lines |
|---|---|---|
| `SessionDispatch` | bus, tasks, locks, gate, pending and deferred queues, `/stop`, continuations | one action per step between two suspension points |
| `SessionJournal` | abstract: what the record of a session promises | it grows by whole exchanges, only `/new` starts it afresh |
| `TurnHistory` | the turns of one session, from prompt to file | one action per save, reply or failure |
| `DemonWorld` | posts, Agent A's batches of tool calls, the Demon's history | one action per half of `query_demon` |
| `AtLeastOnce` | abstract: what a durable queue promises | accept, run, settle |
| `TriggerQueue` | local triggers: the store's files and the runner | one action per rename, write or unlink, and per await |
| `CronService` | scheduled jobs: timer, calls, the log of another process | synchronous code is one action; a job has a start and an end |
| `SessionMemory` | rows of a session in file, cache and archive | one action per half of an archive |
| `ConversationWindow` | what is cut away and what is shown | the helpers as operators; one action per row or cut |
| `ModelRequest` | one request: wall clock, retries, fallbacks, breaker | one action per outcome of a call |
| `ChannelDelivery` | turn publisher, dispatcher, stream buffers | one action per publication, take and send |
| `BackgroundWork` | subagents and their processes | one action per await of a subagent, of `/stop` and of closing |
| `QueueLemmas` | lemmas on sequences without repetition | |
| `SessionDispatchProofs`, `TurnHistoryProofs`, `BackgroundWorkProofs`, `ChannelDeliveryProofs` | the theorems about the module before `Proofs` | one lemma per action and part of the invariant |
| `AutomationsProofs`, `ModelCallsProofs`, `ConversationsProofs` | the theorems about two modules each: `TriggerQueue` and `CronService`, `ModelRequest` and `DemonWorld`, `SessionMemory` and `ConversationWindow` | the same |
| `MC*` | the instances TLC checks | |

`TurnHistory`, `DemonWorld`, `SessionMemory` and `ConversationWindow` take from
`SessionDispatch` that turns of a session are serial (`OneTurnPerSession`, proved):
they have at most one turn, or model the lock as the FIFO it was shown to be.
`TriggerQueue` and `CronService` take from it how a submitted turn ends: it reports
(`EverySubmitReturns`), unless a `/stop` left it silent (`StoppedTurnReports`).

### SessionDispatch

`inbound` is the bus; `ready` the tasks without a first step; `phase[m]` where the
task of message m is: `lock`, `gate`, `running` (in the runner), `finishing` (the
runner has stopped, `_dispatch` has not), `blocked` (in the `put` of its own
continuation). `lock[s]` and `gate` count a lock or permit as owned from the moment
it is handed over, before the new owner resumes, because that is when asyncio
decides. `registered[s]` is `_pending_queues[s]`. `fate` records what became of each
message. The code between two `await`s that may suspend is one action, and the
finally clauses of `_dispatch` (complete, pop, republish, publish the next deferred
turn, release) are one action, `EndTurn`.

The Python version matters in one place: before 3.12 `asyncio.wait_for` runs its
awaitable in a task of its own, so that `run()` is suspended after every message and a
new task gets its first step before the next message; since 3.12 (`Dockerfile`;
`pyproject.toml` allows 3.11) it may not be. The module has both: `run()` may serve any
number of messages before a new task starts, and a `/stop` may cancel a task before its
first step (`StartCancelled`). None of its finally clauses runs then, and turns deferred
behind it are published by nobody. `skipped` is a history variable with the sessions
whose latest task to end was cancelled like that; the properties on deferred turns
except just these (section 3).

Abstractions: a message stands for its task; what is in it is left out, except its
session and whether its turn may run out of tools under a goal. A drain may happen
at any time while the turn runs. The turn ends with a result, an exception or a
cancellation at any time. The 300-second wait for subagents inside a drain is time
spent running. Left out: a drain whose callback raises after it has taken messages from
the queue (`runner.py:334` logs the exception and returns none of them).

### TurnHistory

A row is what it is about: the messages a user row carries, or the number of a
reply. The calls of a reply are one row and so are their results, since the code
appends, restores and pairs them together. `mem` is the cached `Session`, `disk` its
file; `renewed` is a history variable: `/new` was asked for since the rows of the file
changed. `turn` is the runner's conversation with the save boundary (`start`), and the
provider thread (`thread`: the rows it stands for; `boundary`, `sealed`). Every save
may fail (`setting.faults` bounds how often). `SavedElsewhere` is any other code that
saves the cached session in the middle of a turn; `Crash` forgets everything but the
file. `Views` are the session as it is, as it is on file, and both as the next turn
would restore them: properties are stated about all four.

`JournalKept` is about the *record* of the session: what is in the file, after what the
file cap has taken from its head. Every save may do the latter (`enforce_file_cap`,
`manager.py:421-443`), and archives what it takes; that is left to `ConversationWindow`
and `SessionMemory`, which have the cap, the offset and the archive (`CutIsArchived`,
`HiddenIsArchived`). Of everything else `SessionJournal` says that no save takes a row
from the record or replaces it: it grows at its end, and starts afresh only with the
first rows saved after a `/new` (`StartAfresh` requires `renewed`, which `TurnHistory` sets
in `NewSession` and nowhere else). A crash before that save forgets the `/new`.

`ProviderKnowsHistory` excepts the deployments in which a request may fail and the thread
be kept while messages are injected (`MergesAcross`); section 3 says why.

Abstractions: replies are told apart by their number; the limits of blank replies
and cut-off replies (2 and 3) are only bounded by the iterations; a drain takes any
waiting messages. Left out: retention and consolidation, rows written by commands,
follow-ups of subagents, ephemeral turns, prompts without text, hidden automation
rows.

### DemonWorld

`history[s]` is `demon_history.json` (or `Torn`, a file that is no JSON); `line[s]`
the FIFO of the session lock; `todo[p]` the calls of A's latest reply that were not
started; `flying[p]` the requests to the Demon, each with the history it was sent.
`BatchStarts` is the first half of `query_demon` for all calls of a batch: the tasks
of `asyncio.gather` run up to their request without suspending. `DemonReplies`,
`DemonFails` and `SaveFails` are the second half. Left out: what is asked and
answered, `demon_logs.jsonl`, the rows of the chat, and the dashboard's changes of
the law (the law that opens a history is any law).

### TriggerQueue and AtLeastOnce

A delivery is a number, in the order of file names; `inbox`, `processing` and
`failed` give the attempts on record in its file there. `runner` is where
`run_local_trigger_queue` is, `batch` what it holds in memory, `leaving` the file that
`_retry_delivery_unlocked` has copied and not yet removed: a crash in between leaves
two files. All processes share the file lock, which the runner holds while it claims,
recovers or retries. `DeliveredAtLeastOnce` maps this to `AtLeastOnce`: pending is what
has a file in inbox or processing, or is in the runner's hands. Deliveries of deleted or
disabled triggers and those out of attempts are excused.

A submitted turn may fall silent (`TurnFallsSilent`): a `/stop` that cancels it where
nobody resolves the future of its submitter. The runner then awaits it without a timeout
(`automation_turns.py:79`) and delivers nothing else until the gateway is started again,
or the turn reports after all, as one that was deferred may.

### CronService

Timestamps are delays, and `Clock` moves them all. `jobs` is `_store`, `jobsFile` and
`actions` the two files, `tick` the timer task, `due` the jobs a running tick has yet
to finish. `_arm_timer` cancels whatever tick there is. `Merged` is `_merge_action`;
`Loaded` what `_load_store` returns, which while a job runs is the store in memory. The
other process reads `jobs.json` at one time (`view`) and appends later. A job that is bound to a
session awaits its turn without a timeout, and a `/stop` of that turn may leave the tick
`hung` in it (`JobHangs`); then the other jobs wait for a call that arms the timer again,
which cancels the tick. Crashes come at
any time, also between emptying the log and saving the merged store (`DiesInMerge`).

### SessionMemory and ConversationWindow

`SessionMemory` has the interleavings: `heap` the `Session` objects, `cached` the one in
the cache, `file` the file; `turn` and `job` hold an object across an await. Which rows
an archive takes is chosen freely within the limits of the code. `races` records three
ways in which an object changes under a holder that waits for the model: a save trims
rows, rows are appended while an idle compaction waits, the object is dropped from the
cache. The properties except them, and for each of the three TLC finds a violation when
the exception is left out (section 3).

`ConversationWindow` has the cuts, one after the other: `LegalStart`, `RecentStart`,
`Retained`, `ReplayWindow`, `Replayed`, `OverflowBoundary` and `Prepared` are the functions
of the code on sequences of rows with roles, calls and the ids results answer. A token budget is a
number of rows that fit, any number. The loops that drop or add rows (`Without`,
`WithoutOrphans`, `Backfilled`) are recursive functions of the number of rows read.
`WindowInit` also starts from what older versions left: a call without a name, a
placeholder.

### ModelRequest

`request[r]` is one `_request_model` call: the model asked (`idx`), the attempt, and the
flags with which two loops remember that text was shown. `segment` says which call the
text in the user's open segment came from. `failures` and `breaker` are the circuit
breaker, which all requests share. Left out: the persistent retry mode, how errors are
told apart, and the text.

### ChannelDelivery

`outbound` is the queue, `aside` the message `_coalesce_stream_deltas` took too many of,
`hand` the one being sent with its `tries`. `buffers` are Telegram's `_stream_bufs`, one
per chat, `screen` what the user sees. A send may raise before or after the platform has
accepted it (`Outcomes`); a reload replaces the channel while a send is retried
(`stale`). Sessions may share a chat, as the topics of a Telegram group do, and then its
buffer. Streams and messages that a failing send has touched are in `spoiled`, streams
that lost their buffer to another session in `taken`.

### BackgroundWork

`agent[a]` is where a subagent is: working, waiting for the lock of the
`ExecSessionManager` (`lock`) or starting a process under it (`spawning`), polling a
process. `managerLock` is that lock as a FIFO, counted as owned when it is handed over.
`sessions` is its table, `alive` the processes that run. `run` is where `run()` is with a
`/stop` (the turns, the subagents, the lock, the kills) or with `close_mcp`, and `signals`
the cancellations the gateway sends it. `cutShort` records that one of them fell between
taking sessions out of the table and killing them, or ended `close_mcp`. Merged into their
neighbours are the first step of a subagent and the callback that unregisters it; direct
calls, whose turns `/stop` does not cancel, spawn nothing here.

## 3. Runs

Passing:

| Run | Instance | Shows |
|---|---|---|
| `dispatch` | two sessions, one permit, a queue of 1, one `/stop`, a goal, fair; four casts: 3 chat messages and a direct call; 2 automation turns, a chat message and a direct call; one automation turn, 2 chat messages and a direct call; one beside another session | the safety properties of the dispatch and their inductive invariant; deferred turns are not stranded; messages settle; submitters are answered |
| `history` | History: three deployments: 3 messages, 3 iterations, 2 injection cycles and a provider thread; a goal and 2 failing saves; a goal, transient errors and failing archives. Background: 3 subagents of two sessions, 2 at a time, one of them awaited by its turn, 2 processes, one at a time, one `/stop`, a failing kill | form of the history in all views, provider thread, prompts; the record implements `SessionJournal`; no process outlives what is to end it |
| `model_calls` | Demon: 3 posts in two sessions, 3 calls in replies of 1 or 2, torn files, crashes. Requests: two, one with images, 2 fallbacks, 1 retry, a breaker that opens after 2 failures. Fair | isolation, form, deeds remembered, every post replied to; the user reads one voice; every request ends |
| `automations` | Triggers: 3 deliveries of two triggers, batches of 2, 3 attempts, 3 faults, turns that fall silent. Cron: an interval of the gateway, a one-time and a self-deleting job, 2 edits, 1 crash, jobs that never end. Fair | the queue implements `AtLeastOnce`, no twin of a delivery, all settle; jobs are kept, due ones run, one-time ones once |
| `conversations` | Memory: 4 rows, cap 3, suffix 1, one interruption. Window: 12 rows, cap 5, replay 3, suffix 2. Delivery: an outbound queue of 2, streams of 2 pieces, one fault; two sessions with a stream each in one chat, and one session with two streams and follow-ups | hidden rows are archived, none is forgotten; requests are valid; streams come whole and in order |

The parts of the last four runs share no state. A behavior exercises one of them, which
`part` names, so the states of a run are the sum of those of its parts and not their
product. For the types of their modules and more, the runs check inductive invariants of
the proofs: `DispatchInv` in `dispatch`, `HistoryIInv` in `history`, `WorldIInv` in
`model_calls`, `MemoryIInv` and `WindowIInv` in `conversations`. Those of the other modules
(`BackgroundIInv`, `RequestIInv`, `TriggerIInv`, `CronIInv`, `DeliveryIInv`) hold on the same
instances too; the theorems have made the configurations that checked them superfluous.
Two loops of the code are written for the proofs
without recursion, and TLC compares them with the loop: the merge of the cron log, on all
logs of up to four lines (`MergeIsTheLoop`, an assumption of `MCAutomations`), and
`find_legal_message_start`, on all conversations of up to five rows
(`LegalStartIsTheLoop`, of `MCConversations`).

Why the bounds suffice. Dispatch: two waiters and a holder are enough for every
order of hand-over and cancellation; a queue of one is full at once, one permit makes
the sessions compete, one `/stop` meets every phase of every task, and a task that has not
started as well; two automation turns are one that runs and one behind it. History: an
interruption can hit before, between and after two exchanges of one turn and a
following turn, which is where an older checkpoint, a duplicate or an open prompt
would show. Demon: two concurrent calls lose one answer already, and a third call
sees what is left. Triggers: a batch of two has a delivery in hand and one behind it, and
three faults are what uses up the attempts. Cron: two edits are an addition and its
revocation, or an edit on each side of the log; the sleep is shorter than the period, so
that the timer wakes without a due job. Memory: four rows exceed a cap of three,
and one interruption falls into every await. Window: twelve rows make three exchanges with
calls, more than both caps. Requests: the second failure trips the breaker while another
request is under way. Background: a second
process meets a full table, a third subagent is spawned while `/stop` or closing waits for
others. Delivery: an outbound queue of two holds a delta to merge and one
to keep aside, and two sessions in one chat meet in its buffer at every piece; chats share
nothing with each other, so that a second one shows nothing more (the theorems are about
any number).

Violated, each checking one statement of the repository:

| Run | Statement | What the code does |
|---|---|---|
| `stop_drops_pending` | `/stop` also drains the pending queue | the cancelled turn has put its queue back on the bus before `cmd_stop` looks for it |
| `stop_reports` | a cancelled automation turn reports to its submitter | one that is cancelled while it waits for the lock or the gate does not; its submitter waits for ever |
| `goal_blocks` | an allowed continuation is queued | into a full pending queue the put blocks for ever, with lock and permit held |
| `stop_keeps_progress` | `/stop` keeps tool results of the interrupted turn | only those of the latest iteration |
| `injected_in_history` | messages injected after an error are in the history | one merged into the prompt row is not saved |
| `shared_chat` | buffers of streams are keyed by the stream | Telegram keys them by the chat; of two topics that stream at once one loses its text |
| `demon_forgets` | earlier results are the ground truth of the matrix | of the concurrent calls of a reply only the last answer is kept |

More disagreements are visible in the models but have no run:

- After a transient error the provider thread is kept: the rows that were sent become its
  pending ones and the boundary moves behind them (`conversation_state.py:143`), but only
  the boundary of an adopted state is sealed, although sealing is to "Prevent later
  same-role injection merging across a state boundary" (`:258`). A message injected then
  is merged into the last user row, below the boundary, and no request contains it: TLC
  refutes `ProviderKnowsHistory` without its exception (`MergesAcross`).
- An edit of any job while a job runs cancels the tick that awaits the job's turn. The
  turn goes on in its session, and the new tick starts the job again
  (`cron/service.py:491`); the guard of the cron tool does not see it, since the context
  variable is set in the timer's task and not in the turn's. An action of another process
  that is merged after a one-time job ended arms it again. `OneTimeRunsOnce` excepts
  exactly these (`mayRepeat`), and TLC finds the second start without the exception, while
  `skills/cron/SKILL.md:16` says "runs once".
- `_load_store` empties the log before the merged store is saved: a crash in between
  loses the actions (`dropped`, excepted in `JobsKept`).
- Rows appended while an idle compaction waits for the model shift the suffix that stays
  visible: as many rows are hidden that were not archived (`memory.py:1208`). A save that
  trims while a consolidation waits has the same effect, and `/new` or a deletion lets an
  old object be saved again.
- A window of a subagent's turn extends to the user row before it, that of a user's turn
  does not: without a user row within it, the replay is shorter than the boundary of what
  is archived. `WindowHidesArchived` says for every other window that the two functions
  agree: what is not archived when a turn opens is in its window.
- The gateway cancels `run()` when it shuts down, and again when it is not done after the
  channels have closed (`gateway_runtime.py:792`, `:813`). The second cancellation falls
  into `close_mcp`: while that drains background tasks (a consolidation takes as long as a
  model does) it ends there, and subagents, exec sessions and MCP connections are not
  closed, although "stop exec sessions" is what it is for (`loop.py:1341`, the gather is
  outside the `try`). While `/stop` awaits the turns of a session, `run()` keeps the first
  cancellation to itself. `NothingOutlives` excepts closing that was cut short, and TLC
  finds the processes that are left without the exception. A kill of `/stop` that raises
  ends `run()`, since nothing catches it there.
- Since Python 3.12 a task may be cancelled by `/stop` before its first step. Nothing then
  publishes the turns deferred behind it until another turn of the session ends, although
  "the trigger waits until the session becomes idle" (`docs/automations.md:142`). Without
  `skipped`, TLC refutes `DeferredNotStranded` and `EveryMessageSettles`; with it they say
  that this is the only way for a deferred turn to be left behind.
- Two requests may probe a circuit that is half open at once (`fallback_provider.py:185`).
- Restarts count as attempts of a delivery, so one that was never tried may end in
  `failed`.
- A turn that queues its continuation is reported as finished (`EndTurn` completes a
  `Continued` message).
- An archive that fails after the rows were appended leaves a checkpoint that is restored
  a second time (`PersistTurn` with `archiveFails`). `HistoryWellFormed` and `JournalKept`
  say nothing about that deployment, and `PromptsClosed` nothing about those with a goal: a
  turn that queues its continuation may leave its last message for that to answer.

Fairness. `SessionDispatch!Fairness` is weak fairness of every task and of `run()`:
asyncio runs every ready callback, and a turn ends because requests and tools have
timeouts and iterations a limit. `DemonWorld!Fairness` is the same with the timeout
of 180 seconds of `query_demon`. `TriggerFairness`: the gateway is started again after
it died, its runner goes on, and a submitted turn reports unless it falls silent.
`CronFairness`: the gateway is started, time passes, a timer that is due fires, a job ends
unless it hangs. Nothing makes a silent turn report, a hung job end, or a `/stop` stay away:
`EveryDeliverySettles` says that a delivery settles or the runner is left awaiting a silent
turn, `DueRuns` that a due job runs or the tick hangs in another, so that these are the only
ways to be blocked, and `StoppedTurnReports` (`stop_reports`) shows how they come about.
`RequestFairness`: a call to a model returns, at the latest by the timeout of its client.
Producers, faults, `/stop` and crashes are never forced. In `dispatch` a session with a goal
gets one other chat message, so that the continuation fits into its queue; what happens
otherwise is `goal_blocks`.

Runs stop when all messages are used up, so deadlock is not checked: a bounded run
ends. That nothing waits for ever is what the liveness properties say.

## 4. Proofs

Every theorem holds for all values of the constants that the `ASSUME` of its module
allows (sessions, messages, queue sizes, numbers of faults and so on); these say that
bounds are naturals, that kinds of messages are apart, and that a place holder such as
`None` is not one of the things it stands in for. There are no other assumptions;
the properties themselves except the deployments and races that section 3 lists.

All have the same shape: the property is not inductive, the module has a
strengthening of it (`...IInv`, at its end) that TLC has found to hold, and the proof
module shows that it holds initially and is kept by each action, one lemma per action
where more than one conjunct is disturbed. What follows says which property needs what.

| Theorem | Property |
|---|---|
| `TypeCorrect`, `SerialPerSession`, `QueueOwned`, `GateRespected`, `AutomationTurnsStayWhole`, `FifoLock` | `TypeOK`, `OneTurnPerSession`, `PendingQueueOwned`, `GateBound`, `AutomationNeverInjected`, `LockIsFifo` |
| `MessagesAccounted` | `NoMessageLost` |
| `DeferredTurnsReachable` | `DeferredNotStranded` |
| `HistoryPromptDurable`, `HistoryPromptsClosed` | `PromptDurable`, `PromptsClosed` |
| `HistoryInForm`, `HistoryKeepsJournal` | `HistoryWellFormed`; `TurnHistory` implements `SessionJournal` |
| `HistoryThreadKnows` | `ProviderKnowsHistory` |
| `WorldsStayIsolated`, `AlwaysConversations`, `NoDeedForgotten` | `WorldsIsolated`, `Conversations`, `DeedsRemembered` |
| `NoTwinOfADelivery`, `QueueDeliversAtLeastOnce` | `NoTwin`; `TriggerQueue` implements `AtLeastOnce` |
| `NoJobLost`, `OneTimeJobsRunOnce` | `JobsKept`, `OneTimeRunsOnce` |
| `OneVoicePerSegment` | `OneVoice` |
| `NothingOutlivesStop` | `NothingOutlives` |
| `PiecesAreInOrder`, `SuppressedAnswersWereSaid` | `PiecesInOrder`, `SuppressedWasSaid` |
| `StreamsAreComplete` | `StreamsComplete` |
| `HiddenRowsAreArchived`, `NoRowIsForgotten` | `HiddenIsArchived`, `NothingForgotten` |
| `EverythingCutIsArchived`, `WindowHidesWhatIsArchived`, `RequestsAreValid` | `CutIsArchived`, `WindowHidesArchived`, `RequestValid` |
| `QueueInvariant`, `CronInvariant`, `RequestInvariant`, `WorldInvariant`, `HistoryInvariant`, `BackgroundInvariant`, `DeliveryInvariant`, `MemoryInvariant`, `WindowInvariant`, `DispatchInvariant` | the inductive invariants |

### Dispatch

`IInv` adds to the safety properties

- `LockInv`: only the owner of a lock is past it, the waiters are distinct tasks of
  the session and do not own it, and nobody waits for a free lock. The last part is
  needed because a new task takes a free lock without looking at the waiters: were
  there any, it would barge in and FIFO would fail;
- `GateInv`: the same for permits, with the bound on their number;
- `PlaceInv`, `QueueInv`, `UnsentInv`: a message is in one place at most, and has no
  task while it waits. Without them a message consumed from the bus could already
  have a task, and the new one would reset its phase;
- `StopInv`: while `run()` awaits a `/stop`, all tasks of the session are cancelled.
  Without it a live turn could have its queue dropped by the end of the `/stop`.

`NoMessageLost` counts the places of a message. The proof does not count: `OpenInv` says
that a message is open if and only if it is somewhere, each action keeps that, and
`PlaceInv` makes it one place. `DeferredNotStranded` is inductive over these: a turn is
deferred only behind a live task of its session, a task that ends publishes the next one,
and one that ends before its first step is recorded in `skipped`.

### Session history

- `PromptDurable`: the prompt is in memory and on file as long as the model runs
  (`PromptKept`): a save in between that is not of the turn writes what is in memory.
- `PromptsClosed`: a session that ends with a prompt is flagged as pending or has a
  checkpoint, in memory and on file, and a turn that comes to its persist phase has done
  something (`PromptGuarded`). `RestoreTurn` and `CloseTurn` do the rest.
- `HistoryWellFormed`: the rows of a turn are in form themselves (`InForm`), but for calls
  that still run, and numbers of replies grow: rows in memory are older than those of the
  turn, and rows of both views older than the reply a checkpoint stands for (`Numbered`).
  The latter is why a checkpoint that was restored and saved is not restored again.
- `JournalKept`: unless `/new` was asked for, the file is a prefix of what is in memory;
  after it, memory was started afresh and its first row is another one (`Continues`); for
  that a message is taken once (`Untaken`). A save therefore is one step of
  `SessionJournal` or a stutter.
- `ProviderKnowsHistory`: the next request accounts for all rows of the session and the
  turn (`Asked`), a checkpoint saved with a state has rows of the turn (`Restorable`), and
  a state that is kept accounts for its rows and for what its checkpoint will restore
  (`Kept`). The proof failed where a message is merged into a row below the boundary after
  a transient error, which led to the disagreement listed in section 3.

### Worlds, deliveries, jobs, requests, background work

- `DemonWorld`: the lock of a session has one holder and only its calls are under way
  (`Turns`), in the order in which A made them (`Numbered`); requests that are in flight
  together share what they were sent, which is what is on file but for answers nobody
  promised to keep, and only reads are in flight together (`InFlight`). An answer of a
  write is then written over a history that has all deeds of the file.
- `TriggerQueue`: what the place of the runner says of its batch (`RunnerInv`), that the
  delivery that leaves is in the inbox or excused and out of hand (`LeavingInv`), that
  attempts are below the maximum (`AttemptsInv`), and that files are of accepted deliveries
  (`OwedInv`). The refinement maps each rename, write or unlink to accept, run, settle or a
  stutter.
- `CronService`: each copy of the store, with the log merged over it, has the jobs that are
  owed (`CopiesKeep`); nothing in the log removes a system job unless a later line puts it
  back (`Known`). A one-time job is due at its time or never, in every copy and in the log
  (`TimesAgree`), and one that was started is due nowhere from where the timer would take it
  (`StartedIsSpent`).
- `ModelRequest`: as long as a request goes on, the flags of the two loops know what its
  open segment shows (`FlagsKnow`), and where segments can be closed no loop goes silent.
- `BackgroundWork`: a process is started under the lock by one subagent (`StartsAlone`), a
  table that refuses is closed (`TableClosed`), `/stop` proceeds in order (`StopInOrder`),
  one more is started only where there is room (`WithinLimits`), and what was stopped stays
  so (`StoppedIsOver`).

### Delivery, memory, window

- `ChannelDelivery`: what waits is in the order in which it was published, pieces without a
  gap and ends last (`WaitingInv`); what is in hand comes before it (`HandInv`), and what
  the channel holds before that, or its last piece is just being sent again (`BufferInv`).
  Coalescing takes a run of pieces off the front, for which `InLine` says that the pieces
  of a run are consecutive. `SuppressedWasSaid` needs that the fingerprint of an answer is
  that of the message in hand until its send was decided (`FingerprintInv`).
  `StreamsComplete` needs `CompleteInv` besides: a stream that nothing has touched is on
  one screen with nothing left to come, or the channel holds its beginning and its end is
  still to come. A piece of another session that replaces the buffer takes its stream out
  of that (`taken`); the end of a stream leaves a buffer of another one alone, so that
  nothing else is lost in a shared chat.
- `SessionMemory`: as long as nothing was trimmed or dropped under a holder, turn and job
  hold the cached object and the offset is within the rows (`CalmInv`); the rows that a
  job archives are those which its return will hide (`JobInv`), at most as many if rows
  were appended meanwhile. `ArchiveInv` then says that what is hidden is archived.
- `ConversationWindow`: rows are numbered in the order in which they were written, and a
  result has its call before it with nothing but results between (`Ordered`). What each
  cut leaves is a run of rows, but for the start that `LegalStart` finds: behind it, no
  result is without its call, so that a cut keeps `Ordered` whatever the budget, the cap
  or the suffix. Every cut archives what it takes from behind the offset; that makes
  `CutIsArchived` inductive together with `written` and the rows of the turn, which are
  newer than all that was saved. `WindowHidesArchived` is about the boundary of one
  function and the start of another: the proof shows that the boundary does not move when
  what is before it is cut away (the window of the rest starts at its first row), and that
  a legal start of the window is a legal start of the rest.

  `RequestValid` is about loops that build a list row by row. The theorems on induction
  cannot be used for what such a loop computes, but a least number where it goes wrong can
  (`LeastNat`, hence `UpTo`). So each loop is shown once to exist as a function of the
  number of rows read, and to leave *picked* rows (`Picked`: some places of the list, in
  their order) or *laid* ones (`Laid`: all places, with the made-up results of a call behind
  its group). Three facts then go through every repair and every cut: ids belong to one call
  and a result is behind its call if that is there (`Fit`), after dropping orphans its call
  is there (`Owned`), after backfilling each call has one result (`Exact`). What the user
  said last survives for another reason: no repair takes a row whose call is there and which
  no earlier row answers alike, and a snipped request begins at a row of the user, never
  behind the last one (`Late`). The second half of the invariant (`AskIInv`) gives the list
  that the repairs start from: the replayed history is a cut of `messages` without command
  rows, in order and older than the prompt, and the turn's rows are as they were written.

### Only model-checked

Liveness, which is out of the prover's reach like everything that needs fairness:
`EveryMessageSettles`, `EverySubmitReturns`, `EveryPostReplied`, `EveryDeliverySettles`,
`DueRuns`, `RequestEnds`. The properties of the violated runs, which do not hold. That
`Merge` of `CronService` and `LegalStart` of `ConversationWindow` are the loops of the
code, which are inductions over a log and a conversation.

## 5. Plan

Done: all models of section 2 and the proofs of section 4. In this order:

1. `Mailbox`, an abstract specification of dispatch (accepted, then settled once), refined
   by `SessionDispatch`; `NoMessageLost` is most of its proof.
2. The lifecycle of MCP servers, pairing codes.

## 6. Not modelled

Clients of providers and chat services, the tools' effects on the host, the wording of
prompts, configuration, UI, training and documentation: they are pure input and output,
or data the properties do not tell apart, and they are most of the repository's lines.
Of the modelled parts the following is left out: cron expressions and the validation of
schedules, files that are damaged, run records; the dream job and the cursor of
`history.jsonl`; channels other than Telegram; the persistent retry mode, and the
second request after malformed tool calls (`runner.py:1061`), which streams into the segment
of the first, so that `OneVoice` is about the calls of one request only; what Agent A is told
of a failed call. `PROJECT.json` lists every part with its status and reason.
