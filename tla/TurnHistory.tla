---------------------------- MODULE TurnHistory ----------------------------
(***************************************************************************)
(* How the turns of one session reach its file                             *)
(* (nanobot/agent/loop.py, agent/runner.py, session/manager.py,            *)
(* session/turn_continuation.py, providers/conversation_state.py).         *)
(*                                                                         *)
(* A session is a record: its rows, the checkpoint and the pending-turn    *)
(* flag of its metadata, and the provider's conversation state.  Turns     *)
(* change it in memory and save it whole (a temporary file renamed over    *)
(* the old one).  The prompt of a turn is saved before the model runs, the *)
(* runner's own rows only when the turn ends; until then a checkpoint      *)
(* stands for the runner's latest step.                                    *)
(*                                                                         *)
(* Turns of a session are serial (SessionDispatch), so there is at most    *)
(* one here.  A row names what it is about: the messages a user row        *)
(* carries, or the number of the reply.  All calls of one reply are one    *)
(* row, and so are their results.  The rows of a session are its record:   *)
(* what its file holds now, after the rows that the file cap, a part of    *)
(* every save, moved from the head of the file to the archive (modelled in *)
(* SessionMemory and ConversationWindow).                                  *)
(***************************************************************************)
EXTENDS Naturals, SequencesExt

CONSTANTS
  Msgs,      \* messages of the session's user
  None,      \* no message: the prompt of an internal continuation
  Settings,  \* the deployments considered; see below
  LastReply  \* bound of the model: replies in a behavior

(* What differs between deployments and sessions, and does not change in a *)
(* behavior: the messages that come; max_tool_iterations and               *)
(* _MAX_INJECTION_CYCLES; whether a sustained goal may be active, replies  *)
(* may carry provider conversation state, errors may keep it, and          *)
(* archiving rows beyond the file cap may fail.                            *)
(* "faults" bounds the failures of the file system.                        *)
ASSUME HistoryAssumption ==
  /\ None \notin Msgs /\ IsFiniteSet(Msgs) /\ LastReply \in Nat
  /\ \A s \in Settings :
       /\ s.msgs \subseteq Msgs
       /\ s.iterations \in Nat /\ s.cycles \in Nat /\ s.faults \in Nat
       /\ {s.goal, s.stateful, s.transient, s.archiveFails} \subseteq BOOLEAN

VARIABLES
  setting,   \* one of the Settings
  mem,       \* the cached Session object
  disk,      \* its file
  turn,      \* the turn in progress
  replies,   \* replies of the model so far
  waiting,   \* messages nobody has taken yet
  continue,  \* a continuation waits on the bus
  promised,  \* history: the messages injected into turns that completed
  renewed,   \* history: was /new asked for since the rows on file changed?
  faults     \* failures of the file system so far

vars == <<setting, mem, disk, turn, replies, waiting, continue, promised,
          renewed, faults>>

MaxIterations == setting.iterations
MaxCycles == setting.cycles
MaxFaults == setting.faults
Goal == setting.goal
Stateful == setting.stateful
Transient == setting.transient
ArchiveFails == setting.archiveFails

ReplyKinds == {"calls", "result", "interrupted", "answer", "note"}
Prompt(ms) == [kind |-> "user", of |-> ms]
Reply(k, n) == [kind |-> k, of |-> {n}]
Closed == [kind |-> "closed", of |-> {}]

Rows == {Prompt(ms) : ms \in SUBSET Msgs} \cup {Closed}
        \cup {Reply(k, n) : k \in ReplyKinds, n \in 1..LastReply}

NoCheckpoint == [phase |-> "none", of |-> 0]
Checkpoints ==
  {NoCheckpoint} \cup [phase : {"awaiting_tools", "tools_completed", "final_response"},
                       of : 1..LastReply]

Sessions == [rows : Seq(Rows), checkpoint : Checkpoints, pending : BOOLEAN,
             provider : SUBSET Rows]   \* {}: no conversation state

Idle == [phase |-> "idle", msg |-> None, full |-> <<>>, start |-> 0, boundary |-> 0,
         sealed |-> 0, thread |-> {}, iteration |-> 0, cycles |-> 0, retried |-> FALSE,
         injected |-> {}]

Asking == {"ask", "tools", "afterTools", "answered", "unanswered", "failed"}
TurnPhases == {"idle", "restore", "close", "build", "save"} \cup Asking

Turns ==
  [phase : TurnPhases, msg : Msgs \cup {None},
   full : Seq(Rows),        \* history, prompt and the runner's rows
   start : Nat,             \* save boundary: the rows already there
   boundary : Nat,          \* rows the provider's thread accounts for
   sealed : Nat,            \* last row of the latest provider state
   thread : SUBSET Rows,    \* rows that state stands for
   iteration : 0..MaxIterations, cycles : 0..MaxCycles,
   retried : BOOLEAN,       \* a blank reply was asked for again
   injected : SUBSET Msgs]

TypeOK ==
  /\ setting \in Settings
  /\ mem \in Sessions /\ disk \in Sessions
  /\ turn \in Turns
  /\ replies \in 0..LastReply
  /\ waiting \subseteq Msgs /\ continue \in BOOLEAN
  /\ promised \subseteq Msgs /\ renewed \in BOOLEAN
  /\ faults \in 0..MaxFaults

Empty == [rows |-> <<>>, checkpoint |-> NoCheckpoint, pending |-> FALSE, provider |-> {}]

Init ==
  /\ setting \in Settings
  /\ mem = Empty /\ disk = Empty
  /\ turn = Idle
  /\ replies = 0
  /\ waiting = setting.msgs /\ continue = FALSE
  /\ promised = {} /\ renewed = FALSE
  /\ faults = 0
-----------------------------------------------------------------------------
(* Restoring an unfinished turn.                                           *)

After(rows, n) == SubSeq(rows, n + 1, Len(rows))   \* all but the first n

IsUser(row) == row.kind = "user"
EndsWithUser(rows) == rows # <<>> /\ IsUser(Last(rows))

(* The rows a checkpoint stands for: the latest assistant row, its results *)
(* or the placeholders of calls that did not finish.                       *)
\* Mutant of Restored: the interrupted calls get no placeholder.
RestoredMutant(c) ==
  CASE c.phase = "awaiting_tools" -> <<Reply("calls", c.of)>>
    [] c.phase = "tools_completed" -> <<Reply("calls", c.of), Reply("result", c.of)>>
    [] c.phase = "final_response" -> <<Reply("answer", c.of)>>
    [] OTHER -> <<>>
Restored(c) ==
  CASE c.phase = "awaiting_tools" -> <<Reply("calls", c.of), Reply("interrupted", c.of)>>
    [] c.phase = "tools_completed" -> <<Reply("calls", c.of), Reply("result", c.of)>>
    [] c.phase = "final_response" -> <<Reply("answer", c.of)>>
    [] OTHER -> <<>>

(* The restored rows that the history does not end with already.           *)
Missing(rows, restored) ==
  LET overlaps(size) ==
        /\ size <= Len(rows) /\ size <= Len(restored)
        /\ SubSeq(rows, Len(rows) - size + 1, Len(rows)) = SubSeq(restored, 1, size)
      overlap == CHOOSE size \in 0..Len(restored) :
                   /\ overlaps(size)
                   /\ \A more \in size + 1..Len(restored) : ~ overlaps(more)
  IN After(restored, overlap)

(* The provider's state was saved with this very checkpoint.               *)
\* Mutant of Exact: calls without results count.
ExactMutant(c) == c.phase # "none"
Exact(c) == c.phase \in {"tools_completed", "final_response"}

RestoreCheckpoint(s) ==
  IF s.checkpoint = NoCheckpoint THEN s
  ELSE [rows |-> s.rows \o Missing(s.rows, Restored(s.checkpoint)),
        checkpoint |-> NoCheckpoint, pending |-> FALSE,
        provider |-> IF Exact(s.checkpoint) THEN s.provider ELSE {}]

(* A turn that only saved its prompt is closed.                            *)
RestorePending(s) ==
  IF s.pending /\ EndsWithUser(s.rows)
  THEN [s EXCEPT !.rows = Append(@, Closed), !.pending = FALSE, !.provider = {}]
  ELSE [s EXCEPT !.pending = FALSE]

(* What the next turn makes of a session it finds.                         *)
Recover(s) == RestorePending(RestoreCheckpoint(s))
-----------------------------------------------------------------------------
(* Saving is all or nothing; when it fails the turn fails with it.         *)
Save(next) ==
  \/ /\ disk' = mem' /\ turn' = next
     /\ UNCHANGED faults
  \/ /\ faults < MaxFaults
     /\ faults' = faults + 1
     /\ disk' = disk /\ turn' = Idle

(* _restore_turn: a message of the user, or the continuation, gets a turn. *)
StartTurn(m) ==
  /\ turn = Idle
  /\ IF m = None THEN continue ELSE m \in waiting
  /\ continue' = (continue /\ m # None)
  /\ waiting' = waiting \ {m}
  /\ turn' = [Idle EXCEPT !.phase = "restore", !.msg = m]
  /\ UNCHANGED <<mem, disk, replies, promised, faults>>

RestoreTurn ==
  /\ turn.phase = "restore"
  /\ mem' = RestoreCheckpoint(mem)
  /\ IF mem' = mem
     THEN turn' = [turn EXCEPT !.phase = "close"] /\ UNCHANGED <<disk, faults>>
     ELSE Save([turn EXCEPT !.phase = "close"])
  /\ UNCHANGED <<replies, waiting, continue, promised>>

CloseTurn ==
  /\ turn.phase = "close"
  /\ mem' = RestorePending(mem)
  /\ IF mem' = mem
     THEN turn' = [turn EXCEPT !.phase = "build"] /\ UNCHANGED <<disk, faults>>
     ELSE Save([turn EXCEPT !.phase = "build"])
  /\ UNCHANGED <<replies, waiting, continue, promised>>

(* build_messages: two user messages in a row become one.                  *)
Joined(rows, ms) ==
  IF EndsWithUser(rows)
  THEN Append(Front(rows), Prompt(Last(rows).of \cup ms))
  ELSE Append(rows, Prompt(ms))

(* _persist_user_message_early: row, flag and staged state in one save.    *)
\* Mutant of Accepted: the pending flag is forgotten.
AcceptedMutant(s, m) == [s EXCEPT !.rows = Append(@, Prompt({m}))]
\* Mutant of Accepted: the row is left to the end of the turn.
AcceptedLate(s, m) == [s EXCEPT !.pending = TRUE]
Accepted(s, m) == [s EXCEPT !.rows = Append(@, Prompt({m})), !.pending = TRUE]

(* _build_turn: a provider state the runtime's model cannot resume is      *)
(* dropped; otherwise the prompt is staged on it.  The prompt of a         *)
(* continuation is never persisted.                                        *)
BuildTurn ==
  LET m == turn.msg
      ms == {m} \ {None}
      full == Joined(mem.rows, ms)
  IN
  /\ turn.phase = "build"
  /\ \E resumes \in BOOLEAN :
       LET thread == IF resumes /\ mem.provider # {}
                     THEN mem.provider \cup {Prompt(ms)} ELSE {}
           next == [turn EXCEPT !.phase = "ask", !.full = full, !.start = Len(full),
                                !.boundary = Len(full), !.thread = thread]
       IN
       IF m = None
       THEN /\ mem' = [mem EXCEPT !.provider = IF thread = {} THEN {} ELSE @]
            /\ turn' = next
            /\ UNCHANGED <<disk, faults>>
       ELSE /\ mem' = Accepted([mem EXCEPT !.provider = thread], m)
            /\ Save(next)
  /\ UNCHANGED <<replies, waiting, continue, promised>>
-----------------------------------------------------------------------------
(* The runner, _run_core.  One request per iteration.                      *)

(* ProviderConversationStateController: what the next request contains.    *)
Requested(t) ==
  IF t.thread = {} THEN ToSet(t.full)
  ELSE t.thread \cup ToSet(After(t.full, t.boundary))

(* The state to save with the rows of the turn (checkpoint, finish).       *)
Snapshot(t) == IF t.thread = {} THEN {} ELSE Requested(t)

(* observe_response.  "adopt": the reply carries state; "keep": a          *)
(* transient error; "drop": anything else.                                 *)
Observed(t, how) ==
  [t EXCEPT !.thread = CASE how = "adopt" -> Requested(t)
                         [] how = "keep" -> Snapshot(t)
                         [] OTHER -> {},
            !.boundary = Len(t.full),
            !.sealed = IF how = "adopt" THEN Len(t.full) ELSE @]

Outcomes == {"drop"} \cup (IF Stateful THEN {"adopt"} ELSE {})
Failures == {"drop"} \cup (IF Transient THEN {"keep"} ELSE {})

(* A reply, with the number it gets.                                       *)
\* Mutant of Request: one request too many.
RequestMutant ==
  /\ turn.phase = "ask" /\ turn.iteration <= MaxIterations
  /\ replies < LastReply
  /\ replies' = replies + 1
Request ==
  /\ turn.phase = "ask" /\ turn.iteration < MaxIterations
  /\ replies < LastReply
  /\ replies' = replies + 1

(* _set_runtime_checkpoint: one at a time, the latest replaces it.         *)
Checkpoint(phase, n, provider) ==
  mem' = [mem EXCEPT !.checkpoint = [phase |-> phase, of |-> n], !.provider = provider]

NextIteration(t) == [t EXCEPT !.phase = "ask", !.iteration = @ + 1]

(* Tool calls: the assistant row is checkpointed before they run.          *)
ModelCallsTools ==
  /\ Request
  /\ \E how \in Outcomes :
       LET t == [Observed(turn, how) EXCEPT !.phase = "tools",
                                            !.full = Append(@, Reply("calls", replies'))]
       IN Checkpoint("awaiting_tools", replies', mem.provider) /\ Save(t)
  /\ UNCHANGED <<waiting, continue, promised>>

ToolsReturn ==
  LET t == [turn EXCEPT !.phase = "afterTools", !.retried = FALSE,
                        !.full = Append(@, Reply("result", replies))] IN
  /\ turn.phase = "tools"
  /\ Checkpoint("tools_completed", replies, Snapshot(t))
  /\ Save(t)
  /\ UNCHANGED <<replies, waiting, continue, promised>>

(* A fatal tool error: results and error text, and no checkpoint of them.  *)
ToolsFail ==
  /\ turn.phase = "tools"
  /\ turn' = [turn EXCEPT !.phase = "failed",
                          !.full = @ \o <<Reply("result", replies), Reply("note", replies)>>]
  /\ UNCHANGED <<mem, disk, replies, waiting, continue, promised, faults>>

(* _append_injected_messages: into the last row if that is a user row the  *)
(* provider's state does not end with.                                     *)
Injected(t, ms) ==
  [t EXCEPT !.full = IF t.sealed = Len(@) THEN Append(@, Prompt(ms)) ELSE Joined(@, ms),
            !.injected = @ \cup ms]

(* _try_drain_injections: what the pending queue has, if a cycle is left.  *)
Takes(ms) ==
  /\ ms # {} /\ ms \subseteq waiting /\ turn.cycles < MaxCycles
  /\ waiting' = waiting \ ms

Drained(t, ms) == [Injected(t, ms) EXCEPT !.cycles = @ + 1]

AfterTools ==
  /\ turn.phase = "afterTools"
  /\ \/ /\ turn' = NextIteration(turn)
        /\ UNCHANGED waiting
     \/ \E ms \in SUBSET waiting :
          Takes(ms) /\ turn' = NextIteration(Drained(turn, ms))
  /\ UNCHANGED <<mem, disk, replies, continue, promised, faults>>

(* A truncated reply is continued (_MAX_LENGTH_RECOVERIES is 3).           *)
CutOff(t) ==
  turn' = NextIteration([t EXCEPT !.full = @ \o <<Reply("answer", replies'), Prompt({})>>])

(* A blank reply is asked for again (_MAX_EMPTY_RETRIES is 2), and when    *)
(* that is blank too, once more without tools and provider state.          *)
ModelGivesNothing ==
  /\ Request /\ ~ turn.retried
  /\ \E how \in Outcomes :
       turn' = NextIteration([Observed(turn, how) EXCEPT !.retried = TRUE])
  /\ UNCHANGED <<mem, disk, waiting, continue, promised, faults>>

ModelFinalizes ==
  /\ Request /\ turn.retried
  /\ \E blank \in Outcomes :
       LET t == Observed(turn, blank) IN
       \/ turn' = [Observed(t, "drop") EXCEPT !.phase = "answered"]
       \/ CutOff(Observed(t, "drop"))
       \/ \E how \in Failures : turn' = [Observed(t, how) EXCEPT !.phase = "unanswered"]
  /\ UNCHANGED <<mem, disk, waiting, continue, promised, faults>>

ModelIsCutOff ==
  /\ Request
  /\ \E how \in Outcomes : CutOff(Observed(turn, how))
  /\ UNCHANGED <<mem, disk, waiting, continue, promised, faults>>

ModelAnswers ==
  /\ Request
  /\ \E how \in Outcomes : turn' = [Observed(turn, how) EXCEPT !.phase = "answered"]
  /\ UNCHANGED <<mem, disk, waiting, continue, promised, faults>>

(* The answer is checkpointed; the turn goes on with injected messages, or *)
(* because the goal is still active, or it is over.                        *)
AfterAnswer ==
  LET t == [turn EXCEPT !.full = Append(@, Reply("answer", replies))] IN
  /\ turn.phase = "answered"
  /\ Checkpoint("final_response", replies, Snapshot(t))
  /\ \/ \E ms \in SUBSET waiting :
          Takes(ms) /\ Save(NextIteration(Drained(t, ms)))
     \/ /\ Goal
        /\ Save(NextIteration(Injected(t, {})))
        /\ UNCHANGED waiting
     \/ /\ Save([t EXCEPT !.phase = "save"])
        /\ UNCHANGED waiting
  /\ UNCHANGED <<replies, continue, promised>>

ModelFails ==
  /\ Request
  /\ \E how \in Failures : turn' = [Observed(turn, how) EXCEPT !.phase = "unanswered"]
  /\ UNCHANGED <<mem, disk, waiting, continue, promised, faults>>

AfterFailure ==
  /\ turn.phase = "unanswered"
  /\ \/ \E ms \in SUBSET waiting :
          Takes(ms) /\ turn' = NextIteration(Drained(turn, ms))
     \/ /\ turn' = [turn EXCEPT !.phase = "failed", !.full = Append(@, Reply("note", replies))]
        /\ UNCHANGED waiting
  /\ UNCHANGED <<mem, disk, replies, continue, promised, faults>>

(* The runner returns, and the session takes its provider state.           *)
Returns(t) ==
  /\ turn' = [t EXCEPT !.phase = "save"]
  /\ mem' = [mem EXCEPT !.provider = Snapshot(t)]

(* After an error text: one more chance for injected messages.             *)
AfterError ==
  /\ turn.phase = "failed"
  /\ \/ \E ms \in SUBSET waiting :
          Takes(ms) /\ turn' = NextIteration(Drained(turn, ms)) /\ UNCHANGED mem
     \/ Returns(turn) /\ UNCHANGED waiting
  /\ UNCHANGED <<disk, replies, continue, promised, faults>>

(* The iterations are used up: a last drain, then a closing text, which    *)
(* maybe_continue_turn takes away again when it queues a continuation,     *)
(* unless a cut-off answer makes it differ from the text of the turn.      *)
OutOfIterations ==
  LET closing(t) == [t EXCEPT !.full = Append(@, Reply("note", replies'))]
      finish(t) ==
        /\ mem' = [mem EXCEPT !.provider = Snapshot(closing(t))]
        /\ \/ /\ turn' = [closing(t) EXCEPT !.phase = "save"]
              /\ UNCHANGED continue
           \/ /\ Goal
              /\ \E text \in {t, closing(t)} : turn' = [text EXCEPT !.phase = "save"]
              /\ continue' = TRUE
  IN
  /\ turn.phase = "ask" /\ turn.iteration = MaxIterations
  /\ replies < LastReply
  /\ replies' = replies + 1
  /\ \/ \E ms \in SUBSET waiting : Takes(ms) /\ finish(Drained(turn, ms))
     \/ finish(turn) /\ UNCHANGED waiting
  /\ UNCHANGED <<disk, promised, faults>>
-----------------------------------------------------------------------------
(* _persist_turn: the runner's rows join the history in one save, which    *)
(* also clears flag and checkpoint.  A file-cap archive that fails comes   *)
(* between the two.                                                        *)
NewRows(t) == After(t.full, t.start)

\* Mutant of Persisted: the rows of the turn replace the history.
PersistedAlone(s, t) ==
  [s EXCEPT !.rows = NewRows(t), !.pending = FALSE, !.checkpoint = NoCheckpoint]
Persisted(s, t) ==
  [s EXCEPT !.rows = @ \o NewRows(t), !.pending = FALSE, !.checkpoint = NoCheckpoint]

PersistTurn ==
  /\ turn.phase = "save"
  /\ \/ /\ mem' = Persisted(mem, turn)
        /\ Save(Idle)
     \/ /\ ArchiveFails /\ faults < MaxFaults
        /\ faults' = faults + 1
        /\ mem' = [mem EXCEPT !.rows = Persisted(mem, turn).rows]
        /\ turn' = Idle
        /\ UNCHANGED disk
  /\ promised' = IF disk' = mem' THEN promised \cup turn.injected ELSE promised
  /\ UNCHANGED <<replies, waiting, continue>>

(* An exception escapes _process_message: nothing is saved.                *)
TurnFails ==
  /\ turn # Idle
  /\ turn' = Idle
  /\ UNCHANGED <<mem, disk, replies, waiting, continue, promised, faults>>

(* /stop: _dispatch restores the checkpoint of the cancelled turn.         *)
Stop ==
  /\ turn # Idle
  /\ mem' = RestoreCheckpoint(mem)
  /\ IF mem' = mem THEN turn' = Idle /\ UNCHANGED <<disk, faults>> ELSE Save(Idle)
  /\ UNCHANGED <<replies, waiting, continue, promised>>

(* /new: as a turn of its own, or in the middle of one, which it cancels.  *)
NewSession ==
  LET s == IF turn = Idle THEN Recover(mem) ELSE RestoreCheckpoint(mem) IN
  /\ mem' = [s EXCEPT !.rows = <<>>, !.provider = {}]
  /\ Save(Idle)
  /\ promised' = {} /\ renewed' = TRUE
  /\ UNCHANGED <<replies, waiting, continue>>

(* Other code saves the cached session in the middle of a turn (a goal     *)
(* tool, a title, a workspace scope, the flush of a shutdown).             *)
SavedElsewhere ==
  /\ disk # mem
  /\ disk' = mem
  /\ UNCHANGED <<mem, turn, replies, waiting, continue, promised, faults>>

(* The process dies and comes back; the bus and the cache are gone.        *)
Crash ==
  /\ mem' = disk /\ turn' = Idle /\ continue' = FALSE /\ renewed' = FALSE
  /\ UNCHANGED <<disk, replies, waiting, promised, faults>>
-----------------------------------------------------------------------------
RunnerStep ==
  \/ ModelCallsTools \/ ToolsReturn \/ ToolsFail \/ AfterTools
  \/ ModelGivesNothing \/ ModelFinalizes \/ ModelIsCutOff
  \/ ModelAnswers \/ AfterAnswer
  \/ ModelFails \/ AfterFailure \/ AfterError
  \/ OutOfIterations

(* Everything but /new and a restart leaves the history variable to what   *)
(* becomes of the file.                                                    *)
RowsFollow == renewed' = (renewed /\ disk'.rows = disk.rows)

Next ==
  /\ UNCHANGED setting
  /\ \/ /\ \/ \E m \in Msgs \cup {None} : StartTurn(m)
           \/ RestoreTurn \/ CloseTurn \/ BuildTurn
           \/ RunnerStep
           \/ PersistTurn \/ TurnFails \/ Stop \/ SavedElsewhere
        /\ RowsFollow
     \/ NewSession \/ Crash

Spec == Init /\ [][Next]_vars
-----------------------------------------------------------------------------
(* The session as it is, as its file is, and as the next turn would find   *)
(* it, after an interruption here or after a crash here.                   *)
Views == {mem, disk, Recover(mem), Recover(disk)}

(* An archive that fails after the rows were appended leaves a checkpoint  *)
(* that is restored once more: then the form is not promised.              *)
Journal == INSTANCE SessionJournal WITH
  log <- IF ArchiveFails THEN <<>> ELSE disk.rows,
  renewed <- ~ArchiveFails /\ renewed

(* Whatever is interrupted, whenever, and whichever save fails: tool calls *)
(* stay paired with their results, and no reply is duplicated or moved.    *)
HistoryWellFormed == ~ArchiveFails => \A s \in Views : Journal!WellFormed(s.rows)

(* The record of the session keeps the promise of SessionJournal: through  *)
(* failing saves, crashes and saves by other code it grows at its end, by  *)
(* whole exchanges, and no save takes a row from it or replaces it unless  *)
(* /new was asked for.                                                     *)
JournalKept == Journal!Spec

(* A provider thread that is kept knows every row of the history it will   *)
(* be continued with ("Upgrade ... to the resumable state", _build_turn),  *)
(* except where a message injected after a transient error was merged into *)
(* a row that the thread stands for already: only rows of an adopted state *)
(* are sealed against that ("Prevent later same-role injection merging     *)
(* across a state boundary", _seal_boundary).                              *)
MergesAcross == Transient /\ MaxCycles > 0
Knows(thread, row) ==
  row \in thread \/ \E r \in thread : IsUser(r) /\ IsUser(row) /\ row.of \subseteq r.of
ProviderKnowsHistory ==
  ~ MergesAcross => \A s \in {Recover(mem), Recover(disk)} :
    s.provider # {} => \A row \in ToSet(s.rows) : Knows(s.provider, row)

(* No prompt is left open: the next turn finds the history ended by what   *)
(* the model did, or closed ("Close a turn that only persisted the user    *)
(* message before crashing", _restore_pending_user_turn).  A turn of a     *)
(* goal may leave its last message to its continuation.                    *)
PromptsClosed == ~Goal => \A s \in {Recover(mem), Recover(disk)} : ~ EndsWithUser(s.rows)

(* A crash never costs the prompt of a turn whose model is running.        *)
PromptDurable ==
  turn.phase \in Asking /\ turn.msg # None =>
    \E row \in ToSet(disk.rows) : IsUser(row) /\ turn.msg \in row.of

(* /stop does not lose tool results and assistant messages accumulated     *)
(* before it (comment in _dispatch).                                       *)
Progress == {row \in ToSet(NewRows(turn)) : row.kind \in {"calls", "result"}}
StopKeepsProgress == [][Stop => Progress \subseteq ToSet(mem'.rows)]_vars

(* Messages injected into a turn that completed are in the history.        *)
InjectedInHistory ==
  promised \subseteq UNION {row.of : row \in {r \in ToSet(disk.rows) : IsUser(r)}}
-----------------------------------------------------------------------------
(* The inductive invariant (TurnHistoryProofs).                            *)

(* A reply that is being handled is the latest, and another may follow.    *)
Handling == Asking \ {"ask"}
Counted == turn.phase \in Handling => replies > 0 /\ turn.iteration < MaxIterations

(* The rows the runner starts from stay below the save boundary, and what  *)
(* the thread accounts for has been there.                                 *)
Writing == Asking \cup {"save"}
Placed ==
  turn.phase \in Writing =>
    turn.start <= turn.boundary /\ turn.boundary <= Len(turn.full)

(* The prompt of a turn is in memory and on file until it is persisted.    *)
PromptKept ==
  turn.phase \in Asking /\ turn.msg # None =>
    \A s \in {mem, disk} : \E row \in ToSet(s.rows) : IsUser(row) /\ turn.msg \in row.of

(* A session that ends with a prompt is flagged or has a checkpoint, and a *)
(* turn that is over did something.                                        *)
Guarded(s) == EndsWithUser(s.rows) => s.pending \/ s.checkpoint # NoCheckpoint
PromptGuarded ==
  ~ Goal =>
    /\ Guarded(mem) /\ Guarded(disk)
    /\ turn.phase \in {"failed", "save"} => NewRows(turn) # <<>> /\ ~ EndsWithUser(turn.full)

(* Numbers of replies: in a session they are earlier than the one handled  *)
(* now, and than the one its checkpoint stands for.                        *)
Upto(rows, n) ==
  \A row \in ToSet(rows) : row.kind \in ReplyKinds => \A k \in row.of : k <= n
Saved == IF turn.phase \in Handling THEN replies - 1 ELSE replies
Numbered ==
  ~ ArchiveFails =>
    /\ \A s \in {mem, disk} : Upto(s.rows, Saved)
    /\ \A s \in {mem, disk} :
         s.checkpoint # NoCheckpoint =>
           /\ s.checkpoint.of <= replies
           /\ Upto(s.rows, s.checkpoint.of - 1) /\ Upto(disk.rows, s.checkpoint.of - 1)

(* Earlier replies come first.                                             *)
Before(old, new) ==
  \A r \in ToSet(old), q \in ToSet(new) :
    r.kind \in ReplyKinds /\ q.kind \in ReplyKinds => \A m \in r.of, n \in q.of : m < n

(* The rows of a turn are in form, but for calls that run.                 *)
Finished == IF turn.phase = "tools" THEN Front(NewRows(turn)) ELSE NewRows(turn)
InForm ==
  ~ ArchiveFails =>
    /\ Journal!WellFormed(mem.rows) /\ Journal!WellFormed(disk.rows)
    /\ turn.phase \in Writing =>
         /\ Journal!WellFormed(Finished)
         /\ Upto(Finished,
                 IF turn.phase \in {"tools", "answered", "unanswered"} THEN Saved ELSE replies)
         /\ Before(mem.rows, NewRows(turn))
    /\ turn.phase = "tools" => NewRows(turn) = Append(Finished, Reply("calls", replies))

(* A message is taken once.                                                *)
Mentions(rows, ms) == \E row \in ToSet(rows) : IsUser(row) /\ row.of \cap ms # {}
Untaken ==
  /\ ~ Mentions(mem.rows, waiting) /\ ~ Mentions(disk.rows, waiting)
  /\ ~ Mentions(turn.full, waiting) /\ turn.msg \notin waiting
  /\ turn.phase \in {"restore", "close", "build"} =>
       ~ Mentions(mem.rows, {turn.msg}) /\ ~ Mentions(disk.rows, {turn.msg})

(* The session in memory continues its file, or starts afresh after /new,  *)
(* and so do the rows of the turn.                                         *)
Apart(old, new) == old = <<>> \/ new = <<>> \/ Head(new) # Head(old)
Onward(old, new) == IsPrefix(old, new) \/ Apart(old, new)
Continues ==
  ~ ArchiveFails =>
    /\ Onward(disk.rows, mem.rows)
    /\ ~ renewed => IsPrefix(disk.rows, mem.rows)
    /\ turn.phase \in Writing /\ mem.rows = <<>> => Apart(disk.rows, NewRows(turn))

(* A checkpoint saved with the provider's state is of rows of the turn.    *)
Restorable ==
  /\ turn.phase \in {"close", "build"} => mem.checkpoint = NoCheckpoint
  /\ turn.phase = "tools" => Reply("calls", replies) \in ToSet(NewRows(turn))
  /\ turn.phase \in Writing /\ Exact(mem.checkpoint) =>
       ToSet(Restored(mem.checkpoint)) \subseteq ToSet(NewRows(turn))

(* The next request accounts for the session and for the rows of the turn. *)
Accounted(thread, rows) == \A row \in ToSet(rows) : Knows(thread, row)
Asked ==
  turn.phase \in Asking =>
    /\ Accounted(ToSet(turn.full), mem.rows)
    /\ ~ MergesAcross =>
         \A rows \in {mem.rows, NewRows(turn)} : Accounted(Requested(turn), rows)
    /\ ~ Transient /\ turn.thread # {} => turn.boundary \in {turn.sealed, turn.start}

(* So does a state that is kept, with the rows of a checkpoint that was    *)
(* saved with it, and with the rows that are to be persisted.              *)
ThreadOf(s) ==
  s.provider # {} /\ (s.checkpoint = NoCheckpoint \/ Exact(s.checkpoint)) =>
    Accounted(s.provider, s.rows) /\ Accounted(s.provider, Restored(s.checkpoint))
Kept ==
  ~ MergesAcross =>
    /\ ThreadOf(mem) /\ ThreadOf(disk)
    /\ turn.phase = "save" /\ mem.provider # {} =>
         \A rows \in {mem.rows, NewRows(turn)} : Accounted(mem.provider, rows)

(* The inductive invariant of a session and its turn: the form of the rows *)
(* and what checkpoints and kept threads stand for (loop.py, runner.py).   *)
HistoryIInv ==
  /\ TypeOK /\ Counted /\ Placed
  /\ PromptKept /\ PromptGuarded
  /\ Numbered /\ InForm
  /\ Untaken /\ Continues
  /\ Restorable /\ Asked /\ Kept
=============================================================================
