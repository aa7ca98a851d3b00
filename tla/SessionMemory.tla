---------------------------- MODULE SessionMemory ----------------------------
(***************************************************************************)
(* The rows of one session between its file, the Session objects in        *)
(* memory, and the archive (nanobot/session/manager.py,                    *)
(* nanobot/agent/memory.py, nanobot/agent/autocompact.py, cmd_new).        *)
(*                                                                         *)
(* The older rows of a session are archived and then hidden from the model *)
(* by last_consolidated, an index into the rows.  Three things do that,    *)
(* and wait for the model while they do: consolidation before a turn,      *)
(* consolidation after it, and the compaction of an idle session; they     *)
(* share a lock that nothing else takes.  Meanwhile turns, commands and    *)
(* deliveries append rows, /new clears the session, the WebUI deletes it,  *)
(* and every save trims the file to its cap.                               *)
(*                                                                         *)
(* Rows are numbers.  Which boundary the token estimates choose is left    *)
(* open, and so is when a session counts as idle; a retained suffix is the *)
(* last rows (what makes it legal is in module ConversationWindow).                 *)
(***************************************************************************)
EXTENDS Integers, FiniteSetsExt, SequencesExt

CONSTANTS
  Objects,       \* identities of Session objects
  NoObject,
  LastRow,       \* bound of the model: rows ever appended
  FileCap,       \* FILE_MAX_MESSAGES
  IdleSuffix,    \* _RECENT_SUFFIX_MESSAGES
  MaxInterrupts  \* bound of the model: /new, deletions and crashes

\* Two holders of a session never have all the objects there could be.
ASSUME MemoryAssumption ==
  /\ NoObject \notin Objects
  /\ \A o, p \in Objects \cup {NoObject} : Objects \ {o, p} # {}
  /\ LastRow \in Nat /\ FileCap \in Nat \ {0} /\ IdleSuffix \in Nat \ {0}
  /\ MaxInterrupts \in Nat

VARIABLES
  heap,        \* Session objects: rows and last_consolidated
  cached,      \* the object in the cache of the SessionManager
  file,        \* the session file
  turn,        \* the turn in progress: where it is, and the object it holds
  job,         \* who holds the consolidation lock, and what it archives
  after,       \* a consolidation after a turn is scheduled
  scanned,     \* a compaction is scheduled (_archiving)
  snapshots,   \* rows that /new gave to a background archive
  archive,     \* rows in history.jsonl, summarized or raw
  nextRow, interrupts,
  owed,        \* history: saved rows nobody deleted or lost in a crash
  twice,       \* history: rows archived more than once
  races        \* history: how an object was changed under its holder

memoryVars == <<heap, cached, file, turn, job, after, scanned, snapshots, archive,
                nextRow, interrupts, owed, twice, races>>

Rows == 1..LastRow
Content == [rows : Seq(Rows), lc : -IdleSuffix..LastRow]
Empty == [rows |-> <<>>, lc |-> 0]
NoTurn == [at |-> "none", obj |-> NoObject, bus |-> FALSE]
NoJob == [by |-> "none", obj |-> NoObject, chunk |-> {}, end |-> 0]

MemoryTypeOK ==
  /\ heap \in [Objects -> Content] /\ file \in Content
  /\ Len(file.rows) <= FileCap
  /\ cached \in Objects \cup {NoObject}
  /\ turn \in [at : {"waiting", "consolidating", "running", "answering"},
               obj : Objects, bus : BOOLEAN] \cup {NoTurn}
  /\ job \in [by : {"turn", "background", "idle"}, obj : Objects,
              chunk : SUBSET Rows, end : 0..LastRow] \cup {NoJob}
  /\ after \in BOOLEAN /\ scanned \in BOOLEAN
  /\ {snapshots, archive, owed, twice} \subseteq SUBSET Rows
  /\ nextRow \in 1..LastRow + 1 /\ interrupts \in 0..MaxInterrupts
  /\ races \subseteq {"trimmed", "appended", "orphaned"}

MemoryInit ==
  /\ heap = [o \in Objects |-> Empty] /\ file = Empty /\ cached = NoObject
  /\ turn = NoTurn /\ job = NoJob /\ after = FALSE /\ scanned = FALSE
  /\ snapshots = {} /\ archive = {}
  /\ nextRow = 1 /\ interrupts = 0
  /\ owed = {} /\ twice = {} /\ races = {}

(* Python's messages[last_consolidated:], where the index may be negative. *)
HiddenCount(s) == IF s.lc >= 0 THEN Min({s.lc, Len(s.rows)}) ELSE Max({0, Len(s.rows) + s.lc})
Hidden(s) == {s.rows[i] : i \in 1..HiddenCount(s)}
Unconsolidated(s) == Range(s.rows) \ Hidden(s)
-----------------------------------------------------------------------------
(* get_or_create: the cached object, or one loaded from the file, where an *)
(* index beyond the rows is reset (__post_init__).  An object nobody holds *)
(* is reused in the model.                                                 *)
InUse == {cached, turn.obj, job.obj}
NewObject == CHOOSE o \in Objects : o \notin InUse
Loaded == [file EXCEPT !.lc = IF @ \in 0..Len(file.rows) THEN @ ELSE 0]
Got == IF cached = NoObject THEN NewObject ELSE cached
Contents == IF cached = NoObject THEN Loaded ELSE heap[cached]

(* enforce_file_cap: rows beyond the cap go, oldest first; those not yet   *)
(* consolidated are archived raw.                                          *)
Excess(s) == Max({0, Len(s.rows) - FileCap})
\* One row too many stays.
CappedMutant(s) ==
  LET keep == Min({Len(s.rows), FileCap + 1}) IN
  [s EXCEPT !.rows = SubSeq(s.rows, Len(s.rows) - keep + 1, Len(s.rows))]
Capped(s) == [rows |-> SubSeq(s.rows, Excess(s) + 1, Len(s.rows)),
              lc |-> IF s.lc < 0 \/ Excess(s) = 0 THEN s.lc ELSE Max({0, s.lc - Excess(s)})]
\* Rows that go are not archived.
OverflowMutant(s) == {}
\* Rows that go are archived, consolidated or not.
OverflowAgainMutant(s) == {s.rows[i] : i \in 1..Excess(s)}
Overflow(s) == {s.rows[i] : i \in HiddenCount(s) + 1..Excess(s)}

(* SessionManager.save of object o, whose contents are now s.              *)
Save(o, s) ==
  /\ heap' = [heap EXCEPT ![o] = Capped(s)]
  /\ file' = Capped(s) /\ cached' = o

Archive(rows) == archive' = archive \cup rows /\ twice' = twice \cup (archive \cap rows)

Race(cause, happens) == races' = IF happens THEN races \cup {cause} ELSE races

(* A row is appended to o by a turn or by other code, and o is saved.  A   *)
(* job that waits for the model keeps the indexes it has computed.         *)
AppendRow(o) ==
  LET s == [heap[o] EXCEPT !.rows = Append(@, nextRow)]
      t == IF o = cached \/ o = turn.obj THEN s ELSE [Loaded EXCEPT !.rows = Append(@, nextRow)] IN
  /\ nextRow <= LastRow
  /\ Save(o, t) /\ Archive(Overflow(t))
  /\ owed' = owed \cup {nextRow} /\ nextRow' = nextRow + 1
  /\ races' = races \cup (IF job.obj = o /\ Excess(t) > 0 THEN {"trimmed"} ELSE {})
                    \cup (IF job.obj = o /\ job.by = "idle" THEN {"appended"} ELSE {})
-----------------------------------------------------------------------------
(* A turn.                                                                 *)

TurnBegins(bus) ==
  /\ turn = NoTurn /\ nextRow < LastRow
  /\ turn' = [at |-> "waiting", obj |-> Got, bus |-> bus]
  /\ heap' = [heap EXCEPT ![Got] = Contents] /\ cached' = Got
  /\ UNCHANGED <<file, job, after, scanned, snapshots, archive, nextRow, interrupts, owed, twice, races>>

(* maybe_consolidate_by_tokens takes the lock, and the object the cache    *)
(* has then.  It archives up to some boundary, or finds nothing to do.     *)
Chunk(s, end) == {s.rows[i] : i \in HiddenCount(s) + 1..end}
Boundaries(s) == HiddenCount(s) + 1..Len(s.rows)

Consolidates(by) ==
  /\ job = NoJob
  /\ heap' = [heap EXCEPT ![Got] = Contents] /\ cached' = Got
  /\ \E end \in Boundaries(Contents) :
       job' = [by |-> by, obj |-> Got, chunk |-> Chunk(Contents, end), end |-> end]

TurnConsolidates ==
  /\ turn.at = "waiting"
  /\ \/ /\ Consolidates("turn")
        /\ turn' = [turn EXCEPT !.at = "consolidating"]
     \/ /\ job = NoJob
        /\ turn' = [turn EXCEPT !.at = "running"]
        /\ heap' = [heap EXCEPT ![Got] = Contents] /\ cached' = Got
        /\ UNCHANGED job
  /\ UNCHANGED <<file, after, scanned, snapshots, archive, nextRow, interrupts, owed, twice, races>>

AfterConsolidates ==
  /\ after
  /\ \/ Consolidates("background")
     \/ job = NoJob /\ UNCHANGED <<heap, cached, job>>
  /\ after' = FALSE
  /\ UNCHANGED <<file, turn, scanned, snapshots, archive, nextRow, interrupts, owed, twice, races>>

(* archive() returns, with a summary or after a raw dump: the chunk is     *)
(* hidden and the object is saved.  There may be another round.            *)
ConsolidationReturns ==
  LET s == [heap[job.obj] EXCEPT !.lc = job.end] IN
  /\ job.by \in {"turn", "background"}
  /\ Save(job.obj, s) /\ Archive(job.chunk \cup Overflow(s))
  /\ \/ /\ job' = NoJob
        /\ turn' = IF job.by = "turn" THEN [turn EXCEPT !.at = "running"] ELSE turn
     \/ /\ \E end \in Boundaries(s) :
             job' = [job EXCEPT !.chunk = Chunk(s, end), !.end = end]
        /\ UNCHANGED turn
  /\ UNCHANGED <<after, scanned, snapshots, nextRow, interrupts, owed, races>>

(* The prompt is saved before the model runs.                              *)
PromptSaved ==
  /\ turn.at = "running"
  /\ turn' = [turn EXCEPT !.at = "answering"]
  /\ AppendRow(turn.obj)
  /\ UNCHANGED <<job, after, scanned, snapshots, interrupts>>

(* _persist_turn: the answer is saved, and a consolidation scheduled.      *)
TurnEnds ==
  /\ turn.at = "answering"
  /\ turn' = NoTurn /\ after' = TRUE
  /\ AppendRow(turn.obj)
  /\ UNCHANGED <<job, scanned, snapshots, interrupts>>
-----------------------------------------------------------------------------
(* A command of the session, a delivery into it, or a caller of the SDK    *)
(* appends a row.                                                          *)
OtherAppends ==
  /\ AppendRow(Got)
  /\ UNCHANGED <<turn, job, after, scanned, snapshots, interrupts>>

(* The cache drops the session; an object in use is still found.           *)
Evict ==
  /\ cached # NoObject /\ cached \notin {turn.obj, job.obj}
  /\ cached' = NoObject
  /\ UNCHANGED <<heap, file, turn, job, after, scanned, snapshots, archive, nextRow, interrupts,
                 owed, twice, races>>

(* check_expired: a session without a live turn of the bus has been idle,  *)
(* and has more rows than the compaction would leave.                      *)
ScanIdle ==
  /\ ~scanned /\ ~turn.bus
  /\ Cardinality(Unconsolidated(Contents)) > IdleSuffix
  /\ scanned' = TRUE
  /\ heap' = [heap EXCEPT ![Got] = Contents] /\ cached' = Got
  /\ UNCHANGED <<file, turn, job, after, snapshots, archive, nextRow, interrupts, owed, twice, races>>

(* compact_idle_session: the session is loaded anew.  The job remembers    *)
(* how many rows stay visible.                                             *)
IdleLocks ==
  LET old == Unconsolidated(Loaded)
      kept == Min({IdleSuffix, Cardinality(old)}) IN
  /\ scanned /\ job = NoJob
  /\ heap' = [heap EXCEPT ![NewObject] = Loaded] /\ cached' = NewObject
  /\ \/ /\ Cardinality(old) > IdleSuffix
        /\ job' = [by |-> "idle", obj |-> NewObject, end |-> kept,
                   chunk |-> {r \in old : Cardinality({q \in old : q > r}) >= kept}]
        /\ UNCHANGED <<scanned, file>>
     \/ /\ Cardinality(old) <= IdleSuffix
        /\ scanned' = FALSE /\ file' = Loaded
        /\ UNCHANGED job
  /\ Race("orphaned", turn # NoTurn)
  /\ UNCHANGED <<turn, after, snapshots, archive, nextRow, interrupts, owed, twice>>

IdleReturns ==
  LET o == job.obj
      s == [heap[o] EXCEPT !.lc = Len(heap[o].rows) - job.end] IN
  /\ job.by = "idle"
  /\ Save(o, s) /\ Archive(job.chunk \cup Overflow(s))
  /\ job' = NoJob /\ scanned' = FALSE
  /\ UNCHANGED <<turn, after, snapshots, nextRow, interrupts, owed, races>>
-----------------------------------------------------------------------------
Interrupt == interrupts < MaxInterrupts /\ interrupts' = interrupts + 1
Freed == IF job.by = "turn" THEN NoJob ELSE job

(* cmd_new: the turn is cancelled; the object is cleared, saved and        *)
(* dropped from the cache; what was not consolidated goes to the archive   *)
(* in the background.                                                      *)
New ==
  LET o == Got IN
  /\ Interrupt
  /\ heap' = [heap EXCEPT ![o] = Empty]
  /\ file' = Empty /\ cached' = NoObject
  /\ snapshots' = snapshots \cup Unconsolidated(Contents)
  /\ turn' = NoTurn /\ job' = Freed
  /\ Race("orphaned", Freed.obj = o)
  /\ UNCHANGED <<after, scanned, archive, nextRow, owed, twice>>

SnapshotArchived ==
  /\ snapshots # {}
  /\ Archive(snapshots) /\ snapshots' = {}
  /\ UNCHANGED <<heap, cached, file, turn, job, after, scanned, nextRow, interrupts, owed, races>>

(* delete_session, from the WebUI or the SDK.                              *)
Delete ==
  /\ Interrupt
  /\ owed' = owed \ (Range(file.rows) \cup Range(Contents.rows))
  /\ file' = Empty /\ cached' = NoObject
  /\ Race("orphaned", cached # NoObject /\ cached \in {turn.obj, job.obj})
  /\ UNCHANGED <<heap, turn, job, after, scanned, snapshots, archive, nextRow, twice>>

(* The process dies.  Archives in progress are lost; the rows of a         *)
(* snapshot are nowhere else.                                              *)
MemoryCrash ==
  /\ Interrupt
  /\ cached' = NoObject /\ turn' = NoTurn /\ job' = NoJob
  /\ after' = FALSE /\ scanned' = FALSE
  /\ snapshots' = {} /\ owed' = owed \ snapshots
  /\ UNCHANGED <<heap, file, archive, nextRow, twice, races>>

MemoryNext ==
  \/ \E bus \in BOOLEAN : TurnBegins(bus)
  \/ TurnConsolidates \/ ConsolidationReturns \/ PromptSaved \/ TurnEnds
  \/ AfterConsolidates \/ OtherAppends \/ Evict
  \/ ScanIdle \/ IdleLocks \/ IdleReturns
  \/ New \/ SnapshotArchived \/ Delete \/ MemoryCrash

MemorySpec == MemoryInit /\ [][MemoryNext]_memoryVars
-----------------------------------------------------------------------------
(* The code has three races, recorded in "races": a save trims rows while  *)
(* a job holds indexes into them (enforce_file_cap, manager.py:421), rows  *)
(* are appended while a compaction waits for the model (memory.py:1207),   *)
(* and an object is dropped from the cache while a turn or a job still     *)
(* holds it (builtin.py:312, memory.py:1168, manager.py:1106).  The        *)
(* promises below hold through every other interleaving and every crash.   *)

(* Consolidator: "advance the cursor" only past what was archived.  A row  *)
(* that the next turn does not see, in the file or in the cache, was       *)
(* archived before.  "Re-archiving the same chunk on the next call would   *)
(* just emit duplicate entries" (memory.py:1134): it is archived once,     *)
(* except when a crash, /new or a deletion comes between the archive and   *)
(* the save; rows that come while a compaction waits change nothing then.  *)
HiddenIsArchived ==
  /\ races = {} => /\ Hidden(Loaded) \subseteq archive
                   /\ cached # NoObject => Hidden(heap[cached]) \subseteq archive
  /\ races \subseteq {"appended"} /\ interrupts = 0 => twice = {}

(* Two jobs, turns, trims and /new move one session between file, cache    *)
(* and archive.  A row that was saved, and not deleted by the user, is in  *)
(* the file, in the archive, or in a snapshot on its way there.            *)
NothingForgotten ==
  races = {} => owed \subseteq Range(file.rows) \cup archive \cup snapshots
-----------------------------------------------------------------------------
(* The inductive invariant behind them (ConversationsProofs).              *)

(* Rows are kept in the order in which they were appended.                 *)
RowsInv ==
  /\ \A s \in {file} \cup {heap[o] : o \in Objects} : \A i \in 1..Len(s.rows) :
       /\ s.rows[i] < nextRow
       /\ \A k \in i + 1..Len(s.rows) : s.rows[i] < s.rows[k]
  /\ \A row \in archive \cup snapshots \cup job.chunk : row < nextRow
  /\ job.by = "idle" => job.end <= IdleSuffix

(* The cached object is what was loaded from the file, or saved to it; the *)
(* job of a turn has a turn that waits for it.                             *)
CacheInv ==
  /\ cached # NoObject => heap[cached] \in {file, Loaded}
  /\ job.by = "turn" => turn.at = "consolidating"

(* Where nothing was trimmed or dropped under its holder, turn and job     *)
(* hold the cached object, the offset is within the rows, and what a job   *)
(* archives is what its return will hide.                                  *)
Calm == races \subseteq {"appended"}
JobInv ==
  job # NoJob => \E m \in file.lc..Len(file.rows) :
    /\ job.chunk = {file.rows[i] : i \in file.lc + 1..m}
    /\ job.by # "idle" => m = job.end
    /\ job.by = "idle" => /\ m <= Len(file.rows) - job.end
                          /\ races = {} => m = Len(file.rows) - job.end
CalmInv ==
  Calm => /\ turn # NoTurn => turn.obj = cached
          /\ job # NoJob => job.obj = cached
          /\ file.lc \in 0..Len(file.rows)
          /\ JobInv

(* What is hidden is archived; what is not hidden, is not.                 *)
ArchiveInv ==
  /\ races = {} => Hidden(file) \subseteq archive
  /\ Calm /\ interrupts = 0 =>
       snapshots = {} /\ twice = {} /\ archive \cap Unconsolidated(file) = {}

(* The inductive invariant: file, cache, turn, job and archive agree       *)
(* (SessionManager, Consolidator, AutoCompact).                            *)
MemoryIInv ==
  MemoryTypeOK /\ RowsInv /\ CacheInv /\ CalmInv /\ ArchiveInv /\ NothingForgotten
=============================================================================
