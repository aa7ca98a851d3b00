-------------------------- MODULE ConversationWindow --------------------------
(***************************************************************************)
(* What the model is shown of a conversation, and what is archived instead *)
(* (Session in nanobot/session/manager.py, the window helpers of           *)
(* nanobot/utils/helpers.py, the boundaries of nanobot/agent/memory.py,    *)
(* nanobot/agent/context_governance.py).                                   *)
(*                                                                         *)
(* Rows are cut away at five places: the cap of the session file, the      *)
(* compaction of an idle session, the consolidation before a turn, the     *)
(* replayed history, and the request itself.  Each cut has a rule of its   *)
(* own for where a conversation may begin, and a provider rejects a        *)
(* request in which a tool call and its result do not pair up.  Token      *)
(* estimates are left open: a budget may be met after any number of rows.  *)
(* One thing happens at a time here; SessionMemory has the interleavings.  *)
(***************************************************************************)
EXTENDS Integers, FiniteSetsExt, Functions, SequencesExt

CONSTANTS
  RowBound,      \* bound of the model: rows ever written
  RowCap,        \* FILE_MAX_MESSAGES
  ReplayMax,     \* replay_max_messages_for_context
  Suffix         \* _RECENT_SUFFIX_MESSAGES of an idle session

\* What an old version left behind has four rows.
ASSUME WindowAssumption ==
  /\ {RowBound, RowCap} \subseteq Nat /\ RowBound >= 4 /\ RowCap >= 4
  /\ ReplayMax \in 1..RowCap /\ Suffix \in Nat \ {0}

VARIABLES
  messages,      \* Session.messages
  consolidated,  \* Session.last_consolidated
  archived,      \* rows in history.jsonl
  again,         \* history: rows archived a second time
  written,       \* number of rows written so far
  stage,         \* of the turn: "none", "compacting" or "running"
  history,       \* ctx.history: what get_history gave the turn
  turnRows       \* the rows of the turn: its prompt, then calls and results

windowVars == <<messages, consolidated, archived, again, written, stage, history, turnRows>>

(* A row.  The ids of the calls of row n are 2n and 2n + 1; a tool row has *)
(* the id it answers.                                                      *)
NoCall == 0
Row(n, role, kind, calls) ==
  [n |-> n, role |-> role, kind |-> kind, calls |-> calls, nameless |-> {}, answers |-> NoCall]
User(n) == Row(n, "user", "plain", {})
Assistant(n) == Row(n, "assistant", "plain", {})
Result(n, id) == [Row(n, "tool", "plain", {}) EXCEPT !.answers = id]
Round(n, width) ==
  <<Row(n, "assistant", "plain", 2*n .. 2*n + width - 1)>>
    \o [i \in 1..width |-> Result(n + i, 2*n + i - 1)]

(* What an old version left behind: a call without a name, a placeholder.  *)
Old == <<User(1), [Row(2, "assistant", "plain", {4}) EXCEPT !.nameless = {4}], Result(3, 4),
         Row(4, "assistant", "placeholder", {})>>

Numbers(s) == {s[i].n : i \in DOMAIN s}
Users(s) == {i \in DOMAIN s : s[i].role = "user"}
From(s, i) == SubSeq(s, i, Len(s))

WindowInit ==
  /\ messages \in {<<>>, Old}
  /\ written = Len(messages)
  /\ consolidated = 0 /\ archived = {} /\ again = {}
  /\ stage = "none" /\ history = <<>> /\ turnRows = <<>>
-----------------------------------------------------------------------------
(* utils/helpers.py.                                                       *)

(* find_legal_message_start: "the first index whose tool results have      *)
(* matching assistant calls" (MCConversations has the loop).               *)
Declared(s, start, i) == UNION {s[k].calls : k \in {k \in start + 1..i - 1 : s[k].role = "assistant"}}
LegalStart(s) ==
  Min({start \in 0..Len(s) : \A i \in start + 1..Len(s) :
         s[i].role = "tool" => s[i].answers \in Declared(s, start, i)})
Legal(s) == From(s, LegalStart(s) + 1)

(* A user row; before it, the delivery the user may be replying to.        *)
Opening(s, i) == IF i > 1 /\ s[i - 1].kind = "delivery" THEN i - 1 ELSE i

(* recent_message_start_index, as a position in s.                         *)
RecentStart(s, max, extend) ==
  LET start == Max({1, Len(s) - max + 1})
      before == {i \in Users(s) : i < start} IN
  IF ~extend \/ Users(s) \ before # {} \/ before = {} THEN start
  ELSE Opening(s, Max(before))

FromFirstUser(s) == IF Users(s) = {} THEN s ELSE From(s, Min(Users(s)))
FromOpening(s) == IF Users(s) = {} THEN s ELSE From(s, Opening(s, Min(Users(s))))
-----------------------------------------------------------------------------
(* session/manager.py.                                                     *)

(* get_history.  Rows of commands in the window are left out; of the rest  *)
(* the last "fitting" are within the token budget.                         *)
ReplayWindow(s, extend) == Legal(FromOpening(From(s, RecentStart(s, ReplayMax, extend))))
Without(kind, s) ==
  LET out[i \in 0..Len(s)] ==
        IF i = 0 THEN <<>>
        ELSE IF s[i].kind = kind THEN out[i - 1] ELSE Append(out[i - 1], s[i]) IN
  out[Len(s)]
Replayed(s, extend) == Without("command", ReplayWindow(s, extend))
WithinTokens(s, fitting) ==
  LET kept == From(s, Len(s) - fitting + 1) IN
  Legal(IF Users(kept) # {} THEN FromFirstUser(kept)
        ELSE IF Users(s) # {} THEN From(s, Max(Users(s))) ELSE kept)
Histories(s, extend) ==
  LET out == Replayed(s, extend) IN
  {WithinTokens(out, fitting) : fitting \in Min({1, Len(out)})..Len(out)}

(* retain_recent_legal_suffix: what remains.  A tail without a user row    *)
(* gives way to the rows that follow the latest one.                       *)
Retained(s, max, extend) ==
  LET tail == Max({1, Len(s) - max + 1})
      earlier == {i \in Users(s) : i <= tail}
      start == IF extend /\ earlier # {} THEN Max(earlier) ELSE tail
      recent == From(s, start)
      anchored == IF Users(recent) = {} /\ ~extend /\ Users(s) # {}
                  THEN SubSeq(s, Max(Users(s)), Max(Users(s)) + max - 1)
                  ELSE FromFirstUser(recent)
      legal == Legal(anchored) IN
  IF Len(s) <= max THEN s
  ELSE IF ~extend /\ Len(legal) > max THEN Legal(From(legal, Len(legal) - max + 1))
  ELSE legal

(* enforce_file_cap, part of every save: rows that go are archived unless  *)
(* they were consolidated.                                                 *)
ToArchive(rows) == archived' = archived \cup rows /\ again' = again \cup (archived \cap rows)
\* The rows that go are taken to be the first ones.
CappedSaveFirstMutant(s) ==
  LET kept == Retained(s, RowCap, FALSE)
      gone == Len(s) - Len(kept) IN
  /\ messages' = kept
  /\ consolidated' = Max({0, consolidated - gone})
  /\ ToArchive(Numbers(SubSeq(s, Min({consolidated, gone}) + 1, gone)))
CappedSave(s) ==
  LET kept == Retained(s, RowCap, FALSE)
      hidden == Numbers(SubSeq(s, 1, consolidated)) IN
  /\ messages' = kept
  /\ consolidated' = Cardinality(hidden \cap Numbers(kept))
  /\ ToArchive((Numbers(s) \ Numbers(kept)) \ hidden)
-----------------------------------------------------------------------------
(* agent/memory.py.                                                        *)

Shown(s) == From(s, consolidated + 1)

(* _replay_overflow_boundary: the number of rows that are hidden.          *)
\* The boundary ignores where a history may begin.
OverflowBoundaryMutant ==
  IF Len(Shown(messages)) <= ReplayMax THEN consolidated ELSE Len(messages) - ReplayMax
OverflowBoundary ==
  LET tail == Shown(messages)
      seen == Legal(FromOpening(From(tail, RecentStart(tail, ReplayMax, TRUE)))) IN
  IF Len(tail) <= ReplayMax THEN consolidated ELSE Len(messages) - Len(seen)

(* pick_consolidation_boundary: before a user row, which one is decided by *)
(* token estimates.                                                        *)
TokenBoundaries == {i - 1 : i \in {k \in Users(messages) : k > consolidated + 1}}

ConsolidateTo(end) ==
  /\ ToArchive(Numbers(SubSeq(messages, consolidated + 1, end)))
  /\ consolidated' = end

(* compact_idle_session.                                                   *)
CompactIdle ==
  LET tail == Shown(messages)
      visible == Retained(tail, Suffix, TRUE) IN
  /\ stage = "none" /\ Len(visible) < Len(tail)
  /\ ConsolidateTo(Len(messages) - Len(visible))
  /\ UNCHANGED <<messages, written, stage, history, turnRows>>
-----------------------------------------------------------------------------
(* agent/context_governance.py.                                            *)

(* strip_placeholder_assistant_messages, strip_malformed_tool_calls.  What *)
(* then says nothing is dropped too, which is left out.                    *)
Named(s) == [i \in DOMAIN s |-> [s[i] EXCEPT !.calls = @ \ s[i].nameless, !.nameless = {}]]
Cleaned(s) == Without("placeholder", Named(s))

(* drop_orphan_tool_results: results before their call, and second ones.   *)
Orphan(s, i) == s[i].role = "tool" /\ \A k \in 1..i - 1 : s[i].answers \notin s[k].calls
WithoutOrphans(s) ==
  LET out[i \in 0..Len(s)] ==
        IF i = 0 THEN <<>>
        ELSE LET acc == out[i - 1] IN
             IF \/ Orphan(s, i)
                \/ s[i].role = "tool" /\ \E k \in DOMAIN acc : acc[k].answers = s[i].answers
             THEN acc ELSE Append(acc, s[i]) IN
  out[Len(s)]

(* backfill_missing_tool_results: after the results that are there.        *)
Answered(s) == {s[i].answers : i \in DOMAIN s}
Caller(s, i) == Max({k \in 1..i : s[k].role # "tool"} \cup {0})
Missing(s, i) ==
  IF (i = Len(s) \/ s[i + 1].role # "tool") /\ Caller(s, i) > 0
  THEN s[Caller(s, i)].calls \ Answered(s) ELSE {}
Fillers(s, i) ==
  LET ids == SetToSeq(Missing(s, i)) IN
  [k \in DOMAIN ids |-> Result(s[Caller(s, i)].n, ids[k])]
Backfilled(s) ==
  LET out[i \in 0..Len(s)] ==
        IF i = 0 THEN <<>> ELSE out[i - 1] \o <<s[i]>> \o Fillers(s, i) IN
  out[Len(s)]

Repaired(s) == Backfilled(WithoutOrphans(s))

(* snip_history: the system prompt stays (it is no row here); of the rest  *)
(* the last "fitting" are within the budget.                               *)
\* The budget is kept even when no row of the user is left.
SnippedMutant(s, fitting) ==
  LET kept == From(s, Len(s) - fitting + 1) IN
  Legal(IF Users(kept) # {} THEN FromFirstUser(kept) ELSE kept)
Snipped(s, fitting) ==
  LET kept == From(s, Len(s) - fitting + 1) IN
  Legal(IF Users(kept) # {} THEN FromFirstUser(kept)
        ELSE IF Users(s) # {} THEN From(s, Max(Users(s))) ELSE kept)

(* prepare_for_model, for each budget; the whole list may fit as it is.    *)
Prepared(s) ==
  LET closed == Repaired(Cleaned(s)) IN
  {Repaired(closed)} \cup {Repaired(Snipped(closed, fitting)) : fitting \in 1..Len(closed)}
-----------------------------------------------------------------------------
Write(rows) == written + Len(rows) <= RowBound /\ written' = written + Len(rows)

(* A message the bot sends on its own is saved as a row of the assistant.  *)
Deliver ==
  /\ stage = "none"
  /\ LET rows == <<Row(written + 1, "assistant", "delivery", {})>> IN
       Write(rows) /\ CappedSave(messages \o rows)
  /\ UNCHANGED <<stage, history, turnRows>>

(* A shortcut command and its answer.                                      *)
Command ==
  /\ stage = "none"
  /\ LET rows == <<Row(written + 1, "user", "command", {}),
                   Row(written + 2, "assistant", "command", {})>> IN
       Write(rows) /\ CappedSave(messages \o rows)
  /\ UNCHANGED <<stage, history, turnRows>>

(* _build_turn: first what the replay window would hide is archived, ...   *)
TurnOpens ==
  /\ stage = "none"
  /\ stage' = "compacting"
  /\ ConsolidateTo(OverflowBoundary)
  /\ UNCHANGED <<messages, written, history, turnRows>>

(* ... then rounds of token consolidation, ...                             *)
TokenRound ==
  /\ stage = "compacting"
  /\ \E end \in TokenBoundaries : ConsolidateTo(end)
  /\ UNCHANGED <<messages, written, stage, history, turnRows>>

(* ... then the history is read and the prompt is saved.  The turn of a    *)
(* subagent's report, saved as a delivery, extends its history.            *)
TurnPrompts(subagent) ==
  LET n == written + 1
      saved == IF subagent THEN Row(n, "assistant", "report", {}) ELSE User(n) IN
  /\ stage = "compacting" /\ written < RowBound
  /\ history' \in Histories(Shown(messages), subagent)
  /\ turnRows' = <<User(n)>>
  /\ written' = n
  /\ CappedSave(Append(messages, saved))
  /\ stage' = "running"

(* The model calls one or two tools, and the runner has their results.     *)
ToolRound(width) ==
  /\ stage = "running"
  /\ LET rows == Round(written + 1, width) IN
       Write(rows) /\ turnRows' = turnRows \o rows
  /\ UNCHANGED <<messages, consolidated, archived, again, stage, history>>

(* A message of the user that came meanwhile is injected after the results.*)
Inject ==
  /\ stage = "running" /\ Len(turnRows) > 1
  /\ Write(<<User(written + 1)>>) /\ turnRows' = Append(turnRows, User(written + 1))
  /\ UNCHANGED <<messages, consolidated, archived, again, stage, history>>

(* _save_turn: the rows after the prompt, and the answer.                  *)
TurnAnswers ==
  /\ stage = "running" /\ written < RowBound
  /\ written' = written + 1
  /\ CappedSave(messages \o Tail(turnRows) \o <<Assistant(written + 1)>>)
  /\ stage' = "none" /\ history' = <<>> /\ turnRows' = <<>>

WindowNext ==
  \/ Deliver \/ Command \/ CompactIdle \/ TurnOpens \/ TokenRound
  \/ Inject \/ TurnAnswers
  \/ \E subagent \in BOOLEAN : TurnPrompts(subagent)
  \/ \E width \in 1..2 : ToolRound(width)

WindowSpec == WindowInit /\ [][WindowNext]_windowVars
-----------------------------------------------------------------------------
(* The file keeps within its cap and the offset within the rows, through   *)
(* every cut (Session.enforce_file_cap, Consolidator).                     *)
WindowRow ==
  [n : Nat, role : {"user", "assistant", "tool"},
   kind : {"plain", "placeholder", "command", "delivery", "report"},
   calls : SUBSET Nat, nameless : SUBSET Nat, answers : Nat]
WindowTypeOK ==
  /\ messages \in Seq(WindowRow) /\ turnRows \in Seq(WindowRow)
  /\ Len(messages) <= RowCap
  /\ consolidated \in 0..Len(messages)
  /\ Numbers(messages) \cup Numbers(turnRows) \cup archived \subseteq 1..written
  /\ written \in 0..RowBound
  /\ stage \in {"none", "compacting", "running"}
  /\ (stage = "running") = (turnRows # <<>>)

(* Five places cut rows away, one of them newest rows too.  A row that is  *)
(* no longer in the file, or that the offset hides, is archived, each once *)
(* (issue #4128: rows archived twice, or lost), and what the offset shows  *)
(* is not in the archive as well.                                          *)
Unsaved == IF stage = "running" THEN Numbers(Tail(turnRows)) ELSE {}
CutIsArchived ==
  /\ (1..written \ Unsaved) \ Numbers(messages) \subseteq archived
  /\ Numbers(messages) \cap archived = Numbers(SubSeq(messages, 1, consolidated))
  /\ again = {}

(* Rows are in the order in which they were written, with the ids their    *)
(* writer gives them; a result follows its call with nothing but results   *)
(* between them, and is the only one of its turn.                          *)
Rising(s) == \A i, k \in DOMAIN s : i < k => s[i].n < s[k].n
LabelledRow(row) ==
  /\ row.calls \subseteq {2 * row.n, 2 * row.n + 1}
  /\ row.calls # {} => row.role = "assistant" /\ row.kind = "plain"
  /\ row.role = "tool" => row.kind = "plain"
  /\ row.role # "tool" => row.answers = NoCall
  /\ row.kind = "delivery" => row.role = "assistant"
Labelled(s) == \A i \in DOMAIN s : LabelledRow(s[i])
Grouped(s) ==
  \A i \in DOMAIN s : s[i].role = "tool" =>
    \E k \in 1..i - 1 : /\ s[k].role = "assistant" /\ s[i].answers \in s[k].calls
                        /\ \A j \in k + 1..i : s[j].role = "tool"
Ordered(s) == Rising(s) /\ Labelled(s) /\ Grouped(s)
Single(s) ==
  \A i, k \in DOMAIN s :
    s[i].role = "tool" /\ s[k].role = "tool" /\ s[i].answers = s[k].answers => i = k

(* The inductive invariant.  Of the cuts: what a turn has not saved is     *)
(* newer than all that was (_save_turn).  Of the request: what the turn    *)
(* was given is older than its prompt, and its own rows are as they were   *)
(* written (get_history).                                                  *)
CutIInv ==
  /\ WindowTypeOK /\ CutIsArchived
  /\ Ordered(messages) /\ Ordered(turnRows)
  /\ stage = "running" => /\ Numbers(messages) \cup archived \subseteq 1..turnRows[1].n
                          /\ turnRows[1].role = "user"
AskIInv ==
  stage = "running" =>
    /\ history \in Seq(WindowRow) /\ Ordered(history)
    /\ Numbers(history) \subseteq 1..turnRows[1].n - 1
    /\ \A i \in DOMAIN turnRows : turnRows[i].kind = "plain" /\ turnRows[i].nameless = {}
    /\ Single(turnRows)
WindowIInv == CutIInv /\ AskIInv

(* The request a provider gets is valid whatever was cut, and however      *)
(* small the budget: every result answers a call of the assistant row it   *)
(* follows, and every call has one result; what the user said last is in   *)
(* it, with all that followed.                                             *)
Paired(s) ==
  /\ \A i \in DOMAIN s : s[i].role = "tool" =>
       \E k \in 1..i - 1 : /\ s[i].answers \in s[k].calls
                           /\ \A j \in k + 1..i : s[j].role = "tool"
  /\ \A i \in DOMAIN s : \A id \in s[i].calls :
       Cardinality({k \in DOMAIN s : s[k].answers = id}) = 1
HasPrompt(s) == Numbers(From(turnRows, Max(Users(turnRows)))) \subseteq Numbers(s)
RequestValid ==
  stage = "running" => \A s \in Prepared(history \o turnRows) : Paired(s) /\ HasPrompt(s)

(* "Archive messages that would be hidden by the replay message window"    *)
(* (Consolidator._consolidate_replay_overflow): the boundary of what is    *)
(* archived and the start of what is replayed are computed by different    *)
(* code.  When a turn opens on more rows than the window has, all that is  *)
(* not archived is in the window.  For the turns of users this needs a     *)
(* user row within the window: without one the boundary reaches back, and  *)
(* their window does not.                                                  *)
WindowHidesArchived ==
  [][stage = "none" /\ stage' = "compacting" /\ Len(Shown(messages)) > ReplayMax =>
       LET tail == Shown(messages)' IN
       \A extend \in BOOLEAN :
         extend \/ Users(tail) = {} \/ Users(From(tail, RecentStart(tail, ReplayMax, FALSE))) # {}
         => Numbers(tail) \subseteq Numbers(ReplayWindow(tail, extend))]_windowVars
=============================================================================
