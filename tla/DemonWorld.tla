----------------------------- MODULE DemonWorld -----------------------------
(***************************************************************************)
(* The matrix Agent A lives in (cartesian/agent_a.py, cartesian/demon.py,  *)
(* cartesian/tool_proxies.py, nanobot/agent/runner.py).                    *)
(*                                                                         *)
(* A visitor posts a message to a session.  Its turn runs Agent A under    *)
(* the session lock; every world-touching tool call of A is forwarded to   *)
(* Agent B, the Demon, with everything B has said in this session so far,  *)
(* and B's answer joins that history.  The history is a JSON file: read    *)
(* before the request, written whole, in place, after the answer.  The     *)
(* calls of one reply of A run in batches; the calls of a batch run        *)
(* concurrently.                                                           *)
(*                                                                         *)
(* A call is a number.  What is asked and answered is left out: a row of   *)
(* the history names the call it belongs to.  demon_logs.jsonl, which      *)
(* nothing but the dashboard reads, is left out too.                       *)
(***************************************************************************)
EXTENDS Naturals, FiniteSets, SequencesExt

CONSTANTS
  Sessions,    \* sess-* directories
  Posts,       \* messages posted by visitors
  SessionOf,   \* the session of each
  Laws,        \* system prompts of the Demon
  Kinds,       \* "read": concurrency_safe tools, "write": the others
  MaxReply,    \* bound of the model: tool calls per reply of A
  MaxCalls,    \* bound of the model: tool calls per run
  TornWrites,  \* TRUE: writing the history may stop half way
  None         \* no session

ASSUME WorldAssumption ==
  /\ SessionOf \in [Posts -> Sessions]
  /\ Laws # {} /\ Kinds \subseteq {"read", "write"}
  /\ MaxReply \in Nat /\ MaxCalls \in Nat
  /\ TornWrites \in BOOLEAN
  /\ None \notin Sessions

VARIABLES
  history,  \* demon_history.json of each session
  line,     \* FIFO of each session lock; the first post holds it
  phase,    \* what became of each post
  todo,     \* calls of A's latest reply that were not started
  flying,   \* requests to B in flight: the call, and the history sent
  calls,    \* calls so far
  safe,     \* history: the concurrency_safe ones
  solo,     \* history: the calls that ran alone
  owner     \* history: the session whose A made each call

vars == <<history, line, phase, todo, flying, calls, safe, solo, owner>>

Calls == 1..MaxCalls
System(l) == [kind |-> "system", of |-> l]
User(n) == [kind |-> "user", of |-> n]
Assistant(n) == [kind |-> "assistant", of |-> n]
Rows == {System(l) : l \in Laws} \cup {User(n) : n \in Calls} \cup {Assistant(n) : n \in Calls}

Torn == <<[kind |-> "torn", of |-> 0]>>   \* a file that is no JSON

TypeOK ==
  /\ history \in [Sessions -> {Torn} \cup Seq(Rows)]
  /\ line \in [Sessions -> Seq(Posts)]
  /\ phase \in [Posts -> {"unsent", "turn", "replying", "done", "lost"}]
  /\ todo \in [Posts -> Seq(Calls)]
  /\ flying \in [Posts -> SUBSET [call : Calls, sent : Seq(Rows)]]
  /\ calls \in 0..MaxCalls
  /\ safe \subseteq Calls /\ solo \subseteq Calls
  /\ owner \in [Calls -> Sessions \cup {None}]

Init ==
  /\ history = [s \in Sessions |-> <<>>]
  /\ line = [s \in Sessions |-> <<>>]
  /\ phase = [p \in Posts |-> "unsent"]
  /\ todo = [p \in Posts |-> <<>>]
  /\ flying = [p \in Posts |-> {}]
  /\ calls = 0 /\ safe = {} /\ solo = {}
  /\ owner = [n \in Calls |-> None]
-----------------------------------------------------------------------------
(* run_agent_a_turn: without credentials the error is the reply; otherwise *)
(* process_direct queues for the session lock.                             *)
Post(p) ==
  /\ phase[p] = "unsent"
  /\ \/ /\ phase' = [phase EXCEPT ![p] = "done"]
        /\ UNCHANGED line
     \/ /\ phase' = [phase EXCEPT ![p] = "turn"]
        /\ line' = [line EXCEPT ![SessionOf[p]] = Append(@, p)]
  /\ UNCHANGED <<history, todo, flying, calls, safe, solo, owner>>

\* Mutant of HasLock: turns of a session do not wait for each other.
HasLockMutant(p) == TRUE
HasLock(p) == Head(line[SessionOf[p]]) = p

Thinking(p) ==
  /\ phase[p] = "turn" /\ HasLock(p)
  /\ todo[p] = <<>> /\ flying[p] = {}

(* A replies with tool calls.                                              *)
AgentCalls(p) ==
  /\ Thinking(p)
  /\ \E size \in 1..MaxReply : \E kind \in [1..size -> Kinds] :
       /\ calls + size <= MaxCalls
       /\ calls' = calls + size
       /\ todo' = [todo EXCEPT ![p] = [i \in 1..size |-> calls + i]]
       /\ safe' = safe \cup {calls + i : i \in {i \in 1..size : kind[i] = "read"}}
       /\ owner' = [n \in Calls |-> IF n \in calls + 1..calls + size
                                    THEN SessionOf[p] ELSE owner[n]]
  /\ UNCHANGED <<history, line, phase, flying, solo>>

(* _partition_tool_batches: a run of concurrency_safe calls, or one call.  *)
\* Mutant of Batchable: every proxied tool may run alongside others.
BatchableMutant(n) == TRUE
Batchable(n) == n \in safe

IsBatch(q, k) ==
  IF Batchable(q[1])
  THEN /\ \A i \in 1..k : Batchable(q[i])
       /\ k < Len(q) => ~ Batchable(q[k + 1])
  ELSE k = 1

(* get_session_id: a context variable, which the tasks of a batch inherit. *)
\* Mutant of Session: one variable for the whole process.
SessionMutant(p) == SessionOf[CHOOSE q \in Posts : phase[q] = "turn"]
Session(p) == SessionOf[p]

(* _load_history: a file that is no JSON is an empty history.              *)
\* Mutant of Remembered: what can be read of a torn file is used.
RememberedMutant(s) == history[s]
Remembered(s) == IF history[s] = Torn THEN <<>> ELSE history[s]

(* The first half of query_demon: the law opens an empty history.          *)
\* Mutant of Opened: the law is left out.
OpenedMutant(s, l) == Remembered(s)
Opened(s, l) == IF Remembered(s) = <<>> THEN <<System(l)>> ELSE Remembered(s)

(* asyncio.gather: no call suspends before its request is sent.  The law   *)
(* is what the dashboard made of it by now (get_demon_prompt).             *)
BatchStarts(p) ==
  LET q == todo[p] IN
  /\ flying[p] = {}
  /\ \E k \in DOMAIN q, l \in Laws :
       LET started == {q[i] : i \in 1..k} IN
       /\ IsBatch(q, k)
       /\ todo' = [todo EXCEPT ![p] = SubSeq(q, k + 1, Len(q))]
       /\ flying' = [flying EXCEPT ![p] =
            {[call |-> n, sent |-> Append(Opened(Session(p), l), User(n))] : n \in started}]
       /\ solo' = IF k = 1 THEN solo \cup started ELSE solo
  /\ UNCHANGED <<history, line, phase, calls, safe, owner>>

Returns(p, x) ==
  /\ flying' = [flying EXCEPT ![p] = @ \ {x}]
  /\ UNCHANGED <<line, phase, todo, calls, safe, solo, owner>>

(* The second half: B's answer joins the history that was sent, and that   *)
(* becomes the file.                                                       *)
\* Mutant of Answered: the call is kept without its answer.
AnsweredMutant(x) == x.sent
Answered(x) == Append(x.sent, Assistant(x.call))

DemonReplies(p, x) ==
  /\ history' = [history EXCEPT ![Session(p)] = Answered(x)]
  /\ Returns(p, x)

(* Timeout, HTTP error, a reply without choices: nothing is saved.         *)
DemonFails(p, x) ==
  /\ UNCHANGED history
  /\ Returns(p, x)

(* The file is truncated, and the write fails.                             *)
SaveFails(p, x) ==
  /\ TornWrites
  /\ history' = [history EXCEPT ![Session(p)] = Torn]
  /\ Returns(p, x)

(* A answers, or its turn raises: the lock is free for the next post ...   *)
\* Mutant of Released: the lock stays taken.
ReleasedMutant(p) == line[SessionOf[p]]
Released(p) == Tail(line[SessionOf[p]])

AgentAnswers(p) ==
  /\ Thinking(p)
  /\ phase' = [phase EXCEPT ![p] = "replying"]
  /\ line' = [line EXCEPT ![SessionOf[p]] = Released(p)]
  /\ UNCHANGED <<history, todo, flying, calls, safe, solo, owner>>

(* ... and the reply is a row of the session's chat.                       *)
ReplyShown(p) ==
  /\ phase[p] = "replying"
  /\ phase' = [phase EXCEPT ![p] = "done"]
  /\ UNCHANGED <<history, line, todo, flying, calls, safe, solo, owner>>

(* The process dies, perhaps while it writes a history.                    *)
Crash ==
  /\ \/ UNCHANGED history
     \/ /\ TornWrites
        /\ \E p \in Posts : /\ flying[p] # {}
                            /\ history' = [history EXCEPT ![Session(p)] = Torn]
  /\ phase' = [p \in Posts |-> IF phase[p] \in {"turn", "replying"} THEN "lost" ELSE phase[p]]
  /\ line' = [s \in Sessions |-> <<>>]
  /\ todo' = [p \in Posts |-> <<>>]
  /\ flying' = [p \in Posts |-> {}]
  /\ UNCHANGED <<calls, safe, solo, owner>>
-----------------------------------------------------------------------------
AgentStep(p) == AgentCalls(p) \/ BatchStarts(p) \/ AgentAnswers(p) \/ ReplyShown(p)

DemonStep(p) ==
  \E x \in flying[p] : DemonReplies(p, x) \/ DemonFails(p, x) \/ SaveFails(p, x)

Next ==
  \/ \E p \in Posts : Post(p) \/ AgentStep(p) \/ DemonStep(p)
  \/ Crash

Spec == Init /\ [][Next]_vars

(* The event loop runs what can run; a request to B times out after three  *)
(* minutes, and A's provider answers or fails.                             *)
Fairness == \A p \in Posts : WF_vars(AgentStep(p)) /\ WF_vars(DemonStep(p))

FairSpec == Spec /\ Fairness
-----------------------------------------------------------------------------
(* A session has a world of its own: B's history of it, on file and in     *)
(* flight, holds calls made in it and no others.                           *)
WorldsIsolated ==
  /\ \A s \in Sessions : history[s] # Torn => \A row \in ToSet(history[s]) :
       row.kind # "system" => owner[row.of] = s
  /\ \A p \in Posts : \A x \in flying[p] : \A row \in ToSet(x.sent) :
       row.kind # "system" => owner[row.of] = SessionOf[p]

(* What B is sent, and what is kept of it, is a conversation under one     *)
(* law: the law first, then calls and answers in pairs.                    *)
Paired(h) ==
  \A i \in DOMAIN h :
    /\ h[i].kind = (IF i = 1 THEN "system" ELSE IF i % 2 = 0 THEN "user" ELSE "assistant")
    /\ h[i].kind = "assistant" => h[i].of = h[i - 1].of
Conversations ==
  /\ \A s \in Sessions : history[s] \notin {Torn, <<>>} =>
       Paired(history[s]) /\ Len(history[s]) % 2 = 1
  /\ \A p \in Posts : \A x \in flying[p] :
       Paired(x.sent) /\ Len(x.sent) % 2 = 0 /\ Last(x.sent) = User(x.call)

(* What A does is remembered: the law, the calls that are not safe to run  *)
(* concurrently, and the others that ran alone stay in B's history, in     *)
(* their places, through concurrent reads, turns that queue up, failures   *)
(* and crashes; only a torn file loses them.                               *)
Forgettable(row) == row.kind # "system" /\ row.of \in safe \ solo
Remembers(h, h2, k) ==
  /\ k \in 0..Len(h) /\ k <= Len(h2)
  /\ \A i \in 1..k : h2[i] = h[i]
  /\ \A i \in k + 1..Len(h) : Forgettable(h[i])
DeedsRemembered ==
  [][\A s \in Sessions : history[s] # Torn /\ history'[s] # Torn =>
       \E k \in 0..Len(history[s]) : Remembers(history[s], history'[s], k)]_vars

(* The inductive invariant behind the three.  A session lock has one       *)
(* holder, and only the holder's calls are under way, in the order in      *)
(* which A made them, numbered after all that B was ever asked.  Requests  *)
(* in flight together share the history they were sent with, which is that *)
(* of the file but for calls nobody promised to remember; and only reads   *)
(* are in flight together.                                                 *)
Turns ==
  /\ \A s \in Sessions : \A i, j \in DOMAIN line[s] :
       /\ SessionOf[line[s][i]] = s /\ phase[line[s][i]] = "turn"
       /\ line[s][i] = line[s][j] => i = j
  /\ \A p \in Posts :
       /\ phase[p] = "turn" => p \in ToSet(line[SessionOf[p]])
       /\ todo[p] # <<>> \/ flying[p] # {} =>
            phase[p] = "turn" /\ Head(line[SessionOf[p]]) = p

AskedBefore(h, n) == \A row \in ToSet(h) : row.kind # "system" => row.of < n
Numbered ==
  /\ safe \cup solo \subseteq 1..calls
  /\ \A n \in Calls : owner[n] = None <=> n > calls
  /\ \A p \in Posts : \A i \in DOMAIN todo[p] :
       /\ owner[todo[p][i]] = SessionOf[p] /\ todo[p][i] \notin solo
       /\ \A j \in 1..i - 1 : todo[p][j] < todo[p][i]
       /\ AskedBefore(history[SessionOf[p]], todo[p][i])
       /\ \A x \in flying[p] : AskedBefore(x.sent, todo[p][i])

SentWith(h, x) ==
  h = <<>> \/ /\ Len(h) >= Len(x.sent) - 1
              /\ \A i \in 1..Len(x.sent) - 1 : h[i] = x.sent[i]
              /\ \A i \in Len(x.sent)..Len(h) : Forgettable(h[i])
InFlight ==
  \A p \in Posts : \A x \in flying[p] :
    /\ x.sent # <<>>
    /\ history[SessionOf[p]] # Torn => SentWith(history[SessionOf[p]], x)
    /\ \A y \in flying[p] \ {x} :
         /\ x.call \in safe \ solo /\ Len(y.sent) = Len(x.sent)
         /\ \A i \in 1..Len(x.sent) - 1 : y.sent[i] = x.sent[i]

(* The inductive invariant of the Demon's worlds: what each call in flight *)
(* loaded, and what the files hold (execute_via_demon, demon.py).          *)
WorldIInv == TypeOK /\ Turns /\ Numbered /\ WorldsIsolated /\ Conversations /\ InFlight

(* Every posted message is replied to, however long the line of its        *)
(* session and whatever B does, unless the process dies.                   *)
EveryPostReplied == \A p \in Posts : phase[p] = "turn" ~> phase[p] \in {"done", "lost"}

(* "Your prior tool results in this conversation ARE the ground truth of   *)
(* the matrix" (cartesian/paths.py): B never forgets an answer it gave.    *)
MatrixRemembers ==
  [][\A s \in Sessions : IsPrefix(history[s], history'[s])]_vars
=============================================================================
