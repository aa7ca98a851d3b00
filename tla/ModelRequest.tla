----------------------------- MODULE ModelRequest -----------------------------
(***************************************************************************)
(* One request to the model, from the runner to the answer: the wall clock *)
(* of the runner (nanobot/agent/runner.py), the retry loop                 *)
(* (nanobot/providers/base.py), the fallback chain and its circuit breaker *)
(* (nanobot/providers/fallback_provider.py).                               *)
(*                                                                         *)
(* The text of an answer is streamed to the user while it comes, so what a *)
(* failed call has shown cannot be taken back: the loops stop, close the   *)
(* segment of the stream, or go on in silence.  Two loops, each with its   *)
(* own flag for "something was shown", decide that.  Requests of several   *)
(* sessions share the breaker.                                             *)
(*                                                                         *)
(* An error is a timeout, transient, one other models may not have         *)
(* ("account": key or quota), or fatal; how they are told apart is left    *)
(* out, and of the text only which call it came from.                       *)
(***************************************************************************)
EXTENDS Naturals, FiniteSets, FiniteSetsExt

CONSTANTS
  Requests,
  ModeOf,     \* "segments": streamed, "progress": streamed as progress, "plain"
  Fallbacks,  \* number of fallback presets
  Retries,    \* number of _CHAT_RETRY_DELAYS
  Threshold,  \* _PRIMARY_FAILURE_THRESHOLD
  Cooldown,   \* _PRIMARY_COOLDOWN_S
  Images      \* requests with images

ASSUME RequestAssumption ==
  /\ ModeOf \in [Requests -> {"segments", "progress", "plain"}] /\ Images \subseteq Requests
  /\ Fallbacks \in Nat \ {0} /\ Retries \in Nat
  /\ Threshold \in Nat \ {0} /\ Cooldown \in Nat

VARIABLES
  request,   \* where each request is
  segment,   \* whose text its open segment has: of the call "now", of one "before"
  failures,  \* _primary_failures
  breaker    \* cooldown left since _primary_tripped_at; Closed if not tripped

requestVars == <<request, segment, failures, breaker>>

Closed == Cooldown + 1
Errors == {"timeout", "transient", "account", "fatal"}
NotSent == [at |-> "idle", idx |-> 0, attempt |-> 0, last |-> FALSE,
            tried |-> FALSE, shown |-> FALSE, muted |-> FALSE, silent |-> FALSE]

(* at: which model is called (0 is the primary), or waiting, or the end.   *)
(* tried: has_streamed of the fallback chain; muted: it goes on in         *)
(* silence.  shown: has_streamed_content of the retry loop; silent: the    *)
(* same there.  last: the retry without images.                            *)
Progress == [at : {"idle", "calling", "waiting", "answered", "failed"},
             idx : 0..Fallbacks, attempt : 0..Retries + 1, last : BOOLEAN,
             tried : BOOLEAN, shown : BOOLEAN, muted : BOOLEAN, silent : BOOLEAN]

RequestTypeOK ==
  /\ request \in [Requests -> Progress]
  /\ segment \in [Requests -> SUBSET {"now", "before"}]
  /\ failures \in Nat /\ breaker \in 0..Closed
  /\ breaker # Closed => failures >= Threshold

RequestInit ==
  /\ request = [r \in Requests |-> NotSent]
  /\ segment = [r \in Requests |-> {}]
  /\ failures = 0 /\ breaker = Closed

PrimaryAvailable == breaker \in {0, Closed}

(* The fallback chain is entered: _try_with_fallback, up to its first call.*)
Enter(q, idx) == [q EXCEPT !.at = "calling", !.idx = idx]
Try(q) == Enter([q EXCEPT !.tried = FALSE, !.muted = FALSE], IF PrimaryAvailable THEN 0 ELSE 1)

Becomes(r, q) == request' = [request EXCEPT ![r] = q]
CloseSegment(r) == segment' = [segment EXCEPT ![r] = {}]
KeepSegment(r) == segment' = [segment EXCEPT ![r] = IF @ = {} THEN {} ELSE {"before"}]
Recovers(r) == ModeOf[r] = "segments"
-----------------------------------------------------------------------------
Send(r) ==
  /\ request[r].at = "idle"
  /\ Becomes(r, Try([NotSent EXCEPT !.attempt = 1]))
  /\ UNCHANGED <<segment, failures, breaker>>

(* Text arrives: _tracking_delta of the chain, then that of the retry loop.*)
Delta(r) ==
  LET q == request[r] IN
  /\ q.at = "calling" /\ ModeOf[r] # "plain" /\ ~q.muted
  /\ Becomes(r, [q EXCEPT !.tried = TRUE, !.shown = @ \/ ~q.silent])
  /\ segment' = IF q.silent THEN segment ELSE [segment EXCEPT ![r] = @ \cup {"now"}]
  /\ UNCHANGED <<failures, breaker>>

Answer(r) ==
  LET q == request[r] IN
  /\ q.at = "calling"
  /\ Becomes(r, [q EXCEPT !.at = "answered"])
  /\ IF q.idx = 0 THEN failures' = 0 /\ breaker' = Closed ELSE UNCHANGED <<failures, breaker>>
  /\ UNCHANGED segment

(* What _run_with_retry does with an error the chain returned, in q.       *)
Transient(error) == error \in {"timeout", "transient"}
GiveUp(r, q) == Becomes(r, [q EXCEPT !.at = "failed"]) /\ KeepSegment(r)
RetryLater(r, q, error) ==
  IF q.last THEN Becomes(r, [q EXCEPT !.at = "failed"])
  ELSE IF ~Transient(error)
  THEN Becomes(r, IF r \in Images THEN Try([q EXCEPT !.last = TRUE]) ELSE [q EXCEPT !.at = "failed"])
  ELSE Becomes(r, [q EXCEPT !.at = IF q.attempt > Retries THEN "failed" ELSE "waiting"])
Shown(q) == q.shown /\ ~q.silent /\ ~q.last
Returned(r, q, error) ==
  \/ ~Shown(q) /\ RetryLater(r, q, error) /\ KeepSegment(r)
  \/ Shown(q) /\ error # "timeout" /\ GiveUp(r, q)
  \/ /\ Shown(q) /\ error = "timeout" /\ Recovers(r)
     /\ RetryLater(r, [q EXCEPT !.shown = FALSE], error) /\ CloseSegment(r)
  \/ /\ Shown(q) /\ error = "timeout" /\ ~Recovers(r)
     /\ RetryLater(r, [q EXCEPT !.silent = TRUE], error) /\ KeepSegment(r)

(* The call of the primary fails.                                          *)
Counted ==
  /\ failures' = Min({failures + 1, Threshold})
  /\ breaker' = IF failures + 1 >= Threshold THEN Cooldown ELSE breaker
PrimaryFails(r, error) ==
  LET q == request[r]
      recovered == [q EXCEPT !.tried = FALSE, !.shown = FALSE]
      silenced == [q EXCEPT !.tried = FALSE, !.muted = TRUE] IN
  /\ q.at = "calling" /\ q.idx = 0
  /\ \/ /\ q.tried /\ error # "timeout"
        /\ Returned(r, q, error) /\ UNCHANGED <<failures, breaker>>
     \/ /\ q.tried /\ error = "timeout" /\ Counted
        /\ IF Recovers(r) THEN Becomes(r, Enter(recovered, 1)) /\ CloseSegment(r)
           ELSE Becomes(r, Enter(silenced, 1)) /\ KeepSegment(r)
     \/ /\ ~q.tried /\ error # "fatal" /\ Counted
        /\ Becomes(r, Enter(q, 1)) /\ KeepSegment(r)
     \/ /\ ~q.tried /\ error = "fatal"
        /\ Returned(r, q, error) /\ UNCHANGED <<failures, breaker>>

(* The call of a fallback fails.                                           *)
\* The next fallback is called although text was shown.
FallbackFailsMutant(r, error) ==
  LET q == request[r] IN
  /\ q.at = "calling" /\ q.idx > 0
  /\ IF q.idx = Fallbacks THEN Returned(r, q, error)
     ELSE Becomes(r, Enter(q, q.idx + 1)) /\ KeepSegment(r)
  /\ UNCHANGED <<failures, breaker>>
FallbackFails(r, error) ==
  LET q == request[r] IN
  /\ q.at = "calling" /\ q.idx > 0
  /\ \/ /\ q.idx = Fallbacks \/ (q.tried /\ (error # "timeout" \/ ~Recovers(r)))
        /\ Returned(r, q, error)
     \/ /\ q.idx < Fallbacks /\ ~q.tried
        /\ Becomes(r, Enter(q, q.idx + 1)) /\ KeepSegment(r)
     \/ /\ q.idx < Fallbacks /\ q.tried /\ error = "timeout" /\ Recovers(r)
        /\ Becomes(r, Enter([q EXCEPT !.tried = FALSE, !.shown = FALSE], q.idx + 1))
        /\ CloseSegment(r)
  /\ UNCHANGED <<failures, breaker>>

(* The sleep before a retry ends.                                          *)
\* The attempts are not counted.
RetryNowMutant(r) ==
  /\ request[r].at = "waiting"
  /\ Becomes(r, Try(request[r]))
  /\ UNCHANGED <<segment, failures, breaker>>
RetryNow(r) ==
  LET q == request[r] IN
  /\ q.at = "waiting"
  /\ Becomes(r, Try([q EXCEPT !.attempt = @ + 1]))
  /\ UNCHANGED <<segment, failures, breaker>>

(* The wall clock of _request_model cancels whatever is in progress.       *)
WallClock(r) ==
  /\ request[r].at \in {"calling", "waiting"}
  /\ Becomes(r, [request[r] EXCEPT !.at = "failed"])
  /\ UNCHANGED <<segment, failures, breaker>>

(* The cooldown passes.                                                    *)
CoolDown ==
  /\ breaker \notin {0, Closed}
  /\ breaker' = breaker - 1
  /\ UNCHANGED <<request, segment, failures>>

(* The next request of the session: its stream starts with a new segment.  *)
NextRequest(r) ==
  /\ request[r].at \in {"answered", "failed"}
  /\ Becomes(r, NotSent) /\ CloseSegment(r)
  /\ UNCHANGED <<failures, breaker>>

Progresses(r) ==
  \/ RetryNow(r) \/ Answer(r)
  \/ \E error \in Errors : PrimaryFails(r, error) \/ FallbackFails(r, error)

RequestNext ==
  \/ CoolDown
  \/ \E r \in Requests : Send(r) \/ Delta(r) \/ Progresses(r) \/ WallClock(r) \/ NextRequest(r)

RequestSpec == RequestInit /\ [][RequestNext]_requestVars

(* A call returns in the end, at the latest by the timeouts of its client. *)
RequestFairness == \A r \in Requests : WF_requestVars(Progresses(r))
-----------------------------------------------------------------------------
(* "Skipped when content was already streamed to avoid duplicate output"   *)
(* (FallbackProvider): whatever fails, and in whichever loop, the segment  *)
(* the user reads has text of one call only; and if it shows text when the *)
(* answer is there, it is text of that answer: a streamed answer is not    *)
(* sent again.                                                             *)
OneVoice ==
  \A r \in Requests :
    /\ Cardinality(segment[r]) <= 1
    /\ request[r].at = "answered" /\ ModeOf[r] = "segments" => "before" \notin segment[r]

(* The inductive invariant behind OneVoice: as long as a request goes on,  *)
(* what its open segment shows is known to the flag of the retry loop; the *)
(* text of the present call also to the flag of the chain; and over the    *)
(* text of an earlier call nothing is written, since a loop has gone       *)
(* silent.  Where segments can be closed no loop ever goes silent.         *)
GoesOn(q) == q.at \in {"calling", "waiting"}
FlagsKnow(r, q, shows) ==
  /\ shows # {} => q.shown \/ q.silent
  /\ "now" \in shows => q.at = "calling" /\ q.tried
  /\ "before" \in shows => q.silent \/ (q.muted /\ q.at = "calling")
  /\ Recovers(r) => ~q.silent /\ ~q.muted
Consistent(r, q, shows) ==
  /\ q.at = "idle" => shows = {}
  /\ q.at = "waiting" => q.attempt <= Retries
  /\ GoesOn(q) => FlagsKnow(r, q, shows)
  /\ "now" \notin shows \/ "before" \notin shows
  /\ q.at = "answered" /\ Recovers(r) => "before" \notin shows
(* The inductive invariant of the requests: counters, flags, the breaker   *)
(* and what the screen shows agree (base.py, fallback_provider.py).        *)
RequestIInv ==
  RequestTypeOK /\ \A r \in Requests : Consistent(r, request[r], segment[r])

(* Retries, fallbacks and the retry without images are nested, and some    *)
(* start over what has been shown: a request still ends.                   *)
RequestEnds ==
  \A r \in Requests : request[r].at = "calling" ~> request[r].at \in {"answered", "failed"}
=============================================================================
