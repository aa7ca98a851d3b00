------------------------- MODULE ModelCallsProofs -------------------------
(***************************************************************************)
(* Machine-checked proofs about what is asked of models.  The requests of  *)
(* turns, for every set of requests, every number of fallbacks and retries *)
(* and every setting of the breaker: RequestIInv is inductive and gives    *)
(* OneVoicePerSegment.  The calls that the Demon answers, for every set of *)
(* sessions, posts and laws and every bound of replies and calls, with and *)
(* without torn files: worlds do not mix, what the Demon is sent is a      *)
(* conversation, and no deed is forgotten.                                 *)
(***************************************************************************)
EXTENDS ModelRequest, DemonWorld, QueueLemmas, FiniteSetTheorems

(***************************************************************************)
(* The requests of turns (ModelRequest).                                   *)
(***************************************************************************)
Shows == SUBSET {"now", "before"}

(* A step of one request leaves the others alone.                          *)
LEMMA OneRequest ==
  ASSUME RequestIInv, NEW r \in Requests, NEW q \in Progress, NEW shows \in Shows,
         request' = [request EXCEPT ![r] = q], segment' = [segment EXCEPT ![r] = shows],
         Consistent(r, q, shows),
         failures' \in Nat, breaker' \in 0..Closed, breaker' # Closed => failures' >= Threshold
  PROVE  RequestIInv'
<1>1. request' \in [Requests -> Progress] /\ segment' \in [Requests -> Shows]
  BY DEF RequestIInv, RequestTypeOK, Shows
<1>2. RequestTypeOK'
  BY <1>1 DEF RequestTypeOK, Shows
<1>3. ASSUME NEW x \in Requests
      PROVE  Consistent(x, request'[x], segment'[x])
  <2>1. CASE x = r
    <3>1. request'[x] = q /\ segment'[x] = shows
      BY <2>1 DEF RequestIInv, RequestTypeOK
    <3> QED BY <2>1, <3>1
  <2>2. CASE x # r
    <3>1. request'[x] = request[x] /\ segment'[x] = segment[x]
      BY <2>2 DEF RequestIInv, RequestTypeOK
    <3> QED BY <3>1 DEF RequestIInv
  <2> QED BY <2>1, <2>2
<1> QED BY <1>2, <1>3 DEF RequestIInv, Consistent, FlagsKnow, GoesOn, Recovers

(* What the invariant says of one request.                                 *)
LEMMA ProgressFacts ==
  ASSUME RequestIInv, NEW r \in Requests
  PROVE  /\ request[r] \in Progress /\ segment[r] \in Shows
         /\ Consistent(r, request[r], segment[r])
         /\ failures \in Nat /\ breaker \in 0..Closed
         /\ breaker # Closed => failures >= Threshold
BY DEF RequestIInv, RequestTypeOK, Shows

LEMMA Limits ==
  /\ Fallbacks \in Nat /\ Fallbacks >= 1 /\ Retries \in Nat
  /\ Threshold \in Nat /\ Threshold >= 1 /\ Cooldown \in Nat
  /\ Closed = Cooldown + 1 /\ ModeOf \in [Requests -> {"segments", "progress", "plain"}]
BY RequestAssumption DEF Closed

(* Calling the next model, and entering the chain.                         *)
LEMMA EnterFacts ==
  ASSUME NEW q \in Progress, NEW i \in 0..Fallbacks
  PROVE  /\ Enter(q, i) \in Progress /\ Enter(q, i).at = "calling"
         /\ Enter(q, i).shown = q.shown /\ Enter(q, i).silent = q.silent
         /\ Enter(q, i).tried = q.tried /\ Enter(q, i).muted = q.muted
BY DEF Progress, Enter

LEMMA TryFacts ==
  ASSUME NEW q \in Progress
  PROVE  /\ Try(q) \in Progress /\ Try(q).at = "calling"
         /\ Try(q).shown = q.shown /\ Try(q).silent = q.silent
         /\ ~ Try(q).tried /\ ~ Try(q).muted
<1> DEFINE p == [q EXCEPT !.tried = FALSE, !.muted = FALSE]
           i == IF PrimaryAvailable THEN 0 ELSE 1
<1>1. p \in Progress /\ p.shown = q.shown /\ p.silent = q.silent /\ ~ p.tried /\ ~ p.muted
  BY DEF Progress
<1>2. i \in 0..Fallbacks
  BY Limits
<1>3. Try(q) = Enter(p, i)
  BY DEF Try
<1> HIDE DEF p, i
<1> QED BY <1>1, <1>2, <1>3, EnterFacts

LEMMA InitInv == RequestInit => RequestIInv
BY Limits DEF RequestInit, RequestIInv, RequestTypeOK, Progress, NotSent, Consistent, GoesOn

LEMMA SendInv ==
  ASSUME RequestIInv, NEW r \in Requests, Send(r)
  PROVE  RequestIInv'
<1> DEFINE q == Try([NotSent EXCEPT !.attempt = 1])
<1>1. q \in Progress /\ q.at = "calling" /\ ~ q.silent /\ ~ q.muted
  <2>0. NotSent \in Progress /\ ~ NotSent.silent /\ 1 \in 0..Retries + 1
    BY Limits DEF Progress, NotSent
  <2>1. /\ [NotSent EXCEPT !.attempt = 1] \in Progress
        /\ ~ [NotSent EXCEPT !.attempt = 1].silent
    BY <2>0 DEF Progress
  <2> QED BY <2>1, TryFacts
<1>2. segment[r] = {} /\ request' = [request EXCEPT ![r] = q] /\ UNCHANGED <<segment, failures, breaker>>
  BY ProgressFacts DEF Send, Becomes, Consistent
<1> HIDE DEF q
<1>3. segment' = [segment EXCEPT ![r] = {}]
  BY <1>2 DEF RequestIInv, RequestTypeOK
<1>4. Consistent(r, q, {})
  BY <1>1 DEF Consistent, FlagsKnow
<1> QED BY <1>1, <1>2, <1>3, <1>4, ProgressFacts, OneRequest DEF Shows

LEMMA DeltaInv ==
  ASSUME RequestIInv, NEW r \in Requests, Delta(r)
  PROVE  RequestIInv'
<1> DEFINE q == request[r]
           p == [q EXCEPT !.tried = TRUE, !.shown = @ \/ ~ q.silent]
           shows == IF q.silent THEN segment[r] ELSE segment[r] \cup {"now"}
<1>1. /\ q \in Progress /\ segment[r] \in Shows /\ Consistent(r, q, segment[r])
      /\ q.at = "calling" /\ ~ q.muted
  BY ProgressFacts DEF Delta
<1>2. /\ p \in Progress /\ p.at = "calling" /\ p.tried /\ p.muted = q.muted
      /\ p.silent = q.silent /\ p.shown = (q.shown \/ ~ q.silent)
  BY <1>1 DEF Progress
<1>3. /\ request' = [request EXCEPT ![r] = p] /\ UNCHANGED <<failures, breaker>>
      /\ segment' = IF q.silent THEN segment ELSE [segment EXCEPT ![r] = @ \cup {"now"}]
  BY DEF Delta, Becomes
<1>4. segment' = [segment EXCEPT ![r] = shows] /\ shows \in Shows
  BY <1>1, <1>3 DEF RequestIInv, RequestTypeOK, Shows
<1>5. Consistent(r, p, shows)
  <2> HIDE DEF p
  <2> QED BY <1>1, <1>2 DEF Consistent, FlagsKnow, GoesOn, Shows
<1> HIDE DEF p, shows
<1> QED BY <1>2, <1>3, <1>4, <1>5, ProgressFacts, OneRequest

LEMMA AnswerInv ==
  ASSUME RequestIInv, NEW r \in Requests, Answer(r)
  PROVE  RequestIInv'
<1> DEFINE q == request[r]
           p == [q EXCEPT !.at = "answered"]
<1>1. q \in Progress /\ segment[r] \in Shows /\ Consistent(r, q, segment[r]) /\ q.at = "calling"
  BY ProgressFacts DEF Answer
<1>2. p \in Progress /\ p.at = "answered"
  BY <1>1 DEF Progress
<1>3. request' = [request EXCEPT ![r] = p] /\ segment' = [segment EXCEPT ![r] = segment[r]]
  BY DEF Answer, Becomes, RequestIInv, RequestTypeOK
<1>4. Consistent(r, p, segment[r])
  <2> HIDE DEF p
  <2> QED BY <1>1, <1>2 DEF Consistent, FlagsKnow, GoesOn
<1>5. failures' \in Nat /\ breaker' \in 0..Closed /\ (breaker' # Closed => failures' >= Threshold)
  BY ProgressFacts, Limits DEF Answer
<1> HIDE DEF p
<1> QED BY <1>1, <1>2, <1>3, <1>4, <1>5, OneRequest

(* What an error that reaches the retry loop leads to.                     *)
LEMMA RetryLaterCase ==
  ASSUME NEW r \in Requests, NEW q \in Progress, NEW error \in Errors, q.at = "calling",
         NEW shows \in Shows, RetryLater(r, q, error),
         "now" \notin shows,
         ~ q.last => (shows # {} => q.silent),
         ~ q.last /\ Recovers(r) => ~ q.silent /\ ~ q.muted
  PROVE  \E p \in Progress : Becomes(r, p) /\ Consistent(r, p, shows)
<1>1. CASE Becomes(r, [q EXCEPT !.at = "failed"])
  <2> DEFINE p == [q EXCEPT !.at = "failed"]
  <2>1. p \in Progress /\ p.at = "failed"
    BY DEF Progress
  <2> HIDE DEF p
  <2>2. Consistent(r, p, shows)
    BY <2>1 DEF Consistent, GoesOn
  <2> QED BY <1>1, <2>1, <2>2 DEF p
<1>2. CASE ~ q.last /\ Becomes(r, Try([q EXCEPT !.last = TRUE]))
  <2> DEFINE p == Try([q EXCEPT !.last = TRUE])
  <2>1. [q EXCEPT !.last = TRUE] \in Progress /\ [q EXCEPT !.last = TRUE].silent = q.silent
    BY DEF Progress
  <2>2. p \in Progress /\ p.at = "calling" /\ p.silent = q.silent /\ ~ p.muted
    BY <2>1, TryFacts
  <2> HIDE DEF p
  <2>3. Consistent(r, p, shows)
    BY <1>2, <2>2 DEF Consistent, FlagsKnow, GoesOn
  <2> QED BY <1>2, <2>2, <2>3 DEF p
<1>3. CASE ~ q.last /\ q.attempt <= Retries /\ Becomes(r, [q EXCEPT !.at = "waiting"])
  <2> DEFINE p == [q EXCEPT !.at = "waiting"]
  <2>1. /\ p \in Progress /\ p.at = "waiting" /\ p.silent = q.silent /\ p.muted = q.muted
        /\ p.attempt = q.attempt
    BY DEF Progress
  <2> HIDE DEF p
  <2>2. Consistent(r, p, shows)
    BY <1>3, <2>1 DEF Consistent, FlagsKnow, GoesOn, Shows
  <2> QED BY <1>3, <2>1, <2>2 DEF p
<1> QED BY <1>1, <1>2, <1>3, Limits DEF RetryLater, Progress

(* The segment after a call that failed.                                   *)
KeptOf(shows) == IF shows = {} THEN {} ELSE {"before"}

LEMMA SegmentFacts ==
  ASSUME RequestIInv, NEW r \in Requests
  PROVE  /\ KeepSegment(r) => segment' = [segment EXCEPT ![r] = KeptOf(segment[r])]
         /\ CloseSegment(r) => segment' = [segment EXCEPT ![r] = {}]
         /\ KeptOf(segment[r]) \in Shows /\ {} \in Shows
         /\ "now" \notin KeptOf(segment[r]) /\ (KeptOf(segment[r]) # {} => segment[r] # {})
BY DEF KeepSegment, CloseSegment, KeptOf, Shows, RequestIInv, RequestTypeOK

(* An error the chain returned.                                            *)
LEMMA ReturnedCase ==
  ASSUME RequestIInv, NEW r \in Requests, NEW error \in Errors, request[r].at = "calling",
         Returned(r, request[r], error)
  PROVE  \E p \in Progress, shows \in Shows :
            /\ Becomes(r, p) /\ Consistent(r, p, shows)
            /\ segment' = [segment EXCEPT ![r] = shows]
<1> DEFINE q == request[r]
           kept == KeptOf(segment[r])
<1>1. /\ q \in Progress /\ Consistent(r, q, segment[r]) /\ FlagsKnow(r, q, segment[r])
  BY ProgressFacts DEF Consistent, GoesOn
<1>2. /\ KeepSegment(r) => segment' = [segment EXCEPT ![r] = kept]
      /\ CloseSegment(r) => segment' = [segment EXCEPT ![r] = {}]
      /\ kept \in Shows /\ {} \in Shows /\ "now" \notin kept /\ (kept # {} => segment[r] # {})
  BY SegmentFacts
<1> HIDE DEF q, kept
<1>3. CASE ~ Shown(q) /\ RetryLater(r, q, error) /\ KeepSegment(r)
  <2>1. ~ q.last => (kept # {} => q.silent)
    BY <1>1, <1>2, <1>3 DEF FlagsKnow, Shown
  <2>2. ~ q.last /\ Recovers(r) => ~ q.silent /\ ~ q.muted
    BY <1>1 DEF FlagsKnow
  <2>3. q.at = "calling"
    BY DEF q
  <2>4. \E p \in Progress : Becomes(r, p) /\ Consistent(r, p, kept)
    BY <1>1, <1>2, <1>3, <2>1, <2>2, <2>3, RetryLaterCase
  <2> QED BY <1>2, <1>3, <2>4
<1>4. CASE GiveUp(r, q)
  <2> DEFINE p == [q EXCEPT !.at = "failed"]
  <2>1. p \in Progress /\ p.at = "failed" /\ Becomes(r, p)
    BY <1>1, <1>4 DEF Progress, GiveUp
  <2> HIDE DEF p
  <2>2. Consistent(r, p, kept) /\ KeepSegment(r)
    BY <1>2, <1>4, <2>1 DEF Consistent, GoesOn, GiveUp
  <2> QED BY <1>2, <2>1, <2>2
<1>5. CASE Recovers(r) /\ RetryLater(r, [q EXCEPT !.shown = FALSE], error) /\ CloseSegment(r)
  <2> DEFINE p == [q EXCEPT !.shown = FALSE]
  <2>1. /\ p \in Progress /\ p.at = "calling" /\ p.silent = q.silent /\ p.muted = q.muted
        /\ p.last = q.last
    BY <1>1 DEF Progress, q
  <2> HIDE DEF p
  <2>2. RetryLater(r, p, error)
    BY <1>5 DEF p
  <2>3. ~ p.silent /\ ~ p.muted
    BY <1>1, <1>5, <2>1 DEF FlagsKnow
  <2>4. \E x \in Progress : Becomes(r, x) /\ Consistent(r, x, {})
    BY <1>2, <2>1, <2>2, <2>3, RetryLaterCase
  <2> QED BY <1>2, <1>5, <2>4
<1>6. CASE ~ Recovers(r) /\ RetryLater(r, [q EXCEPT !.silent = TRUE], error) /\ KeepSegment(r)
  <2> DEFINE p == [q EXCEPT !.silent = TRUE]
  <2>1. p \in Progress /\ p.at = "calling" /\ p.silent
    BY <1>1 DEF Progress, q
  <2> HIDE DEF p
  <2>2. RetryLater(r, p, error)
    BY <1>6 DEF p
  <2>3. \E x \in Progress : Becomes(r, x) /\ Consistent(r, x, kept)
    BY <1>2, <1>6, <2>1, <2>2, RetryLaterCase
  <2> QED BY <1>2, <1>6, <2>3
<1> QED BY <1>3, <1>4, <1>5, <1>6 DEF Returned, q

LEMMA CountedFacts ==
  ASSUME RequestIInv, Counted
  PROVE  failures' \in Nat /\ breaker' \in 0..Closed /\ (breaker' # Closed => failures' >= Threshold)
<1> DEFINE S == {failures + 1, Threshold}
<1>1. failures + 1 \in Nat /\ Threshold \in Nat /\ breaker \in 0..Closed
      /\ (breaker # Closed => failures >= Threshold)
  BY Limits DEF RequestIInv, RequestTypeOK
<1>2. \E x \in S : \A y \in S : x <= y
  BY <1>1
<1>3. Min(S) \in S /\ \A y \in S : Min(S) <= y
  BY <1>2 DEF Min
<1>4. failures' = Min(S)
  BY DEF Counted
<1>5. failures' \in Nat /\ (failures + 1 >= Threshold => failures' >= Threshold)
  BY <1>1, <1>3, <1>4
<1> HIDE DEF S
<1> QED BY <1>1, <1>5, Limits, RequestAssumption DEF Counted, RequestIInv, RequestTypeOK

(* Going on to the next model, with the flags of p.                        *)
LEMMA EnterInv ==
  ASSUME RequestIInv, NEW r \in Requests, NEW p \in Progress, NEW i \in 0..Fallbacks,
         NEW shows \in Shows,
         Becomes(r, Enter(p, i)), segment' = [segment EXCEPT ![r] = shows],
         "now" \notin shows, shows # {} => (p.shown \/ p.silent) /\ (p.silent \/ p.muted),
         Recovers(r) => ~ p.silent /\ ~ p.muted,
         failures' \in Nat, breaker' \in 0..Closed, breaker' # Closed => failures' >= Threshold
  PROVE  RequestIInv'
<1> DEFINE x == Enter(p, i)
<1>1. /\ x \in Progress /\ x.at = "calling" /\ x.shown = p.shown /\ x.silent = p.silent
      /\ x.muted = p.muted
  BY EnterFacts
<1> HIDE DEF x
<1>2. Consistent(r, x, shows)
  BY <1>1 DEF Consistent, FlagsKnow, GoesOn
<1>3. request' = [request EXCEPT ![r] = x]
  BY DEF Becomes, x
<1> QED BY <1>1, <1>2, <1>3, OneRequest

LEMMA PrimaryFailsInv ==
  ASSUME RequestIInv, NEW r \in Requests, NEW error \in Errors, PrimaryFails(r, error)
  PROVE  RequestIInv'
<1> DEFINE q == request[r]
           recovered == [q EXCEPT !.tried = FALSE, !.shown = FALSE]
           silenced == [q EXCEPT !.tried = FALSE, !.muted = TRUE]
           kept == KeptOf(segment[r])
<1>1. q \in Progress /\ q.at = "calling" /\ FlagsKnow(r, q, segment[r]) /\ 1 \in 0..Fallbacks
  BY ProgressFacts, Limits DEF Consistent, GoesOn, PrimaryFails
<1>2. /\ KeepSegment(r) => segment' = [segment EXCEPT ![r] = kept]
      /\ CloseSegment(r) => segment' = [segment EXCEPT ![r] = {}]
      /\ kept \in Shows /\ {} \in Shows /\ "now" \notin kept /\ (kept # {} => segment[r] # {})
  BY SegmentFacts
<1>3. CASE Returned(r, q, error) /\ UNCHANGED <<failures, breaker>>
  <2>1. PICK p \in Progress, shows \in Shows :
            /\ Becomes(r, p) /\ Consistent(r, p, shows)
            /\ segment' = [segment EXCEPT ![r] = shows]
    BY <1>1, <1>3, ReturnedCase
  <2>2. request' = [request EXCEPT ![r] = p]
    BY <2>1 DEF Becomes
  <2> QED BY <1>3, <2>1, <2>2, ProgressFacts, OneRequest
<1>4. CASE Counted /\ Recovers(r) /\ Becomes(r, Enter(recovered, 1)) /\ CloseSegment(r)
  <2>1. recovered \in Progress /\ recovered.silent = q.silent /\ recovered.muted = q.muted
    BY <1>1 DEF Progress
  <2>2. Recovers(r) => ~ recovered.silent /\ ~ recovered.muted
    BY <1>1, <2>1 DEF FlagsKnow
  <2> HIDE DEF recovered
  <2> QED BY <1>1, <1>2, <1>4, <2>1, <2>2, CountedFacts, EnterInv
<1>5. CASE q.tried /\ Counted /\ ~ Recovers(r) /\ Becomes(r, Enter(silenced, 1)) /\ KeepSegment(r)
  <2>1. /\ silenced \in Progress /\ silenced.silent = q.silent /\ silenced.muted
        /\ silenced.shown = q.shown
    BY <1>1 DEF Progress
  <2>2. kept # {} => silenced.shown \/ silenced.silent
    BY <1>1, <1>2, <2>1 DEF FlagsKnow
  <2> HIDE DEF silenced
  <2> QED BY <1>1, <1>2, <1>5, <2>1, <2>2, CountedFacts, EnterInv
<1>6. CASE ~ q.tried /\ Counted /\ Becomes(r, Enter(q, 1)) /\ KeepSegment(r)
  <2>1. kept # {} => (q.shown \/ q.silent) /\ (q.silent \/ q.muted)
    BY <1>1, <1>2, <1>6, ProgressFacts DEF FlagsKnow, Shows
  <2>2. Recovers(r) => ~ q.silent /\ ~ q.muted
    BY <1>1 DEF FlagsKnow
  <2> HIDE DEF q
  <2> QED BY <1>1, <1>2, <1>6, <2>1, <2>2, CountedFacts, EnterInv
<1> QED BY <1>3, <1>4, <1>5, <1>6 DEF PrimaryFails

LEMMA FallbackFailsInv ==
  ASSUME RequestIInv, NEW r \in Requests, NEW error \in Errors, FallbackFails(r, error)
  PROVE  RequestIInv'
<1> DEFINE q == request[r]
           recovered == [q EXCEPT !.tried = FALSE, !.shown = FALSE]
           kept == KeptOf(segment[r])
<1>1. /\ q \in Progress /\ q.at = "calling" /\ FlagsKnow(r, q, segment[r])
      /\ q.idx < Fallbacks => q.idx + 1 \in 0..Fallbacks
      /\ UNCHANGED <<failures, breaker>>
  BY ProgressFacts, Limits DEF Consistent, GoesOn, FallbackFails, Progress
<1>2. /\ KeepSegment(r) => segment' = [segment EXCEPT ![r] = kept]
      /\ CloseSegment(r) => segment' = [segment EXCEPT ![r] = {}]
      /\ kept \in Shows /\ {} \in Shows /\ "now" \notin kept /\ (kept # {} => segment[r] # {})
  BY SegmentFacts
<1>3. CASE Returned(r, q, error)
  <2>1. PICK p \in Progress, shows \in Shows :
            /\ Becomes(r, p) /\ Consistent(r, p, shows)
            /\ segment' = [segment EXCEPT ![r] = shows]
    BY <1>1, <1>3, ReturnedCase
  <2>2. request' = [request EXCEPT ![r] = p]
    BY <2>1 DEF Becomes
  <2> QED BY <1>1, <2>1, <2>2, ProgressFacts, OneRequest
<1>4. CASE q.idx < Fallbacks /\ ~ q.tried /\ Becomes(r, Enter(q, q.idx + 1)) /\ KeepSegment(r)
  <2>1. kept # {} => (q.shown \/ q.silent) /\ (q.silent \/ q.muted)
    BY <1>1, <1>2, <1>4, ProgressFacts DEF FlagsKnow, Shows
  <2>2. Recovers(r) => ~ q.silent /\ ~ q.muted
    BY <1>1 DEF FlagsKnow
  <2>3. failures' \in Nat /\ breaker' \in 0..Closed /\ (breaker' # Closed => failures' >= Threshold)
    BY <1>1, ProgressFacts
  <2> HIDE DEF q
  <2> QED BY <1>1, <1>2, <1>4, <2>1, <2>2, <2>3, EnterInv
<1>5. CASE /\ q.idx < Fallbacks /\ Recovers(r)
           /\ Becomes(r, Enter(recovered, q.idx + 1)) /\ CloseSegment(r)
  <2>1. recovered \in Progress /\ recovered.silent = q.silent /\ recovered.muted = q.muted
    BY <1>1 DEF Progress
  <2>2. Recovers(r) => ~ recovered.silent /\ ~ recovered.muted
    BY <1>1, <2>1 DEF FlagsKnow
  <2>3. failures' \in Nat /\ breaker' \in 0..Closed /\ (breaker' # Closed => failures' >= Threshold)
    BY <1>1, ProgressFacts
  <2> HIDE DEF recovered
  <2> QED BY <1>1, <1>2, <1>5, <2>1, <2>2, <2>3, EnterInv
<1> QED BY <1>3, <1>4, <1>5 DEF FallbackFails

LEMMA RetryNowInv ==
  ASSUME RequestIInv, NEW r \in Requests, RetryNow(r)
  PROVE  RequestIInv'
<1> DEFINE q == request[r]
           p == [q EXCEPT !.attempt = @ + 1]
           x == Try(p)
<1>1. /\ q \in Progress /\ FlagsKnow(r, q, segment[r]) /\ q.at = "waiting" /\ q.attempt <= Retries
      /\ segment[r] \in Shows
  BY ProgressFacts DEF RetryNow, Consistent, GoesOn
<1>2. p \in Progress /\ p.shown = q.shown /\ p.silent = q.silent
  BY <1>1, Limits DEF Progress
<1>3. x \in Progress /\ x.at = "calling" /\ x.shown = q.shown /\ x.silent = q.silent
      /\ ~ x.muted
  <2> HIDE DEF p
  <2> QED BY <1>2, TryFacts
<1>4. /\ request' = [request EXCEPT ![r] = x] /\ UNCHANGED <<failures, breaker>>
      /\ segment' = [segment EXCEPT ![r] = segment[r]]
  BY DEF RetryNow, Becomes, RequestIInv, RequestTypeOK
<1> HIDE DEF x
<1>5. Consistent(r, x, segment[r])
  BY <1>1, <1>3 DEF Consistent, FlagsKnow, GoesOn, Shows
<1> QED BY <1>1, <1>3, <1>4, <1>5, ProgressFacts, OneRequest

LEMMA WallClockInv ==
  ASSUME RequestIInv, NEW r \in Requests, WallClock(r)
  PROVE  RequestIInv'
<1> DEFINE q == request[r]
           p == [q EXCEPT !.at = "failed"]
<1>1. q \in Progress /\ segment[r] \in Shows /\ Consistent(r, q, segment[r])
  BY ProgressFacts
<1>2. p \in Progress /\ p.at = "failed"
  BY <1>1 DEF Progress
<1>3. /\ request' = [request EXCEPT ![r] = p] /\ UNCHANGED <<failures, breaker>>
      /\ segment' = [segment EXCEPT ![r] = segment[r]]
  BY DEF WallClock, Becomes, RequestIInv, RequestTypeOK
<1> HIDE DEF p
<1>4. Consistent(r, p, segment[r])
  BY <1>1, <1>2 DEF Consistent, GoesOn
<1> QED BY <1>1, <1>2, <1>3, <1>4, ProgressFacts, OneRequest

LEMMA NextRequestInv ==
  ASSUME RequestIInv, NEW r \in Requests, NextRequest(r)
  PROVE  RequestIInv'
<1>1. NotSent \in Progress /\ NotSent.at = "idle"
  BY Limits DEF Progress, NotSent
<1>2. /\ request' = [request EXCEPT ![r] = NotSent] /\ UNCHANGED <<failures, breaker>>
      /\ segment' = [segment EXCEPT ![r] = {}]
  BY DEF NextRequest, Becomes, CloseSegment
<1>3. Consistent(r, NotSent, {})
  BY <1>1 DEF Consistent, GoesOn
<1> QED BY <1>1, <1>2, <1>3, ProgressFacts, OneRequest DEF Shows

LEMMA CoolDownInv ==
  ASSUME RequestIInv, CoolDown
  PROVE  RequestIInv'
<1>1. RequestTypeOK'
  BY Limits DEF CoolDown, RequestIInv, RequestTypeOK
<1> QED BY <1>1 DEF CoolDown, RequestIInv, Consistent, FlagsKnow, GoesOn, Recovers

LEMMA StepInv ==
  ASSUME RequestIInv, [RequestNext]_requestVars
  PROVE  RequestIInv'
<1>1. CASE UNCHANGED requestVars
  BY <1>1 DEF requestVars, RequestIInv, RequestTypeOK, Consistent, FlagsKnow, GoesOn, Recovers
<1>2. CASE CoolDown
  BY <1>2, CoolDownInv
<1>3. ASSUME NEW r \in Requests,
             Send(r) \/ Delta(r) \/ Progresses(r) \/ WallClock(r) \/ NextRequest(r)
      PROVE  RequestIInv'
  BY <1>3, SendInv, DeltaInv, AnswerInv, PrimaryFailsInv, FallbackFailsInv, RetryNowInv,
     WallClockInv, NextRequestInv DEF Progresses
<1> QED BY <1>1, <1>2, <1>3 DEF RequestNext

(* What the open segments show is known to the flags of the loops.         *)
THEOREM RequestInvariant == RequestSpec => []RequestIInv
<1>1. RequestInit => RequestIInv
  BY InitInv
<1>2. RequestIInv /\ [RequestNext]_requestVars => RequestIInv'
  BY StepInv
<1> QED BY <1>1, <1>2, PTL DEF RequestSpec

(* base.py, fallback_provider.py: whatever fails in whichever loop, a      *)
(* segment has text of one call only, and an answer is not shown beside    *)
(* the text of a call before it.                                           *)
THEOREM OneVoicePerSegment == RequestSpec => []OneVoice
<1>1. ASSUME RequestIInv, NEW r \in Requests
      PROVE  /\ Cardinality(segment[r]) <= 1
             /\ request[r].at = "answered" /\ ModeOf[r] = "segments" => "before" \notin segment[r]
  <2>1. segment[r] \in {{}, {"now"}, {"before"}}
    BY <1>1, ProgressFacts DEF Shows, Consistent
  <2>2. Cardinality(segment[r]) <= 1
    <3>1. Cardinality({}) = 0 BY FS_EmptySet
    <3>2. Cardinality({"now"}) = 1 BY FS_Singleton
    <3>3. Cardinality({"before"}) = 1 BY FS_Singleton
    <3>4. CASE segment[r] = {} BY <3>1, <3>4
    <3>5. CASE segment[r] = {"now"} BY <3>2, <3>5
    <3>6. CASE segment[r] = {"before"} BY <3>3, <3>6
    <3> QED BY <2>1, <3>4, <3>5, <3>6
  <2> QED BY <1>1, <2>2 DEF RequestIInv, Consistent, Recovers
<1>2. RequestIInv => OneVoice
  BY <1>1 DEF OneVoice
<1> QED BY <1>2, RequestInvariant, PTL

(***************************************************************************)
(* The calls that the Demon answers (DemonWorld).                          *)
(***************************************************************************)
LEMMA RowFacts ==
  /\ \A l \in Laws : System(l) \in Rows /\ System(l).kind = "system"
  /\ \A n \in Calls : /\ User(n) \in Rows /\ User(n).kind = "user" /\ User(n).of = n
                      /\ Assistant(n) \in Rows /\ Assistant(n).kind = "assistant"
                      /\ Assistant(n).of = n
BY DEF Rows, System, User, Assistant

LEMMA CallNumbers ==
  ASSUME NEW n \in Calls
  PROVE  n \in Nat /\ n >= 1
BY WorldAssumption DEF Calls

(* One more row.                                                           *)
LEMMA RowAdded ==
  ASSUME NEW h \in Seq(Rows), NEW row \in Rows
  PROVE  /\ Append(h, row) \in Seq(Rows) /\ Len(Append(h, row)) = Len(h) + 1
         /\ Append(h, row) # <<>>
         /\ Len(h) \in Nat /\ DOMAIN h = 1..Len(h)
         /\ DOMAIN Append(h, row) = 1..Len(h) + 1
         /\ \A i \in 1..Len(h) : Append(h, row)[i] = h[i]
         /\ Append(h, row)[Len(h) + 1] = row /\ Last(Append(h, row)) = row
         /\ ToSet(Append(h, row)) = ToSet(h) \cup {row}
<1>1. /\ Append(h, row) \in Seq(Rows) /\ Len(Append(h, row)) = Len(h) + 1
      /\ Len(h) \in Nat /\ DOMAIN h = 1..Len(h)
      /\ DOMAIN Append(h, row) = 1..Len(h) + 1
      /\ \A i \in 1..Len(h) : Append(h, row)[i] = h[i]
      /\ Append(h, row)[Len(h) + 1] = row
  BY AppendProperties
<1>2. Append(h, row) # <<>>
  BY <1>1
<1>3. Last(Append(h, row)) = row
  BY <1>1 DEF Last
<1>4. ToSet(Append(h, row)) = ToSet(h) \cup {row}
  BY AppendFacts
<1> QED BY <1>1, <1>2, <1>3, <1>4

(* The history a request is sent with: that of the file, or a new law.     *)
LEMMA OpenedFacts ==
  ASSUME WorldIInv, NEW s \in Sessions, NEW l \in Laws
  PROVE  /\ Opened(s, l) \in Seq(Rows) /\ Opened(s, l) # <<>>
         /\ Paired(Opened(s, l)) /\ Len(Opened(s, l)) % 2 = 1
         /\ \/ Opened(s, l) = history[s] /\ history[s] # Torn
            \/ Opened(s, l) = <<System(l)>> /\ history[s] \in {Torn, <<>>}
<1>1. history[s] \in {Torn} \cup Seq(Rows)
  BY DEF WorldIInv, TypeOK
<1>2. CASE history[s] \notin {Torn, <<>>}
  <2>1. Opened(s, l) = history[s]
    BY <1>2 DEF Opened, Remembered
  <2>2. Paired(history[s]) /\ Len(history[s]) % 2 = 1
    BY <1>2 DEF WorldIInv, Conversations
  <2> QED BY <1>1, <1>2, <2>1, <2>2
<1>3. CASE history[s] \in {Torn, <<>>}
  <2>1. Opened(s, l) = <<System(l)>>
    BY <1>3 DEF Opened, Remembered
  <2>2. System(l) \in Rows /\ System(l).kind = "system"
    BY RowFacts
  <2>3. <<System(l)>> \in Seq(Rows) /\ <<System(l)>> # <<>> /\ Len(<<System(l)>>) = 1
    BY <2>2
  <2>4. Paired(<<System(l)>>)
    BY <2>2 DEF Paired
  <2> QED BY <1>3, <2>1, <2>3, <2>4
<1> QED BY <1>2, <1>3

(* A call after an answer, and an answer after its call: a conversation    *)
(* stays one.                                                              *)
LEMMA CallPairs ==
  ASSUME NEW h \in Seq(Rows), NEW n \in Calls, Paired(h), Len(h) % 2 = 1
  PROVE  Paired(Append(h, User(n))) /\ Len(Append(h, User(n))) % 2 = 0
<1> DEFINE a == Append(h, User(n))
<1>1. User(n) \in Rows /\ User(n).kind = "user"
  BY RowFacts
<1>2. /\ Len(a) = Len(h) + 1 /\ Len(h) \in Nat /\ DOMAIN h = 1..Len(h)
      /\ DOMAIN a = 1..Len(h) + 1 /\ a[Len(h) + 1] = User(n)
      /\ \A i \in 1..Len(h) : a[i] = h[i]
  BY <1>1, RowAdded
<1> HIDE DEF a
<1>3. ASSUME NEW i \in DOMAIN a
      PROVE  /\ a[i].kind = (IF i = 1 THEN "system" ELSE IF i % 2 = 0 THEN "user" ELSE "assistant")
             /\ a[i].kind = "assistant" => a[i].of = a[i - 1].of
  <2>1. CASE i = Len(h) + 1
    <3>1. i # 1 /\ i % 2 = 0
      BY <1>2, <2>1
    <3> QED BY <1>1, <1>2, <2>1, <3>1
  <2>2. CASE i \in 1..Len(h)
    <3>1. /\ h[i].kind = (IF i = 1 THEN "system" ELSE IF i % 2 = 0 THEN "user" ELSE "assistant")
          /\ h[i].kind = "assistant" => h[i].of = h[i - 1].of
      BY <1>2, <2>2 DEF Paired
    <3>2. h[i].kind = "assistant" => i - 1 \in 1..Len(h)
      BY <2>2, <3>1, <1>2
    <3> QED BY <1>2, <2>2, <3>1, <3>2
  <2> QED BY <1>2, <2>1, <2>2
<1>4. Paired(a)
  BY <1>3 DEF Paired
<1>5. Len(a) % 2 = 0
  BY <1>2
<1> QED BY <1>4, <1>5 DEF a

LEMMA AnswerPairs ==
  ASSUME NEW h \in Seq(Rows), NEW n \in Calls, h # <<>>,
         Paired(h), Len(h) % 2 = 0, Last(h) = User(n)
  PROVE  Paired(Append(h, Assistant(n))) /\ Len(Append(h, Assistant(n))) % 2 = 1
<1> DEFINE a == Append(h, Assistant(n))
<1>1. Assistant(n) \in Rows /\ Assistant(n).kind = "assistant" /\ Assistant(n).of = n /\ User(n).of = n
  BY RowFacts
<1>2. /\ Len(a) = Len(h) + 1 /\ Len(h) \in Nat /\ DOMAIN h = 1..Len(h)
      /\ DOMAIN a = 1..Len(h) + 1 /\ a[Len(h) + 1] = Assistant(n)
      /\ \A i \in 1..Len(h) : a[i] = h[i]
  BY <1>1, RowAdded
<1> HIDE DEF a
<1>3. Len(a) % 2 = 1
  BY <1>2
<1>4. Len(h) # 0 /\ h[Len(h)] = User(n)
  BY DEF Last
<1>5. ASSUME NEW i \in DOMAIN a
      PROVE  /\ a[i].kind = (IF i = 1 THEN "system" ELSE IF i % 2 = 0 THEN "user" ELSE "assistant")
             /\ a[i].kind = "assistant" => a[i].of = a[i - 1].of
  <2>1. CASE i = Len(h) + 1
    <3>1. i # 1 /\ i % 2 = 1
      BY <1>2, <1>4, <2>1
    <3>2. a[i - 1] = User(n)
      BY <1>2, <1>4, <2>1
    <3> QED BY <1>1, <1>2, <2>1, <3>1, <3>2
  <2>2. CASE i \in 1..Len(h)
    <3>1. /\ h[i].kind = (IF i = 1 THEN "system" ELSE IF i % 2 = 0 THEN "user" ELSE "assistant")
          /\ h[i].kind = "assistant" => h[i].of = h[i - 1].of
      BY <1>2, <2>2 DEF Paired
    <3>2. h[i].kind = "assistant" => i - 1 \in 1..Len(h)
      BY <2>2, <3>1, <1>2
    <3> QED BY <1>2, <2>2, <3>1, <3>2
  <2> QED BY <1>2, <2>1, <2>2
<1>6. Paired(a)
  BY <1>5 DEF Paired
<1> QED BY <1>3, <1>6 DEF a

(* What a call of A is sent with.                                          *)
LEMMA SentFacts ==
  ASSUME WorldIInv, NEW s \in Sessions, NEW l \in Laws, NEW n \in Calls, NEW sent,
         sent = Append(Opened(s, l), User(n))
  PROVE  /\ sent \in Seq(Rows) /\ sent # <<>> /\ Last(sent) = User(n)
         /\ Paired(sent) /\ Len(sent) % 2 = 0
         /\ Len(sent) = Len(Opened(s, l)) + 1
         /\ \A i \in 1..Len(sent) - 1 : sent[i] = Opened(s, l)[i]
         /\ \A row \in ToSet(sent) : row.kind # "system" =>
              row = User(n) \/ (history[s] # Torn /\ row \in ToSet(history[s]))
<1> DEFINE o == Opened(s, l)
<1>1. /\ o \in Seq(Rows) /\ o # <<>> /\ Paired(o) /\ Len(o) % 2 = 1
      /\ \/ o = history[s] /\ history[s] # Torn
         \/ o = <<System(l)>> /\ history[s] \in {Torn, <<>>}
  BY OpenedFacts
<1>2. User(n) \in Rows /\ System(l).kind = "system"
  BY RowFacts
<1> HIDE DEF o
<1>3. /\ sent = Append(o, User(n)) /\ sent \in Seq(Rows) /\ Len(sent) = Len(o) + 1
      /\ sent # <<>> /\ Len(o) \in Nat /\ Last(sent) = User(n)
      /\ \A i \in 1..Len(o) : sent[i] = o[i]
      /\ ToSet(sent) = ToSet(o) \cup {User(n)}
  BY <1>1, <1>2, RowAdded DEF o
<1>4. Paired(sent) /\ Len(sent) % 2 = 0
  BY <1>1, <1>3, CallPairs
<1>5. ASSUME NEW row \in ToSet(sent), row.kind # "system", row # User(n)
      PROVE  history[s] # Torn /\ row \in ToSet(history[s])
  <2>1. row \in ToSet(o)
    BY <1>3, <1>5
  <2>2. CASE o = <<System(l)>>
    <3>1. row = System(l)
      BY <2>1, <2>2 DEF ToSet
    <3> QED BY <3>1, <1>2, <1>5
  <2> QED BY <1>1, <2>1, <2>2
<1> QED BY <1>3, <1>4, <1>5 DEF o

(* What is kept of it once B has answered.                                 *)
LEMMA AnsweredFacts ==
  ASSUME WorldIInv, NEW p \in Posts, NEW x \in flying[p]
  PROVE  /\ x.call \in Calls /\ x.sent \in Seq(Rows) /\ Len(x.sent) \in Nat \ {0}
         /\ x.sent[Len(x.sent)] = User(x.call) /\ User(x.call) \in ToSet(x.sent)
         /\ Answered(x) \in Seq(Rows) /\ Answered(x) # <<>>
         /\ Paired(Answered(x)) /\ Len(Answered(x)) % 2 = 1
         /\ Len(Answered(x)) = Len(x.sent) + 1
         /\ \A i \in 1..Len(x.sent) : Answered(x)[i] = x.sent[i]
         /\ Answered(x)[Len(x.sent) + 1] = Assistant(x.call)
         /\ ToSet(Answered(x)) = ToSet(x.sent) \cup {Assistant(x.call)}
<1>1. x \in [call : Calls, sent : Seq(Rows)]
  BY DEF WorldIInv, TypeOK
<1>2. x.call \in Calls /\ x.sent \in Seq(Rows)
  BY <1>1
<1>3. Paired(x.sent) /\ Len(x.sent) % 2 = 0 /\ Last(x.sent) = User(x.call)
  BY DEF WorldIInv, Conversations
<1>4. x.sent # <<>>
  BY DEF WorldIInv, InFlight
<1>5. Assistant(x.call) \in Rows
  BY <1>2, RowFacts
<1>6. Len(x.sent) \in Nat \ {0} /\ DOMAIN x.sent = 1..Len(x.sent)
  BY <1>2, <1>4
<1>7. x.sent[Len(x.sent)] = User(x.call) /\ User(x.call) \in ToSet(x.sent)
  BY <1>3, <1>6 DEF Last, ToSet
<1>8. /\ Answered(x) \in Seq(Rows) /\ Answered(x) # <<>>
      /\ Len(Answered(x)) = Len(x.sent) + 1
      /\ \A i \in 1..Len(x.sent) : Answered(x)[i] = x.sent[i]
      /\ Answered(x)[Len(x.sent) + 1] = Assistant(x.call)
      /\ ToSet(Answered(x)) = ToSet(x.sent) \cup {Assistant(x.call)}
  BY <1>2, <1>5, RowAdded DEF Answered
<1>9. Paired(Answered(x)) /\ Len(Answered(x)) % 2 = 1
  BY <1>2, <1>3, <1>4, AnswerPairs DEF Answered
<1> QED BY <1>2, <1>6, <1>7, <1>8, <1>9

(* The requests in flight in a session belong to one post.                 *)
LEMMA OneSpeaks ==
  ASSUME Turns, NEW p \in Posts, NEW q \in Posts, SessionOf[p] = SessionOf[q],
         todo[p] # <<>> \/ flying[p] # {} \/ HasLock(p), todo[q] # <<>> \/ flying[q] # {}
  PROVE  p = q
BY DEF Turns, HasLock
-----------------------------------------------------------------------------
THEOREM WorldInit == Init => WorldIInv
<1> SUFFICES ASSUME Init PROVE WorldIInv
  OBVIOUS
<1> USE DEF Init
<1>1. TypeOK
  <2>1. <<>> \in Seq(Rows) /\ <<>> \in Seq(Posts) /\ <<>> \in Seq(Calls)
    BY EmptyFacts
  <2> QED BY <2>1, WorldAssumption DEF TypeOK
<1>2. Turns
  BY WorldAssumption DEF Turns
<1>3. Numbered
  BY CallNumbers DEF Numbered
<1>4. WorldsIsolated
  BY EmptyFacts DEF WorldsIsolated
<1>5. Conversations
  BY DEF Conversations
<1>6. InFlight
  BY DEF InFlight
<1> QED BY <1>1, <1>2, <1>3, <1>4, <1>5, <1>6 DEF WorldIInv

(* What a step of a post's turn can start from.                            *)
LEMMA PostFacts ==
  ASSUME WorldIInv, NEW p \in Posts
  PROVE  /\ SessionOf[p] \in Sessions /\ todo[p] \in Seq(Calls)
         /\ line[SessionOf[p]] \in Seq(Posts)
         /\ flying[p] \subseteq [call : Calls, sent : Seq(Rows)]
         /\ history[SessionOf[p]] # Torn => history[SessionOf[p]] \in Seq(Rows)
BY WorldAssumption DEF WorldIInv, TypeOK

LEMMA TypesOfCalls ==
  ASSUME WorldIInv, NEW p \in Posts, AgentCalls(p)
  PROVE  TypeOK'
<1> USE DEF WorldIInv, TypeOK
<1>1. PICK size \in 1..MaxReply : \E kind \in [1..size -> Kinds] :
        /\ calls + size <= MaxCalls
        /\ calls' = calls + size
        /\ todo' = [todo EXCEPT ![p] = [i \in 1..size |-> calls + i]]
        /\ safe' = safe \cup {calls + i : i \in {i \in 1..size : kind[i] = "read"}}
        /\ owner' = [n \in Calls |-> IF n \in calls + 1..calls + size
                                     THEN SessionOf[p] ELSE owner[n]]
  BY DEF AgentCalls
<1>2. calls \in Nat /\ size \in Nat /\ MaxCalls \in Nat
  BY WorldAssumption
<1>3. \A i \in 1..size : calls + i \in Calls
  BY <1>1, <1>2 DEF Calls
<1>4. [i \in 1..size |-> calls + i] \in Seq(Calls)
  BY <1>2, <1>3
<1>5. todo' \in [Posts -> Seq(Calls)]
  BY <1>1, <1>4
<1>6. safe' \subseteq Calls
  BY <1>1, <1>3
<1>7. owner' \in [Calls -> Sessions \cup {None}]
  BY <1>1, PostFacts
<1>8. calls' \in 0..MaxCalls
  BY <1>1, <1>2
<1> QED BY <1>5, <1>6, <1>7, <1>8 DEF AgentCalls

LEMMA TypesOfBatch ==
  ASSUME WorldIInv, NEW p \in Posts, BatchStarts(p)
  PROVE  TypeOK'
<1> USE DEF WorldIInv, TypeOK
<1> DEFINE q == todo[p]
           asked(n, l) == [call |-> n, sent |-> Append(Opened(SessionOf[p], l), User(n))]
<1>1. q \in Seq(Calls)
  OBVIOUS
<1>2. PICK k \in DOMAIN q, l \in Laws :
        /\ todo' = [todo EXCEPT ![p] = SubSeq(q, k + 1, Len(q))]
        /\ flying' = [flying EXCEPT ![p] = {asked(n, l) : n \in {q[i] : i \in 1..k}}]
        /\ solo' = IF k = 1 THEN solo \cup {q[i] : i \in 1..k} ELSE solo
  BY DEF BatchStarts, Session
<1>3. k \in Nat \ {0} /\ 1..k \subseteq DOMAIN q
  BY <1>1, <1>2
<1>4. {q[i] : i \in 1..k} \subseteq Calls
  BY <1>1, <1>3
<1>5. SubSeq(q, k + 1, Len(q)) \in Seq(Calls)
  BY <1>1, <1>3, SuffixFacts
<1>6. \A n \in Calls : asked(n, l) \in [call : Calls, sent : Seq(Rows)]
  BY PostFacts, SentFacts
<1> HIDE DEF q, asked
<1>7. todo' \in [Posts -> Seq(Calls)]
  BY <1>2, <1>5
<1>8. flying' \in [Posts -> SUBSET [call : Calls, sent : Seq(Rows)]]
  BY <1>2, <1>4, <1>6
<1>9. solo' \subseteq Calls
  BY <1>2, <1>4
<1> QED BY <1>7, <1>8, <1>9 DEF BatchStarts

LEMMA WorldTypes ==
  ASSUME WorldIInv, [Next]_vars
  PROVE  TypeOK'
<1> USE DEF WorldIInv, TypeOK
<1>1. ASSUME NEW p \in Posts, Post(p)
      PROVE  TypeOK'
  <2>1. Append(line[SessionOf[p]], p) \in Seq(Posts)
    BY PostFacts, AppendFacts
  <2> QED BY <1>1, <2>1 DEF Post
<1>2. ASSUME NEW p \in Posts, AgentAnswers(p)
      PROVE  TypeOK'
  <2>1. line[SessionOf[p]] # <<>>
    BY <1>2, PostFacts DEF AgentAnswers, Thinking, Turns, ToSet
  <2>2. Tail(line[SessionOf[p]]) \in Seq(Posts)
    BY PostFacts, HeadTailFacts, <2>1
  <2> QED BY <1>2, <2>2 DEF AgentAnswers, Released
<1>3. ASSUME NEW p \in Posts, ReplyShown(p)
      PROVE  TypeOK'
  BY <1>3 DEF ReplyShown
<1>4. ASSUME NEW p \in Posts, NEW x \in flying[p], DemonReplies(p, x)
      PROVE  TypeOK'
  BY <1>4, AnsweredFacts DEF DemonReplies, Returns, Session
<1>5. ASSUME NEW p \in Posts, NEW x \in flying[p], DemonFails(p, x) \/ SaveFails(p, x)
      PROVE  TypeOK'
  BY <1>5 DEF DemonFails, SaveFails, Returns, Session
<1>6. ASSUME Crash
      PROVE  TypeOK'
  <2>1. <<>> \in Seq(Posts) /\ <<>> \in Seq(Calls)
    BY EmptyFacts
  <2>2. history' \in [Sessions -> {Torn} \cup Seq(Rows)]
    BY <1>6 DEF Crash, Session
  <2> QED BY <1>6, <2>1, <2>2 DEF Crash
<1>7. CASE UNCHANGED vars
  BY <1>7 DEF vars
<1> QED BY <1>1, <1>2, <1>3, <1>4, <1>5, <1>6, <1>7, TypesOfCalls, TypesOfBatch
        DEF Next, AgentStep, DemonStep
-----------------------------------------------------------------------------
(* The lock of a session passes from post to post.                         *)
LEMMA TurnsPosted ==
  ASSUME WorldIInv, NEW p \in Posts, Post(p)
  PROVE  Turns'
<1> DEFINE s == SessionOf[p]
<1>1. /\ s \in Sessions /\ line[s] \in Seq(Posts) /\ line \in [Sessions -> Seq(Posts)]
      /\ phase \in [Posts -> {"unsent", "turn", "replying", "done", "lost"}] /\ Turns
  BY PostFacts DEF WorldIInv, TypeOK
<1>2. phase[p] = "unsent" /\ p \notin ToSet(line[s]) /\ UNCHANGED <<todo, flying>>
  BY <1>1 DEF Post, Turns, ToSet
<1>3. CASE phase' = [phase EXCEPT ![p] = "done"] /\ UNCHANGED line
  BY <1>1, <1>2, <1>3 DEF Turns, ToSet
<1>4. CASE /\ phase' = [phase EXCEPT ![p] = "turn"]
           /\ line' = [line EXCEPT ![s] = Append(@, p)]
  <2> DEFINE a == Append(line[s], p)
  <2>1. /\ DOMAIN a = 1..Len(line[s]) + 1 /\ Len(line[s]) \in Nat
        /\ DOMAIN line[s] = 1..Len(line[s])
        /\ \A i \in 1..Len(line[s]) : a[i] = line[s][i]
        /\ a[Len(line[s]) + 1] = p
        /\ ToSet(a) = ToSet(line[s]) \cup {p}
        /\ line[s] # <<>> => Head(a) = Head(line[s])
    BY <1>1, AppendFacts, AppendProperties
  <2>2. line' = [line EXCEPT ![s] = a]
    BY <1>4
  <2> HIDE DEF a
  <2>3. ASSUME NEW i \in DOMAIN a
        PROVE  \/ i \in DOMAIN line[s] /\ a[i] = line[s][i]
               \/ i = Len(line[s]) + 1 /\ a[i] = p
    <3>1. i \in 1..Len(line[s]) \/ i = Len(line[s]) + 1
      BY <2>1
    <3> QED BY <2>1, <3>1
  <2>4. ASSUME NEW t \in Sessions, NEW i \in DOMAIN line'[t], NEW j \in DOMAIN line'[t]
        PROVE  /\ SessionOf[line'[t][i]] = t /\ phase'[line'[t][i]] = "turn"
               /\ line'[t][i] = line'[t][j] => i = j
    <3>1. CASE t = s
      BY <1>1, <1>2, <1>4, <2>2, <2>3, <3>1 DEF Turns, ToSet
    <3>2. CASE t # s
      <4>1. line'[t] = line[t]
        BY <1>1, <2>2, <3>2
      <4>2. line[t][i] \in Posts /\ line[t][i] # p
        BY <1>1, <1>2, <4>1, <2>4 DEF Turns
      <4> QED BY <1>1, <1>4, <4>1, <4>2, <2>4 DEF Turns
    <3> QED BY <3>1, <3>2
  <2>5. ASSUME NEW q \in Posts
        PROVE  /\ phase'[q] = "turn" => q \in ToSet(line'[SessionOf[q]])
               /\ todo[q] # <<>> \/ flying[q] # {} =>
                    phase'[q] = "turn" /\ Head(line'[SessionOf[q]]) = q
    <3>1. SessionOf[q] \in Sessions
      BY PostFacts
    <3>2. phase[q] = "turn" => q # p /\ q \in ToSet(line[SessionOf[q]]) /\ line[SessionOf[q]] # <<>>
      BY <1>1, <1>2 DEF Turns, ToSet
    <3>3. phase[q] = "turn" => /\ q \in ToSet(line'[SessionOf[q]])
                               /\ Head(line'[SessionOf[q]]) = Head(line[SessionOf[q]])
      BY <1>1, <2>1, <2>2, <3>1, <3>2
    <3>4. q = p => q \in ToSet(line'[SessionOf[q]])
      BY <1>1, <2>1, <2>2
    <3> QED BY <1>1, <1>2, <1>4, <3>2, <3>3, <3>4 DEF Turns
  <2> QED BY <1>2, <2>4, <2>5 DEF Turns
<1> QED BY <1>3, <1>4 DEF Post

LEMMA TurnsPassed ==
  ASSUME WorldIInv, NEW p \in Posts, AgentAnswers(p)
  PROVE  Turns'
<1> DEFINE s == SessionOf[p]  l == line[s]
<1>1. /\ s \in Sessions /\ l \in Seq(Posts) /\ line \in [Sessions -> Seq(Posts)]
      /\ phase \in [Posts -> {"unsent", "turn", "replying", "done", "lost"}] /\ Turns
  BY PostFacts DEF WorldIInv, TypeOK
<1>2. /\ phase[p] = "turn" /\ Head(l) = p /\ todo[p] = <<>> /\ flying[p] = {}
      /\ phase' = [phase EXCEPT ![p] = "replying"]
      /\ line' = [line EXCEPT ![s] = Tail(l)] /\ UNCHANGED <<todo, flying>>
  BY DEF AgentAnswers, Thinking, HasLock, Released
<1>3. l # <<>>
  BY <1>1, <1>2 DEF Turns, ToSet
<1>4. /\ Len(l) \in Nat \ {0} /\ DOMAIN l = 1..Len(l) /\ l[1] = p
      /\ DOMAIN Tail(l) = 1..Len(l) - 1
      /\ \A i \in 1..Len(l) - 1 : Tail(l)[i] = l[i + 1]
  BY <1>1, <1>2, <1>3
<1> HIDE DEF l
<1>5. \A i \in DOMAIN Tail(l) : i + 1 \in DOMAIN l /\ Tail(l)[i] = l[i + 1]
  BY <1>4
<1>6. ASSUME NEW t \in Sessions, NEW i \in DOMAIN line'[t], NEW j \in DOMAIN line'[t]
      PROVE  /\ SessionOf[line'[t][i]] = t /\ phase'[line'[t][i]] = "turn"
             /\ line'[t][i] = line'[t][j] => i = j
  <2>1. CASE t = s
    <3>1. line'[t] = Tail(l) /\ i \in Nat \ {0} /\ j \in Nat \ {0}
      BY <1>1, <1>2, <1>4, <1>6, <2>1
    <3>2. /\ i + 1 \in DOMAIN l /\ j + 1 \in DOMAIN l /\ 1 \in DOMAIN l
          /\ Tail(l)[i] = l[i + 1] /\ Tail(l)[j] = l[j + 1]
      BY <1>4, <1>5, <1>6, <3>1
    <3>3. l[i + 1] # p /\ l[i + 1] \in Posts
      BY <1>1, <1>4, <3>1, <3>2 DEF Turns, l
    <3>4. /\ SessionOf[l[i + 1]] = s /\ phase[l[i + 1]] = "turn"
          /\ l[i + 1] = l[j + 1] => i + 1 = j + 1
      BY <1>1, <3>2 DEF Turns, l
    <3>5. phase'[l[i + 1]] = "turn"
      BY <1>1, <1>2, <3>3, <3>4
    <3> QED BY <2>1, <3>1, <3>2, <3>4, <3>5
  <2>2. CASE t # s
    <3>1. line'[t] = line[t]
      BY <1>1, <1>2, <2>2
    <3>2. line[t][i] \in Posts /\ line[t][i] # p
      BY <1>1, <3>1, <2>2, <1>6 DEF Turns
    <3> QED BY <1>1, <1>2, <3>1, <3>2, <1>6 DEF Turns
  <2> QED BY <2>1, <2>2
<1>7. ASSUME NEW q \in Posts
      PROVE  /\ phase'[q] = "turn" => q \in ToSet(line'[SessionOf[q]])
             /\ todo[q] # <<>> \/ flying[q] # {} =>
                  phase'[q] = "turn" /\ Head(line'[SessionOf[q]]) = q
  <2>1. SessionOf[q] \in Sessions
    BY PostFacts
  <2>2. CASE SessionOf[q] = s
    <3>1. line'[SessionOf[q]] = Tail(l)
      BY <1>1, <1>2, <2>2
    <3>2. phase'[q] = "turn" => q # p /\ phase[q] = "turn"
      BY <1>1, <1>2
    <3>3. ASSUME phase'[q] = "turn"
          PROVE  q \in ToSet(Tail(l))
      <4>1. PICK i \in DOMAIN l : q = l[i]
        BY <1>1, <2>2, <3>2, <3>3 DEF Turns, ToSet, l
      <4>2. i # 1 /\ i \in 1..Len(l)
        BY <1>4, <3>2, <3>3, <4>1
      <4>3. i - 1 \in DOMAIN Tail(l) /\ Tail(l)[i - 1] = q
        BY <1>4, <4>1, <4>2
      <4> QED BY <4>3 DEF ToSet
    <3>4. todo[q] = <<>> /\ flying[q] = {}
      BY <1>1, <1>2, <2>2, OneSpeaks DEF HasLock, l
    <3> QED BY <3>1, <3>3, <3>4
  <2>3. CASE SessionOf[q] # s
    <3>1. line'[SessionOf[q]] = line[SessionOf[q]] /\ q # p
      BY <1>1, <1>2, <2>1, <2>3
    <3> QED BY <1>1, <1>2, <3>1 DEF Turns
  <2> QED BY <2>2, <2>3
<1> QED BY <1>2, <1>6, <1>7 DEF Turns

LEMMA TurnsPreserved ==
  ASSUME WorldIInv, [Next]_vars
  PROVE  Turns'
<1>1. /\ Turns /\ phase \in [Posts -> {"unsent", "turn", "replying", "done", "lost"}]
      /\ todo \in [Posts -> Seq(Calls)] /\ flying \in [Posts -> SUBSET [call : Calls, sent : Seq(Rows)]]
  BY DEF WorldIInv, TypeOK
<1>2. ASSUME NEW p \in Posts, AgentCalls(p)
      PROVE  Turns'
  <2>1. /\ UNCHANGED <<line, phase, flying>> /\ phase[p] = "turn" /\ Head(line[SessionOf[p]]) = p
        /\ \A q \in Posts \ {p} : todo'[q] = todo[q]
    BY <1>1, <1>2 DEF AgentCalls, Thinking, HasLock
  <2> QED BY <1>1, <2>1 DEF Turns, ToSet
<1>3. ASSUME NEW p \in Posts, BatchStarts(p)
      PROVE  Turns'
  <2>1. /\ UNCHANGED <<line, phase>> /\ todo[p] # <<>>
        /\ \A q \in Posts \ {p} : todo'[q] = todo[q] /\ flying'[q] = flying[q]
    BY <1>1, <1>3 DEF BatchStarts
  <2> QED BY <1>1, <2>1 DEF Turns, ToSet
<1>4. ASSUME NEW p \in Posts, NEW x \in flying[p], Returns(p, x)
      PROVE  Turns'
  <2>1. /\ UNCHANGED <<line, phase, todo>> /\ flying[p] # {}
        /\ \A q \in Posts \ {p} : flying'[q] = flying[q]
    BY <1>1, <1>4 DEF Returns
  <2> QED BY <1>1, <2>1 DEF Turns, ToSet
<1>5. ASSUME NEW p \in Posts, ReplyShown(p)
      PROVE  Turns'
  <2>1. /\ UNCHANGED <<line, todo, flying>> /\ phase[p] = "replying"
        /\ \A q \in Posts \ {p} : phase'[q] = phase[q]
        /\ phase'[p] = "done"
    BY <1>1, <1>5 DEF ReplyShown
  <2>2. \A s \in Sessions : \A i \in DOMAIN line[s] : line[s][i] \in Posts
    BY DEF WorldIInv, TypeOK
  <2> QED BY <1>1, <2>1, <2>2 DEF Turns, ToSet
<1>6. ASSUME Crash
      PROVE  Turns'
  BY <1>1, <1>6, WorldAssumption DEF Turns, Crash
<1>7. CASE UNCHANGED vars
  BY <1>1, <1>7 DEF vars, Turns
<1> QED BY <1>2, <1>3, <1>4, <1>5, <1>6, <1>7, TurnsPosted, TurnsPassed
        DEF Next, AgentStep, DemonStep, DemonReplies, DemonFails, SaveFails
-----------------------------------------------------------------------------
(* A step that leaves the worlds alone.                                    *)
Quiet == UNCHANGED <<history, todo, flying, calls, safe, solo, owner>>

LEMMA QuietSteps ==
  ASSUME NEW p \in Posts, Post(p) \/ AgentAnswers(p) \/ ReplyShown(p)
  PROVE  Quiet
BY DEF Quiet, Post, AgentAnswers, ReplyShown

(* What has been asked has an owner, and a number that is not new.         *)
LEMMA AskedFacts ==
  ASSUME WorldIInv, NEW h \in Seq(Rows), NEW s \in Sessions,
         \A row \in ToSet(h) : row.kind # "system" => owner[row.of] = s
  PROVE  \A row \in ToSet(h) : row.kind # "system" => row.of \in Calls /\ row.of <= calls
<1> SUFFICES ASSUME NEW row \in ToSet(h), row.kind # "system"
             PROVE  row.of \in Calls /\ row.of <= calls
  OBVIOUS
<1>1. row \in Rows
  BY ToSetFacts
<1>2. row.of \in Calls
  BY <1>1 DEF Rows, System, User, Assistant
<1>3. owner[row.of] # None
  BY WorldAssumption
<1>4. row.of \in Nat /\ calls \in Nat
  BY <1>2, CallNumbers, WorldAssumption DEF WorldIInv, TypeOK
<1> QED BY <1>2, <1>3, <1>4 DEF WorldIInv, Numbered

LEMMA HistoryAsked ==
  ASSUME WorldIInv, NEW s \in Sessions
  PROVE  \A row \in ToSet(history[s]) : row.kind # "system" =>
           /\ row.of \in Nat /\ row.of <= calls
           /\ history[s] # Torn => row.of \in Calls /\ owner[row.of] = s
<1>1. calls \in Nat
  BY WorldAssumption DEF WorldIInv, TypeOK
<1>2. CASE history[s] = Torn
  <2>1. \A row \in ToSet(history[s]) : row.of = 0
    BY <1>2 DEF Torn, ToSet
  <2> QED BY <1>1, <1>2, <2>1
<1>3. CASE history[s] # Torn
  <2>1. history[s] \in Seq(Rows)
    BY <1>3 DEF WorldIInv, TypeOK
  <2>2. \A row \in ToSet(history[s]) : row.kind # "system" => owner[row.of] = s
    BY <1>3 DEF WorldIInv, WorldsIsolated
  <2> QED BY <2>1, <2>2, AskedFacts, CallNumbers
<1> QED BY <1>2, <1>3

LEMMA FlyingAsked ==
  ASSUME WorldIInv, NEW p \in Posts, NEW x \in flying[p]
  PROVE  /\ \A row \in ToSet(x.sent) : row.kind # "system" =>
              row.of \in Calls /\ row.of \in Nat /\ row.of <= calls /\ owner[row.of] = SessionOf[p]
         /\ x.call \in Calls /\ x.call <= calls /\ owner[x.call] = SessionOf[p]
<1>1. x.sent \in Seq(Rows) /\ User(x.call) \in ToSet(x.sent) /\ x.call \in Calls
  BY AnsweredFacts
<1>2. \A row \in ToSet(x.sent) : row.kind # "system" => owner[row.of] = SessionOf[p]
  BY DEF WorldIInv, WorldsIsolated
<1>3. User(x.call).kind # "system" /\ User(x.call).of = x.call
  BY <1>1, RowFacts
<1> QED BY <1>1, <1>2, <1>3, PostFacts, AskedFacts, CallNumbers

(* A replies: what it calls is new.                                        *)
LEMMA NewCalls ==
  ASSUME WorldIInv, NEW p \in Posts, AgentCalls(p)
  PROVE  /\ UNCHANGED <<history, flying, solo>> /\ todo[p] = <<>> /\ flying[p] = {}
         /\ calls \in Nat /\ calls' \in Nat /\ calls <= calls'
         /\ \A q \in Posts \ {p} : todo'[q] = todo[q]
         /\ \A i \in DOMAIN todo'[p] : /\ i \in Nat /\ todo'[p][i] = calls + i /\ todo'[p][i] \in Calls
                                       /\ i >= 1 /\ calls + i <= calls' /\ owner'[calls + i] = SessionOf[p]
         /\ \A n \in Calls : n <= calls \/ n > calls' => owner'[n] = owner[n]
         /\ \A n \in Calls : n > calls /\ n <= calls' => owner'[n] = SessionOf[p]
         /\ safe \subseteq safe' /\ safe' \subseteq 1..calls'
         /\ solo \subseteq 1..calls
<1>1. PICK size \in 1..MaxReply : \E kind \in [1..size -> Kinds] :
        /\ calls + size <= MaxCalls
        /\ calls' = calls + size
        /\ todo' = [todo EXCEPT ![p] = [i \in 1..size |-> calls + i]]
        /\ safe' = safe \cup {calls + i : i \in {i \in 1..size : kind[i] = "read"}}
        /\ owner' = [n \in Calls |-> IF n \in calls + 1..calls + size
                                     THEN SessionOf[p] ELSE owner[n]]
  BY DEF AgentCalls
<1>2. calls \in Nat /\ size \in Nat /\ MaxCalls \in Nat
  BY WorldAssumption DEF WorldIInv, TypeOK
<1>3. todo'[p] = [i \in 1..size |-> calls + i] /\ \A q \in Posts \ {p} : todo'[q] = todo[q]
  BY <1>1 DEF WorldIInv, TypeOK
<1>4. safe \cup solo \subseteq 1..calls
  BY DEF WorldIInv, Numbered
<1>5. \A i \in 1..size : calls + i \in Calls
  BY <1>1, <1>2 DEF Calls
<1>6. \A n \in Calls : n \in Nat
  BY CallNumbers
<1>7. safe \subseteq safe' /\ safe' \subseteq 1..calls'
  BY <1>1, <1>2, <1>4
<1>8. /\ \A n \in Calls : n <= calls \/ n > calls' => owner'[n] = owner[n]
      /\ \A n \in Calls : n > calls /\ n <= calls' => owner'[n] = SessionOf[p]
  BY <1>1, <1>2, <1>6
<1>9. \A i \in DOMAIN todo'[p] : /\ i \in Nat /\ todo'[p][i] = calls + i /\ todo'[p][i] \in Calls
                                 /\ i >= 1 /\ calls + i <= calls' /\ owner'[calls + i] = SessionOf[p]
  <2> SUFFICES ASSUME NEW i \in 1..size
               PROVE  /\ i \in Nat /\ todo'[p][i] = calls + i /\ calls + i \in Calls
                      /\ i >= 1 /\ calls + i <= calls' /\ owner'[calls + i] = SessionOf[p]
    BY <1>3
  <2>1. i \in Nat /\ i >= 1 /\ todo'[p][i] = calls + i /\ calls + i \in Calls
    BY <1>2, <1>3, <1>5
  <2>2. calls + i > calls /\ calls + i <= calls'
    BY <1>1, <1>2, <2>1
  <2> QED BY <1>8, <2>1, <2>2
<1>10. UNCHANGED <<history, flying, solo>> /\ todo[p] = <<>> /\ flying[p] = {}
  BY DEF AgentCalls, Thinking
<1>11. calls' \in Nat /\ calls <= calls'
  BY <1>1, <1>2
<1> QED BY <1>2, <1>3, <1>4, <1>7, <1>8, <1>9, <1>10, <1>11

(* A batch starts: the next calls leave the list, and are in flight.       *)
LEMMA StartedCalls ==
  ASSUME WorldIInv, NEW p \in Posts, BatchStarts(p)
  PROVE  /\ UNCHANGED <<history, calls, safe, owner>> /\ todo[p] # <<>> /\ flying[p] = {}
         /\ \A q \in Posts \ {p} : todo'[q] = todo[q] /\ flying'[q] = flying[q]
         /\ \E k \in Nat \ {0}, l \in Laws :
              /\ 1..k \subseteq DOMAIN todo[p]
              /\ todo'[p] \in Seq(Calls)
              /\ \A i \in DOMAIN todo'[p] : /\ i \in Nat \ {0} /\ k + i \in DOMAIN todo[p]
                                            /\ todo'[p][i] = todo[p][k + i]
              /\ solo' = IF k = 1 THEN solo \cup {todo[p][1]} ELSE solo
              /\ k # 1 => \A i \in 1..k : todo[p][i] \in safe
              /\ \A x \in flying'[p] :
                   /\ \E i \in 1..k : x.call = todo[p][i]
                   /\ x = [call |-> x.call, sent |-> x.sent]
                   /\ x.sent = Append(Opened(SessionOf[p], l), User(x.call))
<1> DEFINE q == todo[p]
           asked(n, l) == [call |-> n, sent |-> Append(Opened(SessionOf[p], l), User(n))]
<1>1. q \in Seq(Calls) /\ todo \in [Posts -> Seq(Calls)]
      /\ flying \in [Posts -> SUBSET [call : Calls, sent : Seq(Rows)]]
  BY DEF WorldIInv, TypeOK
<1>2. PICK k \in DOMAIN q, l \in Laws :
        /\ IsBatch(q, k)
        /\ todo' = [todo EXCEPT ![p] = SubSeq(q, k + 1, Len(q))]
        /\ flying' = [flying EXCEPT ![p] = {asked(n, l) : n \in {q[i] : i \in 1..k}}]
        /\ solo' = IF k = 1 THEN solo \cup {q[i] : i \in 1..k} ELSE solo
  BY DEF BatchStarts, Session
<1>3. k \in Nat \ {0} /\ 1..k \subseteq DOMAIN q /\ DOMAIN q = 1..Len(q) /\ Len(q) \in Nat /\ k <= Len(q)
  BY <1>1, <1>2
<1>4. q # <<>>
  BY <1>1, <1>3
<1> DEFINE t == SubSeq(q, k + 1, Len(q))
<1>5. t \in Seq(Calls) /\ DOMAIN t = 1..Len(q) - k /\ \A i \in 1..Len(q) - k : t[i] = q[k + i]
  BY <1>1, <1>3
<1>6. todo'[p] = t /\ flying'[p] = {asked(n, l) : n \in {q[i] : i \in 1..k}}
  BY <1>1, <1>2
<1> HIDE DEF t
<1>7. /\ todo'[p] \in Seq(Calls)
      /\ \A i \in DOMAIN todo'[p] : i \in Nat \ {0} /\ k + i \in DOMAIN q /\ todo'[p][i] = q[k + i]
  BY <1>3, <1>5, <1>6
<1>8. solo' = IF k = 1 THEN solo \cup {q[1]} ELSE solo
  <2>1. k = 1 => {q[i] : i \in 1..k} = {q[1]}
    OBVIOUS
  <2> QED BY <1>2, <2>1
<1>9. k # 1 => \A i \in 1..k : q[i] \in safe
  BY <1>2 DEF IsBatch, Batchable
<1>10. \A x \in flying'[p] : /\ \E i \in 1..k : x.call = q[i]
                             /\ x = [call |-> x.call, sent |-> x.sent]
                             /\ x.sent = Append(Opened(SessionOf[p], l), User(x.call))
  BY <1>6
<1>11. \A r \in Posts \ {p} : todo'[r] = todo[r] /\ flying'[r] = flying[r]
  BY <1>1, <1>2
<1> HIDE DEF q
<1>12. UNCHANGED <<history, calls, safe, owner>> /\ flying[p] = {}
  BY DEF BatchStarts
<1> QED BY <1>3, <1>4, <1>7, <1>8, <1>9, <1>10, <1>11, <1>12 DEF q

(* Its requests are sent with the same history.                            *)
LEMMA RequestFacts ==
  ASSUME WorldIInv, NEW p \in Posts, BatchStarts(p)
  PROVE  \E o \in Seq(Rows) :
           /\ history[SessionOf[p]] \notin {Torn, <<>>} => o = history[SessionOf[p]]
           /\ \A x \in flying'[p] :
                /\ x.call \in Calls /\ \E i \in DOMAIN todo[p] : x.call = todo[p][i]
                /\ x.sent \in Seq(Rows) /\ x.sent # <<>> /\ Last(x.sent) = User(x.call)
                /\ Paired(x.sent) /\ Len(x.sent) % 2 = 0
                /\ Len(x.sent) = Len(o) + 1 /\ \A i \in 1..Len(x.sent) - 1 : x.sent[i] = o[i]
                /\ \A row \in ToSet(x.sent) : row.kind # "system" =>
                     \/ row = User(x.call)
                     \/ history[SessionOf[p]] # Torn /\ row \in ToSet(history[SessionOf[p]])
<1>1. PICK k \in Nat \ {0}, l \in Laws :
        /\ 1..k \subseteq DOMAIN todo[p]
        /\ \A x \in flying'[p] :
             /\ \E i \in 1..k : x.call = todo[p][i]
             /\ x.sent = Append(Opened(SessionOf[p], l), User(x.call))
  BY StartedCalls
<1> DEFINE s == SessionOf[p]
           o == Opened(s, l)
<1>2. s \in Sessions
  BY PostFacts
<1> HIDE DEF s
<1>3. o \in Seq(Rows) /\ (history[s] \notin {Torn, <<>>} => o = history[s])
  BY <1>2, OpenedFacts
<1>4. ASSUME NEW x \in flying'[p]
      PROVE  /\ x.call \in Calls /\ \E i \in DOMAIN todo[p] : x.call = todo[p][i]
             /\ x.sent \in Seq(Rows) /\ x.sent # <<>> /\ Last(x.sent) = User(x.call)
             /\ Paired(x.sent) /\ Len(x.sent) % 2 = 0
             /\ Len(x.sent) = Len(o) + 1 /\ \A i \in 1..Len(x.sent) - 1 : x.sent[i] = o[i]
             /\ \A row \in ToSet(x.sent) : row.kind # "system" =>
                  \/ row = User(x.call)
                  \/ history[s] # Torn /\ row \in ToSet(history[s])
  <2>1. x.call \in Calls /\ \E i \in DOMAIN todo[p] : x.call = todo[p][i]
    BY <1>1, PostFacts
  <2> DEFINE n == x.call
  <2>2. s \in Sessions /\ n \in Calls /\ x.sent = Append(Opened(s, l), User(n))
    BY <1>1, <1>2, <2>1 DEF s
  <2> HIDE DEF n
  <2>3. /\ x.sent \in Seq(Rows) /\ x.sent # <<>> /\ Last(x.sent) = User(n)
        /\ Paired(x.sent) /\ Len(x.sent) % 2 = 0
        /\ Len(x.sent) = Len(Opened(s, l)) + 1
        /\ \A i \in 1..Len(x.sent) - 1 : x.sent[i] = Opened(s, l)[i]
        /\ \A row \in ToSet(x.sent) : row.kind # "system" =>
             row = User(n) \/ (history[s] # Torn /\ row \in ToSet(history[s]))
    BY <2>2, SentFacts
  <2> QED BY <2>1, <2>3 DEF n
<1> HIDE DEF o
<1> QED BY <1>3, <1>4 DEF s

(* A request returns: it is not in flight any more, and of the files only  *)
(* that of its session may have changed.                                   *)
LEMMA ReturnedCalls ==
  ASSUME WorldIInv, NEW p \in Posts, NEW x \in flying[p],
         DemonReplies(p, x) \/ DemonFails(p, x) \/ SaveFails(p, x)
  PROVE  /\ UNCHANGED <<todo, calls, safe, solo, owner>>
         /\ flying'[p] = flying[p] \ {x} /\ \A q \in Posts \ {p} : flying'[q] = flying[q]
         /\ \A s \in Sessions \ {SessionOf[p]} : history'[s] = history[s]
         /\ history'[SessionOf[p]] \in {history[SessionOf[p]], Torn, Answered(x)}
<1>1. /\ flying \in [Posts -> SUBSET [call : Calls, sent : Seq(Rows)]]
      /\ history \in [Sessions -> {Torn} \cup Seq(Rows)] /\ SessionOf[p] \in Sessions
  BY PostFacts DEF WorldIInv, TypeOK
<1> QED BY <1>1 DEF DemonReplies, DemonFails, SaveFails, Returns, Session
-----------------------------------------------------------------------------
(* Calls keep their numbers, their owners and their order.                 *)
LEMMA NumberedAfterCalls ==
  ASSUME WorldIInv, NEW p \in Posts, AgentCalls(p)
  PROVE  Numbered'
<1>1. Numbered /\ calls \in Nat
  BY NewCalls DEF WorldIInv
<1>2. (safe \cup solo \subseteq 1..calls)'
  <2>1. solo' \subseteq 1..calls' /\ safe' \subseteq 1..calls'
    BY NewCalls
  <2> QED BY <2>1
<1>3. ASSUME NEW n \in Calls
      PROVE  owner'[n] = None <=> n > calls'
  <2>1. n \in Nat /\ SessionOf[p] # None
    BY CallNumbers, WorldAssumption
  <2>2. CASE n <= calls \/ n > calls'
    BY <1>1, <2>1, <2>2, NewCalls DEF Numbered
  <2>3. CASE n > calls /\ n <= calls'
    <3>1. owner'[n] = SessionOf[p]
      BY <2>3, NewCalls
    <3>2. ~(n > calls')
      BY <2>1, <2>3, NewCalls
    <3> QED BY <2>1, <3>1, <3>2
  <2> QED BY <2>1, <2>2, <2>3, <1>1, NewCalls
<1>4. ASSUME NEW i \in DOMAIN todo'[p]
      PROVE  /\ owner'[todo'[p][i]] = SessionOf[p] /\ todo'[p][i] \notin solo'
             /\ \A j \in 1..i - 1 : todo'[p][j] < todo'[p][i]
             /\ AskedBefore(history'[SessionOf[p]], todo'[p][i])
             /\ \A x \in flying'[p] : AskedBefore(x.sent, todo'[p][i])
  <2>1. i \in Nat /\ i >= 1 /\ todo'[p][i] = calls + i /\ owner'[todo'[p][i]] = SessionOf[p]
    BY NewCalls
  <2>2. todo'[p][i] \notin solo'
    <3>1. \A n \in solo' : n <= calls
      BY NewCalls
    <3> QED BY <1>1, <2>1, <3>1
  <2>3. ASSUME NEW j \in 1..i - 1
        PROVE  todo'[p][j] < todo'[p][i]
    <3>1. DOMAIN todo'[p] = 1..Len(todo'[p]) /\ Len(todo'[p]) \in Nat
      BY WorldTypes DEF TypeOK, Next, AgentStep
    <3>2. j \in DOMAIN todo'[p] /\ j \in Nat
      BY <2>1, <3>1
    <3>3. todo'[p][j] = calls + j
      BY <3>2, NewCalls
    <3> QED BY <1>1, <2>1, <2>3, <3>2, <3>3
  <2>4. AskedBefore(history'[SessionOf[p]], todo'[p][i])
    <3>1. history' = history /\ SessionOf[p] \in Sessions
      BY NewCalls, PostFacts
    <3>2. \A row \in ToSet(history[SessionOf[p]]) : row.kind # "system" => row.of \in Nat /\ row.of <= calls
      BY <3>1, HistoryAsked
    <3> QED BY <1>1, <2>1, <3>1, <3>2 DEF AskedBefore
  <2>5. flying'[p] = {}
    BY NewCalls
  <2> QED BY <2>1, <2>2, <2>3, <2>4, <2>5
<1>5. ASSUME NEW q \in Posts, q # p, NEW i \in DOMAIN todo'[q]
      PROVE  /\ owner'[todo'[q][i]] = SessionOf[q] /\ todo'[q][i] \notin solo'
             /\ \A j \in 1..i - 1 : todo'[q][j] < todo'[q][i]
             /\ AskedBefore(history'[SessionOf[q]], todo'[q][i])
             /\ \A x \in flying'[q] : AskedBefore(x.sent, todo'[q][i])
  <2>1. todo'[q] = todo[q] /\ UNCHANGED <<history, flying, solo>>
    BY <1>5, NewCalls
  <2>2. todo[q][i] \in Calls
    BY <1>5, <2>1 DEF WorldIInv, TypeOK
  <2>3. owner[todo[q][i]] = SessionOf[q] /\ SessionOf[q] # None
    BY <1>1, <1>5, <2>1, WorldAssumption DEF Numbered
  <2>4. todo[q][i] <= calls
    BY <1>1, <2>2, <2>3, CallNumbers DEF Numbered
  <2>5. owner'[todo[q][i]] = SessionOf[q]
    BY <2>2, <2>3, <2>4, NewCalls
  <2> QED BY <1>1, <1>5, <2>1, <2>5 DEF Numbered
<1> QED BY <1>2, <1>3, <1>4, <1>5 DEF Numbered

LEMMA NumberedAfterBatch ==
  ASSUME WorldIInv, NEW p \in Posts, BatchStarts(p)
  PROVE  Numbered'
<1>1. Numbered /\ Turns /\ todo[p] \in Seq(Calls)
  BY PostFacts DEF WorldIInv
<1>2. PICK k \in Nat \ {0}, l \in Laws :
        /\ 1..k \subseteq DOMAIN todo[p]
        /\ \A i \in DOMAIN todo'[p] : /\ i \in Nat \ {0} /\ k + i \in DOMAIN todo[p]
                                      /\ todo'[p][i] = todo[p][k + i]
        /\ todo'[p] \in Seq(Calls)
        /\ solo' = IF k = 1 THEN solo \cup {todo[p][1]} ELSE solo
        /\ \A x \in flying'[p] :
             \E i \in 1..k : x.call = todo[p][i]
  BY StartedCalls
<1>3. UNCHANGED <<history, calls, safe, owner>> /\ todo[p] # <<>>
  BY StartedCalls
<1>4. /\ DOMAIN todo[p] = 1..Len(todo[p]) /\ Len(todo[p]) \in Nat /\ 1 \in DOMAIN todo[p]
      /\ \A i \in DOMAIN todo[p] : todo[p][i] \in Calls /\ todo[p][i] \in Nat
  BY <1>1, <1>3, CallNumbers
<1>5. \A i \in DOMAIN todo[p] : \A j \in 1..i - 1 : todo[p][j] < todo[p][i]
  BY <1>1 DEF Numbered
<1>6. (safe \cup solo \subseteq 1..calls)'
  <2>1. todo[p][1] \in 1..calls
    <3>1. owner[todo[p][1]] = SessionOf[p] /\ SessionOf[p] # None
      BY <1>1, <1>4, WorldAssumption DEF Numbered
    <3>2. calls \in Nat /\ todo[p][1] >= 1
      BY <1>4, CallNumbers, WorldAssumption DEF WorldIInv, TypeOK
    <3> QED BY <1>1, <1>4, <3>1, <3>2 DEF Numbered
  <2> QED BY <1>1, <1>2, <1>3, <2>1 DEF Numbered
<1>7. ASSUME NEW i \in DOMAIN todo'[p]
      PROVE  /\ owner[todo'[p][i]] = SessionOf[p] /\ todo'[p][i] \notin solo'
             /\ \A j \in 1..i - 1 : todo'[p][j] < todo'[p][i]
             /\ AskedBefore(history[SessionOf[p]], todo'[p][i])
             /\ \A x \in flying'[p] : AskedBefore(x.sent, todo'[p][i])
  <2>1. i \in Nat \ {0} /\ k + i \in DOMAIN todo[p] /\ todo'[p][i] = todo[p][k + i]
    BY <1>2
  <2>2. /\ owner[todo'[p][i]] = SessionOf[p] /\ todo'[p][i] \notin solo
        /\ AskedBefore(history[SessionOf[p]], todo'[p][i])
    BY <1>1, <2>1 DEF Numbered
  <2>3. ASSUME NEW j \in 1..k
        PROVE  todo[p][j] < todo'[p][i] /\ todo[p][j] \in Calls
    <3>1. j \in DOMAIN todo[p] /\ j \in 1..(k + i) - 1
      BY <1>2, <2>1
    <3> QED BY <1>4, <1>5, <2>1, <3>1
  <2>4. todo[p][1] # todo'[p][i]
    <3>1. 1 \in 1..k
      OBVIOUS
    <3>2. todo[p][1] < todo'[p][i]
      BY <2>3, <3>1
    <3> QED BY <1>4, <2>1, <3>2
  <2>5. todo'[p][i] \notin solo'
    BY <1>2, <2>2, <2>4
  <2>6. ASSUME NEW j \in 1..i - 1
        PROVE  todo'[p][j] < todo'[p][i]
    <3>1. DOMAIN todo'[p] = 1..Len(todo'[p]) /\ Len(todo'[p]) \in Nat
      BY <1>2
    <3>2. j \in DOMAIN todo'[p] /\ j \in Nat
      BY <2>1, <3>1
    <3>3. todo'[p][j] = todo[p][k + j]
      BY <1>2, <3>2
    <3>4. k + j \in 1..(k + i) - 1
      BY <2>1, <2>6, <3>2
    <3> QED BY <1>5, <2>1, <3>3, <3>4
  <2>7. ASSUME NEW x \in flying'[p]
        PROVE  AskedBefore(x.sent, todo'[p][i])
    <3>1. PICK j \in 1..k : x.call = todo[p][j]
      BY <1>2
    <3>2. x.call < todo'[p][i] /\ x.call \in Calls
      BY <2>3, <3>1
    <3>4. \A row \in ToSet(x.sent) : row.kind # "system" =>
            row = User(x.call) \/ (history[SessionOf[p]] # Torn /\ row \in ToSet(history[SessionOf[p]]))
      BY RequestFacts
    <3>5. User(x.call).of = x.call
      BY <3>2, RowFacts
    <3> QED BY <2>2, <3>2, <3>4, <3>5 DEF AskedBefore
  <2> QED BY <2>2, <2>5, <2>6, <2>7
<1>8. ASSUME NEW q \in Posts, q # p, NEW i \in DOMAIN todo'[q]
      PROVE  /\ owner[todo'[q][i]] = SessionOf[q] /\ todo'[q][i] \notin solo'
             /\ \A j \in 1..i - 1 : todo'[q][j] < todo'[q][i]
             /\ AskedBefore(history[SessionOf[q]], todo'[q][i])
             /\ \A x \in flying'[q] : AskedBefore(x.sent, todo'[q][i])
  <2>1. todo'[q] = todo[q] /\ flying'[q] = flying[q]
    BY <1>8, StartedCalls
  <2>2. todo[q] # <<>>
    BY <1>8, <2>1, PostFacts
  <2>3. SessionOf[q] # SessionOf[p]
    BY <1>1, <1>3, <1>8, <2>2, OneSpeaks
  <2>4. todo[q][i] # todo[p][1] /\ todo[q][i] \notin solo
    BY <1>1, <1>4, <1>8, <2>1, <2>3 DEF Numbered
  <2>5. todo[q][i] \notin solo'
    BY <1>2, <2>4
  <2> QED BY <1>1, <1>8, <2>1, <2>5 DEF Numbered
<1>9. \A n \in Calls : owner[n] = None <=> n > calls
  BY <1>1 DEF Numbered
<1> QED BY <1>3, <1>6, <1>7, <1>8, <1>9 DEF Numbered

LEMMA NumberedAfterReturn ==
  ASSUME WorldIInv, NEW p \in Posts, NEW x \in flying[p],
         DemonReplies(p, x) \/ DemonFails(p, x) \/ SaveFails(p, x)
  PROVE  Numbered'
<1>1. Numbered /\ Turns /\ UNCHANGED <<todo, calls, safe, solo, owner>>
  BY ReturnedCalls DEF WorldIInv
<1>2. ASSUME NEW q \in Posts, NEW i \in DOMAIN todo[q]
      PROVE  /\ AskedBefore(history'[SessionOf[q]], todo[q][i])
             /\ \A y \in flying'[q] : AskedBefore(y.sent, todo[q][i])
  <2>1. flying'[q] \subseteq flying[q]
    BY ReturnedCalls
  <2>2. AskedBefore(history[SessionOf[q]], todo[q][i])
    BY <1>1 DEF Numbered
  <2>3. CASE SessionOf[q] # SessionOf[p]
    <3>1. history'[SessionOf[q]] = history[SessionOf[q]]
      BY <2>3, ReturnedCalls, PostFacts
    <3> QED BY <1>1, <2>1, <2>2, <3>1 DEF Numbered
  <2>4. CASE SessionOf[q] = SessionOf[p]
    <3>1. todo[q] # <<>>
      BY PostFacts
    <3>2. q = p
      BY <1>1, <2>4, <3>1, OneSpeaks
    <3>3. AskedBefore(x.sent, todo[p][i]) /\ todo[p][i] \in Nat
      BY <1>1, <1>2, <3>2, PostFacts, CallNumbers DEF Numbered
    <3>4. AskedBefore(Torn, todo[p][i])
      <4>1. todo[p][i] >= 1
        BY <1>2, <3>2, PostFacts, CallNumbers
      <4> QED BY <3>3, <4>1 DEF AskedBefore, Torn, ToSet
    <3>5. AskedBefore(Answered(x), todo[p][i])
      <4>1. /\ User(x.call) \in ToSet(x.sent) /\ x.call \in Calls
            /\ ToSet(Answered(x)) = ToSet(x.sent) \cup {Assistant(x.call)}
        BY AnsweredFacts
      <4>2. User(x.call).of = x.call /\ Assistant(x.call).of = x.call /\ User(x.call).kind # "system"
        BY <4>1, RowFacts
      <4> QED BY <3>3, <4>1, <4>2 DEF AskedBefore
    <3>6. AskedBefore(history'[SessionOf[q]], todo[q][i])
      BY <2>2, <3>2, <3>4, <3>5, ReturnedCalls
    <3> QED BY <1>1, <2>1, <3>6 DEF Numbered
  <2> QED BY <2>3, <2>4
<1> QED BY <1>1, <1>2 DEF Numbered

LEMMA NumberedPreserved ==
  ASSUME WorldIInv, [Next]_vars
  PROVE  Numbered'
<1>1. Numbered
  BY DEF WorldIInv
<1>2. CASE Quiet
  BY <1>1, <1>2 DEF Quiet, Numbered, AskedBefore
<1>3. CASE Crash
  <2>1. UNCHANGED <<calls, safe, solo, owner>> /\ \A p \in Posts : todo'[p] = <<>>
    BY <1>3 DEF Crash
  <2> QED BY <1>1, <2>1 DEF Numbered
<1>4. CASE UNCHANGED vars
  BY <1>2, <1>4 DEF vars, Quiet
<1> QED BY <1>2, <1>3, <1>4, QuietSteps, NumberedAfterCalls, NumberedAfterBatch, NumberedAfterReturn
        DEF Next, AgentStep, DemonStep
-----------------------------------------------------------------------------
(* Worlds do not mix.                                                      *)
LEMMA IsolatedAfterCalls ==
  ASSUME WorldIInv, NEW p \in Posts, AgentCalls(p)
  PROVE  WorldsIsolated'
<1>1. UNCHANGED <<history, flying>> /\ calls \in Nat
  BY NewCalls
<1>2. \A n \in Calls : n <= calls => owner'[n] = owner[n]
  BY NewCalls
<1>3. ASSUME NEW s \in Sessions, history[s] # Torn, NEW row \in ToSet(history[s]), row.kind # "system"
      PROVE  owner'[row.of] = s
  BY <1>2, <1>3, HistoryAsked
<1>4. ASSUME NEW q \in Posts, NEW x \in flying[q], NEW row \in ToSet(x.sent), row.kind # "system"
      PROVE  owner'[row.of] = SessionOf[q]
  BY <1>2, <1>4, FlyingAsked
<1> QED BY <1>1, <1>3, <1>4 DEF WorldsIsolated

LEMMA IsolatedAfterBatch ==
  ASSUME WorldIInv, NEW p \in Posts, BatchStarts(p)
  PROVE  WorldsIsolated'
<1>2. UNCHANGED <<history, owner>> /\ \A q \in Posts \ {p} : flying'[q] = flying[q]
  BY StartedCalls
<1>3. ASSUME NEW x \in flying'[p], NEW row \in ToSet(x.sent), row.kind # "system"
      PROVE  owner[row.of] = SessionOf[p]
  <2>1. PICK i \in DOMAIN todo[p] : x.call = todo[p][i]
    BY RequestFacts
  <2>2. x.call \in Calls
    BY RequestFacts
  <2>3. owner[x.call] = SessionOf[p]
    BY <2>1, <2>2 DEF WorldIInv, Numbered
  <2>5. row = User(x.call) \/ (history[SessionOf[p]] # Torn /\ row \in ToSet(history[SessionOf[p]]))
    BY <1>3, RequestFacts
  <2>6. User(x.call).of = x.call
    BY <2>2, RowFacts
  <2>7. SessionOf[p] \in Sessions
    BY PostFacts
  <2> QED BY <1>3, <2>3, <2>5, <2>6, <2>7 DEF WorldIInv, WorldsIsolated
<1> QED BY <1>2, <1>3 DEF WorldIInv, WorldsIsolated

LEMMA IsolatedAfterReturn ==
  ASSUME WorldIInv, NEW p \in Posts, NEW x \in flying[p],
         DemonReplies(p, x) \/ DemonFails(p, x) \/ SaveFails(p, x)
  PROVE  WorldsIsolated'
<1>1. WorldsIsolated /\ owner' = owner /\ \A q \in Posts : flying'[q] \subseteq flying[q]
  BY ReturnedCalls DEF WorldIInv
<1>2. ASSUME NEW row \in ToSet(Answered(x)), row.kind # "system"
      PROVE  owner[row.of] = SessionOf[p]
  <2>1. ToSet(Answered(x)) = ToSet(x.sent) \cup {Assistant(x.call)}
    BY AnsweredFacts
  <2>2. x.call \in Calls /\ owner[x.call] = SessionOf[p] /\ Assistant(x.call).of = x.call
    BY FlyingAsked, RowFacts
  <2> QED BY <1>1, <1>2, <2>1, <2>2 DEF WorldsIsolated
<1>3. ASSUME NEW s \in Sessions, history'[s] # Torn, NEW row \in ToSet(history'[s]), row.kind # "system"
      PROVE  owner[row.of] = s
  <2>1. CASE history'[s] = history[s]
    BY <1>1, <1>3, <2>1 DEF WorldsIsolated
  <2>2. CASE s = SessionOf[p] /\ history'[s] = Answered(x)
    BY <1>2, <1>3, <2>2
  <2> QED BY <1>3, <2>1, <2>2, ReturnedCalls
<1> QED BY <1>1, <1>3 DEF WorldsIsolated

LEMMA IsolatedPreserved ==
  ASSUME WorldIInv, [Next]_vars
  PROVE  WorldsIsolated'
<1>1. WorldsIsolated
  BY DEF WorldIInv
<1>2. CASE Quiet
  BY <1>1, <1>2 DEF Quiet, WorldsIsolated
<1>3. CASE Crash
  <2>1. /\ owner' = owner /\ \A p \in Posts : flying'[p] = {}
        /\ \A s \in Sessions : history'[s] \in {history[s], Torn}
    BY <1>3 DEF Crash, WorldIInv, TypeOK
  <2> QED BY <1>1, <2>1 DEF WorldsIsolated
<1>4. CASE UNCHANGED vars
  BY <1>2, <1>4 DEF vars, Quiet
<1> QED BY <1>2, <1>3, <1>4, QuietSteps, IsolatedAfterCalls, IsolatedAfterBatch, IsolatedAfterReturn
        DEF Next, AgentStep, DemonStep

(* What B is sent and what is kept stay conversations.                     *)
LEMMA ConversationsPreserved ==
  ASSUME WorldIInv, [Next]_vars
  PROVE  Conversations'
<1>1. Conversations
  BY DEF WorldIInv
<1>2. CASE Quiet
  BY <1>1, <1>2 DEF Quiet, Conversations
<1>3. CASE Crash
  <2>1. /\ \A p \in Posts : flying'[p] = {}
        /\ \A s \in Sessions : history'[s] \in {history[s], Torn}
    BY <1>3 DEF Crash, WorldIInv, TypeOK
  <2> QED BY <1>1, <2>1 DEF Conversations
<1>4. CASE UNCHANGED vars
  BY <1>2, <1>4 DEF vars, Quiet
<1>5. ASSUME NEW p \in Posts, AgentCalls(p)
      PROVE  Conversations'
  <2>1. UNCHANGED <<history, flying>>
    BY <1>5, NewCalls
  <2> QED BY <1>1, <2>1 DEF Conversations
<1>6. ASSUME NEW p \in Posts, BatchStarts(p)
      PROVE  Conversations'
  <2>2. history' = history /\ \A q \in Posts \ {p} : flying'[q] = flying[q]
    BY <1>6, StartedCalls
  <2>3. ASSUME NEW x \in flying'[p]
        PROVE  Paired(x.sent) /\ Len(x.sent) % 2 = 0 /\ Last(x.sent) = User(x.call)
    BY <1>6, RequestFacts
  <2> QED BY <1>1, <2>2, <2>3 DEF Conversations
<1>7. ASSUME NEW p \in Posts, NEW x \in flying[p],
             DemonReplies(p, x) \/ DemonFails(p, x) \/ SaveFails(p, x)
      PROVE  Conversations'
  <2>1. /\ \A q \in Posts : flying'[q] \subseteq flying[q]
        /\ \A s \in Sessions : history'[s] \in {history[s], Torn, Answered(x)}
    BY <1>7, ReturnedCalls
  <2>2. Paired(Answered(x)) /\ Len(Answered(x)) % 2 = 1
    BY AnsweredFacts
  <2> QED BY <1>1, <2>1, <2>2 DEF Conversations
<1> QED BY <1>2, <1>3, <1>4, <1>5, <1>6, <1>7, QuietSteps DEF Next, AgentStep, DemonStep
-----------------------------------------------------------------------------
(* Requests in flight share what the file has of deeds.                    *)
LEMMA InFlightAfterCalls ==
  ASSUME WorldIInv, NEW p \in Posts, AgentCalls(p)
  PROVE  InFlight'
<1>1. UNCHANGED <<history, flying, solo>> /\ safe \subseteq safe' /\ InFlight
  BY NewCalls DEF WorldIInv
<1>2. \A row : Forgettable(row) => Forgettable(row)'
  BY <1>1 DEF Forgettable
<1>3. ASSUME NEW q \in Posts, NEW x \in flying[q], history[SessionOf[q]] # Torn
      PROVE  SentWith(history[SessionOf[q]], x)'
  <2> DEFINE h == history[SessionOf[q]]
  <2>1. SentWith(h, x) /\ h' = h
    BY <1>1, <1>3 DEF InFlight
  <2> HIDE DEF h
  <2>2. SentWith(h, x)'
    BY <1>2, <2>1 DEF SentWith
  <2> QED BY <2>2 DEF h
<1>4. ASSUME NEW q \in Posts, NEW x \in flying[q]
      PROVE  /\ x.sent # <<>>
             /\ \A y \in flying[q] \ {x} :
                  /\ x.call \in safe' \ solo' /\ Len(y.sent) = Len(x.sent)
                  /\ \A i \in 1..Len(x.sent) - 1 : y.sent[i] = x.sent[i]
  <2>1. /\ x.sent # <<>>
        /\ \A y \in flying[q] \ {x} :
             /\ x.call \in safe \ solo /\ Len(y.sent) = Len(x.sent)
             /\ \A i \in 1..Len(x.sent) - 1 : y.sent[i] = x.sent[i]
    BY <1>1 DEF InFlight
  <2>2. x.call \in safe \ solo => x.call \in safe' \ solo'
    BY <1>1
  <2> QED BY <2>1, <2>2
<1> QED BY <1>1, <1>3, <1>4 DEF InFlight

LEMMA InFlightAfterBatch ==
  ASSUME WorldIInv, NEW p \in Posts, BatchStarts(p)
  PROVE  InFlight'
<1>1. InFlight /\ Turns
  BY DEF WorldIInv
<1>2. PICK k \in Nat \ {0}, l \in Laws :
        /\ 1..k \subseteq DOMAIN todo[p]
        /\ solo' = IF k = 1 THEN solo \cup {todo[p][1]} ELSE solo
        /\ k # 1 => \A i \in 1..k : todo[p][i] \in safe
        /\ \A x \in flying'[p] :
             /\ \E i \in 1..k : x.call = todo[p][i]
             /\ x = [call |-> x.call, sent |-> x.sent]
             /\ x.sent = Append(Opened(SessionOf[p], l), User(x.call))
  BY StartedCalls
<1>3. /\ UNCHANGED <<history, safe>> /\ todo[p] # <<>>
      /\ \A q \in Posts \ {p} : flying'[q] = flying[q]
  BY StartedCalls
<1>4. PICK o \in Seq(Rows) :
        /\ history[SessionOf[p]] \notin {Torn, <<>>} => o = history[SessionOf[p]]
        /\ \A x \in flying'[p] :
             /\ x.call \in Calls /\ \E i \in DOMAIN todo[p] : x.call = todo[p][i]
             /\ x.sent \in Seq(Rows) /\ x.sent # <<>> /\ Last(x.sent) = User(x.call)
             /\ Paired(x.sent) /\ Len(x.sent) % 2 = 0
             /\ Len(x.sent) = Len(o) + 1 /\ \A i \in 1..Len(x.sent) - 1 : x.sent[i] = o[i]
             /\ \A row \in ToSet(x.sent) : row.kind # "system" =>
                  \/ row = User(x.call)
                  \/ history[SessionOf[p]] # Torn /\ row \in ToSet(history[SessionOf[p]])
  BY RequestFacts
<1>5. ASSUME NEW x \in flying'[p]
      PROVE  /\ x.sent # <<>>
             /\ history[SessionOf[p]] # Torn => SentWith(history[SessionOf[p]], x)'
             /\ \A y \in flying'[p] \ {x} :
                  /\ x.call \in safe \ solo' /\ Len(y.sent) = Len(x.sent)
                  /\ \A i \in 1..Len(x.sent) - 1 : y.sent[i] = x.sent[i]
  <2> Len(o) \in Nat
    OBVIOUS
  <2>1. /\ x.sent # <<>> /\ Len(x.sent) = Len(o) + 1
        /\ \A i \in 1..Len(x.sent) - 1 : x.sent[i] = o[i]
    BY <1>4
  <2>2. SentWith(o, x)'
    <3>1. Len(x.sent)..Len(o) = {}
      BY <2>1
    <3> QED BY <2>1, <3>1 DEF SentWith
  <2>3. history[SessionOf[p]] # Torn => SentWith(history[SessionOf[p]], x)'
    <3>1. CASE history[SessionOf[p]] = <<>>
      BY <1>3, <3>1 DEF SentWith
    <3>2. CASE history[SessionOf[p]] \notin {Torn, <<>>}
      BY <1>3, <1>4, <2>2, <3>2 DEF SentWith
    <3> QED BY <3>1, <3>2
  <2>4. ASSUME NEW y \in flying'[p] \ {x}
        PROVE  /\ x.call \in safe \ solo' /\ Len(y.sent) = Len(x.sent)
               /\ \A i \in 1..Len(x.sent) - 1 : y.sent[i] = x.sent[i]
    <3>1. PICK i \in 1..k : x.call = todo[p][i]
      BY <1>2
    <3>2. k # 1
      <4>1. SUFFICES ASSUME k = 1 PROVE FALSE
        OBVIOUS
      <4>2. x.call = todo[p][1] /\ y.call = todo[p][1]
        BY <1>2, <4>1
      <4>3. x.call = y.call
        BY <4>2
      <4>4. x.sent = y.sent
        BY <1>2, <4>3
      <4>5. x = [call |-> x.call, sent |-> x.sent] /\ y = [call |-> y.call, sent |-> y.sent]
        BY <1>2
      <4>6. x = y
        BY <4>3, <4>4, <4>5
      <4> QED BY <4>6
    <3>3. x.call \in safe /\ solo' = solo
      BY <1>2, <3>1, <3>2
    <3>4. todo[p][i] \notin solo
      BY <1>2 DEF WorldIInv, Numbered
    <3>5. Len(y.sent) = Len(x.sent) /\ \A j \in 1..Len(x.sent) - 1 : y.sent[j] = x.sent[j]
      BY <1>4, <2>1
    <3> QED BY <3>1, <3>3, <3>4, <3>5
  <2> QED BY <2>1, <2>3, <2>4
<1>6. ASSUME NEW q \in Posts, q # p, NEW x \in flying[q]
      PROVE  /\ history[SessionOf[q]] # Torn => SentWith(history[SessionOf[q]], x)'
             /\ x.call \in safe \ solo => x.call \in safe \ solo'
  <2>1. SessionOf[q] # SessionOf[p]
    BY <1>1, <1>3, <1>6, OneSpeaks
  <2>2. 1 \in DOMAIN todo[p] /\ owner[todo[p][1]] = SessionOf[p]
    <3>1. 1 \in DOMAIN todo[p]
      BY <1>2
    <3> QED BY <3>1 DEF WorldIInv, Numbered
  <2>3. x.call # todo[p][1]
    BY <2>1, <2>2, FlyingAsked
  <2>4. ASSUME history[SessionOf[q]] # Torn, NEW row \in ToSet(history[SessionOf[q]]), Forgettable(row)
        PROVE  Forgettable(row)'
    <3>1. row.of # todo[p][1]
      BY <2>1, <2>2, <2>4, HistoryAsked, PostFacts DEF Forgettable
    <3> QED BY <1>2, <1>3, <2>4, <3>1 DEF Forgettable
  <2>5. ASSUME history[SessionOf[q]] # Torn
        PROVE  SentWith(history[SessionOf[q]], x)'
    <3> DEFINE h == history[SessionOf[q]]
    <3>1. SentWith(h, x) /\ h \in Seq(Rows)
      BY <1>1, <2>5, PostFacts DEF InFlight
    <3>2. Len(x.sent) \in Nat \ {0}
      BY FlyingAsked, AnsweredFacts
    <3>3. \A i \in Len(x.sent)..Len(h) : i \in DOMAIN h /\ h[i] \in ToSet(h)
      BY <3>1, <3>2 DEF ToSet
    <3> HIDE DEF h
    <3>4. h' = h
      BY <1>3 DEF h
    <3>5. \A i \in Len(x.sent)..Len(h) : Forgettable(h[i]) => Forgettable(h[i])'
      BY <2>4, <2>5, <3>3, <3>4 DEF h
    <3>6. SentWith(h, x)'
      BY <3>1, <3>4, <3>5 DEF SentWith
    <3> QED BY <3>6 DEF h
  <2>6. x.call \in safe \ solo => x.call \in safe \ solo'
    BY <1>2, <2>3
  <2> QED BY <2>5, <2>6
<1> QED BY <1>1, <1>3, <1>5, <1>6 DEF InFlight

LEMMA InFlightAfterReturn ==
  ASSUME WorldIInv, NEW p \in Posts, NEW x \in flying[p],
         DemonReplies(p, x) \/ DemonFails(p, x) \/ SaveFails(p, x)
  PROVE  InFlight'
<1>1. /\ InFlight /\ Turns /\ UNCHANGED <<safe, solo>>
      /\ \A q \in Posts : flying'[q] \subseteq flying[q]
      /\ flying'[p] = flying[p] \ {x}
  BY ReturnedCalls DEF WorldIInv
<1>2. \A row : Forgettable(row) <=> Forgettable(row)'
  BY <1>1 DEF Forgettable
<1>3. ASSUME NEW q \in Posts, NEW y \in flying'[q], history'[SessionOf[q]] # Torn
      PROVE  SentWith(history'[SessionOf[q]], y)
  <2>1. y \in flying[q] /\ SessionOf[q] \in Sessions
    BY <1>1, PostFacts
  <2>2. CASE history'[SessionOf[q]] = history[SessionOf[q]]
    BY <1>1, <1>3, <2>1, <2>2 DEF InFlight
  <2>3. CASE SessionOf[q] = SessionOf[p] /\ history'[SessionOf[q]] = Answered(x)
    <3>1. q = p /\ y \in flying[p] \ {x}
      BY <1>1, <1>3, <2>1, <2>3, OneSpeaks
    <3>2. /\ x.call \in safe \ solo /\ Len(y.sent) = Len(x.sent)
          /\ \A i \in 1..Len(x.sent) - 1 : y.sent[i] = x.sent[i]
      BY <1>1, <3>1 DEF InFlight
    <3>3. /\ Len(x.sent) \in Nat \ {0} /\ x.sent[Len(x.sent)] = User(x.call) /\ x.call \in Calls
          /\ Len(Answered(x)) = Len(x.sent) + 1
          /\ \A i \in 1..Len(x.sent) : Answered(x)[i] = x.sent[i]
          /\ Answered(x)[Len(x.sent) + 1] = Assistant(x.call)
      BY AnsweredFacts
    <3>4. Forgettable(User(x.call)) /\ Forgettable(Assistant(x.call))
      BY <3>2, <3>3, RowFacts DEF Forgettable
    <3>5. \A i \in Len(y.sent)..Len(Answered(x)) : i = Len(x.sent) \/ i = Len(x.sent) + 1
      BY <3>2, <3>3
    <3>6. \A i \in Len(y.sent)..Len(Answered(x)) : Forgettable(Answered(x)[i])
      BY <3>3, <3>4, <3>5
    <3>7. \A i \in 1..Len(y.sent) - 1 : Answered(x)[i] = y.sent[i]
      BY <3>2, <3>3
    <3> QED BY <2>3, <3>2, <3>3, <3>6, <3>7 DEF SentWith
  <2> QED BY <1>3, <2>1, <2>2, <2>3, ReturnedCalls
<1>4. ASSUME NEW q \in Posts, NEW y \in flying'[q], history'[SessionOf[q]] # Torn
      PROVE  SentWith(history[SessionOf[q]], y)'
  BY <1>2, <1>3, <1>4 DEF SentWith
<1>5. ASSUME NEW q \in Posts, NEW y \in flying'[q]
      PROVE  /\ y.sent # <<>>
             /\ \A z \in flying'[q] \ {y} :
                  /\ y.call \in safe \ solo /\ Len(z.sent) = Len(y.sent)
                  /\ \A i \in 1..Len(y.sent) - 1 : z.sent[i] = y.sent[i]
  BY <1>1 DEF InFlight
<1> QED BY <1>1, <1>4, <1>5 DEF InFlight

LEMMA InFlightPreserved ==
  ASSUME WorldIInv, [Next]_vars
  PROVE  InFlight'
<1>1. InFlight
  BY DEF WorldIInv
<1>2. CASE Quiet
  BY <1>1, <1>2 DEF Quiet, InFlight, SentWith, Forgettable
<1>3. CASE Crash
  BY <1>3 DEF Crash, InFlight
<1>4. CASE UNCHANGED vars
  BY <1>2, <1>4 DEF vars, Quiet
<1> QED BY <1>2, <1>3, <1>4, QuietSteps, InFlightAfterCalls, InFlightAfterBatch, InFlightAfterReturn
        DEF Next, AgentStep, DemonStep
-----------------------------------------------------------------------------
(* The inductive invariant: one post of a session at a time talks to B,    *)
(* calls are asked in the order of their numbers, and requests in flight   *)
(* together are reads that share a history.                                *)
THEOREM WorldInvariant == Spec => []WorldIInv
<1>1. WorldIInv /\ [Next]_vars => WorldIInv'
  BY WorldTypes, TurnsPreserved, NumberedPreserved, IsolatedPreserved, ConversationsPreserved,
     InFlightPreserved DEF WorldIInv
<1> QED BY WorldInit, <1>1, PTL DEF Spec

(* Each session is a world of its own (query_demon, get_session_id).       *)
THEOREM WorldsStayIsolated == Spec => []WorldsIsolated
<1>1. WorldIInv => WorldsIsolated
  BY DEF WorldIInv
<1> QED BY <1>1, WorldInvariant, PTL

(* What the Demon is sent, and what query_demon writes, is a conversation  *)
(* under one law.                                                          *)
THEOREM AlwaysConversations == Spec => []Conversations
<1>1. WorldIInv => Conversations
  BY DEF WorldIInv
<1> QED BY <1>1, WorldInvariant, PTL

(* Writing the whole history back after each answer (demon.py:207) loses   *)
(* nothing but reads that ran alongside others.                            *)
THEOREM NoDeedForgotten == Spec => DeedsRemembered
<1>1. ASSUME WorldIInv, [Next]_vars, NEW s \in Sessions, history[s] # Torn, history'[s] # Torn
      PROVE  \E k \in 0..Len(history[s]) : Remembers(history[s], history'[s], k)
  <2> DEFINE h == history[s]
  <2>1. h \in Seq(Rows) /\ Len(h) \in Nat
    BY <1>1 DEF WorldIInv, TypeOK
  <2> HIDE DEF h
  <2>2. Remembers(h, h, Len(h))
    BY <2>1 DEF Remembers
  <2>3. CASE history'[s] = h
    BY <2>1, <2>2, <2>3 DEF h
  <2>4. ASSUME NEW p \in Posts, NEW x \in flying[p], history'[s] = Answered(x), s = SessionOf[p]
        PROVE  \E k \in 0..Len(h) : Remembers(h, Answered(x), k)
    <3>1. SentWith(h, x)
      BY <1>1, <2>4 DEF WorldIInv, InFlight, h
    <3>2. /\ Len(x.sent) \in Nat \ {0} /\ Len(Answered(x)) = Len(x.sent) + 1
          /\ \A i \in 1..Len(x.sent) : Answered(x)[i] = x.sent[i]
      BY <1>1, AnsweredFacts
    <3>3. CASE h = <<>>
      <4>1. Remembers(h, Answered(x), 0)
        BY <3>2, <3>3 DEF Remembers
      <4> QED BY <2>1, <4>1
    <3>4. CASE h # <<>>
      <4> DEFINE k == Len(x.sent) - 1
      <4>1. /\ k \in 0..Len(h) /\ \A i \in 1..k : h[i] = x.sent[i]
            /\ \A i \in k + 1..Len(h) : Forgettable(h[i])
        BY <2>1, <3>1, <3>2, <3>4 DEF SentWith
      <4>2. k <= Len(Answered(x)) /\ \A i \in 1..k : Answered(x)[i] = h[i]
        BY <3>2, <4>1
      <4> HIDE DEF k
      <4>3. Remembers(h, Answered(x), k)
        BY <4>1, <4>2 DEF Remembers
      <4> QED BY <4>1, <4>3
    <3> QED BY <3>3, <3>4
  <2>5. ASSUME NEW p \in Posts, NEW x \in flying[p],
               DemonReplies(p, x) \/ DemonFails(p, x) \/ SaveFails(p, x)
        PROVE  history'[s] = h \/ (s = SessionOf[p] /\ history'[s] = Answered(x))
    BY <1>1, <2>5, ReturnedCalls DEF h
  <2>6. ASSUME Crash
        PROVE  history'[s] = h
    BY <1>1, <2>6 DEF Crash, WorldIInv, TypeOK, h
  <2>7. ASSUME NEW p \in Posts, Post(p) \/ AgentCalls(p) \/ BatchStarts(p) \/ AgentAnswers(p) \/ ReplyShown(p)
        PROVE  history'[s] = h
    BY <2>7 DEF Post, AgentCalls, BatchStarts, AgentAnswers, ReplyShown, h
  <2>8. CASE UNCHANGED vars
    BY <2>3, <2>8 DEF vars, h
  <2>9. CASE \E p \in Posts : DemonStep(p)
    <3>1. PICK p \in Posts : DemonStep(p)
      BY <2>9
    <3>2. PICK x \in flying[p] : DemonReplies(p, x) \/ DemonFails(p, x) \/ SaveFails(p, x)
      BY <3>1 DEF DemonStep
    <3> QED BY <2>3, <2>4, <2>5, <3>2 DEF h
  <2> QED BY <1>1, <2>3, <2>6, <2>7, <2>8, <2>9 DEF Next, AgentStep
<1>2. WorldIInv /\ [Next]_vars =>
        [\A s \in Sessions : history[s] # Torn /\ history'[s] # Torn =>
           \E k \in 0..Len(history[s]) : Remembers(history[s], history'[s], k)]_vars
  BY <1>1
<1> QED BY <1>2, WorldInvariant, PTL DEF Spec, DeedsRemembered
=============================================================================
