------------------------ MODULE AutomationsProofs -------------------------
(***************************************************************************)
(* Machine-checked proofs about the two sources of automation turns.  The  *)
(* local triggers, for every set of triggers and deliveries and every limit *)
(* of batches, attempts and faults: QueueInvariant, and the queue delivers *)
(* at least once.  The scheduled jobs, for every set of jobs: no job that was *)
(* added is lost between the two copies of the store and the log of the other *)
(* processes (JobsKept), and the timer starts a one-time job once          *)
(* (OneTimeRunsOnce).  Both follow from CronIInv, which is inductive.      *)
(***************************************************************************)
EXTENDS TriggerQueue, CronService, QueueLemmas, FiniteSetTheorems, WellFoundedInduction

(***************************************************************************)
(* The local triggers (TriggerQueue).                                      *)
(***************************************************************************)
(* The deliveries a batch stands for, and that it has none of them twice.  *)
HandOf(q) == {q[i].of : i \in DOMAIN q}
NoneTwice(q) == \A i, j \in DOMAIN q : i # j => q[i].of # q[j].of

(* The oldest file of a directory that is not empty is one of its files.   *)
LEMMA OldestFacts ==
  ASSUME NEW dir, DOMAIN dir \subseteq Deliveries, DOMAIN dir # {}
  PROVE  Oldest(dir) \in DOMAIN dir /\ Oldest(dir) \in Deliveries
<1> DEFINE D == DOMAIN dir
<1>1. D \subseteq Nat
  BY TriggerAssumption DEF Deliveries
<1> DEFINE R == {ss \in Nat \X Nat : ss[1] < ss[2]}
<1>2. IsWellFoundedOn(R, Nat)
  BY NatLessThanWellFounded DEF OpToRel
<1> HIDE DEF R
<1>3. PICK n \in D : \A m \in D : <<m, n>> \notin R
  BY <1>1, <1>2, WFMin, Zenon
<1> USE DEF R
<1> HIDE DEF D
<1>4. ASSUME NEW m \in D
      PROVE  n <= m
  <2>1. m \in Nat /\ n \in Nat
    BY <1>1
  <2>2. m < n => <<m, n>> \in R
    BY <2>1
  <2> QED BY <1>3, <2>1, <2>2
<1>5. Oldest(dir) \in D
  BY <1>4 DEF Oldest, Min, D
<1> QED BY <1>5 DEF D

(* A claimed delivery joins the batch ...                                  *)
LEMMA ClaimFacts ==
  ASSUME NEW q \in Seq(Claimed), NEW x \in Claimed
  PROVE  /\ Append(q, x) \in Seq(Claimed) /\ Len(Append(q, x)) = Len(q) + 1
         /\ Append(q, x) # <<>>
         /\ HandOf(Append(q, x)) = HandOf(q) \cup {x.of}
         /\ NoneTwice(q) /\ x.of \notin HandOf(q) => NoneTwice(Append(q, x))
         /\ \A i \in DOMAIN Append(q, x) : Append(q, x)[i] = x \/ \E j \in DOMAIN q : Append(q, x)[i] = q[j]
<1> DEFINE a == Append(q, x)
<1>1. /\ a \in Seq(Claimed) /\ Len(a) = Len(q) + 1 /\ DOMAIN a = 1..Len(q) + 1
      /\ DOMAIN q = 1..Len(q) /\ Len(q) \in Nat
      /\ \A i \in 1..Len(q) : a[i] = q[i]
      /\ a[Len(q) + 1] = x
  BY AppendProperties
<1> HIDE DEF a
<1>2. \A i \in DOMAIN a : i \in DOMAIN q \/ i = Len(q) + 1
  BY <1>1
<1>3. DOMAIN q \subseteq DOMAIN a /\ Len(q) + 1 \in DOMAIN a
  BY <1>1
<1>4. HandOf(a) = HandOf(q) \cup {x.of}
  BY <1>1, <1>2, <1>3 DEF HandOf
<1>5. ASSUME NoneTwice(q), x.of \notin HandOf(q)
      PROVE  NoneTwice(a)
  BY <1>1, <1>2, <1>5 DEF NoneTwice, HandOf
<1>6. a # <<>>
  BY <1>1
<1> QED BY <1>1, <1>2, <1>4, <1>5, <1>6 DEF a

(* ... and the first one leaves it.                                        *)
LEMMA OnwardFacts ==
  ASSUME NEW q \in Seq(Claimed), q # <<>>
  PROVE  /\ Head(q) \in Claimed /\ Head(q).of \in HandOf(q) /\ Head(q).of \in Deliveries
         /\ Head(q).attempts \in 0..MaxAttempts
         /\ \E i \in DOMAIN q : Head(q) = q[i]
         /\ Tail(q) \in Seq(Claimed) /\ Len(Tail(q)) = Len(q) - 1
         /\ Len(q) \in Nat /\ Len(q) >= 1
         /\ Len(q) = 1 => Tail(q) = <<>>
         /\ Len(q) # 1 => Tail(q) # <<>>
         /\ HandOf(q) = HandOf(Tail(q)) \cup {Head(q).of}
         /\ NoneTwice(q) => NoneTwice(Tail(q)) /\ Head(q).of \notin HandOf(Tail(q))
         /\ \A i \in DOMAIN Tail(q) : \E j \in DOMAIN q : Tail(q)[i] = q[j]
<1> DEFINE t == Tail(q)
<1>1. /\ Head(q) = q[1] /\ t \in Seq(Claimed) /\ Len(q) \in Nat /\ Len(q) >= 1
      /\ Len(t) = Len(q) - 1
      /\ DOMAIN q = 1..Len(q) /\ DOMAIN t = 1..Len(q) - 1
      /\ \A i \in 1..Len(q) - 1 : t[i] = q[i + 1]
  OBVIOUS
<1> HIDE DEF t
<1>2. 1 \in DOMAIN q /\ \A i \in DOMAIN t : i + 1 \in DOMAIN q /\ i + 1 # 1
  BY <1>1
<1>3. \A i \in DOMAIN q : i = 1 \/ (i - 1 \in DOMAIN t /\ t[i - 1] = q[i])
  BY <1>1
<1>4. Head(q) \in Claimed
  BY <1>1, <1>2
<1>5. HandOf(q) = HandOf(t) \cup {Head(q).of}
  <2>1. ASSUME NEW i \in DOMAIN q
        PROVE  q[i].of \in HandOf(t) \cup {Head(q).of}
    BY <1>1, <1>3, <2>1 DEF HandOf
  <2>2. ASSUME NEW i \in DOMAIN t
        PROVE  t[i].of \in HandOf(q)
    <3>1. i + 1 \in DOMAIN q /\ t[i] = q[i + 1]
      BY <1>1, <1>2
    <3> QED BY <3>1 DEF HandOf
  <2>3. Head(q).of \in HandOf(q)
    BY <1>1, <1>2 DEF HandOf
  <2> QED BY <2>1, <2>2, <2>3, Zenon DEF HandOf
<1>6. ASSUME NoneTwice(q)
      PROVE  NoneTwice(t) /\ Head(q).of \notin HandOf(t)
  <2>1. ASSUME NEW i \in DOMAIN t
        PROVE  t[i].of # Head(q).of
    BY <1>1, <1>2, <1>6, <2>1 DEF NoneTwice
  <2>2. ASSUME NEW i \in DOMAIN t, NEW j \in DOMAIN t, i # j
        PROVE  t[i].of # t[j].of
    <3>1. i + 1 # j + 1
      BY <1>1, <2>2
    <3> QED BY <1>1, <1>2, <1>6, <3>1 DEF NoneTwice
  <2> QED BY <2>1, <2>2 DEF NoneTwice, HandOf
<1>7. Len(q) = 1 => t = <<>>
  BY <1>1
<1>8. Len(q) # 1 => t # <<>>
  BY <1>1
<1> QED BY <1>1, <1>2, <1>4, <1>5, <1>6, <1>7, <1>8 DEF t, Claimed

(* The empty batch.                                                        *)
LEMMA EmptyHand ==
  /\ <<>> \in Seq(Claimed) /\ Len(<<>>) = 0 /\ DOMAIN <<>> = {}
  /\ HandOf(<<>>) = {} /\ NoneTwice(<<>>)
BY DEF HandOf, NoneTwice

(* What the invariant says of the variables, in terms of these operators.  *)
LEMMA Constants ==
  /\ NoDelivery \notin Deliveries /\ MaxAttempts \in Nat /\ MaxAttempts >= 1
  /\ BatchSize \in Nat /\ BatchSize >= 1 /\ MaxTriggerFaults \in Nat
  /\ \A d \in Deliveries : TriggerOf[d] \in Triggers
  /\ Deliveries \subseteq Nat
BY TriggerAssumption DEF Deliveries

-----------------------------------------------------------------------------
(* The initial states.                                                     *)
LEMMA InitInv == TriggerInit => TriggerIInv
<1> SUFFICES ASSUME TriggerInit PROVE TriggerIInv
  OBVIOUS
<1> USE Constants, EmptyHand DEF TriggerInit
<1>1. inbox = <<>> /\ processing = <<>> /\ failed = <<>> /\ DOMAIN <<>> = {}
  BY DEF NoFiles
<1>2. TriggerTypeOK
  BY <1>1 DEF TriggerTypeOK, Directory
<1>3. NoTwin /\ RunnerInv /\ LeavingInv /\ AttemptsInv /\ OwedInv
  BY <1>1 DEF NoTwin, RunnerInv, LeavingInv, AttemptsInv, OwedInv, InHand, Files
<1> QED BY <1>2, <1>3 DEF TriggerIInv

(* Callers.                                                                *)
LEMMA EnableInv ==
  ASSUME TriggerIInv, NEW t \in Triggers, Enable(t)
  PROVE  TriggerIInv'
<1> USE DEF Enable, histories
<1>1. TriggerTypeOK'
  BY DEF TriggerIInv, TriggerTypeOK
<1>2. \A u \in Triggers : triggers'[u] = "gone" <=> triggers[u] = "gone"
  BY DEF TriggerIInv, TriggerTypeOK
<1>3. RunnerInv' /\ LeavingInv' /\ AttemptsInv'
  BY DEF TriggerIInv, RunnerInv, LeavingInv, AttemptsInv, InHand, Current
<1>4. NoTwin' /\ OwedInv'
  BY <1>2, Constants DEF TriggerIInv, TriggerTypeOK, NoTwin, OwedInv, InHand, Files, Claimed
<1> QED BY <1>1, <1>3, <1>4 DEF TriggerIInv

LEMMA EnqueueInv ==
  ASSUME TriggerIInv, NEW d \in Deliveries, Enqueue(d)
  PROVE  TriggerIInv'
<1> USE DEF Enqueue
<1>1. /\ DOMAIN inbox' = DOMAIN inbox \cup {d} /\ inbox'[d] = 0
      /\ \A e \in DOMAIN inbox : e # d => inbox'[e] = inbox[e]
  BY DEF With
<1>2. d \notin accepted /\ d \notin Files /\ d \notin InHand /\ leaving = NoDelivery
  BY DEF TriggerIInv, OwedInv, LockIsFree
<1>3. TriggerTypeOK'
  <2>1. \A e \in DOMAIN inbox' : e \in Deliveries /\ inbox'[e] \in 0..MaxAttempts /\ inbox'[e] < MaxAttempts
    BY <1>1, Constants DEF TriggerIInv, TriggerTypeOK, Directory
  <2> QED BY <2>1 DEF TriggerIInv, TriggerTypeOK, Directory
<1>4. RunnerInv' /\ LeavingInv' /\ AttemptsInv'
  BY <1>1, <1>2 DEF TriggerIInv, RunnerInv, LeavingInv, AttemptsInv, InHand, Current
<1>5. NoTwin' /\ OwedInv'
  BY <1>1, <1>2 DEF TriggerIInv, NoTwin, OwedInv, InHand, Files
<1> QED BY <1>3, <1>4, <1>5 DEF TriggerIInv

LEMMA DeleteTriggerInv ==
  ASSUME TriggerIInv, NEW t \in Triggers, DeleteTrigger(t)
  PROVE  TriggerIInv'
<1> DEFINE gone == {d \in accepted : TriggerOf[d] = t}
<1> USE DEF DeleteTrigger
<1>1. PICK removed \in {{}, gone} :
        /\ inbox' = Without(inbox, removed)
        /\ processing' = Without(processing, removed)
        /\ failed' = Without(failed, removed)
  OBVIOUS
<1>2. /\ DOMAIN inbox' = DOMAIN inbox \ removed
      /\ DOMAIN processing' = DOMAIN processing \ removed
      /\ DOMAIN failed' = DOMAIN failed \ removed
      /\ \A e \in DOMAIN inbox' : inbox'[e] = inbox[e]
      /\ \A e \in DOMAIN processing' : processing'[e] = processing[e]
      /\ \A e \in DOMAIN failed' : failed'[e] = failed[e]
  BY <1>1 DEF Without, Restrict
<1>3. leaving = NoDelivery /\ runner \notin {"recovering", "claiming"}
  BY DEF LockIsFree
<1>4. removed \subseteq gone
  BY <1>1
<1> HIDE DEF gone
<1>5. TriggerTypeOK'
  BY <1>2, <1>3 DEF TriggerIInv, TriggerTypeOK, Directory, gone
<1>6. RunnerInv' /\ LeavingInv' /\ AttemptsInv'
  BY <1>2, <1>3 DEF TriggerIInv, RunnerInv, LeavingInv, AttemptsInv, Current
<1>7. \A u \in Triggers : triggers'[u] = "gone" <=> triggers[u] = "gone" \/ u = t
  BY DEF TriggerIInv, TriggerTypeOK
<1>8. \A d \in accepted : TriggerOf[d] \in Triggers /\ (d \in gone <=> TriggerOf[d] = t)
  BY Constants DEF TriggerIInv, TriggerTypeOK, gone
<1>9. InHand \subseteq accepted /\ InHand' = InHand
  BY DEF TriggerIInv, OwedInv, InHand
<1>10. NoTwin'
  BY <1>2, <1>3, <1>4, <1>7, <1>8, <1>9 DEF TriggerIInv, NoTwin
<1>11. OwedInv'
  BY <1>2, <1>7, <1>8, <1>9 DEF TriggerIInv, OwedInv, Files, gone
<1> QED BY <1>5, <1>6, <1>10, <1>11 DEF TriggerIInv

-----------------------------------------------------------------------------
(* The first write of a retry leaves the delivery in the inbox, or excused *)
(* in failed/, and touches no other file.                                  *)
LEMMA RetryFacts ==
  ASSUME TriggerIInv, NEW x \in Claimed, x.attempts < MaxAttempts, x.of \in accepted,
         Retry(x)
  PROVE  /\ leaving' = x.of /\ leaving' # NoDelivery
         /\ leaving' \in DOMAIN inbox' \cup excused'
         /\ DOMAIN inbox \subseteq DOMAIN inbox' /\ DOMAIN inbox' \subseteq DOMAIN inbox \cup {x.of}
         /\ excused \subseteq excused' /\ excused' \subseteq accepted
         /\ Directory(inbox)' /\ Directory(failed)'
         /\ \A d \in DOMAIN inbox' : inbox'[d] < MaxAttempts
         /\ \A d \in DOMAIN failed' : failed'[d] = MaxAttempts
<1> DEFINE attempts == x.attempts + 1
<1>1. /\ leaving' = x.of /\ x.of \in Deliveries /\ x.attempts \in Nat
      /\ attempts \in 0..MaxAttempts
  BY Constants DEF Retry, Claimed
<1>2. /\ Directory(inbox) /\ Directory(failed) /\ excused \subseteq accepted
      /\ \A d \in DOMAIN inbox : inbox[d] < MaxAttempts
      /\ \A d \in DOMAIN failed : failed[d] = MaxAttempts
  BY DEF TriggerIInv, TriggerTypeOK
<1>3. CASE attempts < MaxAttempts /\ inbox' = With(inbox, x.of, attempts)
           /\ UNCHANGED <<failed, excused>>
  <2>1. /\ DOMAIN inbox' = DOMAIN inbox \cup {x.of} /\ inbox'[x.of] = attempts
        /\ \A d \in DOMAIN inbox : d # x.of => inbox'[d] = inbox[d]
    BY <1>3 DEF With
  <2>2. \A d \in DOMAIN inbox' : d \in Deliveries /\ inbox'[d] \in 0..MaxAttempts /\ inbox'[d] < MaxAttempts
    BY <1>1, <1>2, <1>3, <2>1 DEF Directory
  <2> QED BY <1>1, <1>2, <1>3, <2>1, <2>2, Constants DEF Directory
<1>4. CASE attempts >= MaxAttempts /\ failed' = With(failed, x.of, attempts)
           /\ excused' = excused \cup {x.of} /\ UNCHANGED inbox
  <2>0. attempts = MaxAttempts
    BY <1>1, <1>4, Constants
  <2>1. /\ DOMAIN failed' = DOMAIN failed \cup {x.of} /\ failed'[x.of] = attempts
        /\ \A d \in DOMAIN failed : d # x.of => failed'[d] = failed[d]
    BY <1>4 DEF With
  <2>2. \A d \in DOMAIN failed' : d \in Deliveries /\ failed'[d] \in 0..MaxAttempts /\ failed'[d] = MaxAttempts
    BY <1>1, <1>2, <2>0, <2>1, Constants DEF Directory
  <2> QED BY <1>1, <1>2, <1>4, <2>1, <2>2, Constants DEF Directory
<1> QED BY <1>3, <1>4 DEF Retry

(* What the runner has in hand is a batch in the sense of the lemmas above. *)
LEMMA BatchFacts ==
  ASSUME TriggerIInv
  PROVE  /\ batch \in Seq(Claimed) /\ InHand = HandOf(batch) /\ NoneTwice(batch)
         /\ InHand \subseteq accepted /\ InHand \subseteq Deliveries
         /\ batch # <<>> => /\ Current \in Claimed /\ Current.of \in InHand
                            /\ Current.attempts < MaxAttempts
                            /\ InHand = HandOf(Tail(batch)) \cup {Current.of}
                            /\ Current.of \notin HandOf(Tail(batch))
<1>1. batch \in Seq(Claimed) /\ InHand = HandOf(batch) /\ NoneTwice(batch)
  BY DEF TriggerIInv, TriggerTypeOK, NoTwin, NoneTwice, HandOf, InHand
<1>2. InHand \subseteq accepted /\ accepted \subseteq Deliveries
  BY DEF TriggerIInv, OwedInv, TriggerTypeOK
<1>3. ASSUME batch # <<>>
      PROVE  /\ Current \in Claimed /\ Current.of \in InHand
             /\ Current.attempts < MaxAttempts
             /\ InHand = HandOf(Tail(batch)) \cup {Current.of}
             /\ Current.of \notin HandOf(Tail(batch))
  <2>1. PICK i \in DOMAIN batch : Current = batch[i]
    BY <1>1, <1>3, OnwardFacts DEF Current
  <2>2. Current.attempts < MaxAttempts
    BY <2>1 DEF TriggerIInv, AttemptsInv
  <2> QED BY <1>1, <1>3, <2>2, OnwardFacts DEF Current
<1> QED BY <1>1, <1>2, <1>3

(* What the loop goes on with.                                             *)
LEMMA OnwardStep ==
  ASSUME TriggerIInv, batch # <<>>, Onward
  PROVE  /\ batch' \in Seq(Claimed) /\ Len(batch') <= BatchSize
         /\ InHand' = InHand \ {Current.of} /\ NoneTwice(batch')
         /\ runner' \in {"polling", "delivering"}
         /\ runner' = "polling" => batch' = <<>>
         /\ runner' = "delivering" => batch' # <<>>
         /\ \A i \in DOMAIN batch' : batch'[i].attempts < MaxAttempts
<1>1. /\ batch' = Tail(batch) /\ batch \in Seq(Claimed) /\ NoneTwice(batch)
      /\ Len(batch) <= BatchSize /\ \A i \in DOMAIN batch : batch[i].attempts < MaxAttempts
  BY BatchFacts DEF Onward, TriggerIInv, TriggerTypeOK, AttemptsInv
<1>2. /\ batch' \in Seq(Claimed) /\ Len(batch') = Len(batch) - 1 /\ Len(batch) \in Nat
      /\ NoneTwice(batch')
      /\ \A i \in DOMAIN batch' : \E j \in DOMAIN batch : batch'[i] = batch[j]
      /\ Len(batch) = 1 => batch' = <<>>
      /\ Len(batch) # 1 => batch' # <<>>
  BY <1>1, OnwardFacts
<1>3. InHand' = HandOf(batch')
  BY DEF InHand, HandOf
<1>4. InHand' = InHand \ {Current.of}
  BY <1>1, <1>3, BatchFacts
<1> QED BY <1>1, <1>2, <1>4, Constants DEF Onward

LEMMA RetryUnlinksInv ==
  ASSUME TriggerIInv, RetryUnlinks
  PROVE  TriggerIInv'
<1> USE DEF RetryUnlinks, histories
<1>1. /\ DOMAIN processing' = DOMAIN processing \ {leaving}
      /\ \A d \in DOMAIN processing' : processing'[d] = processing[d]
  BY DEF Without, Restrict
<1>2. CASE runner = "stopping"
  <2>0. runner' = "down" /\ batch' = <<>> /\ leaving' = NoDelivery
    BY <1>2
  <2>1. /\ runner' = "down" /\ batch' = <<>> /\ leaving' = NoDelivery /\ InHand' = {}
        /\ batch' \in Seq(Claimed) /\ Len(batch') <= BatchSize /\ DOMAIN batch' = {}
    <3>1. batch' \in Seq(Claimed) /\ Len(batch') = 0 /\ DOMAIN batch' = {}
      BY <2>0, EmptyHand, Zenon
    <3> QED BY <2>0, <3>1, Constants DEF InHand
  <2>2. TriggerTypeOK'
    BY <1>1, <2>1 DEF TriggerIInv, TriggerTypeOK, Directory
  <2>3. NoTwin' /\ RunnerInv' /\ LeavingInv' /\ AttemptsInv' /\ OwedInv'
    BY <1>1, <2>1 DEF TriggerIInv, NoTwin, RunnerInv, LeavingInv, AttemptsInv, OwedInv, Files
  <2> QED BY <2>2, <2>3 DEF TriggerIInv
<1>3. CASE runner # "stopping"
  <2>1. runner' = runner /\ batch' = batch /\ leaving' = NoDelivery /\ InHand' = InHand
    BY <1>3 DEF InHand
  <2>2. leaving \notin InHand
    BY <1>3 DEF TriggerIInv, LeavingInv
  <2>3. TriggerTypeOK'
    BY <1>1, <2>1, Constants DEF TriggerIInv, TriggerTypeOK, Directory
  <2>4. RunnerInv' /\ LeavingInv' /\ AttemptsInv' /\ OwedInv'
    BY <1>1, <2>1 DEF TriggerIInv, RunnerInv, LeavingInv, AttemptsInv, OwedInv, Files, Current
  <2>5. NoTwin'
    BY <1>1, <2>1, <2>2 DEF TriggerIInv, NoTwin
  <2> QED BY <2>3, <2>4, <2>5 DEF TriggerIInv
<1> QED BY <1>2, <1>3

(* Steps that only move the runner.                                        *)
LEMMA RunnerMovesInv ==
  ASSUME TriggerIInv, Boot \/ Recovered \/ Poll \/ ClaimDone \/ Submit \/ TurnFallsSilent
  PROVE  TriggerIInv'
<1> USE DEF Boot, Recovered, Poll, ClaimDone, Submit, TurnFallsSilent, triggerStore, histories,
            Delivering
<1>1. TriggerTypeOK'
  BY DEF TriggerIInv, TriggerTypeOK
<1>2. InHand' = InHand /\ NoTwin' /\ AttemptsInv' /\ OwedInv'
  BY DEF TriggerIInv, NoTwin, AttemptsInv, OwedInv, InHand, Files
<1>3. ClaimedAll => runner # "claiming" \/ batch # <<>>
  BY EmptyHand, Constants DEF TriggerIInv, RunnerInv, ClaimedAll
<1>4. RunnerInv' /\ LeavingInv'
  BY <1>2, <1>3 DEF TriggerIInv, RunnerInv, LeavingInv, Current
<1> QED BY <1>1, <1>2, <1>4 DEF TriggerIInv

LEMMA RecoverInv ==
  ASSUME TriggerIInv, Recover
  PROVE  TriggerIInv'
<1> DEFINE d == Oldest(processing)
           x == [of |-> d, attempts |-> processing[d]]
<1>1. /\ Retry(x) /\ runner = "recovering" /\ batch = <<>> /\ InHand = {}
      /\ batch' = batch /\ runner' = runner /\ InHand' = {}
      /\ UNCHANGED <<triggers, processing, accepted, ran, triggerFaults>>
  BY DEF Recover, TriggerIInv, RunnerInv, InHand
<1>2. d \in DOMAIN processing /\ d \in Deliveries
  BY OldestFacts DEF Recover, TriggerIInv, TriggerTypeOK, Directory
<1>3. d \in accepted
  BY <1>2 DEF TriggerIInv, OwedInv, Files
<1>4. x \in Claimed /\ x.attempts < MaxAttempts /\ x.of = d
  BY <1>2 DEF TriggerIInv, TriggerTypeOK, Directory, AttemptsInv, Claimed
<1> HIDE DEF d, x
<1>5. /\ leaving' = d
      /\ leaving' \in DOMAIN inbox' \cup excused'
      /\ DOMAIN inbox' \subseteq DOMAIN inbox \cup {d}
      /\ excused \subseteq excused' /\ excused' \subseteq accepted
      /\ Directory(inbox)' /\ Directory(failed)'
      /\ \A e \in DOMAIN inbox' : inbox'[e] < MaxAttempts
      /\ \A e \in DOMAIN failed' : failed'[e] = MaxAttempts
  BY <1>1, <1>3, <1>4, RetryFacts
<1>6. TriggerTypeOK'
  BY <1>1, <1>2, <1>5 DEF TriggerIInv, TriggerTypeOK, Directory
<1>7. NoTwin' /\ RunnerInv' /\ LeavingInv' /\ AttemptsInv' /\ OwedInv'
  BY <1>1, <1>3, <1>5 DEF TriggerIInv, NoTwin, RunnerInv, LeavingInv, AttemptsInv, OwedInv, Files
<1> QED BY <1>6, <1>7 DEF TriggerIInv

LEMMA ClaimInv ==
  ASSUME TriggerIInv, Claim
  PROVE  TriggerIInv'
<1> DEFINE d == Oldest(inbox)
           x == [of |-> d, attempts |-> inbox[d]]
<1>1. /\ batch' = Append(batch, x) /\ processing' = With(processing, d, inbox[d])
      /\ inbox' = Without(inbox, {d}) /\ runner = "claiming" /\ runner' = runner
      /\ ~ ClaimedAll
      /\ UNCHANGED <<triggers, failed, leaving, accepted, ran, excused, triggerFaults>>
  BY DEF Claim, histories
<1>2. d \in DOMAIN inbox /\ d \in Deliveries /\ leaving = NoDelivery
  BY <1>1, OldestFacts DEF ClaimedAll, TriggerIInv, TriggerTypeOK, Directory, RunnerInv
<1>3. /\ DOMAIN inbox' = DOMAIN inbox \ {d} /\ \A e \in DOMAIN inbox' : inbox'[e] = inbox[e]
      /\ DOMAIN processing' = DOMAIN processing \cup {d} /\ processing'[d] = inbox[d]
      /\ \A e \in DOMAIN processing : e # d => processing'[e] = processing[e]
  BY <1>1 DEF With, Without, Restrict
<1>4. /\ inbox[d] \in 0..MaxAttempts /\ inbox[d] < MaxAttempts /\ d \in accepted
      /\ d \notin InHand
  BY <1>2, Constants DEF TriggerIInv, TriggerTypeOK, Directory, OwedInv, Files, NoTwin
<1>5. x \in Claimed /\ x.of = d /\ x.attempts = inbox[d]
  BY <1>2, <1>4 DEF Claimed
<1> HIDE DEF d, x
<1>6. /\ batch' \in Seq(Claimed) /\ Len(batch') = Len(batch) + 1 /\ batch' # <<>>
      /\ HandOf(batch') = HandOf(batch) \cup {d} /\ NoneTwice(batch')
      /\ \A i \in DOMAIN batch' : batch'[i] = x \/ \E j \in DOMAIN batch : batch'[i] = batch[j]
  BY <1>1, <1>4, <1>5, BatchFacts, ClaimFacts
<1>7. InHand' = InHand \cup {d}
  BY <1>6 DEF InHand, HandOf
<1>8. TriggerTypeOK'
  <2>1. Directory(inbox)' /\ Directory(processing)'
    BY <1>2, <1>3, <1>4 DEF TriggerIInv, TriggerTypeOK, Directory
  <2>2. Len(batch') <= BatchSize
    BY <1>1, <1>6, Constants, BatchFacts DEF TriggerIInv, TriggerTypeOK, ClaimedAll
  <2> QED BY <1>1, <1>3, <1>6, <2>1, <2>2 DEF TriggerIInv, TriggerTypeOK, Directory
<1>9. NoTwin'
  <2>1. \A i, j \in DOMAIN batch' : i # j => batch'[i].of # batch'[j].of
    BY <1>6 DEF NoneTwice
  <2> QED BY <1>1, <1>2, <1>3, <1>4, <1>7, <2>1 DEF TriggerIInv, NoTwin
<1>10. RunnerInv' /\ LeavingInv' /\ OwedInv'
  BY <1>1, <1>2, <1>3, <1>4, <1>6, <1>7 DEF TriggerIInv, RunnerInv, LeavingInv, OwedInv, Files
<1>11. AttemptsInv'
  BY <1>3, <1>4, <1>5, <1>6 DEF TriggerIInv, AttemptsInv
<1> QED BY <1>8, <1>9, <1>10, <1>11 DEF TriggerIInv

LEMMA DropDeliveryInv ==
  ASSUME TriggerIInv, DropDelivery
  PROVE  TriggerIInv'
<1> USE DEF DropDelivery, Delivering
<1>1. batch # <<>> /\ leaving = NoDelivery /\ leaving' = leaving
  BY DEF TriggerIInv, RunnerInv
<1>2. /\ batch' \in Seq(Claimed) /\ Len(batch') <= BatchSize
      /\ InHand' = InHand \ {Current.of} /\ NoneTwice(batch')
      /\ runner' \in {"polling", "delivering"}
      /\ runner' = "polling" => batch' = <<>>
      /\ runner' = "delivering" => batch' # <<>>
      /\ \A i \in DOMAIN batch' : batch'[i].attempts < MaxAttempts
  BY <1>1, OnwardStep
<1>3. Current.of \in accepted /\ InHand \subseteq accepted
  BY <1>1, BatchFacts
<1>4. /\ DOMAIN processing' = DOMAIN processing \ {Current.of}
      /\ \A d \in DOMAIN processing' : processing'[d] = processing[d]
  BY DEF Without, Restrict
<1>5. TriggerTypeOK'
  BY <1>2, <1>3, <1>4 DEF TriggerIInv, TriggerTypeOK, Directory
<1>6. NoTwin'
  BY <1>1, <1>2, <1>4 DEF TriggerIInv, NoTwin, NoneTwice
<1>7. RunnerInv' /\ LeavingInv' /\ AttemptsInv' /\ OwedInv'
  BY <1>1, <1>2, <1>3, <1>4 DEF TriggerIInv, RunnerInv, LeavingInv, AttemptsInv, OwedInv, Files
<1> QED BY <1>5, <1>6, <1>7 DEF TriggerIInv

LEMMA TurnReportsInv ==
  ASSUME TriggerIInv, TurnReports
  PROVE  TriggerIInv'
<1> USE DEF TurnReports, Waits, triggerStore
<1>1. batch # <<>> /\ leaving = NoDelivery /\ Current' = Current /\ InHand' = InHand
  BY DEF TriggerIInv, RunnerInv, Current, InHand
<1>2. Current.of \in accepted
  BY <1>1, BatchFacts
<1>3. TriggerTypeOK'
  BY <1>2 DEF TriggerIInv, TriggerTypeOK, Directory
<1>4. NoTwin' /\ RunnerInv' /\ LeavingInv' /\ AttemptsInv' /\ OwedInv'
  BY <1>1 DEF TriggerIInv, NoTwin, RunnerInv, LeavingInv, AttemptsInv, OwedInv, Files
<1> QED BY <1>3, <1>4 DEF TriggerIInv

LEMMA AckInv ==
  ASSUME TriggerIInv, Ack
  PROVE  TriggerIInv'
<1> USE DEF Ack, histories
<1>1. batch # <<>> /\ leaving = NoDelivery /\ leaving' = leaving
  BY DEF TriggerIInv, RunnerInv
<1>2. /\ batch' \in Seq(Claimed) /\ Len(batch') <= BatchSize
      /\ InHand' = InHand \ {Current.of} /\ NoneTwice(batch')
      /\ runner' \in {"polling", "delivering"}
      /\ runner' = "polling" => batch' = <<>>
      /\ runner' = "delivering" => batch' # <<>>
      /\ \A i \in DOMAIN batch' : batch'[i].attempts < MaxAttempts
  BY <1>1, OnwardStep
<1>3. /\ DOMAIN processing' = DOMAIN processing \ {Current.of}
      /\ \A d \in DOMAIN processing' : processing'[d] = processing[d]
  BY DEF Without, Restrict
<1>4. TriggerTypeOK'
  BY <1>2, <1>3 DEF TriggerIInv, TriggerTypeOK, Directory
<1>5. NoTwin'
  BY <1>1, <1>2, <1>3 DEF TriggerIInv, NoTwin, NoneTwice
<1>6. RunnerInv' /\ LeavingInv' /\ AttemptsInv' /\ OwedInv'
  BY <1>1, <1>2, <1>3 DEF TriggerIInv, RunnerInv, LeavingInv, AttemptsInv, OwedInv, Files
<1> QED BY <1>4, <1>5, <1>6 DEF TriggerIInv

(* An error of the delivery in hand: it is retried, and the loop goes on.  *)
LEMMA DeliveryFailsInv ==
  ASSUME TriggerIInv, SubmitFails \/ AckFails
  PROVE  TriggerIInv'
<1>1. /\ batch # <<>> /\ Retry(Current) /\ Onward
      /\ triggerFaults' \in 0..MaxTriggerFaults
      /\ UNCHANGED <<triggers, processing, accepted, ran>>
  BY Constants DEF SubmitFails, AckFails, Delivering, TriggerIInv, RunnerInv, TriggerTypeOK
<1>2. /\ Current \in Claimed /\ Current.attempts < MaxAttempts
      /\ Current.of \in accepted /\ Current.of \in Deliveries
  BY <1>1, BatchFacts
<1>3. /\ leaving' = Current.of
      /\ leaving' \in DOMAIN inbox' \cup excused'
      /\ DOMAIN inbox' \subseteq DOMAIN inbox \cup {Current.of}
      /\ excused \subseteq excused' /\ excused' \subseteq accepted
      /\ Directory(inbox)' /\ Directory(failed)'
      /\ \A d \in DOMAIN inbox' : inbox'[d] < MaxAttempts
      /\ \A d \in DOMAIN failed' : failed'[d] = MaxAttempts
  BY <1>1, <1>2, RetryFacts
<1>4. /\ batch' \in Seq(Claimed) /\ Len(batch') <= BatchSize
      /\ InHand' = InHand \ {Current.of} /\ NoneTwice(batch')
      /\ runner' \in {"polling", "delivering"}
      /\ runner' = "polling" => batch' = <<>>
      /\ runner' = "delivering" => batch' # <<>>
      /\ \A i \in DOMAIN batch' : batch'[i].attempts < MaxAttempts
  BY <1>1, OnwardStep
<1>5. leaving = NoDelivery
  BY DEF SubmitFails, AckFails, Delivering, TriggerIInv, RunnerInv
<1>6. TriggerTypeOK'
  BY <1>1, <1>2, <1>3, <1>4 DEF TriggerIInv, TriggerTypeOK, Directory
<1>7. NoTwin'
  <2>1. \A i, j \in DOMAIN batch' : i # j => batch'[i].of # batch'[j].of
    BY <1>4 DEF NoneTwice
  <2>2. \A d \in InHand' : d \notin DOMAIN inbox' /\ (d \in DOMAIN processing' \/ triggers'[TriggerOf[d]] = "gone")
    BY <1>1, <1>3, <1>4, <1>5, BatchFacts, Constants DEF TriggerIInv, NoTwin
  <2> QED BY <2>1, <2>2 DEF NoTwin
<1>8. RunnerInv' /\ LeavingInv' /\ AttemptsInv' /\ OwedInv'
  BY <1>1, <1>2, <1>3, <1>4 DEF TriggerIInv, RunnerInv, LeavingInv, AttemptsInv, OwedInv, Files
<1> QED BY <1>6, <1>7, <1>8 DEF TriggerIInv

LEMMA ShutdownInv ==
  ASSUME TriggerIInv, Shutdown
  PROVE  TriggerIInv'
<1> USE DEF Shutdown, Waits
<1>1. /\ triggerFaults' \in 0..MaxTriggerFaults /\ leaving = NoDelivery
      /\ InHand' = InHand /\ batch' = batch
      /\ UNCHANGED <<triggers, processing, accepted, ran>>
  BY Constants DEF TriggerIInv, TriggerTypeOK, InHand
<1>2. CASE /\ runner = "polling" /\ runner' = "down"
           /\ UNCHANGED <<inbox, failed, leaving, excused>>
  <2>1. TriggerTypeOK'
    BY <1>1, <1>2 DEF TriggerIInv, TriggerTypeOK, Directory
  <2>2. NoTwin' /\ RunnerInv' /\ LeavingInv' /\ AttemptsInv' /\ OwedInv'
    BY <1>1, <1>2 DEF TriggerIInv, NoTwin, RunnerInv, LeavingInv, AttemptsInv, OwedInv, Files
  <2> QED BY <2>1, <2>2 DEF TriggerIInv
<1>3. CASE Waits /\ runner' = "stopping" /\ Retry(Current)
  <2>1. batch # <<>>
    BY <1>3 DEF TriggerIInv, RunnerInv
  <2>2. /\ Current \in Claimed /\ Current.attempts < MaxAttempts
        /\ Current.of \in accepted /\ Current.of \in Deliveries
    BY <2>1, BatchFacts
  <2>3. /\ leaving' = Current.of
        /\ leaving' \in DOMAIN inbox' \cup excused'
        /\ DOMAIN inbox' \subseteq DOMAIN inbox \cup {Current.of}
        /\ excused \subseteq excused' /\ excused' \subseteq accepted
        /\ Directory(inbox)' /\ Directory(failed)'
        /\ \A d \in DOMAIN inbox' : inbox'[d] < MaxAttempts
        /\ \A d \in DOMAIN failed' : failed'[d] = MaxAttempts
    BY <1>3, <2>2, RetryFacts
  <2>4. TriggerTypeOK'
    BY <1>1, <1>3, <2>2, <2>3 DEF TriggerIInv, TriggerTypeOK, Directory
  <2>5. NoTwin'
    <3>1. \A d \in InHand' \ {leaving'} :
             d \notin DOMAIN inbox' /\ (d \in DOMAIN processing' \/ triggers'[TriggerOf[d]] = "gone")
      BY <1>1, <2>3, BatchFacts, Constants DEF TriggerIInv, NoTwin
    <3> QED BY <1>1, <3>1 DEF TriggerIInv, NoTwin
  <2>6. RunnerInv' /\ LeavingInv' /\ AttemptsInv' /\ OwedInv'
    BY <1>1, <1>3, <2>1, <2>2, <2>3 DEF TriggerIInv, RunnerInv, LeavingInv, AttemptsInv, OwedInv, Files
  <2> QED BY <2>4, <2>5, <2>6 DEF TriggerIInv
<1> QED BY <1>2, <1>3

LEMMA GatewayDiesInv ==
  ASSUME TriggerIInv, GatewayDies
  PROVE  TriggerIInv'
<1> USE DEF GatewayDies, triggerStore, histories
<1>1. /\ batch' = <<>> /\ leaving' = NoDelivery /\ runner' = "down"
      /\ batch' \in Seq(Claimed) /\ Len(batch') = 0 /\ DOMAIN batch' = {}
  BY EmptyHand, Zenon
<1>2. InHand' = {} /\ triggerFaults' \in 0..MaxTriggerFaults
  BY <1>1, Constants DEF InHand, TriggerIInv, TriggerTypeOK
<1>3. TriggerTypeOK'
  BY <1>1, <1>2, Constants DEF TriggerIInv, TriggerTypeOK, Directory
<1>4. NoTwin' /\ RunnerInv' /\ LeavingInv' /\ AttemptsInv' /\ OwedInv'
  BY <1>1, <1>2 DEF TriggerIInv, NoTwin, RunnerInv, LeavingInv, AttemptsInv, OwedInv, Files
<1> QED BY <1>3, <1>4 DEF TriggerIInv

LEMMA StepInv ==
  ASSUME TriggerIInv, [TriggerNext]_triggerVars
  PROVE  TriggerIInv'
<1>1. CASE UNCHANGED triggerVars
  BY <1>1 DEF triggerVars, triggerStore, histories, TriggerIInv, TriggerTypeOK, Directory, NoTwin,
     RunnerInv, LeavingInv, AttemptsInv, OwedInv, Files, InHand, Current
<1>2. CASE Runner
  BY <1>2, RetryUnlinksInv, RunnerMovesInv, RecoverInv, ClaimInv, DropDeliveryInv, AckInv DEF Runner
<1>3. CASE Callers
  BY <1>3, EnqueueInv, EnableInv, DeleteTriggerInv DEF Callers
<1>4. CASE TurnFallsSilent \/ TurnReports \/ SubmitFails \/ AckFails \/ Shutdown \/ GatewayDies
  BY <1>4, RunnerMovesInv, TurnReportsInv, DeliveryFailsInv, ShutdownInv, GatewayDiesInv
<1> QED BY <1>1, <1>2, <1>3, <1>4 DEF TriggerNext

(* The queue keeps its inductive invariant.                                *)
THEOREM QueueInvariant == TriggerSpec => []TriggerIInv
<1>1. TriggerInit => TriggerIInv
  BY InitInv
<1>2. TriggerIInv /\ [TriggerNext]_triggerVars => TriggerIInv'
  BY StepInv
<1> QED BY <1>1, <1>2, PTL DEF TriggerSpec

(* local_store.py, local_runner.py: no delivery in the runner's hands      *)
(* waits in the inbox as well, and each can be recovered from processing/. *)
THEOREM NoTwinOfADelivery == TriggerSpec => []NoTwin
<1>1. TriggerIInv => NoTwin
  BY DEF TriggerIInv
<1> QED BY <1>1, QueueInvariant, PTL

-----------------------------------------------------------------------------
(* A step that lets go of a delivery only with a turn behind it or with an *)
(* excuse settles deliveries.                                              *)
LEMMA Settles ==
  ASSUME excused \subseteq excused', accepted' = accepted, ran' = ran,
         (Files \cup InHand)' \subseteq Files \cup InHand,
         \A d \in Files \cup InHand : d \in (Files \cup InHand)' \cup ran \cup excused'
  PROVE  Promise!Next
BY DEF Promise!Next, Promise!Settle

(* The first write of a retry: the delivery it moves was pending before.   *)
LEMMA RetrySettles ==
  ASSUME TriggerIInv, NEW x \in Claimed, x.attempts < MaxAttempts, x.of \in Files \cup InHand,
         Retry(x), UNCHANGED <<processing, accepted, ran>>,
         InHand' \subseteq InHand, InHand \subseteq InHand' \cup {x.of}
  PROVE  Promise!Next
<1>1. x.of \in accepted
  BY DEF TriggerIInv, OwedInv
<1>2. /\ x.of \in DOMAIN inbox' \cup excused'
      /\ DOMAIN inbox \subseteq DOMAIN inbox' /\ DOMAIN inbox' \subseteq DOMAIN inbox \cup {x.of}
      /\ excused \subseteq excused'
  BY <1>1, RetryFacts
<1>3. (Files \cup InHand)' \subseteq Files \cup InHand
  BY <1>2 DEF Files
<1>4. \A d \in Files \cup InHand : d \in (Files \cup InHand)' \cup ran \cup excused'
  BY <1>2 DEF Files
<1> QED BY <1>2, <1>3, <1>4, Settles

(* A step that forgets the batch: what was in hand has a file, or an       *)
(* excuse.                                                                 *)
LEMMA HandIsCovered ==
  ASSUME TriggerIInv
  PROVE  \A d \in InHand : d \in Files \cup excused /\ (d # leaving => d \in DOMAIN processing \cup excused)
<1> SUFFICES ASSUME NEW d \in InHand
             PROVE  d \in Files \cup excused /\ (d # leaving => d \in DOMAIN processing \cup excused)
  OBVIOUS
<1>1. CASE d = leaving
  BY <1>1, BatchFacts, Constants DEF TriggerIInv, LeavingInv, Files
<1>2. CASE d # leaving
  BY <1>2 DEF TriggerIInv, NoTwin, OwedInv, Files
<1> QED BY <1>1, <1>2

(* Every step of the queue is a step of AtLeastOnce.                       *)
LEMMA StepSimulation ==
  ASSUME TriggerIInv, [TriggerNext]_triggerVars
  PROVE  [Promise!Next]_(Promise!vars)
<1>1. CASE UNCHANGED triggerVars
  BY <1>1 DEF triggerVars, triggerStore, histories, Promise!vars, Files, InHand
<1>2. CASE Boot \/ Recovered \/ Poll \/ ClaimDone \/ Submit \/ TurnFallsSilent
  BY <1>2 DEF Boot, Recovered, Poll, ClaimDone, Submit, TurnFallsSilent, triggerStore, histories,
     Promise!vars, Files, InHand
<1>3. ASSUME NEW t \in Triggers, Enable(t)
      PROVE  [Promise!Next]_(Promise!vars)
  BY <1>3 DEF Enable, histories, Promise!vars, Files, InHand
<1>4. ASSUME NEW d \in Deliveries, Enqueue(d)
      PROVE  Promise!Next
  <2>1. DOMAIN inbox' = DOMAIN inbox \cup {d}
    BY <1>4 DEF Enqueue, With
  <2>2. (Files \cup InHand)' = (Files \cup InHand) \cup {d}
    BY <1>4, <2>1 DEF Enqueue, Files, InHand
  <2>3. Promise!Accept(d)
    BY <1>4, <2>2 DEF Enqueue, Promise!Accept
  <2> QED BY <2>3 DEF Promise!Next
<1>5. ASSUME NEW t \in Triggers, DeleteTrigger(t)
      PROVE  Promise!Next
  <2> DEFINE gone == {d \in accepted : TriggerOf[d] = t}
  <2>1. PICK removed \in {{}, gone} :
          inbox' = Without(inbox, removed) /\ processing' = Without(processing, removed)
    BY <1>5 DEF DeleteTrigger
  <2>2. /\ DOMAIN inbox' = DOMAIN inbox \ removed
        /\ DOMAIN processing' = DOMAIN processing \ removed
        /\ InHand' = InHand /\ removed \subseteq gone
    BY <1>5, <2>1 DEF DeleteTrigger, Without, Restrict, InHand
  <2>3. excused' = excused \cup gone /\ accepted' = accepted /\ ran' = ran
    BY <1>5 DEF DeleteTrigger
  <2> HIDE DEF gone
  <2> QED BY <2>2, <2>3, Settles DEF Files
<1>6. CASE RetryUnlinks
  <2>1. /\ DOMAIN processing' = DOMAIN processing \ {leaving}
        /\ UNCHANGED <<inbox, accepted, ran, excused>> /\ leaving # NoDelivery
    BY <1>6 DEF RetryUnlinks, Without, Restrict, histories
  <2>2. leaving \in DOMAIN inbox \cup excused
    BY <2>1 DEF TriggerIInv, LeavingInv
  <2>3. CASE runner = "stopping"
    <3>1. InHand' = {}
      BY <1>6, <2>3 DEF RetryUnlinks, InHand
    <3> QED BY <2>1, <2>2, <3>1, HandIsCovered, Settles DEF Files
  <2>4. CASE runner # "stopping"
    <3>1. InHand' = InHand
      BY <1>6, <2>4 DEF RetryUnlinks, InHand
    <3> QED BY <2>1, <2>2, <3>1, Settles DEF Files
  <2> QED BY <2>3, <2>4
<1>7. CASE Recover
  <2> DEFINE d == Oldest(processing)
             x == [of |-> d, attempts |-> processing[d]]
  <2>1. Retry(x) /\ InHand' = InHand /\ UNCHANGED <<processing, accepted, ran>>
    BY <1>7 DEF Recover, InHand
  <2>2. d \in DOMAIN processing /\ d \in Deliveries
    BY <1>7, OldestFacts DEF Recover, TriggerIInv, TriggerTypeOK, Directory
  <2>3. x \in Claimed /\ x.attempts < MaxAttempts /\ x.of \in Files
    BY <2>2 DEF TriggerIInv, TriggerTypeOK, Directory, AttemptsInv, Claimed, Files
  <2> QED BY <2>1, <2>3, RetrySettles
<1>8. CASE Claim
  <2> DEFINE d == Oldest(inbox)
             x == [of |-> d, attempts |-> inbox[d]]
  <2>1. /\ batch' = Append(batch, x) /\ UNCHANGED <<accepted, ran, excused>>
        /\ DOMAIN processing' = DOMAIN processing \cup {d}
        /\ DOMAIN inbox' = DOMAIN inbox \ {d}
    BY <1>8 DEF Claim, histories, With, Without, Restrict
  <2>2. d \in DOMAIN inbox /\ d \in Deliveries
    BY <1>8, OldestFacts DEF Claim, ClaimedAll, TriggerIInv, TriggerTypeOK, Directory
  <2>3. x \in Claimed /\ x.of = d
    BY <2>2 DEF TriggerIInv, TriggerTypeOK, Directory, Claimed
  <2> HIDE DEF d, x
  <2>4. HandOf(batch') = HandOf(batch) \cup {d}
    BY <2>1, <2>3, BatchFacts, ClaimFacts
  <2>5. InHand' = InHand \cup {d}
    BY <2>4 DEF InHand, HandOf
  <2> QED BY <2>1, <2>2, <2>5, Settles DEF Files
<1>9. CASE DropDelivery \/ Ack
  <2>1. batch # <<>> /\ Onward
    BY <1>9 DEF DropDelivery, Ack, Delivering, TriggerIInv, RunnerInv
  <2>2. InHand' = InHand \ {Current.of} /\ Current.of \in InHand
    BY <2>1, OnwardStep, BatchFacts
  <2>3. /\ DOMAIN processing' = DOMAIN processing \ {Current.of}
        /\ UNCHANGED <<inbox, accepted, ran>> /\ excused \subseteq excused'
    BY <1>9 DEF DropDelivery, Ack, Without, Restrict, histories
  <2>4. Current.of \in ran \cup excused'
    BY <1>9 DEF DropDelivery, Ack, TriggerIInv, RunnerInv
  <2> QED BY <2>2, <2>3, <2>4, Settles DEF Files
<1>10. CASE TurnReports
  <2>1. batch # <<>>
    BY <1>10 DEF TurnReports, Waits, TriggerIInv, RunnerInv
  <2>2. Current.of \in InHand /\ Current.of \in Deliveries
    BY <2>1, BatchFacts
  <2>3. Promise!Run(Current.of)
    BY <1>10, <2>2 DEF TurnReports, triggerStore, Promise!Run, Files, InHand
  <2> QED BY <2>2, <2>3 DEF Promise!Next
<1>11. CASE SubmitFails \/ AckFails
  <2>1. batch # <<>> /\ Onward /\ Retry(Current) /\ UNCHANGED <<processing, accepted, ran>>
    BY <1>11 DEF SubmitFails, AckFails, Delivering, TriggerIInv, RunnerInv
  <2>2. /\ InHand' = InHand \ {Current.of} /\ Current.of \in InHand
        /\ Current \in Claimed /\ Current.attempts < MaxAttempts
    BY <2>1, OnwardStep, BatchFacts
  <2> QED BY <2>1, <2>2, RetrySettles
<1>12. CASE Shutdown
  <2>1. InHand' = InHand /\ UNCHANGED <<processing, accepted, ran>>
    BY <1>12 DEF Shutdown, InHand
  <2>2. CASE runner = "polling" /\ UNCHANGED <<inbox, excused>>
    BY <2>1, <2>2 DEF Promise!vars, Files
  <2>3. CASE Waits /\ Retry(Current)
    <3>1. batch # <<>>
      BY <2>3 DEF Waits, TriggerIInv, RunnerInv
    <3> QED BY <2>1, <2>3, <3>1, BatchFacts, RetrySettles
  <2> QED BY <1>12, <2>2, <2>3 DEF Shutdown
<1>13. CASE GatewayDies
  <2>1. InHand' = {} /\ UNCHANGED <<inbox, processing, accepted, ran, excused>>
    BY <1>13 DEF GatewayDies, InHand, triggerStore, histories
  <2> QED BY <2>1, HandIsCovered, Settles DEF Files
<1> QED BY <1>1, <1>2, <1>3, <1>4, <1>5, <1>6, <1>7, <1>8, <1>9, <1>10, <1>11, <1>12, <1>13
        DEF TriggerNext, Runner, Callers

(* "Delivery is at-least-once" (docs/concepts.md): through renames,        *)
(* retries, failures and crashes between any two writes, a delivery that   *)
(* was accepted leaves the queue only after a turn with it, or excused.    *)
THEOREM QueueDeliversAtLeastOnce == TriggerSpec => DeliveredAtLeastOnce
<1>1. TriggerInit => Promise!Init
  BY DEF TriggerInit, NoFiles, Promise!Init, Files, InHand
<1>2. TriggerIInv /\ [TriggerNext]_triggerVars => [Promise!Next]_(Promise!vars)
  BY StepSimulation
<1> QED BY <1>1, <1>2, QueueInvariant, PTL DEF TriggerSpec, DeliveredAtLeastOnce, Promise!Spec

(***************************************************************************)
(* The scheduled jobs (CronService).                                       *)
(***************************************************************************)
(* What the operators on stores and on the log give.                       *)
LEMMA JobAsFacts ==
  ASSUME CronTypeOK, NEW j \in CronJobs, NEW on \in BOOLEAN
  PROVE  /\ JobAs(j, on) \in JobState
         /\ OnTime(j, JobAs(j, on).next)
         /\ OneTime(j) /\ until[j] = 0 => JobAs(j, on).next = Never
<1>1. Period \in Nat /\ MaxSleep \in Nat /\ until[j] \in 0..Period /\ Period \in 0..Never
  BY CronAssumption DEF CronTypeOK, Ticking, Never
<1>2. Never \in 0..Never /\ NextRun(j) \in 0..Never
  BY <1>1 DEF NextRun, Never
<1>3. JobAs(j, on) \in JobState
  BY <1>2 DEF JobAs, JobState
<1> QED BY <1>1, <1>2, <1>3 DEF OnTime, OneTime, JobAs, NextRun

LEMMA PutFacts ==
  ASSUME NEW store, NEW j \in CronJobs, NEW state
  PROVE  /\ DOMAIN Put(store, j, state) = DOMAIN store \cup {j}
         /\ Put(store, j, state)[j] = state
         /\ \A k \in DOMAIN store : k # j => Put(store, j, state)[k] = store[k]
         /\ IsStore(store) /\ state \in JobState => IsStore(Put(store, j, state))
BY DEF Put, IsStore

LEMMA DropFacts ==
  ASSUME NEW store, NEW j
  PROVE  /\ DOMAIN Drop(store, j) = DOMAIN store \ {j}
         /\ \A k \in DOMAIN store \ {j} : Drop(store, j)[k] = store[k]
         /\ IsStore(store) => IsStore(Drop(store, j))
BY DEF Drop, Restrict, IsStore

(* A merged job is that of the last action about it, or as in the file.    *)
LEMMA MergeFacts ==
  ASSUME NEW log \in Seq(Action), NEW file, IsStore(file)
  PROVE  /\ DOMAIN Merge(log, file) = PutLast(log) \cup (DOMAIN file \ About(log))
         /\ IsStore(Merge(log, file))
         /\ \A j \in DOMAIN Merge(log, file) :
              \/ \E i \in DOMAIN log : /\ log[i].op = "put" /\ log[i].job = j
                                       /\ Merge(log, file)[j] = log[i].state
              \/ j \in DOMAIN file /\ Merge(log, file)[j] = file[j]
         /\ PutLast(log) \subseteq About(log)
<1> DEFINE m == Merge(log, file)
<1>1. DOMAIN m = PutLast(log) \cup (DOMAIN file \ About(log))
  BY DEF Merge
<1>2. PutLast(log) \subseteq About(log)
  BY DEF PutLast, LastPuts, About
<1>3. \A i \in DOMAIN log : log[i] \in Action
  OBVIOUS
<1>4. ASSUME NEW j \in PutLast(log)
      PROVE  \E i \in DOMAIN log : log[i].op = "put" /\ log[i].job = j /\ m[j] = log[i].state
  <2> DEFINE last == CHOOSE a \in LastPuts(log) : a.job = j
  <2>1. \E a \in LastPuts(log) : a.job = j
    BY <1>4 DEF PutLast
  <2>2. last \in LastPuts(log) /\ last.job = j
    BY <2>1
  <2>3. m[j] = last.state
    BY <1>1, <1>4 DEF Merge
  <2> HIDE DEF last, m
  <2> QED BY <2>2, <2>3 DEF LastPuts
<1>5. ASSUME NEW j \in DOMAIN file \ About(log)
      PROVE  m[j] = file[j]
  BY <1>2, <1>5 DEF Merge
<1> HIDE DEF m
<1>6. \A j \in DOMAIN m :
        \/ \E i \in DOMAIN log : log[i].op = "put" /\ log[i].job = j /\ m[j] = log[i].state
        \/ j \in DOMAIN file /\ m[j] = file[j]
  BY <1>1, <1>4, <1>5
<1>7. \A i \in DOMAIN log : log[i].op = "put" => log[i].job \in CronJobs /\ log[i].state \in JobState
  BY <1>3 DEF Action
<1>8. IsStore(m)
  BY <1>6, <1>7 DEF IsStore
<1> QED BY <1>1, <1>2, <1>6, <1>8 DEF m

LEMMA PutLastFacts ==
  ASSUME NEW log, NEW j
  PROVE  j \in PutLast(log) <=>
           \E i \in DOMAIN log : /\ log[i].op = "put" /\ log[i].job = j
                                 /\ \A k \in DOMAIN log : k > i => log[k].job # j
BY DEF PutLast, LastPuts

LEMMA NothingLogged ==
  ASSUME NEW file
  PROVE  <<>> \in Seq(Action) /\ About(<<>>) = {} /\ DOMAIN Merge(<<>>, file) = DOMAIN file
BY DEF About, PutLast, LastPuts, Merge

(* An action decides about its job, and about no other.                    *)
LEMMA AppendedAction ==
  ASSUME NEW log \in Seq(Action), NEW a \in Action, NEW file
  PROVE  /\ Append(log, a) \in Seq(Action)
         /\ About(Append(log, a)) = About(log) \cup {a.job}
         /\ DOMAIN Merge(log, file) \ {a.job} \subseteq DOMAIN Merge(Append(log, a), file)
         /\ a.op = "put" => a.job \in DOMAIN Merge(Append(log, a), file)
         /\ PutLast(log) \ {a.job} \subseteq PutLast(Append(log, a))
         /\ a.op = "put" => a.job \in PutLast(Append(log, a))
<1> DEFINE q == Append(log, a)  n == Len(log) + 1
<1>1. /\ q \in Seq(Action) /\ DOMAIN q = 1..n /\ DOMAIN log = 1..Len(log)
      /\ Len(log) \in Nat /\ q[n] = a /\ \A i \in 1..Len(log) : q[i] = log[i]
  OBVIOUS
<1> HIDE DEF q
<1>2. About(q) = About(log) \cup {a.job}
  BY <1>1 DEF About
<1>3. ASSUME a.op = "put" PROVE a.job \in PutLast(q)
  <2>1. n \in DOMAIN q /\ \A k \in DOMAIN q : ~(k > n)
    BY <1>1
  <2>2. q[n] \in LastPuts(q)
    BY <1>1, <1>3, <2>1 DEF LastPuts
  <2> QED BY <1>1, <2>2 DEF PutLast
<1>4. ASSUME NEW j \in PutLast(log), j # a.job PROVE j \in PutLast(q)
  <2>1. PICK i \in DOMAIN log : /\ log[i].op = "put" /\ log[i].job = j
                                /\ \A k \in DOMAIN log : k > i => log[k].job # log[i].job
    BY <1>4 DEF PutLast, LastPuts
  <2>2. i \in DOMAIN q /\ q[i] = log[i] /\ \A k \in DOMAIN q : k > i => q[k].job # q[i].job
    BY <1>1, <1>4, <2>1
  <2>3. q[i] \in LastPuts(q)
    BY <2>1, <2>2 DEF LastPuts
  <2> QED BY <2>1, <2>2, <2>3 DEF PutLast
<1>5. /\ DOMAIN Merge(log, file) = PutLast(log) \cup (DOMAIN file \ About(log))
      /\ DOMAIN Merge(q, file) = PutLast(q) \cup (DOMAIN file \ About(q))
  BY DEF Merge
<1>6. DOMAIN Merge(log, file) \ {a.job} \subseteq DOMAIN Merge(q, file)
  BY <1>2, <1>4, <1>5
<1>7. a.op = "put" => a.job \in DOMAIN Merge(q, file)
  BY <1>3, <1>5
<1> QED BY <1>1, <1>2, <1>3, <1>4, <1>6, <1>7 DEF q
-----------------------------------------------------------------------------
(* What a step of the service loads and leaves.                            *)

(* A job the timer has started, in the store, the log and the line of due  *)
(* jobs of a step: only the first in the line may still have its time.     *)
SettledIn(j, store, log, line) ==
  /\ until[j] = 0
  /\ \A i \in DOMAIN log :
       log[i].op = "put" /\ log[i].job = j => log[i].state.next = Never
  /\ \A i \in DOMAIN line \ {1} : line[i] # j
  /\ j \in DOMAIN store /\ store[j].next # Never => line # <<>> /\ line[1] = j
Started(j) == OneTime(j) /\ startedOnce[j] > 0 /\ j \notin mayRepeat

LEMMA LogFacts ==
  ASSUME CronIInv, NEW log \in {<<>>, actions}
  PROVE  /\ log \in Seq(Action) /\ About(log) \subseteq added
         /\ About(log) \cap SystemJobs \subseteq PutLast(log)
         /\ \A i \in DOMAIN log :
              log[i].op = "put" => OnTime(log[i].job, log[i].state.next)
         /\ \A j \in CronJobs : Started(j) =>
              \A i \in DOMAIN log :
                log[i].op = "put" /\ log[i].job = j => log[i].state.next = Never
<1>1. CASE log = <<>>
  BY <1>1, NothingLogged
<1>2. CASE log = actions
  BY <1>2 DEF CronIInv, CronTypeOK, Ticking, Known, TimesAgree, StartedIsSpent, Started, Spent
<1> QED BY <1>1, <1>2

(* The merged file.                                                        *)
LEMMA MergedFacts ==
  ASSUME CronIInv
  PROVE  /\ IsStore(Merged(jobsFile)) /\ DOMAIN Merged(jobsFile) \subseteq added
         /\ owed \ dropped \subseteq DOMAIN Merged(jobsFile)
         /\ \A j \in DOMAIN Merged(jobsFile) : OnTime(j, Merged(jobsFile)[j].next)
         /\ \A j \in DOMAIN Merged(jobsFile) : Started(j) /\ serving /\ Idle =>
              Merged(jobsFile)[j].next = Never
<1> DEFINE m == Merged(jobsFile)
<1>1. actions \in Seq(Action) /\ IsStore(jobsFile)
  BY DEF CronIInv, CronTypeOK, Ticking
<1>2. /\ DOMAIN m = PutLast(actions) \cup (DOMAIN jobsFile \ About(actions))
      /\ IsStore(m) /\ PutLast(actions) \subseteq About(actions)
      /\ \A j \in DOMAIN m :
           \/ \E i \in DOMAIN actions : /\ actions[i].op = "put" /\ actions[i].job = j
                                        /\ m[j] = actions[i].state
           \/ j \in DOMAIN jobsFile /\ m[j] = jobsFile[j]
  BY <1>1, MergeFacts DEF Merged
<1>3. owed \ dropped \subseteq DOMAIN m
  BY DEF CronIInv, CopiesKeep, Keeps
<1> HIDE DEF m
<1>4. DOMAIN m \subseteq added
  BY <1>2 DEF CronIInv, Known
<1>5. \A j \in DOMAIN m : OnTime(j, m[j].next)
  BY <1>2 DEF CronIInv, TimesAgree
<1>6. \A j \in DOMAIN m : Started(j) /\ serving /\ Idle => m[j].next = Never
  BY <1>2 DEF CronIInv, StartedIsSpent, Started, Spent, IsStore
<1> QED BY <1>2, <1>3, <1>4, <1>5, <1>6 DEF m

LEMMA LoadedFacts ==
  ASSUME CronIInv, serving
  PROVE  /\ IsStore(Loaded) /\ DOMAIN Loaded \subseteq added
         /\ LogAfterLoad \in {<<>>, actions} /\ (~Idle => LogAfterLoad = actions)
         /\ owed \ dropped \subseteq DOMAIN Merge(LogAfterLoad, Loaded)
         /\ \A j \in DOMAIN Loaded : OnTime(j, Loaded[j].next)
         /\ \A j \in CronJobs : Started(j) => SettledIn(j, Loaded, LogAfterLoad, due)
<1> DEFINE l == Loaded  log == LogAfterLoad
<1>1. CASE Idle
  <2>1. l = Merged(jobsFile) /\ log = <<>>
    BY <1>1 DEF Loaded, LogAfterLoad
  <2>2. DOMAIN Merge(log, l) = DOMAIN l
    BY <2>1, NothingLogged
  <2>3. \A j \in CronJobs : Started(j) => SettledIn(j, l, log, due)
    <3> SUFFICES ASSUME NEW j \in CronJobs, Started(j)
                 PROVE  SettledIn(j, l, log, due)
      OBVIOUS
    <3>1. j \in DOMAIN l => l[j].next = Never
      BY <1>1, <2>1, MergedFacts
    <3>2. Spent(j)
      BY DEF CronIInv, StartedIsSpent, Started
    <3> HIDE DEF l
    <3> QED BY <2>1, <3>1, <3>2 DEF SettledIn, Spent
  <2> QED BY <1>1, <2>1, <2>2, <2>3, MergedFacts
<1>2. CASE ~Idle
  <2>1. l = jobs /\ log = actions
    BY <1>2 DEF Loaded, LogAfterLoad
  <2>2. IsStore(jobs) /\ DOMAIN jobs \subseteq added
    BY DEF CronIInv, CronTypeOK, Ticking, Known
  <2>3. owed \ dropped \subseteq DOMAIN Merge(actions, jobs)
    BY DEF CronIInv, CopiesKeep, Keeps, Merged
  <2>4. \A j \in DOMAIN jobs : OnTime(j, jobs[j].next)
    BY DEF CronIInv, TimesAgree
  <2>5. \A j \in CronJobs : Started(j) => SettledIn(j, jobs, actions, due)
    BY DEF CronIInv, StartedIsSpent, Started, Spent, SettledIn
  <2> QED BY <1>2, <2>1, <2>2, <2>3, <2>4, <2>5
<1> QED BY <1>1, <1>2

LEMMA ArmFacts ==
  ASSUME NEW store, IsStore(store), Arm(store)
  PROVE  tick' = "armed" /\ due' = <<>> /\ wake' \in 0..MaxSleep
<1>1. MaxSleep \in Nat /\ Period \in Nat
  BY CronAssumption
<1>2. \A j \in DOMAIN store : store[j].next \in Nat
  BY <1>1 DEF IsStore, JobState, Never
<1>3. wake' \in Nat /\ wake' <= MaxSleep
  BY <1>1, <1>2 DEF Arm
<1> QED BY <1>1, <1>3 DEF Arm

(* A step of the service that ends with a good store in memory, and in the *)
(* file unless something is executing.                                     *)
LEMMA StoreStep ==
  ASSUME CronIInv, NEW store, IsStore(store),
         jobs' = store, serving',
         jobsFile' = store \/ (jobsFile' = jobsFile /\ actions' = actions /\ owed' \subseteq owed /\ ~Idle'),
         actions' \in {<<>>, actions},
         added \subseteq added', added' \subseteq CronJobs, owed' \subseteq added',
         DOMAIN store \subseteq added', owed' \ dropped \subseteq DOMAIN Merge(actions', store),
         \A j \in DOMAIN store : OnTime(j, store[j].next),
         until' = until, view' = view, dropped' = dropped, cronFaults' = cronFaults,
         manual' \subseteq CronJobs, edits' \in 0..MaxEdits,
         tick' \in {"armed", "running", "hung"}, wake' \in 0..MaxSleep,
         due' \in Seq(CronJobs), (due' # <<>> <=> Ticking'), IsInjective(due'),
         \A i \in DOMAIN due' : OneTime(due'[i]) => until[due'[i]] = 0,
         startedOnce' \in [CronJobs -> 0..2], mayRepeat' \subseteq CronJobs,
         \A j \in CronJobs : Started(j)' => SettledIn(j, store, actions', due'),
         OneTimeRunsOnce'
  PROVE  CronIInv'
<1>1. /\ actions' \in Seq(Action) /\ About(actions') \subseteq added
      /\ About(actions') \cap SystemJobs \subseteq PutLast(actions')
      /\ \A i \in DOMAIN actions' :
           actions'[i].op = "put" => OnTime(actions'[i].job, actions'[i].state.next)
  BY LogFacts
<1>2. CronTypeOK'
  BY <1>1 DEF CronIInv, CronTypeOK, Ticking, IsStore
<1>3. Known'
  BY <1>1 DEF CronIInv, Known, About
<1>4. CopiesKeep'
  <2>1. Keeps(jobs)'
    BY DEF Keeps, Merged
  <2>2. Keeps(jobsFile)'
    BY <2>1 DEF CronIInv, CopiesKeep, Keeps, Merged
  <2> QED BY <2>1, <2>2 DEF CopiesKeep
<1>5. TimesAgree'
  <2>1. \A j, n : OnTime(j, n)' <=> OnTime(j, n)
    BY DEF OnTime
  <2>2. \A j \in DOMAIN jobsFile' : OnTime(j, jobsFile'[j].next)
    BY DEF CronIInv, TimesAgree
  <2>3. (\A j \in DOMAIN jobsFile : OnTime(j, jobsFile[j].next))'
    BY <2>2 DEF OnTime
  <2>4. (\A j \in DOMAIN jobs : OnTime(j, jobs[j].next))'
    BY DEF OnTime
  <2>5. (\A i \in DOMAIN actions :
           actions[i].op = "put" => OnTime(actions[i].job, actions[i].state.next))'
    BY <1>1 DEF OnTime
  <2> QED BY <2>3, <2>4, <2>5 DEF TimesAgree
<1>6. StartedIsSpent'
  <2> SUFFICES ASSUME NEW j \in CronJobs, Started(j)'
               PROVE  Spent(j)'
    BY DEF StartedIsSpent, Started
  <2>1. SettledIn(j, store, actions', due')
    OBVIOUS
  <2>2. Idle' => due' = <<>>
    BY DEF Idle, Ticking
  <2> QED BY <2>1, <2>2 DEF Spent, SettledIn
<1> QED BY <1>2, <1>3, <1>4, <1>5, <1>6 DEF CronIInv
-----------------------------------------------------------------------------
(* The steps of the service.                                               *)
LEMMA EditStep ==
  ASSUME CronIInv, serving, NEW store, IsStore(store), Edit(store),
         added \subseteq added', added' \subseteq CronJobs, owed' \subseteq added',
         DOMAIN store \subseteq added', owed' \ dropped \subseteq DOMAIN Merge(LogAfterLoad, store),
         \A j \in DOMAIN store : OnTime(j, store[j].next),
         \A j \in CronJobs : Started(j) => SettledIn(j, store, LogAfterLoad, due)
  PROVE  CronIInv'
<1>1. /\ jobs' = store /\ jobsFile' = store /\ actions' = LogAfterLoad
      /\ serving' /\ manual' = manual /\ until' = until /\ view' = view
      /\ cronFaults' = cronFaults /\ dropped' = dropped /\ startedOnce' = startedOnce
      /\ edits' \in 0..MaxEdits
      /\ mayRepeat' = mayRepeat \cup {due[i] : i \in DOMAIN due \cap {1}}
  BY CronAssumption DEF Edit, Save, CronIInv, CronTypeOK, Ticking
<1>2. tick' = "armed" /\ due' = <<>> /\ wake' \in 0..MaxSleep
  BY ArmFacts DEF Edit
<1>3. /\ manual \subseteq CronJobs /\ startedOnce \in [CronJobs -> 0..2]
      /\ mayRepeat \subseteq CronJobs /\ due \in Seq(CronJobs)
      /\ OneTimeRunsOnce
  BY DEF CronIInv, CronTypeOK, Ticking
<1>4. mayRepeat' \subseteq CronJobs
  BY <1>1, <1>3
<1>5. \A j \in CronJobs : Started(j)' => SettledIn(j, store, actions', due')
  <2> SUFFICES ASSUME NEW j \in CronJobs, Started(j)'
               PROVE  SettledIn(j, store, actions', due')
    OBVIOUS
  <2>1. Started(j) /\ j \notin {due[i] : i \in DOMAIN due \cap {1}}
    BY <1>1 DEF Started
  <2>2. SettledIn(j, store, LogAfterLoad, due)
    BY <2>1
  <2>3. due # <<>> => due[1] # j
    BY <1>3, <2>1
  <2> QED BY <1>1, <1>2, <2>2, <2>3 DEF SettledIn
<1>6. OneTimeRunsOnce'
  BY <1>1, <1>3 DEF OneTimeRunsOnce
<1>7. actions' \in {<<>>, actions}
  BY <1>1, LoadedFacts
<1>8. <<>> \in Seq(CronJobs) /\ IsInjective(<<>>) /\ DOMAIN <<>> = {}
  BY DEF IsInjective
<1> QED BY <1>1, <1>2, <1>3, <1>4, <1>5, <1>6, <1>7, <1>8, StoreStep DEF Ticking

(* Putting a job into what was loaded, and dropping one from it.           *)
LEMMA PutLoaded ==
  ASSUME CronIInv, serving, NEW j \in CronJobs, NEW on \in BOOLEAN,
         NEW store, store = Put(Loaded, j, JobAs(j, on))
  PROVE  /\ IsStore(store) /\ DOMAIN store \subseteq added \cup {j} /\ j \in DOMAIN store
         /\ owed \ dropped \subseteq DOMAIN Merge(LogAfterLoad, store)
         /\ j \notin About(LogAfterLoad) => j \in DOMAIN Merge(LogAfterLoad, store)
         /\ \A k \in DOMAIN store : OnTime(k, store[k].next)
         /\ \A k \in CronJobs : Started(k) => SettledIn(k, store, LogAfterLoad, due)
<1> DEFINE l == Loaded  log == LogAfterLoad
<1>1. /\ IsStore(l) /\ DOMAIN l \subseteq added
      /\ owed \ dropped \subseteq DOMAIN Merge(log, l)
      /\ \A k \in DOMAIN l : OnTime(k, l[k].next)
      /\ \A k \in CronJobs : Started(k) => SettledIn(k, l, log, due)
  BY LoadedFacts
<1>2. /\ JobAs(j, on) \in JobState /\ OnTime(j, JobAs(j, on).next)
      /\ OneTime(j) /\ until[j] = 0 => JobAs(j, on).next = Never
  BY JobAsFacts DEF CronIInv
<1> DEFINE s == JobAs(j, on)
<1>3. store = Put(l, j, s)
  OBVIOUS
<1>4. /\ s \in JobState /\ OnTime(j, s.next)
      /\ OneTime(j) /\ until[j] = 0 => s.next = Never
  BY <1>2
<1> HIDE DEF l, log, s
<1>5. /\ DOMAIN store = DOMAIN l \cup {j} /\ store[j] = s
      /\ \A k \in DOMAIN l : k # j => store[k] = l[k]
      /\ IsStore(store)
  <2>1. /\ DOMAIN Put(l, j, s) = DOMAIN l \cup {j} /\ Put(l, j, s)[j] = s
        /\ \A k \in DOMAIN l : k # j => Put(l, j, s)[k] = l[k]
        /\ IsStore(l) /\ s \in JobState => IsStore(Put(l, j, s))
    BY DEF Put, IsStore
  <2> QED BY <1>1, <1>3, <1>4, <2>1
<1>6. /\ DOMAIN Merge(log, l) = PutLast(log) \cup (DOMAIN l \ About(log))
      /\ DOMAIN Merge(log, store) = PutLast(log) \cup (DOMAIN store \ About(log))
  BY DEF Merge
<1>7. \A k \in CronJobs : Started(k) => SettledIn(k, store, log, due)
  BY <1>1, <1>4, <1>5 DEF SettledIn, Started
<1>8. \A k \in DOMAIN store : OnTime(k, store[k].next)
  BY <1>1, <1>4, <1>5
<1> QED BY <1>1, <1>5, <1>6, <1>7, <1>8 DEF l, log

LEMMA DropLoaded ==
  ASSUME CronIInv, serving, NEW j \in CronJobs, NEW store, store = Drop(Loaded, j)
  PROVE  /\ IsStore(store) /\ DOMAIN store \subseteq added
         /\ (owed \ {j}) \ dropped \subseteq DOMAIN Merge(LogAfterLoad, store)
         /\ \A k \in DOMAIN store : OnTime(k, store[k].next)
         /\ \A k \in CronJobs : Started(k) => SettledIn(k, store, LogAfterLoad, due)
<1> DEFINE l == Loaded  log == LogAfterLoad
<1>1. /\ IsStore(l) /\ DOMAIN l \subseteq added
      /\ owed \ dropped \subseteq DOMAIN Merge(log, l)
      /\ \A k \in DOMAIN l : OnTime(k, l[k].next)
      /\ \A k \in CronJobs : Started(k) => SettledIn(k, l, log, due)
  BY LoadedFacts
<1>2. store = Drop(l, j)
  OBVIOUS
<1> HIDE DEF l, log
<1>3. /\ DOMAIN store = DOMAIN l \ {j} /\ IsStore(store)
      /\ \A k \in DOMAIN l \ {j} : store[k] = l[k]
  <2>1. /\ DOMAIN Drop(l, j) = DOMAIN l \ {j}
        /\ \A k \in DOMAIN l \ {j} : Drop(l, j)[k] = l[k]
        /\ IsStore(l) => IsStore(Drop(l, j))
    BY DropFacts
  <2> QED BY <1>1, <1>2, <2>1
<1>4. /\ DOMAIN Merge(log, l) = PutLast(log) \cup (DOMAIN l \ About(log))
      /\ DOMAIN Merge(log, store) = PutLast(log) \cup (DOMAIN store \ About(log))
  BY DEF Merge
<1>5. \A k \in CronJobs : Started(k) => SettledIn(k, store, log, due)
  BY <1>1, <1>3 DEF SettledIn
<1> QED BY <1>1, <1>3, <1>4, <1>5 DEF l, log

LEMMA AddJobStep == \A j \in CronJobs : CronIInv /\ AddJob(j) => CronIInv'
<1> SUFFICES ASSUME NEW j \in CronJobs, CronIInv, AddJob(j) PROVE CronIInv'
  OBVIOUS
<1> DEFINE store == Put(Loaded, j, JobAs(j, TRUE))
<1>1. /\ serving /\ Edit(store) /\ j \notin added
      /\ added' = added \cup {j} /\ owed' = owed \cup {j}
  BY DEF AddJob, New
<1>2. added \subseteq CronJobs /\ owed \subseteq added /\ LogAfterLoad \in {<<>>, actions}
  BY <1>1, LoadedFacts DEF CronIInv, CronTypeOK, Ticking
<1>3. j \notin About(LogAfterLoad)
  BY <1>1, <1>2, LogFacts
<1>4. PICK on \in BOOLEAN : store = Put(Loaded, j, JobAs(j, on))
  OBVIOUS
<1> HIDE DEF store
<1> QED BY <1>1, <1>2, <1>3, <1>4, PutLoaded, EditStep

LEMMA RemoveJobStep == \A j \in CronJobs : CronIInv /\ RemoveJob(j) => CronIInv'
<1> SUFFICES ASSUME NEW j \in CronJobs, CronIInv, RemoveJob(j) PROVE CronIInv'
  OBVIOUS
<1> DEFINE store == Drop(Loaded, j)
<1>1. serving /\ Edit(store) /\ added' = added /\ owed' = owed \ {j}
  BY DEF RemoveJob
<1>2. added \subseteq CronJobs /\ owed \subseteq added
  BY DEF CronIInv, CronTypeOK, Ticking
<1>3. store = Drop(Loaded, j)
  OBVIOUS
<1> HIDE DEF store
<1> QED BY <1>1, <1>2, <1>3, DropLoaded, EditStep

LEMMA EnableJobStep ==
  \A j \in CronJobs, on \in BOOLEAN : CronIInv /\ EnableJob(j, on) => CronIInv'
<1> SUFFICES ASSUME NEW j \in CronJobs, NEW on \in BOOLEAN, CronIInv, EnableJob(j, on)
             PROVE  CronIInv'
  OBVIOUS
<1> DEFINE store == Put(Loaded, j, JobAs(j, on))
<1>1. serving /\ Edit(store) /\ added' = added /\ owed' = owed /\ j \in DOMAIN Loaded
  BY DEF EnableJob
<1>2. added \subseteq CronJobs /\ owed \subseteq added /\ DOMAIN Loaded \subseteq added
  BY <1>1, LoadedFacts DEF CronIInv, CronTypeOK, Ticking
<1>3. store = Put(Loaded, j, JobAs(j, on))
  OBVIOUS
<1> HIDE DEF store
<1> QED BY <1>1, <1>2, <1>3, PutLoaded, EditStep

(* A job ends.                                                             *)
LEMMA ExecutedFacts ==
  ASSUME CronIInv, serving, ~Idle, NEW j \in CronJobs, NEW store, store = Executed(jobs, j)
  PROVE  /\ IsStore(store) /\ DOMAIN store \subseteq added
         /\ StillOwed(j) \subseteq owed
         /\ StillOwed(j) \ dropped \subseteq DOMAIN Merge(actions, store)
         /\ \A k \in DOMAIN store : OnTime(k, store[k].next)
         /\ \A k \in CronJobs : Started(k) =>
              /\ SettledIn(k, store, actions, due)
              /\ k = j /\ k \in DOMAIN store => store[k].next = Never
<1>1. /\ IsStore(jobs) /\ DOMAIN jobs \subseteq added
      /\ owed \ dropped \subseteq DOMAIN Merge(actions, jobs)
      /\ \A k \in DOMAIN jobs : OnTime(k, jobs[k].next)
      /\ \A k \in CronJobs : Started(k) => SettledIn(k, jobs, actions, due)
  BY LoadedFacts DEF Loaded
<1>2. /\ DOMAIN Merge(actions, jobs) = PutLast(actions) \cup (DOMAIN jobs \ About(actions))
      /\ DOMAIN Merge(actions, store) = PutLast(actions) \cup (DOMAIN store \ About(actions))
  BY DEF Merge
<1>3. Never \in 0..Never
  BY CronAssumption DEF Never
<1>4. CASE j \notin DOMAIN jobs
  BY <1>1, <1>2, <1>4 DEF Executed, StillOwed, SettledIn
<1>5. CASE j \in DOMAIN jobs /\ KindOf[j] = "once"
  <2>1. store = Drop(jobs, j) /\ StillOwed(j) = owed \ {j}
    BY <1>5 DEF Executed, StillOwed
  <2>2. /\ DOMAIN store = DOMAIN jobs \ {j} /\ IsStore(store)
        /\ \A k \in DOMAIN jobs \ {j} : store[k] = jobs[k]
    <3>1. /\ DOMAIN Drop(jobs, j) = DOMAIN jobs \ {j}
          /\ \A k \in DOMAIN jobs \ {j} : Drop(jobs, j)[k] = jobs[k]
          /\ IsStore(jobs) => IsStore(Drop(jobs, j))
      BY DropFacts
    <3> QED BY <1>1, <2>1, <3>1
  <2> QED BY <1>1, <1>2, <2>1, <2>2 DEF SettledIn
<1>6. CASE j \in DOMAIN jobs /\ KindOf[j] # "once"
  <2>1. PICK state \in JobState :
          /\ store = Put(jobs, j, state) /\ OnTime(j, state.next)
          /\ OneTime(j) => state.next = Never
    <3>1. CASE KindOf[j] = "at"
      <4>1. store = Put(jobs, j, [on |-> FALSE, next |-> Never])
        BY <1>6, <3>1 DEF Executed
      <4>2. [on |-> FALSE, next |-> Never] \in JobState
        BY <1>3 DEF JobState
      <4> QED BY <4>1, <4>2 DEF OnTime
    <3>2. CASE KindOf[j] # "at"
      <4>1. store = Put(jobs, j, [jobs[j] EXCEPT !.next = NextRun(j)])
        BY <1>6, <3>2 DEF Executed
      <4>2. KindOf[j] = "every" /\ NextRun(j) \in 0..Never
        BY <1>6, <3>2, CronAssumption DEF NextRun, Never
      <4>3. jobs[j] \in JobState
        BY <1>1, <1>6 DEF IsStore
      <4> QED BY <4>1, <4>2, <4>3 DEF JobState, OnTime, OneTime
    <3> QED BY <3>1, <3>2
  <2>2. /\ DOMAIN store = DOMAIN jobs /\ store[j] = state
        /\ \A k \in DOMAIN jobs : k # j => store[k] = jobs[k]
        /\ IsStore(store)
    BY <1>1, <1>6, <2>1 DEF Put, IsStore
  <2>3. StillOwed(j) = owed
    BY <1>6 DEF StillOwed
  <2> QED BY <1>1, <1>2, <2>1, <2>2, <2>3 DEF SettledIn, Started
<1> QED BY <1>4, <1>5, <1>6

(* The timer starts a job that it has not started before, or one that may  *)
(* be started again.                                                       *)
LEMMA BegunFacts ==
  ASSUME CronIInv, NEW k \in CronJobs, NEW log, Begun(k, log), ~Started(k)
  PROVE  /\ startedOnce' \in [CronJobs -> 0..2]
         /\ mayRepeat \subseteq mayRepeat' /\ mayRepeat' \subseteq CronJobs
         /\ OneTimeRunsOnce'
         /\ \A j \in CronJobs : Started(j)' =>
              \/ j # k /\ Started(j)
              \/ j = k /\ OneTime(k) /\ k \notin About(log)
<1>1. /\ startedOnce \in [CronJobs -> 0..2] /\ mayRepeat \subseteq CronJobs /\ OneTimeRunsOnce
  BY DEF CronIInv, CronTypeOK, Ticking
<1>2. CASE ~OneTime(k)
  BY <1>1, <1>2 DEF Begun, OneTime, OneTimeRunsOnce, Started
<1>3. CASE OneTime(k)
  <2>1. /\ startedOnce' = [startedOnce EXCEPT ![k] = IF @ = 2 THEN 2 ELSE @ + 1]
        /\ mayRepeat' = IF k \in About(log) THEN mayRepeat \cup {k} ELSE mayRepeat
    BY <1>3 DEF Begun, OneTime
  <2>2. startedOnce[k] = 0 \/ k \in mayRepeat
    BY <1>1, <1>3 DEF Started
  <2> QED BY <1>1, <1>3, <2>1, <2>2 DEF OneTimeRunsOnce, Started
<1> QED BY <1>2, <1>3

LEMMA NothingBegun ==
  ASSUME CronIInv, startedOnce' = startedOnce, mayRepeat' = mayRepeat
  PROVE  /\ startedOnce' \in [CronJobs -> 0..2] /\ mayRepeat' \subseteq CronJobs
         /\ OneTimeRunsOnce'
         /\ \A j \in CronJobs : Started(j)' => Started(j)
BY DEF CronIInv, CronTypeOK, Ticking, OneTimeRunsOnce, Started

LEMMA EmptyLine == <<>> \in Seq(CronJobs) /\ IsInjective(<<>>) /\ DOMAIN <<>> = {}
BY DEF IsInjective

LEMMA ManualEndsStep == \A j \in CronJobs : CronIInv /\ ManualEnds(j) => CronIInv'
<1> SUFFICES ASSUME NEW j \in CronJobs, CronIInv, ManualEnds(j) PROVE CronIInv'
  OBVIOUS
<1> DEFINE store == Executed(jobs, j)
<1>1. /\ j \in manual /\ manual' = manual \ {j} /\ owed' = StillOwed(j)
      /\ jobs' = store /\ jobsFile' = store /\ actions' = actions
      /\ serving' = serving /\ added' = added /\ until' = until /\ view' = view
      /\ edits' = edits /\ cronFaults' = cronFaults /\ dropped' = dropped
      /\ startedOnce' = startedOnce /\ mayRepeat' = mayRepeat
      /\ \/ tick = "armed" /\ Arm(store)
         \/ UNCHANGED <<tick, wake, due>>
  BY DEF ManualEnds, Save
<1>2. serving /\ ~Idle
  BY <1>1 DEF CronIInv, Known, Idle, Ticking
<1>3. store = Executed(jobs, j)
  OBVIOUS
<1> HIDE DEF store
<1>4. /\ IsStore(store) /\ DOMAIN store \subseteq added
      /\ owed' \subseteq owed /\ owed' \ dropped \subseteq DOMAIN Merge(actions, store)
      /\ \A k \in DOMAIN store : OnTime(k, store[k].next)
      /\ \A k \in CronJobs : Started(k) => SettledIn(k, store, actions, due)
  BY <1>1, <1>2, <1>3, ExecutedFacts
<1>5. /\ manual \subseteq CronJobs /\ edits \in 0..MaxEdits /\ owed \subseteq added
      /\ added \subseteq CronJobs /\ tick \in {"armed", "running", "hung"} /\ wake \in 0..MaxSleep
      /\ due \in Seq(CronJobs) /\ (due # <<>> <=> Ticking) /\ IsInjective(due)
      /\ \A i \in DOMAIN due : OneTime(due[i]) => until[due[i]] = 0
  BY <1>2 DEF CronIInv, CronTypeOK, Ticking, TimesAgree
<1>6. /\ tick' \in {"armed", "running", "hung"} /\ wake' \in 0..MaxSleep
      /\ due' = due /\ (due' # <<>> <=> Ticking')
  BY <1>1, <1>4, <1>5, ArmFacts DEF Ticking
<1> QED BY <1>1, <1>2, <1>4, <1>5, <1>6, NothingBegun, StoreStep DEF Ticking

LEMMA ManualStartsStep == \A j \in CronJobs : CronIInv /\ ManualStarts(j) => CronIInv'
<1> SUFFICES ASSUME NEW j \in CronJobs, CronIInv, ManualStarts(j) PROVE CronIInv'
  OBVIOUS
<1> DEFINE store == Loaded
<1>1. /\ serving /\ serving' = serving /\ manual' = manual \cup {j} /\ UNCHANGED cronHistory
      /\ jobs' = store /\ jobsFile' = (IF Idle THEN store ELSE jobsFile) /\ actions' = LogAfterLoad
      /\ UNCHANGED <<tick, wake, due, until, view, edits, cronFaults>>
  BY DEF ManualStarts
<1>2. /\ IsStore(store) /\ DOMAIN store \subseteq added
      /\ actions' \in {<<>>, actions} /\ (~Idle => actions' = actions)
      /\ owed \ dropped \subseteq DOMAIN Merge(actions', store)
      /\ \A k \in DOMAIN store : OnTime(k, store[k].next)
      /\ \A k \in CronJobs : Started(k) => SettledIn(k, store, actions', due)
  BY <1>1, LoadedFacts
<1>3. /\ manual \subseteq CronJobs /\ edits \in 0..MaxEdits /\ owed \subseteq added
      /\ added \subseteq CronJobs /\ tick \in {"armed", "running", "hung"} /\ wake \in 0..MaxSleep
      /\ due \in Seq(CronJobs) /\ (due # <<>> <=> Ticking) /\ IsInjective(due)
      /\ \A i \in DOMAIN due : OneTime(due[i]) => until[due[i]] = 0
  BY <1>1 DEF CronIInv, CronTypeOK, Ticking, TimesAgree
<1>4. ~Idle'
  BY <1>1 DEF Idle, Ticking
<1>5. /\ startedOnce' = startedOnce /\ mayRepeat' = mayRepeat /\ added' = added
      /\ owed' = owed /\ dropped' = dropped
  BY <1>1 DEF cronHistory
<1> HIDE DEF store
<1> QED BY <1>1, <1>2, <1>3, <1>4, <1>5, NothingBegun, StoreStep DEF Ticking

LEMMA ListJobsStep == CronIInv /\ ListJobs => CronIInv'
<1> SUFFICES ASSUME CronIInv, ListJobs PROVE CronIInv'
  OBVIOUS
<1> DEFINE store == Loaded
<1>1. /\ serving /\ serving' = serving /\ Idle /\ UNCHANGED cronHistory
      /\ jobs' = store /\ jobsFile' = store /\ actions' = LogAfterLoad
      /\ UNCHANGED <<tick, wake, due, manual, until, view, edits, cronFaults>>
  BY DEF ListJobs, Save, Loaded, LogAfterLoad
<1>2. /\ IsStore(store) /\ DOMAIN store \subseteq added
      /\ actions' \in {<<>>, actions}
      /\ owed \ dropped \subseteq DOMAIN Merge(actions', store)
      /\ \A k \in DOMAIN store : OnTime(k, store[k].next)
      /\ \A k \in CronJobs : Started(k) => SettledIn(k, store, actions', due)
  BY <1>1, LoadedFacts
<1>3. /\ manual \subseteq CronJobs /\ edits \in 0..MaxEdits /\ owed \subseteq added
      /\ added \subseteq CronJobs /\ tick \in {"armed", "running", "hung"} /\ wake \in 0..MaxSleep
      /\ due \in Seq(CronJobs) /\ (due # <<>> <=> Ticking) /\ IsInjective(due)
      /\ \A i \in DOMAIN due : OneTime(due[i]) => until[due[i]] = 0
  BY <1>1 DEF CronIInv, CronTypeOK, Ticking, TimesAgree
<1>4. /\ startedOnce' = startedOnce /\ mayRepeat' = mayRepeat /\ added' = added
      /\ owed' = owed /\ dropped' = dropped
  BY <1>1 DEF cronHistory
<1> HIDE DEF store
<1> QED BY <1>1, <1>2, <1>3, <1>4, NothingBegun, StoreStep DEF Ticking

(* The jobs that are due, in some order.                                   *)
LEMMA OrderFacts ==
  ASSUME NEW S, S \subseteq CronJobs, NEW order \in SetToSeqs(S)
  PROVE  /\ order \in Seq(CronJobs) /\ IsInjective(order)
         /\ \A i \in DOMAIN order : order[i] \in S
<1> DEFINE n == Cardinality(S)
<1>1. n \in Nat
  BY CronAssumption, FS_Subset, FS_CardinalityType
<1>2. order \in [1..n -> S] /\ \A i, j \in 1..n : i # j => order[i] # order[j]
  BY DEF SetToSeqs
<1> HIDE DEF n
<1>3. order \in Seq(CronJobs)
  BY <1>1, <1>2
<1> QED BY <1>1, <1>2, <1>3 DEF IsInjective

LEMMA TimerFiresStep == CronIInv /\ TimerFires => CronIInv'
<1> SUFFICES ASSUME CronIInv, TimerFires PROVE CronIInv'
  OBVIOUS
<1> DEFINE store == Loaded
<1>1. /\ tick = "armed" /\ actions' = LogAfterLoad
      /\ UNCHANGED <<serving, manual, until, view, edits, cronFaults, added, owed, dropped>>
      /\ \/ Save(store) /\ Arm(store) /\ UNCHANGED <<startedOnce, mayRepeat>>
         \/ \E order \in SetToSeqs(DueNow(store)) :
              /\ order # <<>>
              /\ jobs' = store /\ jobsFile' = (IF Idle THEN store ELSE jobsFile)
              /\ tick' = "running" /\ due' = order
              /\ Begun(Head(order), LogAfterLoad)
              /\ UNCHANGED wake
  BY DEF TimerFires
<1>2. /\ serving /\ due = <<>> /\ manual \subseteq CronJobs /\ edits \in 0..MaxEdits
      /\ owed \subseteq added /\ added \subseteq CronJobs /\ wake \in 0..MaxSleep
  BY <1>1 DEF CronIInv, CronTypeOK, Ticking
<1>3. /\ IsStore(store) /\ DOMAIN store \subseteq added
      /\ actions' \in {<<>>, actions} /\ (~Idle => actions' = actions)
      /\ owed \ dropped \subseteq DOMAIN Merge(actions', store)
      /\ \A k \in DOMAIN store : OnTime(k, store[k].next)
      /\ \A k \in CronJobs : Started(k) => SettledIn(k, store, actions', <<>>)
  BY <1>1, <1>2, LoadedFacts
<1> HIDE DEF store
<1>4. CASE Save(store) /\ Arm(store) /\ UNCHANGED <<startedOnce, mayRepeat>>
  <2>1. tick' = "armed" /\ due' = <<>> /\ wake' \in 0..MaxSleep
    BY <1>3, <1>4, ArmFacts
  <2>2. jobs' = store /\ jobsFile' = store
    BY <1>4 DEF Save
  <2> QED BY <1>1, <1>2, <1>3, <1>4, <2>1, <2>2, EmptyLine, NothingBegun, StoreStep DEF Ticking
<1>5. CASE \E order \in SetToSeqs(DueNow(store)) :
              /\ order # <<>>
              /\ jobs' = store /\ jobsFile' = (IF Idle THEN store ELSE jobsFile)
              /\ tick' = "running" /\ due' = order
              /\ Begun(Head(order), LogAfterLoad)
              /\ UNCHANGED wake
  <2>1. PICK order \in SetToSeqs(DueNow(store)) :
              /\ order # <<>>
              /\ jobs' = store /\ jobsFile' = (IF Idle THEN store ELSE jobsFile)
              /\ tick' = "running" /\ due' = order
              /\ Begun(Head(order), LogAfterLoad)
              /\ UNCHANGED wake
    BY <1>5
  <2>2. DueNow(store) \subseteq CronJobs
    BY <1>3 DEF DueNow, IsStore
  <2>3. /\ order \in Seq(CronJobs) /\ IsInjective(order)
        /\ \A i \in DOMAIN order : order[i] \in DueNow(store)
    BY <2>2, OrderFacts
  <2>4. Never # 0
    BY CronAssumption DEF Never
  <2>5. \A k \in DueNow(store) : /\ ~Started(k) /\ k \in DOMAIN store
                                 /\ OneTime(k) => until[k] = 0
    BY <1>3, <2>2, <2>4 DEF DueNow, SettledIn, OnTime
  <2>6. Head(order) = order[1] /\ 1 \in DOMAIN order /\ order[1] \in CronJobs
    BY <2>1, <2>3
  <2>7. /\ startedOnce' \in [CronJobs -> 0..2] /\ mayRepeat' \subseteq CronJobs
        /\ OneTimeRunsOnce'
        /\ \A j \in CronJobs : Started(j)' =>
             \/ j # order[1] /\ Started(j)
             \/ j = order[1] /\ OneTime(j) /\ j \notin About(actions')
    BY <1>1, <2>1, <2>3, <2>5, <2>6, BegunFacts
  <2>8. \A j \in CronJobs : Started(j)' => SettledIn(j, store, actions', due')
    <3> SUFFICES ASSUME NEW j \in CronJobs, Started(j)'
                 PROVE  SettledIn(j, store, actions', order)
      BY <2>1
    <3>1. CASE j # order[1] /\ Started(j)
      BY <1>3, <2>3, <2>5, <3>1 DEF SettledIn
    <3>2. CASE j = order[1] /\ OneTime(j) /\ j \notin About(actions')
      <4>1. \A i \in DOMAIN order \ {1} : order[i] # j
        BY <2>3, <2>6, <3>2 DEF IsInjective
      <4>2. \A i \in DOMAIN actions' : actions'[i].job # j
        BY <3>2 DEF About
      <4> QED BY <2>1, <2>3, <2>5, <2>6, <3>2, <4>1, <4>2 DEF SettledIn
    <3> QED BY <2>7, <3>1, <3>2
  <2>9. ~Idle'
    BY <2>1 DEF Idle, Ticking
  <2>10. \A i \in DOMAIN due' : OneTime(due'[i]) => until[due'[i]] = 0
    BY <2>1, <2>3, <2>5
  <2> QED BY <1>1, <1>2, <1>3, <2>1, <2>3, <2>7, <2>8, <2>9, <2>10, StoreStep DEF Ticking
<1> QED BY <1>1, <1>4, <1>5

LEMMA RestFacts ==
  ASSUME NEW q \in Seq(CronJobs), Len(q) > 1
  PROVE  /\ Tail(q) \in Seq(CronJobs) /\ Tail(q) # <<>>
         /\ 1 \in DOMAIN Tail(q) /\ 2 \in DOMAIN q /\ q[2] \in CronJobs
         /\ \A i \in DOMAIN Tail(q) :
              i + 1 \in DOMAIN q /\ i + 1 # 1 /\ Tail(q)[i] = q[i + 1]
         /\ Tail(q)[1] = q[2]
<1>1. /\ Len(q) \in Nat /\ DOMAIN q = 1..Len(q) /\ q # <<>>
      /\ Tail(q) \in Seq(CronJobs) /\ Len(Tail(q)) = Len(q) - 1
  OBVIOUS
<1>2. /\ DOMAIN Tail(q) = 1..Len(q) - 1
      /\ \A i \in 1..Len(q) - 1 : Tail(q)[i] = q[i + 1]
  BY <1>1
<1>3. 1 \in DOMAIN Tail(q) /\ 2 \in DOMAIN q /\ Tail(q)[1] = q[2]
  BY <1>1, <1>2
<1>4. Tail(q) # <<>>
  BY <1>3, EmptyLine
<1>5. q[2] \in CronJobs
  BY <1>3
<1>6. \A i \in DOMAIN Tail(q) :
        i + 1 \in DOMAIN q /\ i + 1 # 1 /\ Tail(q)[i] = q[i + 1]
  BY <1>1, <1>2
<1> QED BY <1>1, <1>3, <1>4, <1>5, <1>6

LEMMA TimerJobEndsStep == CronIInv /\ TimerJobEnds => CronIInv'
<1> SUFFICES ASSUME CronIInv, TimerJobEnds PROVE CronIInv'
  OBVIOUS
<1>1. /\ Ticking /\ serving /\ ~Idle /\ due \in Seq(CronJobs) /\ due # <<>>
      /\ manual \subseteq CronJobs /\ edits \in 0..MaxEdits /\ IsInjective(due)
      /\ owed \subseteq added /\ added \subseteq CronJobs /\ wake \in 0..MaxSleep
      /\ \A i \in DOMAIN due : OneTime(due[i]) => until[due[i]] = 0
  BY DEF TimerJobEnds, CronIInv, CronTypeOK, TimesAgree, Idle, Ticking
<1>2. PICK h \in CronJobs : h = due[1] /\ h = Head(due)
  BY <1>1
<1> DEFINE store == Executed(jobs, h)
<1>3. /\ owed' = StillOwed(h)
      /\ UNCHANGED <<actions, serving, manual, until, view, edits, cronFaults, added, dropped>>
      /\ \/ Len(due) = 1 /\ Save(store) /\ Arm(store) /\ UNCHANGED <<startedOnce, mayRepeat>>
         \/ /\ Len(due) > 1 /\ jobs' = store /\ due' = Tail(due)
            /\ Begun(due[2], actions) /\ tick' = "running" /\ UNCHANGED <<jobsFile, wake>>
  BY <1>2 DEF TimerJobEnds
<1>4. store = Executed(jobs, h)
  OBVIOUS
<1> HIDE DEF store
<1>5. /\ IsStore(store) /\ DOMAIN store \subseteq added
      /\ owed' \subseteq owed /\ owed' \ dropped \subseteq DOMAIN Merge(actions, store)
      /\ \A k \in DOMAIN store : OnTime(k, store[k].next)
      /\ \A k \in CronJobs : Started(k) =>
           /\ SettledIn(k, store, actions, due)
           /\ k = h /\ k \in DOMAIN store => store[k].next = Never
  BY <1>1, <1>3, <1>4, ExecutedFacts
<1>6. CASE Len(due) = 1 /\ Save(store) /\ Arm(store) /\ UNCHANGED <<startedOnce, mayRepeat>>
  <2>1. tick' = "armed" /\ due' = <<>> /\ wake' \in 0..MaxSleep
    BY <1>5, <1>6, ArmFacts
  <2>2. jobs' = store /\ jobsFile' = store
    BY <1>6 DEF Save
  <2>3. \A k \in CronJobs : Started(k) => SettledIn(k, store, actions, <<>>)
    BY <1>2, <1>5 DEF SettledIn
  <2> QED BY <1>1, <1>3, <1>5, <1>6, <2>1, <2>2, <2>3, EmptyLine, NothingBegun, StoreStep DEF Ticking
<1>7. CASE /\ Len(due) > 1 /\ jobs' = store /\ due' = Tail(due)
           /\ Begun(due[2], actions) /\ tick' = "running" /\ UNCHANGED <<jobsFile, wake>>
  <2>1. /\ Tail(due) \in Seq(CronJobs) /\ Tail(due) # <<>>
        /\ 1 \in DOMAIN Tail(due) /\ 2 \in DOMAIN due /\ due[2] \in CronJobs
        /\ \A i \in DOMAIN Tail(due) :
             i + 1 \in DOMAIN due /\ i + 1 # 1 /\ Tail(due)[i] = due[i + 1]
        /\ Tail(due)[1] = due[2]
    BY <1>1, <1>7, RestFacts
  <2>2. PICK rest \in Seq(CronJobs) :
        /\ rest = Tail(due) /\ rest # <<>>
        /\ 1 \in DOMAIN rest /\ 2 \in DOMAIN due /\ due[2] \in CronJobs
        /\ \A i \in DOMAIN rest : i + 1 \in DOMAIN due /\ i + 1 # 1 /\ rest[i] = due[i + 1]
        /\ rest[1] = due[2]
    BY <2>1
  <2>3. IsInjective(rest)
    <3>1. IsInjective(Tail(due))
      BY <1>1, HeadTailFacts
    <3> QED BY <2>2, <3>1
  <2>4. \A k \in CronJobs : Started(k) => \A i \in DOMAIN rest : rest[i] # k
    BY <1>5, <2>2 DEF SettledIn
  <2>5. 1 \in DOMAIN rest /\ ~Started(due[2])
    BY <2>2, <2>4
  <2>6. /\ startedOnce' \in [CronJobs -> 0..2] /\ mayRepeat' \subseteq CronJobs
        /\ OneTimeRunsOnce'
        /\ \A j \in CronJobs : Started(j)' =>
             \/ j # rest[1] /\ Started(j)
             \/ j = rest[1] /\ OneTime(j) /\ j \notin About(actions)
    BY <1>7, <2>2, <2>5, BegunFacts
  <2>7. \A j \in CronJobs : Started(j)' => SettledIn(j, store, actions, rest)
    <3> SUFFICES ASSUME NEW j \in CronJobs, Started(j)'
                 PROVE  SettledIn(j, store, actions, rest)
      OBVIOUS
    <3>1. CASE j # rest[1] /\ Started(j)
      BY <1>2, <1>5, <2>4, <3>1 DEF SettledIn
    <3>2. CASE j = rest[1] /\ OneTime(j) /\ j \notin About(actions)
      <4>1. \A i \in DOMAIN rest \ {1} : rest[i] # j
        BY <2>3, <2>5, <3>2 DEF IsInjective
      <4>2. \A i \in DOMAIN actions : actions[i].job # j
        BY <3>2 DEF About
      <4> QED BY <1>1, <2>2, <2>5, <3>2, <4>1, <4>2 DEF SettledIn
    <3> QED BY <2>6, <3>1, <3>2
  <2>8. ~Idle'
    BY <1>1, <1>7 DEF Idle, Ticking
  <2>9. due' = rest /\ \A i \in DOMAIN rest : OneTime(rest[i]) => until[rest[i]] = 0
    BY <1>1, <1>7, <2>2
  <2> QED BY <1>1, <1>3, <1>5, <1>7, <2>2, <2>3, <2>6, <2>7, <2>8, <2>9, StoreStep DEF Ticking
<1> QED BY <1>3, <1>6, <1>7

(* The service starts: every job gets a new next run.                      *)
LEMMA StartStep == CronIInv /\ Start => CronIInv'
<1> SUFFICES ASSUME CronIInv, Start PROVE CronIInv'
  OBVIOUS
<1> DEFINE m == Merged(jobsFile)  r == Registered(m)  n == Merge(actions, r)  store == Fresh(n)
<1>1. /\ ~serving /\ serving' = TRUE /\ Save(store) /\ Arm(store) /\ actions' = <<>>
      /\ added' = added \cup SystemJobs /\ owed' = owed \cup SystemJobs
      /\ UNCHANGED <<manual, until, view, edits, cronFaults, dropped, startedOnce, mayRepeat>>
  BY DEF Start, Merged
<1>2. /\ actions \in Seq(Action) /\ manual \subseteq CronJobs /\ edits \in 0..MaxEdits
      /\ owed \subseteq added /\ added \subseteq CronJobs /\ SystemJobs \subseteq CronJobs
      /\ CronTypeOK /\ About(actions) \subseteq added
      /\ About(actions) \cap SystemJobs \subseteq PutLast(actions)
  BY CronAssumption DEF CronIInv, CronTypeOK, Ticking, Known
<1>3. /\ IsStore(m) /\ DOMAIN m \subseteq added /\ owed \ dropped \subseteq DOMAIN m
      /\ DOMAIN m = PutLast(actions) \cup (DOMAIN jobsFile \ About(actions))
  BY MergedFacts DEF Merged, Merge
<1> HIDE DEF m
<1>4. DOMAIN r = DOMAIN m \cup SystemJobs /\ IsStore(r)
  BY <1>2, <1>3, JobAsFacts DEF Registered, IsStore
<1> HIDE DEF r
<1>5. /\ DOMAIN n = PutLast(actions) \cup (DOMAIN r \ About(actions)) /\ IsStore(n)
      /\ PutLast(actions) \subseteq About(actions)
  BY <1>2, <1>4, MergeFacts
<1> HIDE DEF n
<1>6. DOMAIN store = DOMAIN n /\ DOMAIN store \subseteq CronJobs
  BY <1>5 DEF Fresh, IsStore
<1>7. ASSUME NEW j \in DOMAIN n
      PROVE  /\ store[j] \in JobState /\ OnTime(j, store[j].next)
             /\ OneTime(j) /\ until[j] = 0 => store[j].next = Never
  <2>1. PICK on \in BOOLEAN, next \in 0..Never : n[j] = [on |-> on, next |-> next]
    BY <1>5, <1>7 DEF IsStore, JobState
  <2>2. store[j] = [n[j] EXCEPT !.next = JobAs(j, n[j].on).next]
    BY <1>7 DEF Fresh
  <2>3. store[j] = [on |-> on, next |-> JobAs(j, on).next]
    BY <2>1, <2>2
  <2>4. /\ JobAs(j, on) \in JobState /\ OnTime(j, JobAs(j, on).next)
        /\ OneTime(j) /\ until[j] = 0 => JobAs(j, on).next = Never
    BY <1>2, <1>6, JobAsFacts
  <2>5. JobAs(j, on).next \in 0..Never
    BY <2>4 DEF JobState
  <2> QED BY <2>3, <2>4, <2>5 DEF JobState
<1> HIDE DEF store
<1>8. /\ IsStore(store) /\ \A j \in DOMAIN store : OnTime(j, store[j].next)
      /\ DOMAIN store \subseteq added'
  BY <1>1, <1>2, <1>3, <1>4, <1>5, <1>6, <1>7 DEF IsStore
<1>9. tick' = "armed" /\ due' = <<>> /\ wake' \in 0..MaxSleep
  BY <1>1, <1>8, ArmFacts
<1>10. owed' \ dropped \subseteq DOMAIN Merge(actions', store)
  <2>1. DOMAIN Merge(actions', store) = DOMAIN store
    BY <1>1, NothingLogged
  <2>2. SystemJobs \subseteq DOMAIN n
    BY <1>2, <1>4, <1>5
  <2>3. owed \ dropped \subseteq DOMAIN n
    BY <1>3, <1>4, <1>5
  <2> QED BY <1>1, <1>6, <2>1, <2>2, <2>3
<1>11. \A j \in CronJobs : Started(j)' => SettledIn(j, store, actions', due')
  <2> SUFFICES ASSUME NEW j \in CronJobs, Started(j)'
               PROVE  SettledIn(j, store, <<>>, <<>>)
    BY <1>1, <1>9
  <2>1. Started(j) /\ until[j] = 0
    BY <1>1 DEF Started, CronIInv, StartedIsSpent, Spent
  <2> QED BY <1>6, <1>7, <2>1, EmptyLine DEF SettledIn, Started
<1>12. jobs' = store /\ jobsFile' = store
  BY <1>1 DEF Save
<1> QED BY <1>1, <1>2, <1>8, <1>9, <1>10, <1>11, <1>12, EmptyLine, NothingBegun, StoreStep DEF Ticking
-----------------------------------------------------------------------------
(* The gateway dies.                                                       *)
LEMMA CronDiesStep == CronIInv /\ CronDies => CronIInv'
<1> SUFFICES ASSUME CronIInv, CronDies PROVE CronIInv'
  OBVIOUS
<1>1. /\ serving' = FALSE /\ jobs' = Nowhere /\ tick' = "none" /\ wake' = 0 /\ due' = <<>>
      /\ manual' = {} /\ cronFaults < MaxCronFaults /\ cronFaults' = cronFaults + 1
      /\ jobsFile' = jobsFile /\ actions' = actions
      /\ UNCHANGED <<until, view, edits, added, owed, dropped, startedOnce, mayRepeat>>
  BY DEF CronDies, Gone, cronDisk
<1>2. DOMAIN Nowhere = {} /\ MaxSleep \in Nat /\ MaxCronFaults \in Nat
  BY CronAssumption DEF Nowhere
<1>3. CronTypeOK'
  <2>1. /\ cronFaults' \in 0..MaxCronFaults /\ wake' \in 0..MaxSleep
        /\ IsStore(jobs') /\ due' \in Seq(CronJobs)
    BY <1>1, <1>2, EmptyLine DEF CronIInv, CronTypeOK, Ticking, IsStore
  <2> QED BY <1>1, <2>1 DEF CronIInv, CronTypeOK, Ticking, IsStore
<1>4. Known'
  BY <1>1, <1>2 DEF CronIInv, Known
<1>5. CopiesKeep'
  BY <1>1 DEF CronIInv, CopiesKeep, Keeps, Merged
<1>6. TimesAgree'
  BY <1>1, <1>2, EmptyLine DEF CronIInv, TimesAgree, OnTime
<1>7. StartedIsSpent'
  BY <1>1, EmptyLine DEF CronIInv, StartedIsSpent, Spent
<1> QED BY <1>1, <1>3, <1>4, <1>5, <1>6, <1>7 DEF CronIInv, OneTimeRunsOnce

LEMMA DiesInMergeStep == CronIInv /\ DiesInMerge => CronIInv'
<1> SUFFICES ASSUME CronIInv, DiesInMerge PROVE CronIInv'
  OBVIOUS
<1>1. /\ serving' = FALSE /\ jobs' = Nowhere /\ tick' = "none" /\ wake' = 0 /\ due' = <<>>
      /\ manual' = {} /\ cronFaults < MaxCronFaults /\ cronFaults' = cronFaults + 1
      /\ actions' = <<>> /\ dropped' = dropped \cup About(actions)
      /\ UNCHANGED <<jobsFile, until, view, edits, added, owed, startedOnce, mayRepeat>>
  BY DEF DiesInMerge, Gone
<1>2. DOMAIN Nowhere = {} /\ MaxSleep \in Nat /\ MaxCronFaults \in Nat /\ MaxEdits \in Nat
  BY CronAssumption DEF Nowhere
<1>3. /\ About(actions) \subseteq CronJobs
      /\ <<>> \in Seq(Action) /\ Len(<<>>) = 0 /\ About(<<>>) = {}
      /\ DOMAIN Merge(<<>>, jobsFile) = DOMAIN jobsFile
  BY NothingLogged DEF CronIInv, CronTypeOK, Ticking, Known
<1>4. CronTypeOK'
  <2>1. /\ cronFaults' \in 0..MaxCronFaults /\ wake' \in 0..MaxSleep
        /\ IsStore(jobs') /\ due' \in Seq(CronJobs)
    BY <1>1, <1>2, EmptyLine DEF CronIInv, CronTypeOK, Ticking, IsStore
  <2> QED BY <1>1, <1>3, <2>1 DEF CronIInv, CronTypeOK, Ticking, IsStore
<1>5. Known'
  BY <1>1, <1>2, <1>3 DEF CronIInv, Known
<1>6. CopiesKeep'
  <2>1. DOMAIN Merged(jobsFile) = PutLast(actions) \cup (DOMAIN jobsFile \ About(actions))
        /\ PutLast(actions) \subseteq About(actions)
    BY MergeFacts DEF Merged, CronIInv, CronTypeOK, Ticking
  <2>2. owed \ dropped \subseteq DOMAIN Merged(jobsFile)
    BY DEF CronIInv, CopiesKeep, Keeps
  <2>3. owed \ dropped' \subseteq DOMAIN jobsFile
    BY <1>1, <2>1, <2>2
  <2>4. Keeps(jobsFile)'
    BY <1>1, <1>3, <2>3 DEF Keeps, Merged
  <2> QED BY <1>1, <2>4 DEF CopiesKeep
<1>7. TimesAgree'
  BY <1>1, <1>2, EmptyLine DEF CronIInv, TimesAgree, OnTime
<1>8. StartedIsSpent'
  BY <1>1, EmptyLine DEF CronIInv, StartedIsSpent, Spent
<1> QED BY <1>1, <1>4, <1>5, <1>6, <1>7, <1>8 DEF CronIInv, OneTimeRunsOnce
-----------------------------------------------------------------------------
(* The other process.                                                      *)
LEMMA ReadFileStep == CronIInv /\ ReadFile => CronIInv'
<1> SUFFICES ASSUME CronIInv, ReadFile PROVE CronIInv'
  OBVIOUS
<1> USE DEF ReadFile, cronDisk, cronMemory, cronHistory
<1>1. CronTypeOK'
  BY DEF CronIInv, CronTypeOK, Ticking, IsStore
<1>2. Known'
  BY DEF CronIInv, Known
<1>3. CopiesKeep'
  BY DEF CronIInv, CopiesKeep, Keeps, Merged
<1>4. TimesAgree'
  BY DEF CronIInv, TimesAgree, OnTime
<1>5. StartedIsSpent'
  BY DEF CronIInv, StartedIsSpent, Spent, Idle, Ticking
<1> QED BY <1>1, <1>2, <1>3, <1>4, <1>5 DEF CronIInv, OneTimeRunsOnce

LEMMA AppendStep ==
  ASSUME CronIInv, NEW a \in Action, AppendAction(a),
         added \subseteq added', added' \subseteq CronJobs,
         owed' \subseteq added', owed' \subseteq owed \cup {a.job}, a.job \in added',
         a.op = "put" => /\ OnTime(a.job, a.state.next)
                         /\ OneTime(a.job) /\ until[a.job] = 0 => a.state.next = Never,
         a.op # "put" => a.job \notin SystemJobs \cup owed'
  PROVE  CronIInv'
<1>1. /\ actions' = Append(actions, a) /\ edits < MaxEdits /\ edits' = edits + 1
      /\ jobsFile' = jobsFile
      /\ UNCHANGED <<serving, jobs, tick, wake, due, manual>>
      /\ UNCHANGED <<until, view, cronFaults, dropped, startedOnce, mayRepeat>>
  BY DEF AppendAction, cronMemory
<1>2. actions \in Seq(Action) /\ edits' \in 0..MaxEdits
  BY <1>1, CronAssumption DEF CronIInv, CronTypeOK, Ticking
<1>3. /\ actions' \in Seq(Action) /\ About(actions') = About(actions) \cup {a.job}
      /\ PutLast(actions) \ {a.job} \subseteq PutLast(actions')
      /\ a.op = "put" => a.job \in PutLast(actions')
  BY <1>1, <1>2, AppendedAction
<1>4. \A i \in DOMAIN actions' : actions'[i] = a \/ (i \in DOMAIN actions /\ actions'[i] = actions[i])
  BY <1>1, <1>2
<1>5. CronTypeOK'
  BY <1>1, <1>2, <1>3 DEF CronIInv, CronTypeOK, Ticking, IsStore
<1>6. Known'
  BY <1>1, <1>3 DEF CronIInv, Known
<1>7. CopiesKeep'
  <2>1. ASSUME NEW file, owed \ dropped \subseteq DOMAIN Merge(actions, file)
        PROVE  owed' \ dropped \subseteq DOMAIN Merge(actions', file)
    <3>1. /\ DOMAIN Merge(actions, file) \ {a.job} \subseteq DOMAIN Merge(actions', file)
          /\ a.op = "put" => a.job \in DOMAIN Merge(actions', file)
      BY <1>1, <1>2, AppendedAction
    <3> QED BY <2>1, <3>1
  <2>2. Keeps(jobsFile) => Keeps(jobsFile)'
    BY <1>1, <2>1 DEF Keeps, Merged
  <2>3. Keeps(jobs) => Keeps(jobs)'
    BY <1>1, <2>1 DEF Keeps, Merged
  <2> QED BY <1>1, <2>2, <2>3 DEF CronIInv, CopiesKeep
<1>8. TimesAgree'
  <2>1. \A i \in DOMAIN actions' :
          actions'[i].op = "put" => OnTime(actions'[i].job, actions'[i].state.next)
    BY <1>4 DEF CronIInv, TimesAgree
  <2> QED BY <1>1, <2>1 DEF CronIInv, TimesAgree, OnTime
<1>9. StartedIsSpent'
  <2> SUFFICES ASSUME NEW j \in CronJobs, OneTime(j), startedOnce[j] > 0, j \notin mayRepeat
               PROVE  Spent(j)'
    BY <1>1 DEF StartedIsSpent
  <2>1. Spent(j)
    BY DEF CronIInv, StartedIsSpent
  <2>2. \A i \in DOMAIN actions' :
          actions'[i].op = "put" /\ actions'[i].job = j => actions'[i].state.next = Never
    BY <1>4, <2>1 DEF Spent
  <2> QED BY <1>1, <2>1, <2>2 DEF Spent, Idle, Ticking
<1>10. OneTimeRunsOnce'
  BY <1>1 DEF CronIInv, OneTimeRunsOnce
<1> QED BY <1>5, <1>6, <1>7, <1>8, <1>9, <1>10 DEF CronIInv

(* What the other process sees were jobs that were added.                  *)
LEMMA SeenFacts == CronIInv => Seen \subseteq added
<1> SUFFICES ASSUME CronIInv PROVE Seen \subseteq added
  OBVIOUS
<1> DEFINE file == [j \in view |-> JobAs(j, FALSE)]
<1>1. DOMAIN Merge(actions, file) = PutLast(actions) \cup (DOMAIN file \ About(actions))
  BY DEF Merge
<1>2. PutLast(actions) \subseteq About(actions)
  BY DEF PutLast, LastPuts, About
<1> QED BY <1>1, <1>2 DEF Seen, Merged, CronIInv, Known

LEMMA OtherAddsStep == \A j \in CronJobs : CronIInv /\ OtherAdds(j) => CronIInv'
<1> SUFFICES ASSUME NEW j \in CronJobs, CronIInv, OtherAdds(j) PROVE CronIInv'
  OBVIOUS
<1>1. /\ CronTypeOK /\ added \subseteq CronJobs /\ owed \subseteq added
      /\ added' = added \cup {j} /\ owed' = owed \cup {j}
  BY DEF CronIInv, CronTypeOK, Ticking, OtherAdds, New
<1>2. PICK on \in BOOLEAN : AppendAction([op |-> "put", job |-> j, state |-> JobAs(j, on)])
  BY DEF OtherAdds
<1>3. /\ JobAs(j, on) \in JobState /\ OnTime(j, JobAs(j, on).next)
      /\ OneTime(j) /\ until[j] = 0 => JobAs(j, on).next = Never
  BY <1>1, JobAsFacts
<1>4. PICK a \in Action : AppendAction(a) /\ a.op = "put" /\ a.job = j /\ a.state = JobAs(j, on)
  BY <1>2, <1>3 DEF Action
<1> QED BY <1>1, <1>3, <1>4, AppendStep

LEMMA OtherRemovesStep == \A j \in CronJobs : CronIInv /\ OtherRemoves(j) => CronIInv'
<1> SUFFICES ASSUME NEW j \in CronJobs, CronIInv, OtherRemoves(j) PROVE CronIInv'
  OBVIOUS
<1>1. /\ added \subseteq CronJobs /\ owed \subseteq added /\ j \in added \ SystemJobs
      /\ added' = added /\ owed' = owed \ {j}
  BY SeenFacts DEF CronIInv, CronTypeOK, Ticking, OtherRemoves
<1>2. PICK a \in Action : AppendAction(a) /\ a.op = "del" /\ a.job = j
  BY DEF OtherRemoves, Action
<1> QED BY <1>1, <1>2, AppendStep

LEMMA OtherEnablesStep ==
  \A j \in CronJobs, on \in BOOLEAN : CronIInv /\ OtherEnables(j, on) => CronIInv'
<1> SUFFICES ASSUME NEW j \in CronJobs, NEW on \in BOOLEAN, CronIInv, OtherEnables(j, on)
             PROVE  CronIInv'
  OBVIOUS
<1>1. /\ CronTypeOK /\ added \subseteq CronJobs /\ owed \subseteq added /\ j \in added
      /\ added' = added /\ owed' = owed
  BY SeenFacts DEF CronIInv, CronTypeOK, Ticking, OtherEnables
<1>2. /\ JobAs(j, on) \in JobState /\ OnTime(j, JobAs(j, on).next)
      /\ OneTime(j) /\ until[j] = 0 => JobAs(j, on).next = Never
  BY <1>1, JobAsFacts
<1>3. PICK a \in Action : AppendAction(a) /\ a.op = "put" /\ a.job = j /\ a.state = JobAs(j, on)
  BY <1>2 DEF OtherEnables, Action
<1> QED BY <1>1, <1>2, <1>3, AppendStep
-----------------------------------------------------------------------------
(* Time passes: everything that has a time comes nearer together.          *)
LEMMA SoonerFacts ==
  /\ \A t \in 0..Never : Sooner(t) \in 0..Never
  /\ \A t \in 0..Period : Sooner(t) \in 0..Period
  /\ \A t \in 0..MaxSleep : Sooner(t) \in 0..MaxSleep
  /\ Sooner(Never) = Never /\ Sooner(0) = 0
BY CronAssumption DEF Sooner, Never

LEMMA SoonerStore ==
  ASSUME NEW store, IsStore(store)
  PROVE  /\ IsStore(SoonerIn(store)) /\ DOMAIN SoonerIn(store) = DOMAIN store
         /\ \A j \in DOMAIN store : SoonerIn(store)[j].next = Sooner(store[j].next)
BY SoonerFacts DEF SoonerIn, IsStore, JobState

LEMMA SamePutLast ==
  ASSUME NEW log, NEW later, DOMAIN later = DOMAIN log,
         \A i \in DOMAIN log : later[i].op = log[i].op /\ later[i].job = log[i].job
  PROVE  PutLast(later) = PutLast(log)
<1>1. ASSUME NEW j PROVE j \in PutLast(later) <=> j \in PutLast(log)
  <2>1. j \in PutLast(log) <=>
          \E i \in DOMAIN log : /\ log[i].op = "put" /\ log[i].job = j
                                /\ \A k \in DOMAIN log : k > i => log[k].job # j
    BY PutLastFacts
  <2>2. j \in PutLast(later) <=>
          \E i \in DOMAIN later : /\ later[i].op = "put" /\ later[i].job = j
                                  /\ \A k \in DOMAIN later : k > i => later[k].job # j
    BY PutLastFacts
  <2> QED BY <2>1, <2>2
<1> QED BY <1>1

LEMMA SoonerLog ==
  ASSUME NEW log \in Seq(Action), NEW later,
         later = [i \in DOMAIN log |-> IF log[i].op = "del" THEN log[i]
                                       ELSE [log[i] EXCEPT !.state.next = Sooner(@)]]
  PROVE  /\ later \in Seq(Action) /\ DOMAIN later = DOMAIN log
         /\ About(later) = About(log) /\ PutLast(later) = PutLast(log)
         /\ \A i \in DOMAIN log :
              /\ later[i].op = log[i].op /\ later[i].job = log[i].job
              /\ log[i].op = "put" => later[i].state.next = Sooner(log[i].state.next)
<1>1. DOMAIN later = DOMAIN log /\ Len(log) \in Nat /\ DOMAIN log = 1..Len(log)
  OBVIOUS
<1>2. ASSUME NEW i \in DOMAIN log
      PROVE  /\ later[i] \in Action
             /\ later[i].op = log[i].op /\ later[i].job = log[i].job
             /\ log[i].op = "put" => later[i].state.next = Sooner(log[i].state.next)
  <2>1. log[i] \in Action
    BY <1>2
  <2>2. CASE log[i].op = "del"
    BY <1>1, <2>1, <2>2
  <2>3. CASE log[i].op # "del"
    <3>1. PICK j \in CronJobs, on \in BOOLEAN, next \in 0..Never :
            log[i] = [op |-> "put", job |-> j, state |-> [on |-> on, next |-> next]]
      BY <2>1, <2>3 DEF Action, JobState
    <3>2. later[i] = [log[i] EXCEPT !.state.next = Sooner(@)]
      BY <2>3
    <3>3. later[i] = [op |-> "put", job |-> j, state |-> [on |-> on, next |-> Sooner(next)]]
      BY <3>1, <3>2
    <3>4. Sooner(next) \in 0..Never
      BY SoonerFacts
    <3> QED BY <3>1, <3>3, <3>4 DEF Action, JobState
  <2> QED BY <2>2, <2>3
<1>3. later \in Seq(Action)
  BY <1>1, <1>2
<1>4. About(later) = About(log)
  BY <1>1, <1>2 DEF About
<1>5. PutLast(later) = PutLast(log)
  BY <1>1, <1>2, SamePutLast
<1> QED BY <1>1, <1>2, <1>3, <1>4, <1>5

LEMMA ClockStep == CronIInv /\ Clock => CronIInv'
<1> SUFFICES ASSUME CronIInv, Clock PROVE CronIInv'
  OBVIOUS
<1>1. /\ jobsFile' = SoonerIn(jobsFile) /\ jobs' = SoonerIn(jobs)
      /\ wake' = Sooner(wake) /\ until' = [j \in CronJobs |-> Sooner(until[j])]
      /\ UNCHANGED <<serving, tick, due, manual, view, edits, cronFaults>>
      /\ UNCHANGED <<added, owed, dropped, startedOnce, mayRepeat>>
  BY DEF Clock, cronHistory
<1>2. /\ IsStore(jobsFile) /\ IsStore(jobs) /\ actions \in Seq(Action)
      /\ until \in [CronJobs -> 0..Period] /\ wake \in 0..MaxSleep
  BY DEF CronIInv, CronTypeOK, Ticking
<1>3. /\ IsStore(jobsFile') /\ DOMAIN jobsFile' = DOMAIN jobsFile
      /\ \A j \in DOMAIN jobsFile : jobsFile'[j].next = Sooner(jobsFile[j].next)
  BY <1>1, <1>2, SoonerStore
<1>4. /\ IsStore(jobs') /\ DOMAIN jobs' = DOMAIN jobs
      /\ \A j \in DOMAIN jobs : jobs'[j].next = Sooner(jobs[j].next)
  BY <1>1, <1>2, SoonerStore
<1>5. /\ actions' \in Seq(Action) /\ DOMAIN actions' = DOMAIN actions
      /\ About(actions') = About(actions) /\ PutLast(actions') = PutLast(actions)
      /\ \A i \in DOMAIN actions :
           /\ actions'[i].op = actions[i].op /\ actions'[i].job = actions[i].job
           /\ actions[i].op = "put" => actions'[i].state.next = Sooner(actions[i].state.next)
  <2>1. PICK later : /\ actions' = later
                     /\ later = [i \in DOMAIN actions |->
                                   IF actions[i].op = "del" THEN actions[i]
                                   ELSE [actions[i] EXCEPT !.state.next = Sooner(@)]]
    BY DEF Clock
  <2> QED BY <1>2, <2>1, SoonerLog
<1>6. CronTypeOK'
  <2>1. until' \in [CronJobs -> 0..Period] /\ wake' \in 0..MaxSleep
    BY <1>1, <1>2, SoonerFacts
  <2> QED BY <1>1, <1>3, <1>4, <1>5, <2>1 DEF CronIInv, CronTypeOK, Ticking, IsStore
<1>7. Known'
  <2>1. jobs = Nowhere => jobs' = Nowhere
    BY <1>1 DEF SoonerIn, Nowhere
  <2> QED BY <1>1, <1>3, <1>4, <1>5, <2>1 DEF CronIInv, Known
<1>8. CopiesKeep'
  <2>1. DOMAIN Merge(actions', jobsFile') = DOMAIN Merge(actions, jobsFile)
    BY <1>3, <1>5 DEF Merge
  <2>2. DOMAIN Merge(actions', jobs') = DOMAIN Merge(actions, jobs)
    BY <1>4, <1>5 DEF Merge
  <2> QED BY <1>1, <2>1, <2>2 DEF CronIInv, CopiesKeep, Keeps, Merged
<1>9. TimesAgree'
  <2>1. ASSUME NEW j \in CronJobs, NEW next, OnTime(j, next)
        PROVE  OneTime(j) => Sooner(next) \in {until'[j], Never}
    BY <1>1, <2>1, SoonerFacts DEF OnTime
  <2>2. \A i \in DOMAIN actions : actions[i].op = "put" => actions[i].job \in CronJobs
    BY <1>2 DEF Action
  <2>3. \A i \in DOMAIN due : due[i] \in CronJobs
    BY DEF CronIInv, CronTypeOK, Ticking
  <2>4. ASSUME NEW j \in DOMAIN jobsFile'
        PROVE  OneTime(j) => jobsFile'[j].next \in {until'[j], Never}
    <3>1. j \in CronJobs /\ OnTime(j, jobsFile[j].next)
      BY <1>2, <1>3, <2>4 DEF CronIInv, TimesAgree, IsStore
    <3> QED BY <1>3, <2>1, <2>4, <3>1
  <2>5. ASSUME NEW j \in DOMAIN jobs'
        PROVE  OneTime(j) => jobs'[j].next \in {until'[j], Never}
    <3>1. j \in CronJobs /\ OnTime(j, jobs[j].next)
      BY <1>2, <1>4, <2>5 DEF CronIInv, TimesAgree, IsStore
    <3> QED BY <1>4, <2>1, <2>5, <3>1
  <2>6. ASSUME NEW i \in DOMAIN actions', actions'[i].op = "put"
        PROVE  OneTime(actions'[i].job) =>
                 actions'[i].state.next \in {until'[actions'[i].job], Never}
    <3>1. actions[i].job \in CronJobs /\ OnTime(actions[i].job, actions[i].state.next)
      BY <1>5, <2>2, <2>6 DEF CronIInv, TimesAgree
    <3> QED BY <1>5, <2>1, <2>6, <3>1
  <2>7. \A i \in DOMAIN due' : OneTime(due'[i]) => until'[due'[i]] = 0
    BY <1>1, <2>3, SoonerFacts DEF CronIInv, TimesAgree
  <2> QED BY <1>1, <2>4, <2>5, <2>6, <2>7 DEF CronIInv, TimesAgree, OnTime
<1>10. StartedIsSpent'
  <2> SUFFICES ASSUME NEW j \in CronJobs, OneTime(j), startedOnce[j] > 0, j \notin mayRepeat
               PROVE  Spent(j)'
    BY <1>1 DEF StartedIsSpent
  <2>1. Spent(j)
    BY DEF CronIInv, StartedIsSpent
  <2>2. until'[j] = 0
    BY <1>1, <2>1, SoonerFacts DEF Spent
  <2>3. \A i \in DOMAIN actions' :
          actions'[i].op = "put" /\ actions'[i].job = j => actions'[i].state.next = Never
    BY <1>5, <2>1, SoonerFacts DEF Spent
  <2>4. /\ j \in DOMAIN jobs' /\ jobs[j].next = Never => jobs'[j].next = Never
        /\ j \in DOMAIN jobsFile' /\ jobsFile[j].next = Never => jobsFile'[j].next = Never
    BY <1>3, <1>4, SoonerFacts
  <2> QED BY <1>1, <1>3, <1>4, <2>1, <2>2, <2>3, <2>4 DEF Spent, Idle, Ticking
<1>11. OneTimeRunsOnce'
  BY <1>1 DEF CronIInv, OneTimeRunsOnce
<1> QED BY <1>6, <1>7, <1>8, <1>9, <1>10, <1>11 DEF CronIInv
-----------------------------------------------------------------------------
LEMMA CronStart == CronInit => CronIInv
<1> SUFFICES ASSUME CronInit PROVE CronIInv
  OBVIOUS
<1>1. /\ Period \in Nat /\ MaxSleep \in Nat /\ MaxEdits \in Nat /\ MaxCronFaults \in Nat
      /\ DOMAIN Nowhere = {}
  BY CronAssumption DEF Nowhere
<1>2. CronTypeOK
  <2>1. IsStore(Nowhere) /\ <<>> \in Seq(Action) /\ <<>> \in Seq(CronJobs)
    BY <1>1, EmptyLine, NothingLogged DEF IsStore
  <2>2. /\ 0 \in 0..MaxSleep /\ 0 \in 0..MaxEdits /\ 0 \in 0..MaxCronFaults
        /\ Period \in 0..Period /\ 0 \in 0..2
    BY <1>1
  <2> QED BY <2>1, <2>2 DEF CronInit, CronTypeOK, Ticking
<1>3. Known
  BY <1>1, NothingLogged DEF CronInit, Known
<1>4. CopiesKeep
  BY DEF CronInit, CopiesKeep, Keeps
<1>5. TimesAgree
  BY <1>1, EmptyLine DEF CronInit, TimesAgree
<1>6. StartedIsSpent /\ OneTimeRunsOnce
  BY DEF CronInit, StartedIsSpent, OneTimeRunsOnce
<1> QED BY <1>2, <1>3, <1>4, <1>5, <1>6 DEF CronIInv

LEMMA JobHangsStep == CronIInv /\ JobHangs => CronIInv'
<1> SUFFICES ASSUME CronIInv, JobHangs PROVE CronIInv'
  OBVIOUS
<1> USE DEF JobHangs, cronDisk, cronHistory
<1>1. CronTypeOK' /\ (Idle' <=> Idle)
  BY DEF CronIInv, CronTypeOK, IsStore, Ticking, Idle
<1>2. Known' /\ CopiesKeep'
  BY DEF CronIInv, Known, CopiesKeep, Keeps, Merged
<1>3. TimesAgree' /\ StartedIsSpent' /\ OneTimeRunsOnce'
  BY <1>1 DEF CronIInv, TimesAgree, OnTime, StartedIsSpent, Spent, OneTimeRunsOnce
<1> QED BY <1>1, <1>2, <1>3 DEF CronIInv

LEMMA CronStutter == CronIInv /\ UNCHANGED cronVars => CronIInv'
<1> SUFFICES ASSUME CronIInv, UNCHANGED cronVars PROVE CronIInv'
  OBVIOUS
<1> USE DEF cronVars, cronDisk, cronMemory, cronHistory
<1>1. CronTypeOK'
  BY DEF CronIInv, CronTypeOK, Ticking, IsStore
<1>2. Known' /\ CopiesKeep'
  BY DEF CronIInv, Known, CopiesKeep, Keeps, Merged
<1>3. TimesAgree' /\ StartedIsSpent' /\ OneTimeRunsOnce'
  BY DEF CronIInv, TimesAgree, OnTime, StartedIsSpent, Spent, Idle, Ticking, OneTimeRunsOnce
<1> QED BY <1>1, <1>2, <1>3 DEF CronIInv

LEMMA CronStep == CronIInv /\ [CronNext]_cronVars => CronIInv'
BY StartStep, TimerFiresStep, JobHangsStep, TimerJobEndsStep, ClockStep, ListJobsStep,
   CronDiesStep,
   DiesInMergeStep, ReadFileStep, AddJobStep, RemoveJobStep, ManualStartsStep,
   ManualEndsStep, OtherAddsStep, OtherRemovesStep, EnableJobStep, OtherEnablesStep,
   CronStutter
   DEF CronNext, Gateway

(* The inductive invariant holds in every reachable state.                 *)
THEOREM CronInvariant == CronSpec => []CronIInv
<1> QED BY CronStart, CronStep, PTL DEF CronSpec

(* _load_store, _merge_action and _save_store, with edits of two processes *)
(* and a crash at any point: a job that was added, and neither removed nor *)
(* used up, is on disk, unless its action was in the log when a merge was  *)
(* cut short.                                                              *)
THEOREM NoJobLost == CronSpec => []JobsKept
<1>1. CronIInv => JobsKept
  BY DEF CronIInv, CopiesKeep, Keeps, JobsKept
<1> QED BY <1>1, CronInvariant, PTL

(* _on_timer, with edits, restarts and reloads while a job runs: the timer *)
(* starts a one-time job once, unless its tick was cancelled in the middle *)
(* or an action about it was in the log when it started.                   *)
THEOREM OneTimeJobsRunOnce == CronSpec => []OneTimeRunsOnce
<1>1. CronIInv => OneTimeRunsOnce
  BY DEF CronIInv
<1> QED BY <1>1, CronInvariant, PTL
=============================================================================
