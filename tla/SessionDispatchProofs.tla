----------------------- MODULE SessionDispatchProofs -----------------------
(***************************************************************************)
(* Machine-checked proofs about SessionDispatch, for every set of          *)
(* sessions and messages and every value of the limits.                    *)
(*                                                                         *)
(* ToSet and IsInjective stay folded: the steps use the lemmas of          *)
(* QueueLemmas instead.  A proof that an action preserves IInv first says  *)
(* what the action does to the queues, then takes IInv part by part.       *)
(***************************************************************************)
EXTENDS SessionDispatch, QueueLemmas, FiniteSetTheorems

(* The kinds of messages and the sets built from them. *)
LEMMA Kinds ==
  /\ Users \subseteq Bus /\ Autos \subseteq Bus /\ Users \cap Autos = {}
  /\ Bus \subseteq Msgs /\ Directs \subseteq Msgs /\ Bus \cap Directs = {}
  /\ None \notin Msgs /\ None \notin Bus /\ None \notin Sessions
  /\ IsFiniteSet(Msgs) /\ IsFiniteSet(Bus)
  /\ \A m \in Msgs : SessionOf[m] \in Sessions
  /\ Autos \subseteq Msgs /\ Users \subseteq Msgs
BY KindAssumption, FS_Subset DEF Bus, Msgs

(* What is deferred for a session. *)
LEMMA DeferredFacts ==
  ASSUME TypeOK, PlaceInv, NEW s \in Sessions
  PROVE  /\ deferred[s] \in Seq(Autos) /\ IsInjective(deferred[s])
         /\ ToSet(deferred[s]) \subseteq Autos
         /\ \A a \in ToSet(deferred[s]) :
              /\ a \in Autos /\ a \in Bus /\ a \in Msgs
              /\ SessionOf[a] = s /\ phase[a] = "none" /\ a \notin ToSet(inbound)
<1>1. deferred[s] \in Seq(Autos) /\ IsInjective(deferred[s])
  BY DEF TypeOK, PlaceInv
<1>2. ToSet(deferred[s]) \subseteq Autos
  BY <1>1, ToSetFacts
<1>3. \A a \in ToSet(deferred[s]) :
        SessionOf[a] = s /\ phase[a] = "none" /\ a \notin ToSet(inbound)
  BY DEF PlaceInv
<1> QED BY <1>1, <1>2, <1>3, Kinds

(* A cancelled waiter leaves the queue, and the others stay. *)
LEMMA LeaveFacts ==
  ASSUME NEW S, NEW q \in Seq(S), NEW m, IsInjective(q)
  PROVE  /\ Leave(q, m) \in Seq(S)
         /\ ToSet(Leave(q, m)) = ToSet(q) \ {m}
         /\ IsInjective(Leave(q, m))
<1>1. CASE Contains(q, m)
  <2> DEFINE i == CHOOSE i \in DOMAIN q : q[i] = m
  <2>1. i \in DOMAIN q /\ q[i] = m
    BY <1>1 DEF Contains
  <2>2. Leave(q, m) = RemoveAt(q, i)
    BY <1>1 DEF Leave
  <2> HIDE DEF i
  <2> QED BY <2>1, <2>2, RemoveAtFacts
<1>2. CASE ~ Contains(q, m)
  <2>1. Leave(q, m) = q
    BY <1>2 DEF Leave
  <2>2. m \notin ToSet(q)
    BY <1>2 DEF ToSet, Contains
  <2> QED BY <2>1, <2>2
<1> QED BY <1>1, <1>2

(* The waiter a release wakes was queued, and is not any more. *)
LEMMA WaiterFacts ==
  ASSUME NEW S, NEW q \in Seq(S), IsInjective(q)
  PROVE  /\ OtherWaiters(q) \in Seq(S) /\ IsInjective(OtherWaiters(q))
         /\ ToSet(OtherWaiters(q)) \subseteq ToSet(q)
         /\ q = <<>> => FirstWaiter(q) = None
         /\ q # <<>> => /\ FirstWaiter(q) \in ToSet(q) /\ FirstWaiter(q) \in S
                        /\ FirstWaiter(q) \notin ToSet(OtherWaiters(q))
<1>1. CASE q = <<>>
  BY <1>1, EmptyFacts DEF OtherWaiters, FirstWaiter
<1>2. CASE q # <<>>
  BY <1>2, HeadTailFacts DEF OtherWaiters, FirstWaiter
<1> QED BY <1>1, <1>2

(* Releasing the session lock, or leaving its queue, at the end of a task. *)
LEMMA ReleaseLockInv ==
  ASSUME TypeOK, LockInv, NEW m \in Msgs, ReleaseLock(m),
         phase' = [phase EXCEPT ![m] = "none"]
  PROVE  /\ lock' \in [Sessions -> Msgs \cup {None}]
         /\ lockWaiters' \in [Sessions -> Seq(Msgs)]
         /\ LockInv'
<1> DEFINE s == SessionOf[m]
<1>1. s \in Sessions /\ lockWaiters[s] \in Seq(Msgs) /\ IsInjective(lockWaiters[s])
  BY Kinds DEF TypeOK, LockInv
<1>2. CASE lock[s] = m
  <2> DEFINE q == lockWaiters[s]
  <2>1. /\ lock' = [lock EXCEPT ![s] = FirstWaiter(q)]
        /\ lockWaiters' = [lockWaiters EXCEPT ![s] = OtherWaiters(q)]
    BY <1>2 DEF ReleaseLock
  <2>2. /\ OtherWaiters(q) \in Seq(Msgs) /\ IsInjective(OtherWaiters(q))
        /\ ToSet(OtherWaiters(q)) \subseteq ToSet(q)
        /\ q = <<>> => FirstWaiter(q) = None
        /\ q # <<>> => /\ FirstWaiter(q) \in ToSet(q) /\ FirstWaiter(q) \in Msgs
                       /\ FirstWaiter(q) \notin ToSet(OtherWaiters(q))
    BY <1>1, WaiterFacts
  <2> HIDE DEF q
  <2>3. lock' \in [Sessions -> Msgs \cup {None}] /\ lockWaiters' \in [Sessions -> Seq(Msgs)]
    BY <1>1, <2>1, <2>2 DEF TypeOK
  <2>4. \A x \in Msgs : phase'[x] \in Live \cup {"gate"} => lock'[SessionOf[x]] = x
    BY <1>1, <1>2, <2>1, Kinds DEF TypeOK, LockInv, Live
  <2>5. \A x \in ToSet(q) : SessionOf[x] = s /\ phase[x] = "lock" /\ x # m
    BY <1>1, <1>2 DEF LockInv, q
  <2>6. ToSet(q) \subseteq Msgs
    BY <1>1, ToSetFacts DEF q
  <2>7. \A t \in Sessions : lock'[t] # None =>
           SessionOf[lock'[t]] = t /\ phase'[lock'[t]] \in Live \cup {"lock", "gate"}
    <3> SUFFICES ASSUME NEW t \in Sessions, lock'[t] # None
                 PROVE  SessionOf[lock'[t]] = t /\ phase'[lock'[t]] \in Live \cup {"lock", "gate"}
      OBVIOUS
    <3>1. CASE t = s
      <4>1. lock'[s] \in ToSet(q) /\ lock'[s] \in Msgs
        BY <1>1, <2>1, <2>2, <3>1 DEF TypeOK
      <4> QED BY <2>5, <3>1, <4>1 DEF TypeOK
    <3>2. CASE t # s
      <4>1. lock'[t] = lock[t] /\ lock[t] \in Msgs
        BY <2>1, <3>2 DEF TypeOK
      <4> QED BY <3>2, <4>1 DEF TypeOK, LockInv
    <3> QED BY <3>1, <3>2
  <2>8. \A t \in Sessions :
          /\ IsInjective(lockWaiters'[t])
          /\ \A x \in ToSet(lockWaiters'[t]) :
               SessionOf[x] = t /\ phase'[x] = "lock" /\ lock'[t] # x
    <3>1. ASSUME NEW t \in Sessions, t # s
          PROVE  /\ IsInjective(lockWaiters'[t])
                 /\ \A x \in ToSet(lockWaiters'[t]) :
                      SessionOf[x] = t /\ phase'[x] = "lock" /\ lock'[t] # x
      <4>1. lockWaiters'[t] = lockWaiters[t] /\ lock'[t] = lock[t]
        BY <2>1, <3>1 DEF TypeOK
      <4>2. ToSet(lockWaiters[t]) \subseteq Msgs
        BY ToSetFacts DEF TypeOK
      <4> QED BY <3>1, <4>1, <4>2 DEF TypeOK, LockInv
    <3>2. lockWaiters'[s] = OtherWaiters(q) /\ lock'[s] = FirstWaiter(q)
      BY <1>1, <2>1 DEF TypeOK
    <3>3. \A x \in ToSet(lockWaiters'[s]) :
             SessionOf[x] = s /\ phase'[x] = "lock" /\ lock'[s] # x
      <4> SUFFICES ASSUME NEW x \in ToSet(OtherWaiters(q))
                   PROVE  SessionOf[x] = s /\ phase'[x] = "lock" /\ lock'[s] # x
        BY <3>2
      <4>1. x \in ToSet(q) /\ x \in Msgs /\ q # <<>>
        BY <2>2, <2>6, EmptyFacts DEF OtherWaiters
      <4> QED BY <2>2, <2>5, <3>2, <4>1 DEF TypeOK
    <3> QED BY <2>2, <3>1, <3>2, <3>3
  <2>9. ASSUME NEW t \in Sessions, lock'[t] = None
        PROVE  lockWaiters'[t] = <<>>
    <3>1. CASE t = s
      <4>1. FirstWaiter(q) = None
        BY <1>1, <2>1, <2>9, <3>1 DEF TypeOK
      <4>2. q = <<>>
        BY <2>2, <4>1, Kinds
      <4> QED BY <1>1, <2>1, <3>1, <4>2 DEF TypeOK, OtherWaiters
    <3>2. CASE t # s
      BY <2>1, <2>9, <3>2 DEF TypeOK, LockInv
    <3> QED BY <3>1, <3>2
  <2> QED BY <2>3, <2>4, <2>7, <2>8, <2>9 DEF LockInv
<1>3. CASE lock[s] # m
  <2>1. /\ lock' = lock
        /\ lockWaiters' = [lockWaiters EXCEPT ![s] = Leave(lockWaiters[s], m)]
    BY <1>3 DEF ReleaseLock
  <2>2. /\ Leave(lockWaiters[s], m) \in Seq(Msgs)
        /\ ToSet(Leave(lockWaiters[s], m)) = ToSet(lockWaiters[s]) \ {m}
        /\ IsInjective(Leave(lockWaiters[s], m))
    BY <1>1, LeaveFacts
  <2>3. lockWaiters' \in [Sessions -> Seq(Msgs)]
    BY <1>1, <2>1, <2>2 DEF TypeOK
  <2>4. \A x \in Msgs : phase'[x] \in Live \cup {"gate"} => lock'[SessionOf[x]] = x
    BY <2>1 DEF TypeOK, LockInv, Live
  <2>5. \A t \in Sessions : lock'[t] # None =>
           SessionOf[lock'[t]] = t /\ phase'[lock'[t]] \in Live \cup {"lock", "gate"}
    BY <1>3, <2>1 DEF TypeOK, LockInv
  <2>6. ASSUME NEW t \in Sessions
        PROVE  /\ IsInjective(lockWaiters'[t])
               /\ \A x \in ToSet(lockWaiters'[t]) :
                    SessionOf[x] = t /\ phase'[x] = "lock" /\ lock'[t] # x
    <3>1. ToSet(lockWaiters[t]) \subseteq Msgs
      BY ToSetFacts DEF TypeOK
    <3>2. IsInjective(lockWaiters'[t]) /\ ToSet(lockWaiters'[t]) \subseteq ToSet(lockWaiters[t]) \ {m}
      <4>1. CASE t = s
        BY <1>1, <2>1, <2>2, <4>1 DEF TypeOK
      <4>2. CASE t # s
        BY <1>1, <2>1, <4>2 DEF TypeOK, LockInv
      <4> QED BY <4>1, <4>2
    <3> QED BY <2>1, <3>1, <3>2 DEF TypeOK, LockInv
  <2>7. ASSUME NEW t \in Sessions, lock'[t] = None
        PROVE  lockWaiters'[t] = <<>>
    <3>1. lockWaiters[t] = <<>>
      BY <2>1, <2>7 DEF LockInv
    <3>2. Leave(<<>>, m) = <<>>
      BY DEF Leave, Contains
    <3> QED BY <2>1, <3>1, <3>2 DEF TypeOK
  <2> QED BY <2>1, <2>3, <2>4, <2>5, <2>6, <2>7 DEF LockInv, TypeOK
<1> QED BY <1>2, <1>3

(* Handing a permit to the first waiter never adds one. *)
LEMMA ReleaseGateInv ==
  ASSUME TypeOK, GateInv, NEW m \in Msgs, ReleaseGate(m),
         phase' = [phase EXCEPT ![m] = "none"]
  PROVE  gate' \subseteq Bus /\ gateWaiters' \in Seq(Bus) /\ GateInv'
<1>1. gateWaiters \in Seq(Bus) /\ IsInjective(gateWaiters) /\ gate \subseteq Bus /\ Bus \subseteq Msgs
  BY Kinds DEF TypeOK, GateInv
<1>2. IsFiniteSet(gate) /\ Cardinality(gate) \in Nat
  BY <1>1, Kinds, FS_Subset, FS_CardinalityType
<1>3. ToSet(gateWaiters) \subseteq Bus
  BY <1>1, ToSetFacts
<1>4. CASE m \in gate
  <2> DEFINE w == FirstWaiter(gateWaiters)
  <2>1. gate' = (gate \ {m}) \cup ({w} \ {None}) /\ gateWaiters' = OtherWaiters(gateWaiters)
    BY <1>4 DEF ReleaseGate
  <2>2. /\ OtherWaiters(gateWaiters) \in Seq(Bus) /\ IsInjective(OtherWaiters(gateWaiters))
        /\ ToSet(OtherWaiters(gateWaiters)) \subseteq ToSet(gateWaiters)
        /\ gateWaiters = <<>> => w = None
        /\ gateWaiters # <<>> => /\ w \in ToSet(gateWaiters) /\ w \in Bus
                                 /\ w \notin ToSet(OtherWaiters(gateWaiters))
    BY <1>1, WaiterFacts
  <2> HIDE DEF w
  <2>3. \A x \in ToSet(gateWaiters) : phase[x] = "gate" /\ x \notin gate
    BY DEF GateInv
  <2>4. IsFiniteSet(gate \ {m}) /\ Cardinality(gate \ {m}) = Cardinality(gate) - 1
    BY <1>2, <1>4, FS_RemoveElement
  <2>5. Cardinality(gate') <= Cardinality(gate)
    <3>1. CASE w = None
      <4>1. gate' = gate \ {m}
        BY <2>1, <3>1
      <4> QED BY <1>2, <2>4, <4>1
    <3>2. CASE w # None
      <4>1. gate' = (gate \ {m}) \cup {w} /\ w \notin gate \ {m}
        BY <2>1, <2>2, <2>3, <3>2
      <4>2. Cardinality((gate \ {m}) \cup {w}) = Cardinality(gate \ {m}) + 1
        BY <2>4, <4>1, FS_AddElement
      <4> QED BY <1>2, <2>4, <4>1, <4>2
    <3> QED BY <3>1, <3>2
  <2>6. gate' \subseteq Bus /\ gateWaiters' \in Seq(Bus)
    BY <1>1, <2>1, <2>2
  <2>7. Cardinality(gate') <= MaxConcurrent
    <3>1. Cardinality(gate') \in Nat
      BY <2>6, Kinds, FS_Subset, FS_CardinalityType
    <3> QED BY <1>2, <2>5, <3>1, BoundAssumption DEF GateInv
  <2>8. \A x \in Bus : phase'[x] \in Live => x \in gate'
    BY <1>1, <2>1 DEF TypeOK, GateInv, Live
  <2>9. \A x \in gate' : phase'[x] \in Live \cup {"gate"}
    <3> SUFFICES ASSUME NEW x \in gate' PROVE phase'[x] \in Live \cup {"gate"}
      OBVIOUS
    <3>1. CASE x \in gate \ {m}
      BY <1>1, <3>1 DEF TypeOK, GateInv
    <3>2. CASE x = w /\ w # None
      BY <1>1, <1>3, <1>4, <2>2, <2>3, <3>2 DEF TypeOK
    <3> QED BY <2>1, <3>1, <3>2
  <2>10. \A x \in ToSet(gateWaiters') : phase'[x] = "gate" /\ x \notin gate'
    <3> SUFFICES ASSUME NEW x \in ToSet(OtherWaiters(gateWaiters))
                 PROVE  phase'[x] = "gate" /\ x \notin gate'
      BY <2>1
    <3>1. x \in ToSet(gateWaiters) /\ x \in Msgs /\ x # w
      BY <1>1, <1>3, <2>2, EmptyFacts, Kinds DEF OtherWaiters
    <3> QED BY <1>4, <2>1, <2>3, <3>1 DEF TypeOK
  <2> QED BY <2>1, <2>2, <2>6, <2>7, <2>8, <2>9, <2>10 DEF GateInv
<1>5. CASE m \notin gate
  <2>1. gate' = gate /\ gateWaiters' = Leave(gateWaiters, m)
    BY <1>5 DEF ReleaseGate
  <2>2. /\ gateWaiters' \in Seq(Bus) /\ IsInjective(gateWaiters')
        /\ ToSet(gateWaiters') = ToSet(gateWaiters) \ {m}
    BY <1>1, <2>1, LeaveFacts
  <2> QED BY <1>1, <1>3, <1>5, <2>1, <2>2 DEF TypeOK, GateInv, Live
<1> QED BY <1>4, <1>5

(* Entering the gate: a task with the session lock in hand takes a permit  *)
(* or joins the queue.                                                     *)
LEMMA EnterGateInv ==
  ASSUME TypeOK, GateInv, NEW m \in Bus, phase[m] \notin Live \cup {"gate"}, EnterGate(m)
  PROVE  gate' \subseteq Bus /\ gateWaiters' \in Seq(Bus) /\ GateInv'
<1>1. gateWaiters \in Seq(Bus) /\ IsInjective(gateWaiters) /\ gate \subseteq Bus /\ Bus \subseteq Msgs
  BY Kinds DEF TypeOK, GateInv
<1>2. IsFiniteSet(gate) /\ Cardinality(gate) \in Nat
  BY <1>1, Kinds, FS_Subset, FS_CardinalityType
<1>3. ToSet(gateWaiters) \subseteq Bus /\ m \notin gate /\ m \notin ToSet(gateWaiters)
  BY <1>1, ToSetFacts DEF GateInv
<1>4. CASE GateFree /\ gate' = gate \cup {m} /\ EnterTurn(m) /\ UNCHANGED gateWaiters
  <2>1. Cardinality(gate') = Cardinality(gate) + 1
    BY <1>2, <1>3, <1>4, FS_AddElement
  <2>2. Cardinality(gate') <= MaxConcurrent
    BY <1>2, <1>4, <2>1, BoundAssumption DEF GateFree
  <2>3. phase' = [phase EXCEPT ![m] = "running"]
    BY <1>4 DEF EnterTurn
  <2>4. ToSet(gateWaiters') = ToSet(gateWaiters)
    BY <1>4
  <2> QED BY <1>1, <1>3, <1>4, <2>2, <2>3, <2>4 DEF TypeOK, GateInv, Live
<1>5. CASE /\ gateWaiters' = Append(gateWaiters, m)
           /\ phase' = [phase EXCEPT ![m] = "gate"] /\ UNCHANGED gate
  <2>1. /\ gateWaiters' \in Seq(Bus) /\ IsInjective(gateWaiters')
        /\ ToSet(gateWaiters') = ToSet(gateWaiters) \cup {m}
    BY <1>1, <1>3, <1>5, AppendFacts
  <2> QED BY <1>1, <1>3, <1>5, <2>1 DEF TypeOK, GateInv, Live
<1> QED BY <1>4, <1>5 DEF EnterGate

-----------------------------------------------------------------------------
(* The initial states. *)
LEMMA InitInv == Init => IInv
<1> SUFFICES ASSUME Init PROVE IInv
  OBVIOUS
<1> USE EmptyFacts, Kinds DEF Init
<1>1. TypeOK
  BY BoundAssumption DEF TypeOK, Phases, Live, Settled
<1>2. LockInv
  BY DEF LockInv, Live
<1>3. GateInv
  BY FS_EmptySet, BoundAssumption DEF GateInv, Live
<1>4. PlaceInv
  BY DEF PlaceInv
<1>5. QueueInv
  BY DEF QueueInv, PendingQueueOwned, Turns, Live
<1>6. UnsentInv /\ StopInv
  BY DEF UnsentInv, StopInv
<1>7. \A a \in Autos : fate[a] # "injected"
  OBVIOUS
<1> QED BY <1>1, <1>2, <1>3, <1>4, <1>5, <1>6, <1>7 DEF IInv

(* The producers. *)
LEMMA PublishInv ==
  ASSUME IInv, NEW u \in Users, Publish(u)
  PROVE  IInv'
<1> USE DEF Publish, taskVars, turnVars, autoVars, stopVars
<1>0. TypeOK /\ PlaceInv /\ UnsentInv /\ QueueInv /\ u \in Bus /\ u \in Msgs
  BY Kinds DEF IInv
<1>1. u \notin ToSet(inbound) /\ phase[u] = "none"
  BY <1>0 DEF UnsentInv
<1>2. /\ inbound' \in Seq(Bus) /\ ToSet(inbound') = ToSet(inbound) \cup {u}
      /\ IsInjective(inbound')
  BY <1>0, <1>1, AppendFacts DEF TypeOK, PlaceInv
<1>3. TypeOK'
  BY <1>0, <1>2 DEF TypeOK
<1>4. LockInv' /\ GateInv' /\ StopInv'
  BY DEF IInv, LockInv, GateInv, StopInv, Tasks
<1>5. PlaceInv'
  BY <1>0, <1>1, <1>2 DEF PlaceInv, UnsentInv
<1>6. QueueInv'
  BY <1>0, <1>2 DEF QueueInv, PendingQueueOwned, Turns, UnsentInv
<1>7. UnsentInv'
  BY <1>0, <1>2 DEF UnsentInv, TypeOK
<1>8. \A a \in Autos : fate'[a] # "injected"
  BY <1>0, Kinds DEF IInv, TypeOK
<1> QED BY <1>3, <1>4, <1>5, <1>6, <1>7, <1>8 DEF IInv

LEMMA SubmitInv ==
  ASSUME IInv, NEW a \in Autos, Submit(a)
  PROVE  IInv'
<1> USE DEF Submit, taskVars, turnVars, stopVars
<1>0. TypeOK /\ PlaceInv /\ UnsentInv /\ QueueInv /\ a \in Bus /\ a \in Msgs
  BY Kinds DEF IInv
<1>1. a \notin ToSet(inbound) /\ phase[a] = "none"
  BY <1>0 DEF UnsentInv
<1>2. /\ inbound' \in Seq(Bus) /\ ToSet(inbound') = ToSet(inbound) \cup {a}
      /\ IsInjective(inbound')
  BY <1>0, <1>1, AppendFacts DEF TypeOK, PlaceInv
<1>3. TypeOK'
  BY <1>0, <1>2 DEF TypeOK
<1>4. LockInv' /\ GateInv' /\ StopInv'
  BY DEF IInv, LockInv, GateInv, StopInv, Tasks
<1>5. PlaceInv'
  BY <1>0, <1>1, <1>2 DEF PlaceInv, UnsentInv
<1>6. QueueInv'
  BY <1>0, <1>2 DEF QueueInv, PendingQueueOwned, Turns, UnsentInv
<1>7. UnsentInv'
  BY <1>0, <1>2 DEF UnsentInv, TypeOK
<1>8. \A x \in Autos : fate'[x] # "injected"
  BY <1>0, Kinds DEF IInv, TypeOK
<1> QED BY <1>3, <1>4, <1>5, <1>6, <1>7, <1>8 DEF IInv

(* What a step that touches neither the gate nor the queues has to keep:   *)
(* direct calls only take and leave the session lock.                      *)
LEMMA DirectInv ==
  ASSUME IInv, NEW d \in Directs,
         NEW p \in {"none", "lock", "running"}, NEW f \in ({"open"} \cup Settled) \ {"injected"},
         phase' = [phase EXCEPT ![d] = p], fate' = [fate EXCEPT ![d] = f],
         lock' \in [Sessions -> Msgs \cup {None}],
         lockWaiters' \in [Sessions -> Seq(Msgs)], LockInv',
         UNCHANGED <<inbound, ready, gate, gateWaiters, turnVars, autoVars, stopVars>>
  PROVE  IInv'
<1> USE DEF turnVars, autoVars, stopVars
<1>0. TypeOK /\ d \in Msgs /\ d \notin Bus /\ d \notin Autos /\ d \notin Users
  BY Kinds DEF IInv
<1>1. /\ phase' \in [Msgs -> Phases] /\ \A x \in Msgs : x # d => phase'[x] = phase[x]
      /\ fate' \in [Msgs -> {"unsent", "open"} \cup Settled]
      /\ \A x \in Msgs : x # d => fate'[x] = fate[x]
      /\ fate'[d] = f
  BY <1>0 DEF TypeOK, Phases, Live
<1>2. \A x \in Bus : phase'[x] = phase[x] /\ fate'[x] = fate[x] /\ x \in Msgs
  BY <1>0, <1>1, Kinds
<1>3. TypeOK'
  BY <1>0, <1>1 DEF TypeOK
<1>4. GateInv'
  BY <1>0, <1>2, ToSetFacts DEF IInv, GateInv, TypeOK
<1>5. PlaceInv'
  <2>1. /\ ToSet(ready) \subseteq Bus /\ ToSet(inbound) \subseteq Bus
        /\ \A s \in Sessions : ToSet(deferred[s]) \subseteq Bus
    BY <1>0, Kinds, ToSetFacts DEF TypeOK
  <2> QED BY <1>2, <2>1 DEF IInv, PlaceInv
<1>6. QueueInv'
  <2>1. PendingQueueOwned'
    <3>1. ASSUME NEW s \in Sessions, NEW m \in Bus
          PROVE  m \in Turns(s)' <=> m \in Turns(s)
      BY <1>2 DEF Turns
    <3> QED BY <3>1 DEF IInv, QueueInv, PendingQueueOwned
  <2> QED BY <1>2, <2>1, Kinds DEF IInv, QueueInv
<1>7. UnsentInv'
  <2>1. f # "unsent"
    BY DEF Settled
  <2> QED BY <1>1, <2>1 DEF IInv, UnsentInv
<1>8. StopInv' /\ \A a \in Autos : fate'[a] # "injected"
  BY <1>2, Kinds DEF IInv, StopInv, Tasks
<1> QED BY <1>3, <1>4, <1>5, <1>6, <1>7, <1>8 DEF IInv

(* Waiting for the session lock. *)
LEMMA JoinLockInv ==
  ASSUME TypeOK, LockInv, NEW m \in Msgs, phase[m] \in {"none", "ready"},
         ~ LockFree(SessionOf[m]), lock' = lock,
         lockWaiters' = [lockWaiters EXCEPT ![SessionOf[m]] = Append(@, m)],
         phase' = [phase EXCEPT ![m] = "lock"]
  PROVE  lockWaiters' \in [Sessions -> Seq(Msgs)] /\ LockInv'
<1> DEFINE s == SessionOf[m]
<1>1. s \in Sessions /\ lockWaiters[s] \in Seq(Msgs) /\ IsInjective(lockWaiters[s])
  BY Kinds DEF TypeOK, LockInv
<1>2. \A t \in Sessions : m \notin ToSet(lockWaiters[t]) /\ lock[t] # m
  BY Kinds DEF LockInv, Live
<1>3. /\ Append(lockWaiters[s], m) \in Seq(Msgs)
      /\ ToSet(Append(lockWaiters[s], m)) = ToSet(lockWaiters[s]) \cup {m}
      /\ IsInjective(Append(lockWaiters[s], m))
  BY <1>1, <1>2, AppendFacts
<1>4. lockWaiters' \in [Sessions -> Seq(Msgs)]
  BY <1>1, <1>3 DEF TypeOK
<1>5. ASSUME NEW t \in Sessions
      PROVE  /\ IsInjective(lockWaiters'[t])
             /\ \A x \in ToSet(lockWaiters'[t]) :
                  SessionOf[x] = t /\ phase'[x] = "lock" /\ lock'[t] # x
  <2>1. ToSet(lockWaiters[t]) \subseteq Msgs
    BY ToSetFacts DEF TypeOK
  <2>2. CASE t = s
    BY <1>1, <1>2, <1>3, <2>1, <2>2 DEF TypeOK, LockInv
  <2>3. CASE t # s
    BY <1>1, <1>2, <2>1, <2>3 DEF TypeOK, LockInv
  <2> QED BY <2>2, <2>3
<1>6. \A x \in Msgs : phase'[x] \in Live \cup {"gate"} => lock'[SessionOf[x]] = x
  BY DEF TypeOK, LockInv, Live
<1>7. \A t \in Sessions : lock'[t] # None =>
         SessionOf[lock'[t]] = t /\ phase'[lock'[t]] \in Live \cup {"lock", "gate"}
  BY <1>2, Kinds DEF TypeOK, LockInv
<1>8. \A t \in Sessions : lock'[t] = None => lockWaiters'[t] = <<>>
  BY <1>1 DEF LockFree, TypeOK, LockInv
<1> QED BY <1>4, <1>5, <1>6, <1>7, <1>8 DEF LockInv

(* Taking a free session lock, or resuming with it in hand. *)
LEMMA TakeLockInv ==
  ASSUME TypeOK, LockInv, NEW m \in Msgs, NEW p \in Live \cup {"gate"},
         phase[m] \in {"none", "ready", "lock", "gate"},
         \/ LockFree(SessionOf[m]) /\ phase[m] \in {"none", "ready"}
         \/ lock[SessionOf[m]] = m,
         lock' = [lock EXCEPT ![SessionOf[m]] = m], lockWaiters' = lockWaiters,
         phase' = [phase EXCEPT ![m] = p]
  PROVE  lock' \in [Sessions -> Msgs \cup {None}] /\ LockInv'
<1> DEFINE s == SessionOf[m]
<1>1. s \in Sessions
  BY Kinds
<1>2. m \notin ToSet(lockWaiters[s]) /\ lock[s] \in {None, m}
  BY <1>1 DEF LockInv, LockFree
<1>3. \A t \in Sessions : m \notin ToSet(lockWaiters[t])
  BY <1>1, <1>2 DEF LockInv
<1>4. ASSUME NEW x \in Msgs, phase'[x] \in Live \cup {"gate"}
      PROVE  lock'[SessionOf[x]] = x
  BY <1>1, <1>2, <1>4, Kinds DEF TypeOK, LockInv
<1>5. \A t \in Sessions : lock'[t] # None =>
         SessionOf[lock'[t]] = t /\ phase'[lock'[t]] \in Live \cup {"lock", "gate"}
  BY <1>1, <1>2, Kinds DEF TypeOK, LockInv
<1>6. ASSUME NEW t \in Sessions, NEW x \in ToSet(lockWaiters[t])
      PROVE  SessionOf[x] = t /\ phase'[x] = "lock" /\ lock'[t] # x
  <2>1. x \in Msgs /\ x # m
    BY <1>3, <1>6, ToSetFacts DEF TypeOK
  <2> QED BY <1>1, <1>6, <2>1 DEF TypeOK, LockInv
<1>7. \A t \in Sessions : lock'[t] = None => lockWaiters'[t] = <<>>
  BY <1>1, Kinds DEF TypeOK, LockInv
<1> QED BY <1>1, <1>4, <1>5, <1>6, <1>7 DEF TypeOK, LockInv

(* Direct calls. *)
LEMMA CallDirectInv ==
  ASSUME IInv, NEW d \in Directs, CallDirect(d)
  PROVE  IInv'
<1> DEFINE s == SessionOf[d]
<1>0. TypeOK /\ LockInv /\ d \in Msgs /\ s \in Sessions /\ phase[d] = "none"
  BY Kinds DEF IInv, UnsentInv, CallDirect
<1>1. CASE /\ LockFree(s) /\ lock' = [lock EXCEPT ![s] = d]
           /\ phase' = [phase EXCEPT ![d] = "running"] /\ UNCHANGED lockWaiters
  <2>1. lock' \in [Sessions -> Msgs \cup {None}] /\ LockInv'
    BY <1>0, <1>1, TakeLockInv DEF Live
  <2> QED BY <1>0, <1>1, <2>1, DirectInv DEF CallDirect, TypeOK
<1>2. CASE /\ ~ LockFree(s)
           /\ lockWaiters' = [lockWaiters EXCEPT ![s] = Append(@, d)]
           /\ phase' = [phase EXCEPT ![d] = "lock"] /\ UNCHANGED lock
  <2>1. lockWaiters' \in [Sessions -> Seq(Msgs)] /\ LockInv'
    BY <1>0, <1>2, JoinLockInv
  <2> QED BY <1>0, <1>2, <2>1, DirectInv DEF CallDirect, TypeOK
<1> QED BY <1>1, <1>2 DEF CallDirect

LEMMA DirectWakesInv ==
  ASSUME IInv, NEW d \in Directs, DirectWakes(d)
  PROVE  IInv'
<1>0. /\ TypeOK /\ LockInv /\ d \in Msgs /\ SessionOf[d] \in Sessions
      /\ phase[d] = "lock" /\ lock[SessionOf[d]] = d
      /\ phase' = [phase EXCEPT ![d] = "running"]
      /\ lock' = lock /\ lockWaiters' = lockWaiters
  BY Kinds DEF IInv, DirectWakes
<1>1. lock' = [lock EXCEPT ![SessionOf[d]] = d]
  BY <1>0 DEF TypeOK
<1>2. LockInv'
  BY <1>0, <1>1, TakeLockInv DEF Live
<1>3. fate[d] # "unsent" /\ fate[d] \in {"open"} \cup Settled
  BY <1>0 DEF IInv, UnsentInv, TypeOK
<1> USE DEF DirectWakes, turnVars, autoVars, stopVars
<1>4. TypeOK' /\ (\A x \in Bus : phase'[x] = phase[x] /\ x \in Msgs)
  BY <1>0, Kinds DEF TypeOK, Phases, Live
<1>5. GateInv'
  BY <1>0, <1>4, ToSetFacts DEF IInv, GateInv, TypeOK
<1>6. PlaceInv'
  <2>1. /\ ToSet(ready) \subseteq Bus /\ ToSet(inbound) \subseteq Bus
        /\ \A s \in Sessions : ToSet(deferred[s]) \subseteq Bus
    BY <1>0, Kinds, ToSetFacts DEF TypeOK
  <2> QED BY <1>4, <2>1 DEF IInv, PlaceInv
<1>7. QueueInv'
  <2>1. ASSUME NEW s \in Sessions, NEW m \in Bus
        PROVE  m \in Turns(s)' <=> m \in Turns(s)
    BY <1>4 DEF Turns
  <2>2. PendingQueueOwned'
    BY <2>1 DEF IInv, QueueInv, PendingQueueOwned
  <2> QED BY <1>4, <2>2, Kinds DEF IInv, QueueInv
<1>8. UnsentInv'
  BY <1>0, <1>3 DEF IInv, UnsentInv, TypeOK
<1>9. StopInv' /\ \A a \in Autos : fate'[a] # "injected"
  BY <1>4 DEF IInv, StopInv, Tasks
<1> QED BY <1>2, <1>4, <1>5, <1>6, <1>7, <1>8, <1>9 DEF IInv

LEMMA DirectEndsInv ==
  ASSUME IInv, NEW d \in Directs, DirectEnds(d)
  PROVE  IInv'
<1>0. TypeOK /\ LockInv /\ d \in Msgs
  BY Kinds DEF IInv
<1>1. /\ phase' = [phase EXCEPT ![d] = "none"] /\ ReleaseLock(d)
      /\ UNCHANGED <<inbound, ready, gate, gateWaiters, turnVars, autoVars, stopVars>>
      /\ \/ fate' = [fate EXCEPT ![d] = "handled"]
         \/ fate' = [fate EXCEPT ![d] = "failed"]
  BY DEF DirectEnds
<1>2. /\ lock' \in [Sessions -> Msgs \cup {None}]
      /\ lockWaiters' \in [Sessions -> Seq(Msgs)] /\ LockInv'
  BY <1>0, <1>1, ReleaseLockInv
<1> QED BY <1>1, <1>2, DirectInv DEF Settled

-----------------------------------------------------------------------------
(* run() takes a message off the bus. *)
LEMMA ConsumeFacts ==
  ASSUME IInv, Consume
  PROVE  LET m == Head(inbound) IN
         /\ m \in Bus /\ m \in Msgs /\ SessionOf[m] \in Sessions
         /\ phase[m] = "none" /\ fate[m] # "unsent"
         /\ inbound' \in Seq(Bus) /\ IsInjective(inbound')
         /\ ToSet(inbound') \subseteq ToSet(inbound) /\ m \notin ToSet(inbound')
         /\ \A s \in Sessions : m \notin ToSet(deferred[s])
         /\ \A o \in Bus : m \notin ToSet(queue[o])
         /\ UNCHANGED <<waiter, stopVars, fate>> /\ stopping = None
<1>1. inbound \in Seq(Bus) /\ inbound # <<>> /\ IsInjective(inbound) /\ inbound' = Tail(inbound)
  BY DEF IInv, TypeOK, PlaceInv, Consume
<1>2. /\ Head(inbound) \in Bus /\ Head(inbound) \in ToSet(inbound)
      /\ inbound' \in Seq(Bus) /\ IsInjective(inbound')
      /\ ToSet(inbound') \subseteq ToSet(inbound) /\ Head(inbound) \notin ToSet(inbound')
  BY <1>1, HeadTailFacts
<1>3. phase[Head(inbound)] = "none" /\ fate[Head(inbound)] # "unsent"
  BY <1>2, Kinds DEF IInv, PlaceInv, UnsentInv
<1>4. \A s \in Sessions : Head(inbound) \notin ToSet(deferred[s])
  BY <1>2 DEF IInv, PlaceInv
<1>5. \A o \in Bus : Head(inbound) \notin ToSet(queue[o])
  BY <1>2 DEF IInv, QueueInv
<1> QED BY <1>2, <1>3, <1>4, <1>5, Kinds DEF Consume, RunLoopIdle

LEMMA DeferInv ==
  ASSUME IInv, Consume, Defer(Head(inbound))
  PROVE  IInv'
<1> DEFINE m == Head(inbound)  s == SessionOf[m]
<1>0. /\ m \in Bus /\ m \in Msgs /\ s \in Sessions /\ m \in Autos /\ m \notin Users
      /\ phase[m] = "none" /\ fate[m] # "unsent"
      /\ inbound' \in Seq(Bus) /\ IsInjective(inbound')
      /\ ToSet(inbound') \subseteq ToSet(inbound) /\ m \notin ToSet(inbound')
      /\ \A t \in Sessions : m \notin ToSet(deferred[t])
      /\ \A o \in Bus : m \notin ToSet(queue[o])
      /\ UNCHANGED <<waiter, stopVars, fate, taskVars, turnVars>>
      /\ deferred' = [deferred EXCEPT ![s] = Append(@, m)]
      /\ TypeOK
  BY ConsumeFacts, Kinds DEF Defer, IsAutomation, IInv
<1> HIDE DEF m
<1> USE DEF taskVars, turnVars, stopVars
<1>1. /\ Append(deferred[s], m) \in Seq(Autos) /\ IsInjective(Append(deferred[s], m))
      /\ ToSet(Append(deferred[s], m)) = ToSet(deferred[s]) \cup {m}
  <2>1. deferred[s] \in Seq(Autos) /\ IsInjective(deferred[s]) /\ m \notin ToSet(deferred[s])
    BY <1>0 DEF IInv, TypeOK, PlaceInv
  <2> QED BY <1>0, <2>1, AppendFacts
<1>2. \A t \in Sessions :
        /\ IsInjective(deferred'[t])
        /\ ToSet(deferred'[t]) = IF t = s THEN ToSet(deferred[s]) \cup {m} ELSE ToSet(deferred[t])
  <2>1. deferred'[s] = Append(deferred[s], m)
    BY <1>0 DEF TypeOK
  <2>2. \A t \in Sessions : t # s => deferred'[t] = deferred[t]
    BY <1>0 DEF TypeOK
  <2>3. \A t \in Sessions : IsInjective(deferred[t])
    BY DEF IInv, PlaceInv
  <2> QED BY <1>1, <2>1, <2>2, <2>3
<1>3. TypeOK'
  BY <1>0, <1>1 DEF TypeOK
<1>4. LockInv' /\ GateInv' /\ StopInv' /\ \A a \in Autos : fate'[a] # "injected"
  BY <1>0 DEF IInv, LockInv, GateInv, StopInv, Tasks
<1>5. PlaceInv'
  BY <1>0, <1>2 DEF IInv, PlaceInv
<1>6. QueueInv'
  <2>1. PendingQueueOwned'
    BY <1>0 DEF IInv, QueueInv, PendingQueueOwned, Turns
  <2>2. ASSUME NEW o \in Bus, NEW x \in ToSet(queue[o])
        PROVE  x \notin ToSet(inbound') \cup ToSet(deferred'[SessionOf[o]])
    BY <1>0, <1>2, <2>2, Kinds DEF IInv, QueueInv
  <2> QED BY <1>0, <2>1, <2>2 DEF IInv, QueueInv
<1>7. UnsentInv'
  BY <1>0, <1>2, Kinds DEF IInv, UnsentInv
<1> QED BY <1>3, <1>4, <1>5, <1>6, <1>7 DEF IInv

LEMMA InjectInv ==
  ASSUME IInv, Consume, Inject(Head(inbound))
  PROVE  IInv'
<1> DEFINE m == Head(inbound)  s == SessionOf[m]  o == registered[s]
<1>0. /\ m \in Bus /\ m \in Msgs /\ s \in Sessions /\ m \notin Autos /\ m \in Users
      /\ phase[m] = "none" /\ fate[m] # "unsent"
      /\ inbound' \in Seq(Bus) /\ IsInjective(inbound')
      /\ ToSet(inbound') \subseteq ToSet(inbound) /\ m \notin ToSet(inbound')
      /\ \A t \in Sessions : m \notin ToSet(deferred[t])
      /\ \A x \in Bus : m \notin ToSet(queue[x])
      /\ UNCHANGED <<waiter, stopVars, fate, taskVars, registered, cycles, rounds, deferred>>
      /\ queue' = [queue EXCEPT ![o] = Append(@, m)]
      /\ o # None /\ HasRoom(o) /\ TypeOK
  BY ConsumeFacts, Kinds DEF Inject, IsAutomation, IInv, Bus
<1> HIDE DEF m
<1> USE DEF taskVars, stopVars
<1>1. o \in Bus /\ SessionOf[o] = s /\ phase[o] \in Live /\ o # m
  <2>1. o \in Bus
    BY <1>0 DEF TypeOK
  <2>2. o \in Turns(s)
    BY <1>0, <2>1 DEF IInv, QueueInv, PendingQueueOwned
  <2> QED BY <1>0, <2>1, <2>2 DEF Turns, Live
<1>2. /\ Append(queue[o], m) \in Seq(Bus) /\ IsInjective(Append(queue[o], m))
      /\ ToSet(Append(queue[o], m)) = ToSet(queue[o]) \cup {m}
      /\ Len(Append(queue[o], m)) = Len(queue[o]) + 1
  <2>1. queue[o] \in Seq(Bus) /\ IsInjective(queue[o]) /\ m \notin ToSet(queue[o])
    BY <1>0, <1>1 DEF IInv, TypeOK, QueueInv
  <2> QED BY <1>0, <2>1, AppendFacts
<1>3. Len(queue[o]) < Cap /\ Len(queue[o]) \in Nat
  BY <1>0, <1>1 DEF HasRoom, TypeOK
<1>4. queue'[o] = Append(queue[o], m) /\ \A x \in Bus : x # o => queue'[x] = queue[x]
  BY <1>0, <1>1 DEF TypeOK
<1>5. TypeOK'
  <2>1. queue' \in [Bus -> Seq(Bus)]
    BY <1>0, <1>1, <1>2 DEF TypeOK
  <2>2. Len(queue'[o]) <= Cap
    BY <1>2, <1>3, <1>4, BoundAssumption
  <2>3. \A x \in Bus : Len(queue'[x]) <= Cap
    BY <1>0, <1>4, <2>2 DEF TypeOK
  <2> QED BY <1>0, <2>1, <2>3 DEF TypeOK
<1>6. LockInv' /\ GateInv' /\ StopInv' /\ \A a \in Autos : fate'[a] # "injected"
  BY <1>0 DEF IInv, LockInv, GateInv, StopInv, Tasks
<1>7. PlaceInv'
  BY <1>0 DEF IInv, PlaceInv
<1>8. QueueInv'
  <2>1. PendingQueueOwned'
    BY <1>0 DEF IInv, QueueInv, PendingQueueOwned, Turns
  <2>2. ASSUME NEW x \in Bus, x # o
        PROVE  /\ phase[x] \notin Live => queue'[x] = <<>>
               /\ phase[x] = "running" => x \notin ToSet(queue'[x])
               /\ IsInjective(queue'[x])
               /\ \A y \in ToSet(queue'[x]) :
                    /\ SessionOf[y] = SessionOf[x]
                    /\ y = x \/ (y \in Users /\ phase[y] = "none")
                    /\ y \notin ToSet(inbound') \cup ToSet(deferred[SessionOf[x]])
    BY <1>0, <1>4, <2>2 DEF IInv, QueueInv
  <2>3. /\ phase[o] = "running" => o \notin ToSet(queue'[o])
        /\ IsInjective(queue'[o])
        /\ \A y \in ToSet(queue'[o]) :
             /\ SessionOf[y] = s
             /\ y = o \/ (y \in Users /\ phase[y] = "none")
             /\ y \notin ToSet(inbound') \cup ToSet(deferred[s])
    <3>1. /\ phase[o] = "running" => o \notin ToSet(queue[o])
          /\ \A y \in ToSet(queue[o]) :
               /\ SessionOf[y] = s
               /\ y = o \/ (y \in Users /\ phase[y] = "none")
               /\ y \notin ToSet(inbound) \cup ToSet(deferred[s])
      BY <1>1 DEF IInv, QueueInv
    <3>2. ToSet(queue'[o]) = ToSet(queue[o]) \cup {m} /\ IsInjective(queue'[o])
      BY <1>2, <1>4
    <3> HIDE DEF s, o
    <3>3. SessionOf[m] = s
      BY DEF s
    <3> QED BY <1>0, <1>1, <3>1, <3>2, <3>3
  <2> QED BY <1>0, <1>1, <2>1, <2>2, <2>3 DEF QueueInv
<1>9. UnsentInv'
  BY <1>0, <1>1, <1>2, <1>4, Kinds DEF IInv, UnsentInv
<1> QED BY <1>5, <1>6, <1>7, <1>8, <1>9 DEF IInv

LEMMA SpawnInv ==
  ASSUME IInv, Consume, Spawn(Head(inbound))
  PROVE  IInv'
<1> DEFINE m == Head(inbound)
<1>0. /\ m \in Bus /\ m \in Msgs /\ phase[m] = "none" /\ fate[m] # "unsent"
      /\ inbound' \in Seq(Bus) /\ IsInjective(inbound')
      /\ ToSet(inbound') \subseteq ToSet(inbound) /\ m \notin ToSet(inbound')
      /\ \A t \in Sessions : m \notin ToSet(deferred[t])
      /\ \A x \in Bus : m \notin ToSet(queue[x])
      /\ UNCHANGED <<waiter, stopVars, fate, lock, lockWaiters, gate, gateWaiters,
                     turnVars, deferred>>
      /\ stopping = None
      /\ ready' = Append(ready, m) /\ phase' = [phase EXCEPT ![m] = "ready"]
      /\ TypeOK
  BY ConsumeFacts DEF Spawn, IInv
<1> HIDE DEF m
<1> USE DEF turnVars, stopVars
<1>1. ready \in Seq(Bus) /\ m \notin ToSet(ready) /\ IsInjective(ready)
  BY <1>0 DEF IInv, TypeOK, PlaceInv
<1>2. ready' \in Seq(Bus) /\ IsInjective(ready') /\ ToSet(ready') = ToSet(ready) \cup {m}
  BY <1>0, <1>1, AppendFacts
<1>3. /\ phase' \in [Msgs -> Phases] /\ phase'[m] = "ready"
      /\ \A x \in Msgs : x # m => phase'[x] = phase[x]
  BY <1>0 DEF TypeOK, Phases
<1>4. TypeOK'
  BY <1>0, <1>2, <1>3 DEF TypeOK
<1>5. LockInv'
  <2>1. \A s \in Sessions : lock[s] # m /\ m \notin ToSet(lockWaiters[s])
    BY <1>0, Kinds DEF IInv, LockInv, Live
  <2>2. \A s \in Sessions : ToSet(lockWaiters[s]) \subseteq Msgs
    BY <1>0, ToSetFacts DEF TypeOK
  <2>3. \A s \in Sessions : lock[s] \in Msgs \cup {None}
    BY <1>0 DEF TypeOK
  <2>4. \A x \in Msgs : phase'[x] \in Live \cup {"gate"} => lock'[SessionOf[x]] = x
    BY <1>0, <1>3 DEF IInv, LockInv, Live
  <2>5. \A s \in Sessions : lock'[s] # None =>
           SessionOf[lock'[s]] = s /\ phase'[lock'[s]] \in Live \cup {"lock", "gate"}
    BY <1>0, <1>3, <2>1, <2>3 DEF IInv, LockInv
  <2>6. \A s \in Sessions : \A x \in ToSet(lockWaiters'[s]) :
           SessionOf[x] = s /\ phase'[x] = "lock" /\ lock'[s] # x
    BY <1>0, <1>3, <2>1, <2>2 DEF IInv, LockInv
  <2> QED BY <1>0, <2>4, <2>5, <2>6 DEF IInv, LockInv
<1>6. GateInv'
  <2>1. gate \subseteq Msgs /\ ToSet(gateWaiters) \subseteq Msgs
    BY <1>0, ToSetFacts, Kinds DEF TypeOK
  <2> QED BY <1>0, <1>3, <2>1, Kinds DEF IInv, GateInv, Live
<1>7. PlaceInv'
  <2>1. /\ ToSet(ready) \subseteq Msgs /\ ToSet(inbound) \subseteq Msgs
        /\ \A s \in Sessions : ToSet(deferred[s]) \subseteq Msgs
    BY <1>0, ToSetFacts, Kinds DEF TypeOK
  <2> QED BY <1>0, <1>2, <1>3, <2>1 DEF IInv, PlaceInv
<1>8. QueueInv'
  <2>1. ASSUME NEW s \in Sessions, NEW x \in Bus
        PROVE  x \in Turns(s)' <=> x \in Turns(s)
    BY <1>0, <1>3, Kinds DEF Turns, Live
  <2>2. PendingQueueOwned'
    BY <1>0, <2>1 DEF IInv, QueueInv, PendingQueueOwned
  <2>3. \A x \in Bus : phase'[x] # phase[x] => x = m
    BY <1>3, Kinds
  <2>4. queue[m] = <<>>
    BY <1>0 DEF IInv, QueueInv, Live
  <2>5. ASSUME NEW x \in Bus, NEW y \in ToSet(queue[x])
        PROVE  /\ SessionOf[y] = SessionOf[x]
               /\ y = x \/ (y \in Users /\ phase'[y] = "none")
               /\ y \notin ToSet(inbound') \cup ToSet(deferred[SessionOf[x]])
    BY <1>0, <1>3, <2>5, Kinds DEF IInv, QueueInv
  <2>6. ASSUME NEW x \in Bus
        PROVE  /\ phase'[x] \notin Live => queue[x] = <<>>
               /\ phase'[x] = "running" => x \notin ToSet(queue[x])
               /\ IsInjective(queue[x])
    BY <1>0, <1>3, <2>3, <2>4 DEF IInv, QueueInv
  <2> QED BY <1>0, <2>2, <2>5, <2>6 DEF QueueInv
<1>9. UnsentInv' /\ StopInv' /\ \A a \in Autos : fate'[a] # "injected"
  BY <1>0, <1>3 DEF IInv, UnsentInv, StopInv
<1> QED BY <1>4, <1>5, <1>6, <1>7, <1>8, <1>9 DEF IInv

LEMMA ConsumeInv ==
  ASSUME IInv, Consume
  PROVE  IInv'
BY DeferInv, InjectInv, SpawnInv DEF Consume

-----------------------------------------------------------------------------
(* /stop. *)
LEMMA StopBeginsInv ==
  ASSUME IInv, NEW s \in Sessions, StopBegins(s)
  PROVE  IInv'
<1> USE DEF StopBegins, taskVars, turnVars, autoVars
<1>1. TypeOK'
  <2>1. stops' \in 0..MaxStops
    BY BoundAssumption DEF IInv, TypeOK
  <2>2. cancelled' \subseteq Bus /\ stopping' \in Sessions \cup {None}
    BY DEF IInv, TypeOK, Tasks
  <2> QED BY <2>1, <2>2 DEF IInv, TypeOK
<1>2. StopInv'
  BY DEF StopInv, Tasks
<1>3. LockInv' /\ GateInv' /\ PlaceInv' /\ UnsentInv'
  BY DEF IInv, LockInv, GateInv, PlaceInv, UnsentInv
<1>4. QueueInv'
  BY DEF IInv, QueueInv, PendingQueueOwned, Turns
<1> QED BY <1>1, <1>2, <1>3, <1>4 DEF IInv

(* When /stop ends no task of the session is left, hence no pending queue: *)
(* cmd_stop finds nothing to drop.                                         *)
LEMMA StopEndsInv ==
  ASSUME IInv, StopEnds
  PROVE  IInv'
<1> USE DEF taskVars, autoVars
<1>1. stopping \in Sessions /\ Tasks(stopping) = {}
  BY DEF IInv, TypeOK, StopInv, StopEnds
<1>2. registered[stopping] = None
  <2>1. Turns(stopping) \cap Bus = {}
    BY <1>1 DEF Turns, Tasks, Live
  <2>2. registered[stopping] \in Bus \cup {None}
    BY <1>1 DEF IInv, TypeOK
  <2> QED BY <1>1, <2>1, <2>2 DEF IInv, QueueInv, PendingQueueOwned
<1>3. registered' = registered
  BY <1>1, <1>2 DEF StopEnds, IInv, TypeOK
<1>4. queue' = queue
  BY <1>2, Kinds DEF StopEnds, IInv, TypeOK
<1>5. fate' = fate
  BY <1>2 DEF StopEnds, IInv, TypeOK
<1>6. stopping' = None /\ UNCHANGED <<inbound, taskVars, cycles, rounds, autoVars, cancelled, stops, skipped>>
  BY DEF StopEnds
<1>7. TypeOK' /\ StopInv'
  BY <1>3, <1>4, <1>5, <1>6 DEF IInv, TypeOK, StopInv
<1>8. LockInv' /\ GateInv' /\ PlaceInv' /\ UnsentInv'
  BY <1>4, <1>5, <1>6 DEF IInv, LockInv, GateInv, PlaceInv, UnsentInv
<1>9. QueueInv'
  BY <1>3, <1>4, <1>6 DEF IInv, QueueInv, PendingQueueOwned, Turns
<1> QED BY <1>5, <1>7, <1>8, <1>9 DEF IInv

-----------------------------------------------------------------------------
(* A task waits. *)

(* What moving one task among its waiting phases keeps. *)
LEMMA WaitInv ==
  ASSUME IInv, NEW m \in Bus, NEW p \in {"lock", "gate"},
         phase[m] \in {"ready", "lock"}, m \notin ToSet(ready'),
         phase' = [phase EXCEPT ![m] = p],
         ready' \in Seq(Bus), IsInjective(ready'), ToSet(ready') \subseteq ToSet(ready),
         lock' \in [Sessions -> Msgs \cup {None}],
         lockWaiters' \in [Sessions -> Seq(Msgs)], LockInv',
         gate' \subseteq Bus, gateWaiters' \in Seq(Bus), GateInv',
         UNCHANGED <<inbound, turnVars, autoVars, stopVars, fate>>
  PROVE  IInv'
<1> USE DEF turnVars, autoVars, stopVars
<1>0. TypeOK /\ m \in Msgs
  BY Kinds DEF IInv
<1>1. /\ phase' \in [Msgs -> Phases] /\ phase'[m] = p
      /\ \A x \in Msgs : x # m => phase'[x] = phase[x]
  BY <1>0 DEF TypeOK, Phases
<1>2. TypeOK'
  BY <1>0, <1>1 DEF TypeOK
<1>3. PlaceInv'
  <2>1. /\ ToSet(ready) \subseteq Msgs /\ ToSet(inbound) \subseteq Msgs
        /\ \A s \in Sessions : ToSet(deferred[s]) \subseteq Msgs
    BY <1>0, ToSetFacts, Kinds DEF TypeOK
  <2>2. m \notin ToSet(inbound) /\ \A s \in Sessions : m \notin ToSet(deferred[s])
    BY DEF IInv, PlaceInv
  <2> QED BY <1>1, <2>1, <2>2 DEF IInv, PlaceInv
<1>4. QueueInv'
  <2>1. ASSUME NEW s \in Sessions, NEW x \in Bus
        PROVE  x \in Turns(s)' <=> x \in Turns(s)
    BY <1>1, Kinds DEF Turns, Live
  <2>2. PendingQueueOwned'
    BY <2>1 DEF IInv, QueueInv, PendingQueueOwned
  <2>3. queue[m] = <<>>
    BY DEF IInv, QueueInv, Live
  <2>4. ASSUME NEW x \in Bus, NEW y \in ToSet(queue[x])
        PROVE  /\ SessionOf[y] = SessionOf[x]
               /\ y = x \/ (y \in Users /\ phase'[y] = "none")
               /\ y \notin ToSet(inbound') \cup ToSet(deferred[SessionOf[x]])
    BY <1>1, <2>4, Kinds DEF IInv, QueueInv
  <2>5. ASSUME NEW x \in Bus
        PROVE  /\ phase'[x] \notin Live => queue[x] = <<>>
               /\ phase'[x] = "running" => x \notin ToSet(queue[x])
               /\ IsInjective(queue[x])
    BY <1>1, <2>3, Kinds DEF IInv, QueueInv
  <2> QED BY <2>2, <2>4, <2>5 DEF QueueInv
<1>5. UnsentInv'
  BY <1>1 DEF IInv, UnsentInv
<1>6. StopInv' /\ \A a \in Autos : fate'[a] # "injected"
  <2>1. \A s \in Sessions : Tasks(s)' = Tasks(s)
    BY <1>0, <1>1, Kinds DEF Tasks
  <2> QED BY <1>0, <2>1 DEF IInv, StopInv, TypeOK
<1> QED BY <1>2, <1>3, <1>4, <1>5, <1>6 DEF IInv

(* A task becomes its session's turn. *)
LEMMA TurnBeginsInv ==
  ASSUME IInv, NEW m \in Bus, EnterTurn(m),
         phase[m] \in {"ready", "lock", "gate"}, m \notin ToSet(ready'),
         lock[SessionOf[m]] \in {None, m},
         ready' \in Seq(Bus), IsInjective(ready'), ToSet(ready') \subseteq ToSet(ready),
         lock' \in [Sessions -> Msgs \cup {None}],
         lockWaiters' \in [Sessions -> Seq(Msgs)], LockInv',
         gate' \subseteq Bus, gateWaiters' \in Seq(Bus), GateInv',
         UNCHANGED <<inbound, autoVars, stopVars, fate>>
  PROVE  IInv'
<1> USE DEF autoVars, stopVars
<1> DEFINE s == SessionOf[m]
<1>0. TypeOK /\ m \in Msgs /\ s \in Sessions
  BY Kinds DEF IInv
<1>1. /\ phase' \in [Msgs -> Phases] /\ phase'[m] = "running"
      /\ \A x \in Msgs : x # m => phase'[x] = phase[x]
  BY <1>0 DEF EnterTurn, TypeOK, Phases, Live
<1>2. /\ queue' \in [Bus -> Seq(Bus)] /\ queue'[m] = <<>>
      /\ \A x \in Bus : x # m => queue'[x] = queue[x]
  BY <1>0, EmptyFacts DEF EnterTurn, TypeOK
<1>3. queue[m] = <<>>
  BY DEF IInv, QueueInv, Live
<1>4. queue' = queue
  BY <1>0, <1>2, <1>3 DEF TypeOK
<1>5. /\ registered' \in [Sessions -> Bus \cup {None}] /\ registered'[s] = m
      /\ \A t \in Sessions : t # s => registered'[t] = registered[t]
  BY <1>0 DEF EnterTurn, TypeOK
<1>6. cycles' \in [Bus -> 0..MaxCycles] /\ rounds' = rounds
  BY <1>0, BoundAssumption DEF EnterTurn, TypeOK
<1>7. TypeOK'
  BY <1>0, <1>1, <1>4, <1>5, <1>6 DEF TypeOK
<1>8. PlaceInv'
  <2>1. /\ ToSet(ready) \subseteq Msgs /\ ToSet(inbound) \subseteq Msgs
        /\ \A t \in Sessions : ToSet(deferred[t]) \subseteq Msgs
    BY <1>0, ToSetFacts, Kinds DEF TypeOK
  <2>2. m \notin ToSet(inbound) /\ \A t \in Sessions : m \notin ToSet(deferred[t])
    BY DEF IInv, PlaceInv
  <2>3. PlaceInv /\ inbound' = inbound /\ deferred' = deferred
    BY DEF IInv
  <2>4. \A x \in ToSet(ready') : phase'[x] = "ready"
    BY <1>1, <2>1, <2>3 DEF PlaceInv
  <2>5. \A x \in ToSet(inbound') : phase'[x] = "none"
    BY <1>1, <2>1, <2>2, <2>3 DEF PlaceInv
  <2>6. ASSUME NEW t \in Sessions
        PROVE  /\ IsInjective(deferred'[t])
               /\ \A a \in ToSet(deferred'[t]) :
                    SessionOf[a] = t /\ phase'[a] = "none" /\ a \notin ToSet(inbound')
    <3>1. /\ IsInjective(deferred[t]) /\ m \notin ToSet(deferred[t])
          /\ \A a \in ToSet(deferred[t]) :
               /\ a \in Msgs /\ SessionOf[a] = t /\ phase[a] = "none"
               /\ a \notin ToSet(inbound)
      BY <1>0, <2>2, <2>3, DeferredFacts
    <3>2. \A a \in ToSet(deferred[t]) : phase'[a] = "none"
      BY <1>1, <3>1
    <3> QED BY <2>3, <3>1, <3>2
  <2> QED BY <2>3, <2>4, <2>5, <2>6 DEF PlaceInv
<1>9. QueueInv'
  <2>1. \A x \in Bus : x \in Turns(s) => FALSE
    BY <1>0, Kinds DEF IInv, LockInv, Turns, Live
  <2>2. ASSUME NEW t \in Sessions, NEW x \in Bus
        PROVE  registered'[t] = x <=> x \in Turns(t)'
    <3>1. CASE x = m
      BY <1>0, <1>1, <1>5, <3>1 DEF Turns, Live, IInv, QueueInv, PendingQueueOwned
    <3>2. CASE x # m
      <4>1. x \in Turns(t)' <=> x \in Turns(t)
        BY <1>1, <3>2, Kinds DEF Turns
      <4> QED BY <1>5, <2>1, <3>2, <4>1 DEF IInv, QueueInv, PendingQueueOwned
    <3> QED BY <3>1, <3>2
  <2>3. ASSUME NEW x \in Bus, NEW y \in ToSet(queue[x])
        PROVE  /\ SessionOf[y] = SessionOf[x]
               /\ y = x \/ (y \in Users /\ phase'[y] = "none")
               /\ y \notin ToSet(inbound') \cup ToSet(deferred[SessionOf[x]])
    <3>1. /\ SessionOf[y] = SessionOf[x]
          /\ y = x \/ (y \in Users /\ phase[y] = "none")
          /\ y \notin ToSet(inbound) \cup ToSet(deferred[SessionOf[x]])
      BY <2>3 DEF IInv, QueueInv
    <3>2. y \in Users /\ phase[y] = "none" => phase'[y] = "none"
      <4>1. phase[m] # "none"
        OBVIOUS
      <4> QED BY <1>1, <4>1, Kinds
    <3>3. inbound' = inbound
      OBVIOUS
    <3> QED BY <3>1, <3>2, <3>3
  <2>4. ASSUME NEW x \in Bus
        PROVE  /\ phase'[x] \notin Live => queue[x] = <<>>
               /\ phase'[x] = "running" => x \notin ToSet(queue[x])
               /\ IsInjective(queue[x])
    BY <1>1, <1>3, EmptyFacts, Kinds DEF IInv, QueueInv
  <2> QED BY <1>4, <2>2, <2>3, <2>4 DEF QueueInv, PendingQueueOwned
<1>10. UnsentInv'
  BY <1>1, <1>4 DEF IInv, UnsentInv
<1>11. StopInv' /\ \A a \in Autos : fate'[a] # "injected"
  <2>1. \A t \in Sessions : Tasks(t)' = Tasks(t)
    BY <1>0, <1>1, Kinds DEF Tasks
  <2> QED BY <1>0, <2>1 DEF IInv, StopInv, TypeOK
<1> QED BY <1>7, <1>8, <1>9, <1>10, <1>11 DEF IInv

(* EnterGate leads to one of the two. *)
LEMMA EnterGateStepInv ==
  ASSUME IInv, NEW m \in Bus, EnterGate(m),
         phase[m] \in {"ready", "lock"}, m \notin ToSet(ready'),
         ready' \in Seq(Bus), IsInjective(ready'), ToSet(ready') \subseteq ToSet(ready),
         \/ LockFree(SessionOf[m]) /\ phase[m] = "ready"
         \/ lock[SessionOf[m]] = m,
         lock' = [lock EXCEPT ![SessionOf[m]] = m], lockWaiters' = lockWaiters,
         UNCHANGED <<inbound, autoVars, stopVars, fate>>
  PROVE  IInv'
<1>0. TypeOK /\ LockInv /\ GateInv /\ m \in Msgs
  BY Kinds DEF IInv
<1>1. gate' \subseteq Bus /\ gateWaiters' \in Seq(Bus) /\ GateInv'
  BY <1>0, EnterGateInv DEF Live
<1>2. CASE EnterTurn(m)
  <2>1. lock' \in [Sessions -> Msgs \cup {None}] /\ LockInv'
    BY <1>0, <1>2, TakeLockInv DEF EnterTurn, Live
  <2> QED BY <1>0, <1>1, <1>2, <2>1, TurnBeginsInv DEF LockFree, TypeOK
<1>3. CASE phase' = [phase EXCEPT ![m] = "gate"] /\ UNCHANGED turnVars
  <2>1. lock' \in [Sessions -> Msgs \cup {None}] /\ LockInv'
    BY <1>0, <1>3, TakeLockInv
  <2> QED BY <1>0, <1>1, <1>3, <2>1, WaitInv DEF TypeOK
<1> QED BY <1>2, <1>3 DEF EnterGate

LEMMA TaskStartsInv ==
  ASSUME IInv, TaskStarts
  PROVE  IInv'
<1> DEFINE m == Head(ready)  s == SessionOf[m]
<1>0. TypeOK /\ LockInv /\ GateInv
  BY DEF IInv
<1>1. /\ m \in Bus /\ m \in ToSet(ready) /\ ready' \in Seq(Bus) /\ IsInjective(ready')
      /\ ToSet(ready') \subseteq ToSet(ready) /\ m \notin ToSet(ready')
  BY HeadTailFacts DEF IInv, TypeOK, PlaceInv, TaskStarts
<1>2. phase[m] = "ready" /\ m \in Msgs /\ s \in Sessions
  BY <1>1, Kinds DEF IInv, PlaceInv
<1>3. UNCHANGED <<inbound, autoVars, stopVars, fate>>
  BY DEF TaskStarts
<1>4. CASE LockFree(s) /\ lock' = [lock EXCEPT ![s] = m] /\ EnterGate(m) /\ UNCHANGED lockWaiters
  BY <1>1, <1>2, <1>3, <1>4, EnterGateStepInv
<1>5. CASE /\ ~ LockFree(s)
           /\ lockWaiters' = [lockWaiters EXCEPT ![s] = Append(@, m)]
           /\ phase' = [phase EXCEPT ![m] = "lock"]
           /\ UNCHANGED <<lock, gate, gateWaiters, turnVars>>
  <2>1. lockWaiters' \in [Sessions -> Seq(Msgs)] /\ LockInv'
    BY <1>0, <1>2, <1>5, JoinLockInv
  <2>2. gate \subseteq Msgs /\ ToSet(gateWaiters) \subseteq Msgs
    BY <1>0, ToSetFacts, Kinds DEF TypeOK
  <2>3. GateInv'
    BY <1>0, <1>2, <1>5, <2>2, Kinds DEF GateInv, Live, TypeOK
  <2> QED BY <1>0, <1>1, <1>2, <1>3, <1>5, <2>1, <2>3, WaitInv DEF TypeOK
<1> QED BY <1>4, <1>5 DEF TaskStarts

LEMMA LockWakesInv ==
  ASSUME IInv, NEW m \in Bus, LockWakes(m)
  PROVE  IInv'
<1>0. /\ TypeOK /\ phase[m] = "lock" /\ lock[SessionOf[m]] = m /\ EnterGate(m)
      /\ UNCHANGED <<inbound, ready, lock, lockWaiters, autoVars, stopVars, fate>>
  BY DEF IInv, LockWakes
<1>1. ready \in Seq(Bus) /\ IsInjective(ready) /\ m \notin ToSet(ready)
  BY <1>0 DEF IInv, TypeOK, PlaceInv
<1>2. lock' = [lock EXCEPT ![SessionOf[m]] = m]
  BY <1>0 DEF TypeOK
<1> QED BY <1>0, <1>1, <1>2, EnterGateStepInv

LEMMA GateWakesInv ==
  ASSUME IInv, NEW m \in Bus, GateWakes(m)
  PROVE  IInv'
<1>0. /\ TypeOK /\ LockInv /\ GateInv /\ phase[m] = "gate" /\ m \in gate /\ EnterTurn(m)
      /\ UNCHANGED <<inbound, ready, lock, lockWaiters, gate, gateWaiters, autoVars, stopVars, fate>>
      /\ m \in Msgs
  BY Kinds DEF IInv, GateWakes
<1>1. ready \in Seq(Bus) /\ IsInjective(ready) /\ m \notin ToSet(ready)
  BY <1>0 DEF IInv, TypeOK, PlaceInv
<1>2. lock[SessionOf[m]] = m /\ phase' = [phase EXCEPT ![m] = "running"]
  BY <1>0, Kinds DEF LockInv, EnterTurn
<1>3. lock' = [lock EXCEPT ![SessionOf[m]] = m]
  BY <1>0, <1>2 DEF TypeOK
<1>4. LockInv'
  BY <1>0, <1>2, <1>3, TakeLockInv DEF Live
<1>5. GateInv'
  <2>1. gate \subseteq Msgs /\ ToSet(gateWaiters) \subseteq Msgs
    BY <1>0, ToSetFacts, Kinds DEF TypeOK
  <2> QED BY <1>0, <1>2, <2>1, Kinds DEF GateInv, Live, TypeOK
<1> QED BY <1>0, <1>1, <1>2, <1>4, <1>5, TurnBeginsInv DEF TypeOK

-----------------------------------------------------------------------------
(* The turn takes messages off its queue. *)

(* What is left after a drain is a part of the queue. *)
LEMMA DrainFacts ==
  ASSUME IInv, NEW m \in Bus, phase[m] = "running"
  PROVE  /\ AfterDrain(m) \in Seq(Bus) /\ Len(AfterDrain(m)) <= Cap
         /\ Len(AfterDrain(m)) \in Nat
         /\ ToSet(AfterDrain(m)) \subseteq ToSet(queue[m]) /\ IsInjective(AfterDrain(m))
         /\ ToSet(queue[m]) \subseteq Users
<1>1. /\ queue[m] \in Seq(Bus) /\ Len(queue[m]) \in Nat /\ Len(queue[m]) <= Cap
      /\ IsInjective(queue[m]) /\ ToSet(queue[m]) \subseteq Users
  BY DEF IInv, TypeOK, QueueInv
<1>2. CASE cycles[m] = MaxCycles
  BY <1>1, <1>2 DEF AfterDrain
<1>3. CASE cycles[m] # MaxCycles
  <2> DEFINE a == IF Len(queue[m]) < InjectLimit THEN Len(queue[m]) + 1 ELSE InjectLimit + 1
  <2>1. a \in Nat \ {0}
    BY <1>1, BoundAssumption
  <2>2. AfterDrain(m) = SubSeq(queue[m], a, Len(queue[m]))
    BY <1>3 DEF AfterDrain
  <2> HIDE DEF a
  <2>3. /\ AfterDrain(m) \in Seq(Bus) /\ ToSet(AfterDrain(m)) \subseteq ToSet(queue[m])
        /\ IsInjective(AfterDrain(m)) /\ Len(AfterDrain(m)) <= Len(queue[m])
    BY <1>1, <2>1, <2>2, SuffixFacts
  <2>4. Len(AfterDrain(m)) \in Nat
    BY <2>3
  <2> QED BY <1>1, <2>3, <2>4, BoundAssumption
<1> QED BY <1>2, <1>3

(* A step of the running turn of m that injects messages, leaves the queue *)
(* q and moves to phase p.                                                 *)
LEMMA TurnRunsInv ==
  ASSUME IInv, NEW m \in Bus, phase[m] = "running", TakeInjections(m),
         NEW p \in Live, NEW q \in Seq(Bus), Len(q) <= Cap, IsInjective(q),
         ToSet(q) \subseteq ToSet(queue[m]) \cup {m},
         p = "running" => m \notin ToSet(q),
         phase' = [phase EXCEPT ![m] = p], queue' = [queue EXCEPT ![m] = q],
         cycles' \in [Bus -> 0..MaxCycles], rounds' \in [Sessions -> 0..MaxRounds],
         UNCHANGED <<inbound, ready, lock, lockWaiters, gate, gateWaiters,
                     registered, autoVars, stopVars>>
  PROVE  IInv'
<1> USE DEF autoVars, stopVars
<1>0. TypeOK /\ m \in Msgs /\ SessionOf[m] \in Sessions /\ ToSet(queue[m]) \subseteq Users
  BY DrainFacts, Kinds DEF IInv
<1>1. /\ phase' \in [Msgs -> Phases] /\ phase'[m] = p
      /\ \A x \in Msgs : x # m => phase'[x] = phase[x]
  BY <1>0 DEF TypeOK, Phases
<1>2. /\ queue' \in [Bus -> Seq(Bus)] /\ queue'[m] = q
      /\ \A x \in Bus : x # m => queue'[x] = queue[x]
  BY <1>0 DEF TypeOK
<1>3. /\ fate' \in [Msgs -> {"unsent", "open"} \cup Settled]
      /\ \A x \in Msgs : fate'[x] = "unsent" => fate[x] = "unsent"
      /\ \A a \in Autos : fate'[a] = fate[a]
  <2>1. \A x \in Msgs : fate'[x] \in {"injected", fate[x]}
    BY DEF TakeInjections
  <2>2. \A a \in Autos : a \in Msgs /\ a \notin ToSet(queue[m])
    BY <1>0, Kinds
  <2>3. fate' \in [Msgs -> {"unsent", "open"} \cup Settled]
    BY <1>0 DEF TakeInjections, TypeOK, Settled
  <2> QED BY <2>1, <2>2, <2>3 DEF TakeInjections
<1>4. TypeOK'
  <2>1. \A x \in Bus : Len(queue'[x]) <= Cap
    BY <1>0, <1>2 DEF TypeOK
  <2> QED BY <1>0, <1>1, <1>2, <1>3, <2>1 DEF TypeOK
<1>5. lock[SessionOf[m]] = m
  BY <1>0 DEF IInv, LockInv, Live
<1>6. LockInv'
  <2>1. \A s \in Sessions : lock[s] \in Msgs \cup {None} /\ ToSet(lockWaiters[s]) \subseteq Msgs
    BY <1>0, ToSetFacts DEF TypeOK
  <2>2. \A x \in Msgs : phase'[x] \in Live \cup {"gate"} => lock'[SessionOf[x]] = x
    BY <1>1, <1>5 DEF IInv, LockInv
  <2>3. \A s \in Sessions : lock'[s] # None =>
           SessionOf[lock'[s]] = s /\ phase'[lock'[s]] \in Live \cup {"lock", "gate"}
    BY <1>1, <2>1 DEF IInv, LockInv
  <2>4. \A s \in Sessions : \A x \in ToSet(lockWaiters'[s]) :
           SessionOf[x] = s /\ phase'[x] = "lock" /\ lock'[s] # x
    BY <1>1, <2>1 DEF IInv, LockInv
  <2> QED BY <2>2, <2>3, <2>4 DEF IInv, LockInv
<1>7. GateInv'
  <2>1. gate \subseteq Msgs /\ ToSet(gateWaiters) \subseteq Msgs
    BY <1>0, ToSetFacts, Kinds DEF TypeOK
  <2>2. m \in gate
    BY DEF IInv, GateInv, Live
  <2> QED BY <1>1, <2>1, <2>2, Kinds DEF IInv, GateInv
<1>8. PlaceInv'
  <2>1. /\ ToSet(ready) \subseteq Msgs /\ ToSet(inbound) \subseteq Msgs
        /\ \A s \in Sessions : ToSet(deferred[s]) \subseteq Msgs
    BY <1>0, ToSetFacts, Kinds DEF TypeOK
  <2>2. /\ m \notin ToSet(inbound) /\ m \notin ToSet(ready)
        /\ \A s \in Sessions : m \notin ToSet(deferred[s])
    BY DEF IInv, PlaceInv
  <2>3. PlaceInv /\ inbound' = inbound /\ deferred' = deferred /\ ready' = ready
    BY DEF IInv
  <2> QED BY <1>1, <2>1, <2>2, <2>3 DEF PlaceInv
<1>9. QueueInv'
  <2>1. ASSUME NEW t \in Sessions, NEW x \in Bus
        PROVE  x \in Turns(t)' <=> x \in Turns(t)
    BY <1>1, Kinds DEF Turns, Live
  <2>2. PendingQueueOwned'
    BY <2>1 DEF IInv, QueueInv, PendingQueueOwned
  <2>3. \A y \in Users : phase[y] = "none" => phase'[y] = "none"
    BY <1>1, Kinds
  <2>4. m \notin ToSet(inbound) /\ m \notin ToSet(deferred[SessionOf[m]])
    BY <1>0 DEF IInv, PlaceInv
  <2>5. ASSUME NEW x \in Bus, NEW y \in ToSet(queue[x])
        PROVE  /\ SessionOf[y] = SessionOf[x]
               /\ y = x \/ (y \in Users /\ phase'[y] = "none")
               /\ y \notin ToSet(inbound') \cup ToSet(deferred'[SessionOf[x]])
    BY <2>3, <2>5 DEF IInv, QueueInv
  <2>6. ASSUME NEW x \in Bus, NEW y \in ToSet(queue'[x])
        PROVE  /\ SessionOf[y] = SessionOf[x]
               /\ y = x \/ (y \in Users /\ phase'[y] = "none")
               /\ y \notin ToSet(inbound') \cup ToSet(deferred'[SessionOf[x]])
    <3>1. CASE y \in ToSet(queue[x])
      BY <2>5, <3>1
    <3>2. CASE x = m /\ y = m
      BY <2>4, <3>2
    <3> QED BY <1>2, <2>6, <3>1, <3>2
  <2>7. ASSUME NEW x \in Bus
        PROVE  /\ phase'[x] \notin Live => queue'[x] = <<>>
               /\ phase'[x] = "running" => x \notin ToSet(queue'[x])
               /\ IsInjective(queue'[x])
    <3>1. CASE x = m
      BY <1>1, <1>2, <3>1
    <3>2. CASE x # m
      BY <1>1, <1>2, <3>2, Kinds DEF IInv, QueueInv
    <3> QED BY <3>1, <3>2
  <2> QED BY <2>2, <2>6, <2>7 DEF QueueInv
<1>10. UnsentInv'
  <2>1. ASSUME NEW x \in Msgs, fate[x] = "unsent"
        PROVE  /\ phase'[x] = "none" /\ x \notin ToSet(inbound')
               /\ x \notin ToSet(deferred'[SessionOf[x]])
               /\ \A o \in Bus : x \notin ToSet(queue'[o])
    <3>1. x # m
      BY <2>1 DEF IInv, UnsentInv
    <3>2. \A o \in Bus : x \notin ToSet(queue[o])
      BY <2>1 DEF IInv, UnsentInv
    <3> QED BY <1>1, <1>2, <2>1, <3>1, <3>2 DEF IInv, UnsentInv
  <2> QED BY <1>3, <2>1 DEF UnsentInv
<1>11. StopInv' /\ \A a \in Autos : fate'[a] # "injected"
  <2>1. \A t \in Sessions : Tasks(t)' = Tasks(t)
    BY <1>0, <1>1, Kinds DEF Tasks, Live
  <2> QED BY <1>0, <1>3, <2>1 DEF IInv, StopInv, TypeOK
<1> QED BY <1>4, <1>6, <1>7, <1>8, <1>9, <1>10, <1>11 DEF IInv

LEMMA DrainPendingInv ==
  ASSUME IInv, NEW m \in Bus, DrainPending(m)
  PROVE  IInv'
<1>0. /\ phase[m] = "running" /\ TakeInjections(m) /\ cycles[m] < MaxCycles
      /\ queue' = [queue EXCEPT ![m] = AfterDrain(m)]
      /\ cycles' = [cycles EXCEPT ![m] = @ + 1]
      /\ UNCHANGED <<inbound, taskVars, registered, rounds, autoVars, stopVars>>
  BY DEF DrainPending, Running
<1>1. cycles' \in [Bus -> 0..MaxCycles]
  <2>1. cycles[m] + 1 \in 0..MaxCycles
    BY <1>0, BoundAssumption DEF IInv, TypeOK
  <2> QED BY <1>0, <2>1 DEF IInv, TypeOK
<1>2. phase' = [phase EXCEPT ![m] = "running"]
  BY <1>0, Kinds DEF taskVars, IInv, TypeOK
<1>3. /\ AfterDrain(m) \in Seq(Bus) /\ Len(AfterDrain(m)) <= Cap
      /\ ToSet(AfterDrain(m)) \subseteq ToSet(queue[m]) /\ IsInjective(AfterDrain(m))
  BY <1>0, DrainFacts
<1>4. m \notin ToSet(queue[m])
  BY <1>0 DEF IInv, QueueInv
<1>5. rounds' \in [Sessions -> 0..MaxRounds]
  BY <1>0 DEF IInv, TypeOK
<1>6. UNCHANGED <<inbound, ready, lock, lockWaiters, gate, gateWaiters,
                  registered, autoVars, stopVars>>
  BY <1>0 DEF taskVars
<1>7. "running" \in Live
  BY DEF Live
<1> QED BY <1>0, <1>1, <1>2, <1>3, <1>4, <1>5, <1>6, <1>7, TurnRunsInv

LEMMA RunnerStopsInv ==
  ASSUME IInv, NEW m \in Bus, RunnerStops(m)
  PROVE  IInv'
<1>0. /\ phase[m] = "running" /\ TakeInjections(m)
      /\ queue' = [queue EXCEPT ![m] = AfterDrain(m)]
      /\ phase' = [phase EXCEPT ![m] = "finishing"]
      /\ UNCHANGED <<inbound, ready, lock, lockWaiters, gate, gateWaiters,
                     registered, cycles, rounds, autoVars, stopVars>>
  BY DEF RunnerStops, Running
<1>1. /\ AfterDrain(m) \in Seq(Bus) /\ Len(AfterDrain(m)) <= Cap
      /\ ToSet(AfterDrain(m)) \subseteq ToSet(queue[m]) /\ IsInjective(AfterDrain(m))
  BY <1>0, DrainFacts
<1>2. cycles' \in [Bus -> 0..MaxCycles] /\ rounds' \in [Sessions -> 0..MaxRounds]
  BY <1>0 DEF IInv, TypeOK
<1>3. "finishing" \in Live
  BY DEF Live
<1> QED BY <1>0, <1>1, <1>2, <1>3, TurnRunsInv

LEMMA ContinueTurnInv ==
  ASSUME IInv, NEW m \in Bus, ContinueTurn(m)
  PROVE  IInv'
<1> DEFINE s == SessionOf[m]  left == AfterDrain(m)
<1>0. /\ phase[m] = "running" /\ TakeInjections(m) /\ rounds[s] < MaxRounds
      /\ rounds' = [rounds EXCEPT ![s] = @ + 1]
      /\ UNCHANGED <<inbound, ready, lock, lockWaiters, gate, gateWaiters,
                     registered, cycles, autoVars, stopVars>>
  BY DEF ContinueTurn, Running
<1>1. /\ left \in Seq(Bus) /\ Len(left) <= Cap /\ Len(left) \in Nat
      /\ ToSet(left) \subseteq ToSet(queue[m]) /\ IsInjective(left)
  BY <1>0, DrainFacts
<1>2. cycles' \in [Bus -> 0..MaxCycles]
  BY <1>0 DEF IInv, TypeOK
<1>3. rounds' \in [Sessions -> 0..MaxRounds]
  <2>1. s \in Sessions
    BY Kinds
  <2>2. rounds \in [Sessions -> 0..MaxRounds]
    BY DEF IInv, TypeOK
  <2>3. rounds[s] \in 0..MaxRounds /\ rounds[s] < MaxRounds /\ MaxRounds \in Nat
    BY <1>0, <2>1, <2>2, BoundAssumption
  <2>4. rounds[s] + 1 \in 0..MaxRounds
    BY <2>3
  <2> QED BY <1>0, <2>1, <2>2, <2>4
<1>4. m \notin ToSet(left)
  <2>1. m \notin ToSet(queue[m])
    BY <1>0 DEF IInv, QueueInv
  <2> QED BY <1>1, <2>1
<1>5. CASE /\ Len(left) < Cap /\ queue' = [queue EXCEPT ![m] = Append(left, m)]
           /\ phase' = [phase EXCEPT ![m] = "finishing"]
  <2>1. /\ Append(left, m) \in Seq(Bus) /\ IsInjective(Append(left, m))
        /\ ToSet(Append(left, m)) = ToSet(left) \cup {m}
        /\ Len(Append(left, m)) = Len(left) + 1
    BY <1>1, <1>4, AppendFacts
  <2>2. Len(Append(left, m)) <= Cap
    BY <1>1, <1>5, <2>1, BoundAssumption
  <2>3. ToSet(Append(left, m)) \subseteq ToSet(queue[m]) \cup {m}
    BY <1>1, <2>1
  <2>4. "finishing" \in Live
    BY DEF Live
  <2> HIDE DEF left
  <2> QED BY <1>0, <1>2, <1>3, <1>5, <2>1, <2>2, <2>3, <2>4, TurnRunsInv
<1>6. CASE /\ queue' = [queue EXCEPT ![m] = left]
           /\ phase' = [phase EXCEPT ![m] = "blocked"]
  <2>1. "blocked" \in Live /\ ToSet(left) \subseteq ToSet(queue[m]) \cup {m}
    BY <1>1 DEF Live
  <2> HIDE DEF left
  <2> QED BY <1>0, <1>1, <1>2, <1>3, <1>6, <2>1, TurnRunsInv
<1> QED BY <1>5, <1>6 DEF ContinueTurn

-----------------------------------------------------------------------------
(* Tasks end. *)

(* The next deferred turn of a session moves to the bus. *)
LEMMA NextDeferredFacts ==
  ASSUME TypeOK, PlaceInv, NEW s \in Sessions, DropDeferred(s)
  PROVE  /\ NextDeferred(s) \in Seq(Bus) /\ IsInjective(NextDeferred(s))
         /\ deferred' \in [Sessions -> Seq(Autos)]
         /\ \A t \in Sessions : IsInjective(deferred'[t])
         /\ ToSet(NextDeferred(s)) \subseteq ToSet(deferred[s])
         /\ \A t \in Sessions : t # s => deferred'[t] = deferred[t]
         /\ ToSet(deferred'[s]) \subseteq ToSet(deferred[s]) \ ToSet(NextDeferred(s))
<1> DEFINE q == deferred[s]
<1>1. q \in Seq(Autos) /\ IsInjective(q)
  BY DEF TypeOK, PlaceInv
<1>2. CASE q = <<>>
  <2>1. NextDeferred(s) = <<>>
    BY <1>2 DEF NextDeferred
  <2>2. deferred' = deferred
    BY <2>1 DEF DropDeferred, TypeOK
  <2> QED BY <2>1, <2>2, EmptyFacts DEF TypeOK, PlaceInv
<1>3. CASE q # <<>>
  <2>1. NextDeferred(s) = <<Head(q)>>
    BY <1>3 DEF NextDeferred
  <2>2. /\ Head(q) \in Autos /\ Head(q) \in ToSet(q) /\ Tail(q) \in Seq(Autos)
        /\ ToSet(Tail(q)) \subseteq ToSet(q)
        /\ IsInjective(Tail(q)) /\ Head(q) \notin ToSet(Tail(q))
    BY <1>1, <1>3, HeadTailFacts
  <2>3. /\ <<Head(q)>> \in Seq(Bus) /\ IsInjective(<<Head(q)>>)
        /\ ToSet(<<Head(q)>>) = {Head(q)} /\ <<Head(q)>> # <<>>
    BY <2>2, Kinds DEF ToSet, IsInjective
  <2>4. deferred' = [deferred EXCEPT ![s] = Tail(q)]
    BY <2>1, <2>3 DEF DropDeferred
  <2>5. /\ deferred' \in [Sessions -> Seq(Autos)] /\ deferred'[s] = Tail(q)
        /\ \A t \in Sessions : t # s => deferred'[t] = deferred[t]
    BY <2>2, <2>4 DEF TypeOK
  <2>6. \A t \in Sessions : IsInjective(deferred'[t])
    <3> SUFFICES ASSUME NEW t \in Sessions PROVE IsInjective(deferred'[t])
      OBVIOUS
    <3>1. IsInjective(deferred[t])
      BY DEF PlaceInv
    <3>2. deferred'[t] = IF t = s THEN Tail(q) ELSE deferred[t]
      BY <2>5
    <3> QED BY <2>2, <3>1, <3>2
  <2> HIDE DEF q
  <2> QED BY <2>1, <2>2, <2>3, <2>5, <2>6 DEF q
<1> QED BY <1>2, <1>3

(* The end of a task: what is in the sequence back goes to the bus, and    *)
(* then the next deferred turn of the session.                             *)
LEMMA TaskEndsInv ==
  ASSUME IInv, NEW m \in Bus, phase[m] \notin {"none", "ready"},
         phase' = [phase EXCEPT ![m] = "none"], ReleaseGate(m), ReleaseLock(m),
         DropDeferred(SessionOf[m]),
         inbound' = inbound \o queue[m] \o NextDeferred(SessionOf[m]),
         queue' = [queue EXCEPT ![m] = <<>>], registered' = Unregister(m),
         cancelled' = cancelled \ {m},
         waiter' \in [Autos -> {"none", "waiting", "ok", "error"}],
         skipped' = skipped \ {SessionOf[m]}, NEW how \in {"handled", "failed", "stopped"},
         fate' = fate \/ fate' = [fate EXCEPT ![m] = how],
         UNCHANGED <<ready, cycles, rounds, stopping, stops>>
  PROVE  IInv'
<1> DEFINE s == SessionOf[m]  next == NextDeferred(s)
<1>0. /\ TypeOK /\ LockInv /\ GateInv /\ PlaceInv /\ QueueInv /\ UnsentInv
      /\ m \in Msgs /\ s \in Sessions
  BY Kinds DEF IInv
<1>1. /\ phase' \in [Msgs -> Phases] /\ phase'[m] = "none"
      /\ \A x \in Msgs : x # m => phase'[x] = phase[x]
      /\ \A x \in Msgs : phase[x] = "none" => phase'[x] = "none"
  BY <1>0 DEF TypeOK, Phases
<1>2. /\ lock' \in [Sessions -> Msgs \cup {None}]
      /\ lockWaiters' \in [Sessions -> Seq(Msgs)] /\ LockInv'
  BY <1>0, ReleaseLockInv
<1>3. gate' \subseteq Bus /\ gateWaiters' \in Seq(Bus) /\ GateInv'
  BY <1>0, ReleaseGateInv
<1>4. /\ next \in Seq(Bus) /\ IsInjective(next)
      /\ deferred' \in [Sessions -> Seq(Autos)]
      /\ \A t \in Sessions : IsInjective(deferred'[t])
      /\ ToSet(next) \subseteq ToSet(deferred[s])
      /\ \A t \in Sessions : t # s => deferred'[t] = deferred[t]
      /\ ToSet(deferred'[s]) \subseteq ToSet(deferred[s]) \ ToSet(next)
  BY <1>0, NextDeferredFacts
<1>5. /\ queue[m] \in Seq(Bus) /\ IsInjective(queue[m])
      /\ \A x \in ToSet(queue[m]) :
           /\ SessionOf[x] = s /\ x \in Msgs /\ phase'[x] = "none"
           /\ x \notin ToSet(inbound) /\ x \notin ToSet(deferred[s])
  <2>1. /\ queue[m] \in Seq(Bus) /\ IsInjective(queue[m])
        /\ \A x \in ToSet(queue[m]) :
             /\ SessionOf[x] = s /\ (x = m \/ (x \in Users /\ phase[x] = "none"))
             /\ x \notin ToSet(inbound) /\ x \notin ToSet(deferred[s])
    BY <1>0 DEF TypeOK, QueueInv
  <2> QED BY <1>0, <1>1, <2>1, Kinds
<1>6. \A x \in ToSet(deferred[s]) :
        SessionOf[x] = s /\ x \in Msgs /\ phase[x] = "none" /\ x \notin ToSet(inbound)
  BY <1>0, DeferredFacts
<1> HIDE DEF next
<1>7. /\ inbound' \in Seq(Bus) /\ IsInjective(inbound')
      /\ ToSet(inbound') = ToSet(inbound) \cup ToSet(queue[m]) \cup ToSet(next)
  <2>1. /\ inbound \o queue[m] \in Seq(Bus) /\ IsInjective(inbound \o queue[m])
        /\ ToSet(inbound \o queue[m]) = ToSet(inbound) \cup ToSet(queue[m])
    <3>1. inbound \in Seq(Bus) /\ IsInjective(inbound) /\ ToSet(inbound) \cap ToSet(queue[m]) = {}
      BY <1>0, <1>5 DEF TypeOK, PlaceInv
    <3> QED BY <1>5, <3>1, ConcatFacts
  <2>2. ToSet(inbound \o queue[m]) \cap ToSet(next) = {}
    BY <1>4, <1>5, <1>6, <2>1
  <2> DEFINE b == inbound \o queue[m]
  <2>3. inbound' = b \o next
    BY DEF next
  <2> HIDE DEF b
  <2>4. /\ b \o next \in Seq(Bus) /\ ToSet(b \o next) = ToSet(b) \cup ToSet(next)
        /\ IsInjective(b \o next)
    <3>1. b \in Seq(Bus) /\ IsInjective(b) /\ ToSet(b) \cap ToSet(next) = {}
      BY <2>1, <2>2 DEF b
    <3> QED BY <1>4, <3>1, ConcatFacts
  <2>5. ToSet(b) = ToSet(inbound) \cup ToSet(queue[m])
    BY <2>1 DEF b
  <2> QED BY <2>3, <2>4, <2>5
<1>8. /\ queue' \in [Bus -> Seq(Bus)] /\ queue'[m] = <<>>
      /\ \A x \in Bus : x # m => queue'[x] = queue[x]
  BY <1>0, EmptyFacts DEF TypeOK
<1>9. /\ registered' \in [Sessions -> Bus \cup {None}]
      /\ registered'[s] = IF registered[s] = m THEN None ELSE registered[s]
      /\ \A t \in Sessions : t # s => registered'[t] = registered[t]
  BY <1>0 DEF TypeOK, Unregister
<1>10. /\ fate' \in [Msgs -> {"unsent", "open"} \cup Settled]
       /\ \A x \in Msgs : fate'[x] = "unsent" => fate[x] = "unsent"
       /\ \A a \in Autos : fate'[a] # "injected"
  <2>1. \A a \in Autos : fate[a] # "injected" /\ a \in Msgs
    BY Kinds DEF IInv
  <2> QED BY <1>0, <2>1 DEF TypeOK, Settled
<1>11. TypeOK'
  <2>1. \A x \in Bus : Len(queue'[x]) <= Cap
    BY <1>0, <1>8, EmptyFacts, BoundAssumption DEF TypeOK
  <2>2. cancelled' \subseteq Bus /\ skipped' \subseteq Sessions
    BY <1>0 DEF TypeOK
  <2> QED BY <1>0, <1>1, <1>2, <1>3, <1>4, <1>7, <1>8, <1>9, <1>10, <2>1, <2>2 DEF TypeOK
<1>12. PlaceInv'
  <2>1. ToSet(ready) \subseteq Msgs /\ ToSet(inbound) \subseteq Msgs
    BY <1>0, ToSetFacts, Kinds DEF TypeOK
  <2>2. IsInjective(ready') /\ \A x \in ToSet(ready') : phase'[x] = "ready"
    BY <1>0, <1>1, <2>1 DEF PlaceInv
  <2>3. \A x \in ToSet(inbound') : phase'[x] = "none"
    <3>1. \A x \in ToSet(inbound) : phase'[x] = "none"
      BY <1>0, <1>1, <2>1 DEF PlaceInv
    <3> QED BY <1>1, <1>4, <1>5, <1>6, <1>7, <3>1
  <2>4. ASSUME NEW t \in Sessions, NEW a \in ToSet(deferred'[t])
        PROVE  SessionOf[a] = t /\ phase'[a] = "none" /\ a \notin ToSet(inbound')
    <3>1. /\ a \in ToSet(deferred[t]) /\ a \in Msgs /\ SessionOf[a] = t
          /\ phase[a] = "none" /\ a \notin ToSet(inbound)
      <4>1. a \in ToSet(deferred[t])
        BY <1>4, <2>4
      <4> QED BY <1>0, <4>1, DeferredFacts
    <3>2. a \notin ToSet(queue[m]) /\ a \notin ToSet(next)
      BY <1>4, <1>5, <1>6, <2>4, <3>1
    <3> QED BY <1>1, <1>7, <3>1, <3>2
  <2> QED BY <1>4, <1>7, <2>2, <2>3, <2>4 DEF PlaceInv
<1>13. ASSUME NEW x \in Bus, x # m, phase[x] \in Live, phase[m] \in Live
       PROVE  SessionOf[x] # s
  BY <1>0, <1>13, Kinds DEF LockInv
<1>14. PendingQueueOwned'
  <2>1. PendingQueueOwned
    BY <1>0 DEF QueueInv
  <2>2. ASSUME NEW t \in Sessions
        PROVE  registered'[t] # m /\ m \notin Turns(t)'
    <3>1. registered[t] = m => t = s
      BY <1>0, <2>1 DEF PendingQueueOwned, Turns
    <3>2. m \notin Turns(t)'
      BY <1>1 DEF Turns, Live
    <3> QED BY <1>0, <1>9, <3>1, <3>2, Kinds
  <2>3. ASSUME NEW t \in Sessions, NEW x \in Bus, x # m
        PROVE  registered'[t] = x <=> x \in Turns(t)'
    <3>1. x \in Turns(t)' <=> x \in Turns(t)
      BY <1>1, <2>3, Kinds DEF Turns
    <3>2. registered'[t] = x <=> registered[t] = x
      BY <1>9, <2>3, Kinds
    <3> QED BY <2>1, <3>1, <3>2 DEF PendingQueueOwned
  <2> QED BY <2>2, <2>3 DEF PendingQueueOwned
<1>15. ASSUME NEW o \in Bus
       PROVE  /\ phase'[o] \notin Live => queue'[o] = <<>>
              /\ phase'[o] = "running" => o \notin ToSet(queue'[o])
              /\ IsInjective(queue'[o])
  <2>1. CASE o = m
    BY <1>8, <2>1, EmptyFacts
  <2>2. CASE o # m
    BY <1>0, <1>1, <1>8, <2>2, Kinds DEF QueueInv
  <2> QED BY <2>1, <2>2
<1>16. ASSUME NEW o \in Bus, NEW x \in ToSet(queue'[o])
       PROVE  /\ SessionOf[x] = SessionOf[o]
              /\ x = o \/ (x \in Users /\ phase'[x] = "none")
              /\ x \notin ToSet(inbound') \cup ToSet(deferred'[SessionOf[o]])
  <2>1. o # m /\ x \in ToSet(queue[o])
    BY <1>8, <1>16, EmptyFacts
  <2>2. /\ SessionOf[x] = SessionOf[o] /\ (x = o \/ (x \in Users /\ phase[x] = "none"))
        /\ x \notin ToSet(inbound) /\ x \notin ToSet(deferred[SessionOf[o]])
    BY <1>0, <2>1 DEF QueueInv
  <2>3. phase[o] \in Live
    BY <1>0, <2>1, EmptyFacts DEF QueueInv
  <2>4. x \notin ToSet(queue[m])
    <3> SUFFICES ASSUME x \in ToSet(queue[m]) PROVE FALSE
      OBVIOUS
    <3>1. phase[m] \in Live
      BY <1>0, EmptyFacts DEF QueueInv
    <3> QED BY <1>5, <1>13, <2>1, <2>2, <2>3, <3>1
  <2>5. x \notin ToSet(next)
    BY <1>4, <1>6, <2>2
  <2>6. x \notin ToSet(deferred'[SessionOf[o]])
    BY <1>4, <2>2, Kinds
  <2> QED BY <1>1, <1>7, <2>2, <2>4, <2>5, <2>6, Kinds
<1>17. QueueInv'
  BY <1>14, <1>15, <1>16 DEF QueueInv
<1>18. UnsentInv'
  <2>1. ASSUME NEW x \in Msgs, fate[x] = "unsent"
        PROVE  /\ phase'[x] = "none" /\ x \notin ToSet(inbound')
               /\ x \notin ToSet(deferred'[SessionOf[x]])
               /\ \A o \in Bus : x \notin ToSet(queue'[o])
    <3>1. /\ phase[x] = "none" /\ x \notin ToSet(inbound)
          /\ x \notin ToSet(deferred[SessionOf[x]])
          /\ \A o \in Bus : x \notin ToSet(queue[o])
      BY <1>0, <2>1 DEF UnsentInv
    <3>2. x \notin ToSet(next)
      BY <1>4, <1>6, <3>1
    <3>3. x \notin ToSet(deferred'[SessionOf[x]])
      BY <1>4, <3>1, Kinds
    <3>4. \A o \in Bus : x \notin ToSet(queue'[o])
      BY <1>8, <3>1, EmptyFacts
    <3> QED BY <1>1, <1>7, <3>1, <3>2, <3>3, <3>4
  <2> QED BY <1>10, <2>1 DEF UnsentInv
<1>19. StopInv'
  <2>1. \A t \in Sessions : Tasks(t)' = Tasks(t) \ {m}
    BY <1>1, Kinds DEF Tasks
  <2> QED BY <1>0, <2>1 DEF IInv, StopInv, TypeOK
<1> QED BY <1>2, <1>3, <1>10, <1>11, <1>12, <1>17, <1>18, <1>19 DEF IInv

LEMMA EndTurnInv ==
  ASSUME IInv, NEW m \in Bus, phase[m] \in Live,
         NEW how \in {"handled", "failed", "stopped"}, NEW outcome \in {"ok", "error"},
         EndTurn(m, how, outcome)
  PROVE  IInv'
<1>1. waiter' \in [Autos -> {"none", "waiting", "ok", "error"}]
  BY DEF EndTurn, Complete, IInv, TypeOK
<1>2. phase[m] \notin {"none", "ready"}
  BY DEF Live
<1>3. fate' = fate \/ fate' = [fate EXCEPT ![m] = how]
  BY DEF EndTurn
<1>4. /\ phase' = [phase EXCEPT ![m] = "none"] /\ ReleaseGate(m) /\ ReleaseLock(m)
      /\ DropDeferred(SessionOf[m])
      /\ inbound' = inbound \o queue[m] \o NextDeferred(SessionOf[m])
      /\ queue' = [queue EXCEPT ![m] = <<>>] /\ registered' = Unregister(m)
      /\ cancelled' = cancelled \ {m} /\ skipped' = skipped \ {SessionOf[m]}
      /\ UNCHANGED <<ready, cycles, rounds, stopping, stops>>
  BY DEF EndTurn, Leftovers
<1> QED BY <1>1, <1>2, <1>3, <1>4, TaskEndsInv

(* A waiting task has no queue to give back. *)
LEMMA WaitCancelledInv ==
  ASSUME IInv, NEW m \in Bus, WaitCancelled(m)
  PROVE  IInv'
<1> DEFINE s == SessionOf[m]
<1>0. /\ phase[m] \in {"lock", "gate"} /\ s \in Sessions /\ m \in Msgs /\ TypeOK
      /\ phase' = [phase EXCEPT ![m] = "none"] /\ ReleaseGate(m) /\ ReleaseLock(m)
      /\ DropDeferred(s) /\ inbound' = inbound \o NextDeferred(s)
      /\ cancelled' = cancelled \ {m} /\ fate' = [fate EXCEPT ![m] = "stopped"]
      /\ skipped' = skipped \ {s} /\ UNCHANGED <<ready, turnVars, waiter, stopping, stops>>
  BY Kinds DEF WaitCancelled, IInv
<1>1. queue[m] = <<>>
  BY <1>0 DEF IInv, QueueInv, Live
<1>2. queue' = [queue EXCEPT ![m] = <<>>]
  BY <1>0, <1>1 DEF turnVars, TypeOK
<1>3. registered' = Unregister(m)
  <2>1. registered[s] # m
    BY <1>0 DEF IInv, QueueInv, PendingQueueOwned, Turns, Live
  <2> QED BY <1>0, <2>1 DEF turnVars, TypeOK, Unregister
<1>4. inbound' = inbound \o queue[m] \o NextDeferred(s)
  <2>1. inbound \o <<>> = inbound
    BY <1>0 DEF TypeOK
  <2> QED BY <1>0, <1>1, <2>1
<1>5. /\ waiter' \in [Autos -> {"none", "waiting", "ok", "error"}]
      /\ UNCHANGED <<ready, cycles, rounds, stopping, stops>>
  BY <1>0 DEF turnVars, TypeOK
<1> QED BY <1>0, <1>2, <1>3, <1>4, <1>5, TaskEndsInv

LEMMA StartCancelledInv ==
  ASSUME IInv, StartCancelled
  PROVE  IInv'
<1> DEFINE m == Head(ready)
<1>0. /\ TypeOK /\ ready # <<>> /\ ready' = Tail(ready)
      /\ phase' = [phase EXCEPT ![m] = "none"] /\ cancelled' = cancelled \ {m}
      /\ fate' = [fate EXCEPT ![m] = "stopped"] /\ skipped' = skipped \cup {SessionOf[m]}
      /\ UNCHANGED <<inbound, lock, lockWaiters, gate, gateWaiters, turnVars,
                     autoVars, stopping, stops>>
  BY DEF StartCancelled, IInv
<1>1. /\ m \in Bus /\ m \in ToSet(ready) /\ ready' \in Seq(Bus) /\ IsInjective(ready')
      /\ ToSet(ready') \subseteq ToSet(ready) /\ m \notin ToSet(ready')
  BY <1>0, HeadTailFacts DEF IInv, TypeOK, PlaceInv
<1>2. phase[m] = "ready" /\ m \in Msgs
  BY <1>1, Kinds DEF IInv, PlaceInv
<1> HIDE DEF m
<1> USE DEF turnVars, autoVars
<1>3. /\ phase' \in [Msgs -> Phases] /\ phase'[m] = "none"
      /\ \A x \in Msgs : x # m => phase'[x] = phase[x]
  BY <1>0, <1>2 DEF TypeOK, Phases
<1>4. /\ fate' \in [Msgs -> {"unsent", "open"} \cup Settled]
      /\ \A x \in Msgs : fate'[x] = "unsent" => fate[x] = "unsent"
      /\ \A a \in Autos : fate'[a] # "injected"
  <2>1. \A a \in Autos : fate[a] # "injected" /\ a \in Msgs
    BY Kinds DEF IInv
  <2> QED BY <1>0, <1>2, <2>1 DEF TypeOK, Settled
<1>5. TypeOK'
  <2>1. skipped' \subseteq Sessions
    BY <1>0, <1>2, Kinds DEF TypeOK
  <2> QED BY <1>0, <1>1, <1>3, <1>4, <2>1 DEF TypeOK
<1>6. LockInv'
  <2>1. \A s \in Sessions : lock[s] # m /\ m \notin ToSet(lockWaiters[s])
    BY <1>2, Kinds DEF IInv, LockInv, Live
  <2>2. \A s \in Sessions : lock[s] \in Msgs \cup {None} /\ ToSet(lockWaiters[s]) \subseteq Msgs
    BY <1>0, ToSetFacts DEF TypeOK
  <2>3. \A x \in Msgs : phase'[x] \in Live \cup {"gate"} => lock'[SessionOf[x]] = x
    BY <1>0, <1>3 DEF IInv, LockInv, Live
  <2>4. \A s \in Sessions : lock'[s] # None =>
           SessionOf[lock'[s]] = s /\ phase'[lock'[s]] \in Live \cup {"lock", "gate"}
    BY <1>0, <1>3, <2>1, <2>2 DEF IInv, LockInv
  <2>5. \A s \in Sessions : \A x \in ToSet(lockWaiters'[s]) :
           SessionOf[x] = s /\ phase'[x] = "lock" /\ lock'[s] # x
    BY <1>0, <1>3, <2>1, <2>2 DEF IInv, LockInv
  <2> QED BY <1>0, <2>3, <2>4, <2>5 DEF IInv, LockInv
<1>7. GateInv'
  <2>1. gate \subseteq Msgs /\ ToSet(gateWaiters) \subseteq Msgs
    BY <1>0, ToSetFacts, Kinds DEF TypeOK
  <2>2. m \notin gate /\ m \notin ToSet(gateWaiters)
    BY <1>2 DEF IInv, GateInv, Live
  <2> QED BY <1>0, <1>3, <2>1, <2>2, Kinds DEF IInv, GateInv, Live
<1>8. PlaceInv'
  <2>1. /\ PlaceInv /\ deferred' = deferred /\ inbound' = inbound
        /\ ToSet(ready) \subseteq Msgs /\ ToSet(inbound) \subseteq Msgs
    BY <1>0, ToSetFacts, Kinds DEF IInv, TypeOK
  <2>2. \A x \in ToSet(ready') : phase'[x] = "ready"
    BY <1>1, <1>3, <2>1 DEF PlaceInv
  <2>3. \A x \in ToSet(inbound') : phase'[x] = "none"
    BY <1>3, <2>1 DEF PlaceInv
  <2>4. ASSUME NEW t \in Sessions
        PROVE  /\ IsInjective(deferred'[t])
               /\ \A a \in ToSet(deferred'[t]) :
                    SessionOf[a] = t /\ phase'[a] = "none" /\ a \notin ToSet(inbound')
    <3>1. /\ IsInjective(deferred[t])
          /\ \A a \in ToSet(deferred[t]) :
               /\ a \in Msgs /\ SessionOf[a] = t /\ phase[a] = "none"
               /\ a \notin ToSet(inbound)
      BY <1>0, <2>1, DeferredFacts
    <3>2. \A a \in ToSet(deferred[t]) : phase'[a] = "none"
      BY <1>3, <3>1
    <3> QED BY <2>1, <3>1, <3>2
  <2> QED BY <1>1, <2>1, <2>2, <2>3, <2>4 DEF PlaceInv
<1>9. QueueInv'
  <2>1. ASSUME NEW t \in Sessions, NEW x \in Bus
        PROVE  x \in Turns(t)' <=> x \in Turns(t)
    BY <1>2, <1>3, Kinds DEF Turns, Live
  <2>2. PendingQueueOwned'
    BY <1>0, <2>1 DEF IInv, QueueInv, PendingQueueOwned
  <2>3. queue[m] = <<>>
    BY <1>1, <1>2 DEF IInv, QueueInv, Live
  <2>4. ASSUME NEW x \in Bus, NEW y \in ToSet(queue[x])
        PROVE  /\ SessionOf[y] = SessionOf[x]
               /\ y = x \/ (y \in Users /\ phase'[y] = "none")
               /\ y \notin ToSet(inbound) \cup ToSet(deferred[SessionOf[x]])
    <3>1. /\ SessionOf[y] = SessionOf[x]
          /\ y = x \/ (y \in Users /\ phase[y] = "none")
          /\ y \notin ToSet(inbound) \cup ToSet(deferred[SessionOf[x]])
      BY <2>4 DEF IInv, QueueInv
    <3> QED BY <1>2, <1>3, <3>1, Kinds
  <2>5. ASSUME NEW x \in Bus
        PROVE  /\ phase'[x] \notin Live => queue[x] = <<>>
               /\ phase'[x] = "running" => x \notin ToSet(queue[x])
               /\ IsInjective(queue[x])
    BY <1>3, <2>3, EmptyFacts, Kinds DEF IInv, QueueInv
  <2> QED BY <1>0, <2>2, <2>4, <2>5 DEF QueueInv
<1>10. UnsentInv'
  BY <1>0, <1>3, <1>4 DEF IInv, UnsentInv
<1>11. StopInv'
  <2>1. \A t \in Sessions : Tasks(t)' = Tasks(t) \ {m}
    BY <1>3, Kinds DEF Tasks
  <2> QED BY <1>0, <2>1 DEF IInv, StopInv, TypeOK
<1> QED BY <1>4, <1>5, <1>6, <1>7, <1>8, <1>9, <1>10, <1>11 DEF IInv

-----------------------------------------------------------------------------
(* IInv is inductive. *)
LEMMA StepInv == IInv /\ [Next]_vars => IInv'
<1> SUFFICES ASSUME IInv, [Next]_vars PROVE IInv'
  OBVIOUS
<1>1. ASSUME NEW u \in Users, Publish(u) PROVE IInv'
  BY <1>1, PublishInv
<1>2. ASSUME NEW a \in Autos, Submit(a) PROVE IInv'
  BY <1>2, SubmitInv
<1>3. ASSUME NEW d \in Directs, CallDirect(d) PROVE IInv'
  BY <1>3, CallDirectInv
<1>4. ASSUME NEW s \in Sessions, StopBegins(s) PROVE IInv'
  BY <1>4, StopBeginsInv
<1>5. CASE Consume
  BY <1>5, ConsumeInv
<1>6. CASE StopEnds
  BY <1>6, StopEndsInv
<1>7. CASE NewTask
  BY <1>7, TaskStartsInv, StartCancelledInv DEF NewTask
<1>8. ASSUME NEW m \in Bus, Wakes(m) PROVE IInv'
  BY <1>8, LockWakesInv, GateWakesInv DEF Wakes
<1>9. ASSUME NEW m \in Bus, TurnStep(m) PROVE IInv'
  <2>1. CASE DrainPending(m)
    BY <2>1, DrainPendingInv
  <2>2. CASE RunnerStops(m)
    BY <2>2, RunnerStopsInv
  <2>3. CASE ContinueTurn(m)
    BY <2>3, ContinueTurnInv
  <2>4. CASE TurnReturns(m)
    BY <2>4, EndTurnInv DEF TurnReturns, Live
  <2>5. CASE TurnFails(m)
    BY <2>5, EndTurnInv DEF TurnFails, Live
  <2>6. CASE TurnCancelled(m)
    BY <2>6, EndTurnInv DEF TurnCancelled
  <2>7. CASE WaitCancelled(m)
    BY <2>7, WaitCancelledInv
  <2> QED BY <1>9, <2>1, <2>2, <2>3, <2>4, <2>5, <2>6, <2>7 DEF TurnStep
<1>10. ASSUME NEW d \in Directs, DirectStep(d) PROVE IInv'
  BY <1>10, DirectWakesInv, DirectEndsInv DEF DirectStep
<1>11. CASE UNCHANGED vars
  <2> USE <1>11 DEF vars, taskVars, turnVars, autoVars, stopVars
  <2>1. TypeOK' /\ LockInv' /\ GateInv' /\ PlaceInv'
    BY DEF IInv, TypeOK, LockInv, GateInv, PlaceInv
  <2>2. QueueInv' /\ UnsentInv' /\ StopInv'
    BY DEF IInv, QueueInv, PendingQueueOwned, Turns, UnsentInv, StopInv, Tasks
  <2> QED BY <2>1, <2>2 DEF IInv
<1> QED BY <1>1, <1>2, <1>3, <1>4, <1>5, <1>6, <1>7, <1>8, <1>9, <1>10, <1>11
        DEF Next, Environment

(* The invariant behind everything below holds in every reachable state:   *)
(* locks, permits, queues and messages stay where the code keeps them.     *)
THEOREM InductiveInvariant == Spec => []IInv
BY InitInv, StepInv, PTL DEF Spec

(* Every variable keeps its type; in particular no pending queue exceeds   *)
(* its maxsize.                                                            *)
THEOREM TypeCorrect == Spec => []TypeOK
<1>1. IInv => TypeOK
  BY DEF IInv
<1> QED BY <1>1, InductiveInvariant, PTL

(* A session never has two turns in progress, bus turns and direct calls   *)
(* alike.                                                                  *)
THEOREM SerialPerSession == Spec => []OneTurnPerSession
<1>1. ASSUME IInv PROVE OneTurnPerSession
  <2> SUFFICES ASSUME NEW s \in Sessions PROVE Cardinality(Turns(s)) <= 1
    BY DEF OneTurnPerSession
  <2>1. Turns(s) \subseteq {lock[s]}
    BY <1>1 DEF IInv, LockInv, Turns
  <2>2. IsFiniteSet({lock[s]}) /\ Cardinality({lock[s]}) = 1
    BY FS_Singleton
  <2> QED BY <2>1, <2>2, FS_Subset
<1> QED BY <1>1, InductiveInvariant, PTL

(* The published pending queue of a session is that of its live bus turn.  *)
THEOREM QueueOwned == Spec => []PendingQueueOwned
<1>1. IInv => PendingQueueOwned
  BY DEF IInv, QueueInv
<1> QED BY <1>1, InductiveInvariant, PTL

(* No more bus turns run at the same time than the gate has permits.       *)
THEOREM GateRespected == Spec => []GateBound
<1>1. ASSUME IInv PROVE GateBound
  <2> DEFINE T == {m \in Bus : phase[m] \in Live}
  <2>1. T \subseteq gate
    BY <1>1 DEF IInv, GateInv
  <2>2. IsFiniteSet(gate) /\ Cardinality(gate) <= MaxConcurrent
    BY <1>1, Kinds, FS_Subset DEF IInv, GateInv, TypeOK
  <2>3. Cardinality(T) <= Cardinality(gate) /\ IsFiniteSet(T)
    BY <2>1, <2>2, FS_Subset
  <2>4. Cardinality(T) \in Nat /\ Cardinality(gate) \in Nat
    BY <2>2, <2>3, FS_CardinalityType
  <2>5. Cardinality(T) <= MaxConcurrent
    BY <2>2, <2>3, <2>4, BoundAssumption
  <2> QED BY <2>5 DEF GateBound
<1> QED BY <1>1, InductiveInvariant, PTL

(* An automation turn is never injected into another turn.                 *)
THEOREM AutomationTurnsStayWhole == Spec => []AutomationNeverInjected
<1>1. ASSUME IInv PROVE AutomationNeverInjected
  <2> SUFFICES ASSUME NEW a \in Autos, NEW o \in Bus \ {a} PROVE ~ Contains(queue[o], a)
    BY <1>1 DEF IInv, AutomationNeverInjected
  <2>1. a \notin ToSet(queue[o])
    BY <1>1, Kinds DEF IInv, QueueInv
  <2> QED BY <2>1 DEF ToSet, Contains
<1> QED BY <1>1, InductiveInvariant, PTL

(* The session lock is handed over in the order of arrival.  A release     *)
(* wakes the head of the queue; whoever takes a free lock overtakes        *)
(* nobody, because a free lock has no waiter.                              *)
THEOREM FifoLock == Spec => LockIsFifo
<1> DEFINE Fifo == \A s \in Sessions :
             lock'[s] \notin {lock[s], None} /\ lockWaiters[s] # <<>>
               => lock'[s] = lockWaiters[s][1]
<1>1. ASSUME IInv, [Next]_vars
      PROVE  Fifo
  <2>0. /\ lock \in [Sessions -> Msgs \cup {None}]
        /\ lockWaiters \in [Sessions -> Seq(Msgs)]
        /\ \A s \in Sessions : lock[s] = None => lockWaiters[s] = <<>>
    BY <1>1 DEF IInv, TypeOK, LockInv
  <2>1. ASSUME UNCHANGED lock PROVE Fifo
    BY <2>1
  <2>2. ASSUME NEW m \in Msgs, ReleaseLock(m) PROVE Fifo
    <3> SUFFICES ASSUME NEW s \in Sessions, lock'[s] \notin {lock[s], None},
                        lockWaiters[s] # <<>>
                 PROVE  lock'[s] = lockWaiters[s][1]
      OBVIOUS
    <3>1. lock' = [lock EXCEPT ![SessionOf[m]] = FirstWaiter(lockWaiters[SessionOf[m]])]
      BY <2>2 DEF ReleaseLock
    <3>2. lock'[s] = FirstWaiter(lockWaiters[s])
      BY <2>0, <3>1
    <3> QED BY <2>0, <3>2 DEF FirstWaiter
  <2>3. ASSUME NEW m \in Msgs, LockFree(SessionOf[m]),
               lock' = [lock EXCEPT ![SessionOf[m]] = m]
        PROVE  Fifo
    BY <2>0, <2>3 DEF LockFree
  <2> HIDE DEF Fifo
  <2>4. CASE Environment
    <3>1. ASSUME NEW d \in Directs, CallDirect(d) PROVE Fifo
      BY <2>1, <2>3, <3>1, Kinds DEF CallDirect
    <3> QED BY <2>1, <2>4, <3>1 DEF Environment, Publish, Submit, StopBegins, taskVars
  <2>5. CASE Consume
    BY <2>1, <2>5 DEF Consume, Defer, Inject, Spawn, taskVars
  <2>6. CASE StopEnds
    BY <2>1, <2>6 DEF StopEnds, taskVars
  <2>7. CASE NewTask
    <3>1. CASE TaskStarts
      <4>1. Head(ready) \in Msgs
        BY <1>1, <3>1, HeadTailFacts, Kinds DEF IInv, TypeOK, TaskStarts
      <4> QED BY <2>1, <2>3, <3>1, <4>1 DEF TaskStarts
    <3> QED BY <2>1, <2>7, <3>1 DEF NewTask, StartCancelled
  <2>8. ASSUME NEW m \in Bus, Wakes(m) \/ TurnStep(m) PROVE Fifo
    <3>1. CASE Wakes(m)
      BY <2>1, <3>1 DEF Wakes, LockWakes, GateWakes
    <3>2. CASE DrainPending(m) \/ RunnerStops(m) \/ ContinueTurn(m)
      BY <2>1, <3>2 DEF DrainPending, RunnerStops, ContinueTurn, taskVars
    <3>3. CASE TurnReturns(m) \/ TurnFails(m) \/ TurnCancelled(m) \/ WaitCancelled(m)
      BY <2>2, <3>3, Kinds DEF TurnReturns, TurnFails, TurnCancelled, WaitCancelled, EndTurn
    <3> QED BY <2>8, <3>1, <3>2, <3>3 DEF TurnStep
  <2>9. ASSUME NEW d \in Directs, DirectStep(d) PROVE Fifo
    BY <2>1, <2>2, <2>9, Kinds DEF DirectStep, DirectWakes, DirectEnds
  <2>10. CASE UNCHANGED vars
    BY <2>1, <2>10 DEF vars, taskVars
  <2> QED BY <1>1, <2>4, <2>5, <2>6, <2>7, <2>8, <2>9, <2>10 DEF Next
<1> QED BY <1>1, InductiveInvariant, PTL DEF Spec, LockIsFifo
-----------------------------------------------------------------------------
(* No message is lost.  First every step keeps OpenInv: what is open is    *)
(* somewhere, what is settled nowhere.                                     *)

(* A message in a pending queue is in no other, and its turn is live.      *)
LEMMA QueuedFacts ==
  ASSUME IInv, NEW o \in Bus, NEW m \in ToSet(queue[o])
  PROVE  /\ m \in Bus /\ m \in Msgs /\ SessionOf[m] = SessionOf[o] /\ phase[o] \in Live
         /\ m = o \/ phase[m] = "none"
         /\ \A x \in Bus : m \in ToSet(queue[x]) => x = o
         /\ m \notin ToSet(inbound) /\ m \notin ToSet(deferred[SessionOf[m]])
<1>1. \A x \in Bus : queue[x] \in Seq(Bus) /\ ToSet(queue[x]) \subseteq Bus
  BY ToSetFacts DEF IInv, TypeOK
<1>2. \A x \in Bus : m \in ToSet(queue[x]) => phase[x] \in Live /\ SessionOf[x] = SessionOf[m]
  BY <1>1, EmptyFacts DEF IInv, QueueInv
<1>3. \A x \in Bus : m \in ToSet(queue[x]) => x = o
  BY <1>2, Kinds DEF IInv, LockInv
<1>4. /\ m = o \/ (m \in Users /\ phase[m] = "none")
      /\ m \notin ToSet(inbound) \cup ToSet(deferred[SessionOf[o]])
  BY DEF IInv, QueueInv
<1> QED BY <1>1, <1>2, <1>3, <1>4, Kinds

LEMMA PublishOpen ==
  ASSUME IInv, OpenInv, NEW u \in Bus, fate[u] = "unsent", inbound' = Append(inbound, u),
         fate' = [fate EXCEPT ![u] = "open"],
         UNCHANGED <<phase, deferred, queue>>
  PROVE  OpenInv'
<1>1. /\ ToSet(inbound') = ToSet(inbound) \cup {u} /\ u \in Msgs
      /\ \A x \in Msgs : fate'[x] = IF x = u THEN "open" ELSE fate[x]
  BY AppendFacts, Kinds DEF IInv, TypeOK
<1> QED BY <1>1 DEF OpenInv, Somewhere

LEMMA CallDirectOpen ==
  ASSUME IInv, OpenInv, NEW d \in Directs, CallDirect(d)
  PROVE  OpenInv'
<1>1. /\ d \in Msgs /\ fate' = [fate EXCEPT ![d] = "open"]
      /\ phase' = [phase EXCEPT ![d] = "running"] \/ phase' = [phase EXCEPT ![d] = "lock"]
      /\ UNCHANGED <<inbound, deferred, queue>>
  BY Kinds DEF CallDirect, turnVars, autoVars
<1>2. /\ phase'[d] # "none" /\ \A x \in Msgs : x # d => phase'[x] = phase[x]
      /\ \A x \in Msgs : fate'[x] = IF x = d THEN "open" ELSE fate[x]
  BY <1>1 DEF IInv, TypeOK
<1> QED BY <1>1, <1>2 DEF OpenInv, Somewhere

LEMMA DirectWakesOpen ==
  ASSUME IInv, OpenInv, NEW d \in Directs, DirectWakes(d)
  PROVE  OpenInv'
<1>1. /\ d \in Msgs /\ phase[d] = "lock" /\ phase' = [phase EXCEPT ![d] = "running"]
      /\ UNCHANGED <<inbound, deferred, queue, fate>>
  BY Kinds DEF DirectWakes, turnVars, autoVars
<1>2. \A x \in Msgs : phase'[x] = "none" <=> phase[x] = "none"
  BY <1>1 DEF IInv, TypeOK
<1> QED BY <1>1, <1>2 DEF OpenInv, Somewhere

LEMMA DirectEndsOpen ==
  ASSUME IInv, OpenInv, NEW d \in Directs, DirectEnds(d)
  PROVE  OpenInv'
<1>1. /\ d \in Msgs /\ d \notin Bus /\ d \notin Autos /\ SessionOf[d] \in Sessions
      /\ phase' = [phase EXCEPT ![d] = "none"]
      /\ UNCHANGED <<inbound, deferred, queue>>
  BY Kinds DEF DirectEnds, turnVars, autoVars
<1>2. /\ phase'[d] = "none" /\ \A x \in Msgs : x # d => phase'[x] = phase[x]
      /\ fate'[d] # "open" /\ \A x \in Msgs : x # d => fate'[x] = fate[x]
  BY <1>1 DEF DirectEnds, IInv, TypeOK
<1>3. /\ d \notin ToSet(inbound) /\ d \notin ToSet(deferred[SessionOf[d]])
      /\ \A o \in Bus : d \notin ToSet(queue[o])
  BY <1>1, ToSetFacts DEF IInv, TypeOK
<1> QED BY <1>1, <1>2, <1>3 DEF OpenInv, Somewhere

(* What run() consumes is deferred, injected or gets a task.               *)
LEMMA ConsumeOpen ==
  ASSUME IInv, OpenInv, Consume
  PROVE  OpenInv'
<1>0. PICK m \in Bus : m = Head(inbound)
  BY ConsumeFacts
<1> DEFINE s == SessionOf[m]
<1>1. /\ m \in Bus /\ m \in Msgs /\ s \in Sessions /\ phase[m] = "none"
      /\ m \in ToSet(inbound) /\ m \notin ToSet(inbound') /\ fate' = fate
      /\ ToSet(inbound) = ToSet(inbound') \cup {m}
  <2>1. inbound \in Seq(Bus) /\ inbound # <<>> /\ inbound' = Tail(inbound)
    BY DEF Consume, IInv, TypeOK
  <2>2. ToSet(inbound) = ToSet(Tail(inbound)) \cup {Head(inbound)}
    BY <2>1, ConsFacts
  <2> QED BY <1>0, <2>1, <2>2, ConsumeFacts
<1>2. fate[m] = "open"
  BY <1>1 DEF OpenInv, Somewhere
<1>3. SUFFICES Somewhere(m)' /\ \A x \in Msgs : x # m => (Somewhere(x)' <=> Somewhere(x))
  BY <1>1, <1>2 DEF OpenInv
<1>4. CASE Defer(m)
  <2>1. /\ m \in Autos /\ deferred' = [deferred EXCEPT ![s] = Append(@, m)]
        /\ phase' = phase /\ queue' = queue
    BY <1>4 DEF Defer, IsAutomation, taskVars, turnVars
  <2>2. ToSet(Append(deferred[s], m)) = ToSet(deferred[s]) \cup {m}
    BY <1>1, <2>1, AppendFacts DEF IInv, TypeOK
  <2>3. \A t \in Sessions : ToSet(deferred'[t]) = IF t = s THEN ToSet(deferred[s]) \cup {m}
                                                  ELSE ToSet(deferred[t])
    BY <1>1, <2>1, <2>2 DEF IInv, TypeOK
  <2> QED BY <1>1, <2>1, <2>3, Kinds DEF Somewhere
<1>5. CASE Inject(m)
  <2> DEFINE o == registered[s]
  <2>1. /\ o \in Bus /\ queue' = [queue EXCEPT ![o] = Append(@, m)]
        /\ phase' = phase /\ deferred' = deferred
    BY <1>1, <1>5 DEF Inject, IInv, TypeOK, taskVars
  <2> HIDE DEF o
  <2>2. ToSet(Append(queue[o], m)) = ToSet(queue[o]) \cup {m}
    BY <1>1, <2>1, AppendFacts DEF IInv, TypeOK
  <2>3. \A x \in Bus : ToSet(queue'[x]) = IF x = o THEN ToSet(queue[o]) \cup {m} ELSE ToSet(queue[x])
    BY <1>1, <2>1, <2>2 DEF IInv, TypeOK
  <2> QED BY <1>1, <2>1, <2>3 DEF Somewhere
<1>6. CASE Spawn(m)
  <2>1. /\ phase' = [phase EXCEPT ![m] = "ready"] /\ deferred' = deferred /\ queue' = queue
    BY <1>6 DEF Spawn, turnVars
  <2>2. phase'[m] = "ready" /\ \A x \in Msgs : x # m => phase'[x] = phase[x]
    BY <1>1, <2>1 DEF IInv, TypeOK
  <2> QED BY <1>1, <2>1, <2>2 DEF Somewhere
<1> QED BY <1>0, <1>4, <1>5, <1>6 DEF Consume

LEMMA StopEndsOpen ==
  ASSUME IInv, OpenInv, StopEnds
  PROVE  OpenInv'
<1>1. stopping \in Sessions /\ Tasks(stopping) = {}
  BY DEF IInv, TypeOK, StopInv, StopEnds
<1>2. registered[stopping] = None
  <2>1. Turns(stopping) \cap Bus = {}
    BY <1>1 DEF Turns, Tasks, Live
  <2>2. registered[stopping] \in Bus \cup {None}
    BY <1>1 DEF IInv, TypeOK
  <2> QED BY <1>1, <2>1, <2>2 DEF IInv, QueueInv, PendingQueueOwned
<1>3. queue' = queue /\ fate' = fate
  BY <1>2, Kinds DEF StopEnds, IInv, TypeOK
<1> QED BY <1>3 DEF OpenInv, Somewhere, StopEnds, taskVars, autoVars

(* A task takes the lock or a permit, or waits for it; a turn that begins  *)
(* finds its queue empty.                                                  *)
LEMMA TaskMovesOpen ==
  ASSUME IInv, OpenInv, NEW m \in Bus, phase[m] \in {"ready", "lock", "gate"},
         UNCHANGED <<inbound, deferred, fate>>,
         \/ EnterTurn(m)
         \/ UNCHANGED queue /\ \E p \in {"lock", "gate"} : phase' = [phase EXCEPT ![m] = p]
  PROVE  OpenInv'
<1>1. queue' = queue
  <2>1. CASE EnterTurn(m)
    <3>1. queue[m] = <<>> /\ queue' = [queue EXCEPT ![m] = <<>>]
      BY <2>1 DEF EnterTurn, IInv, QueueInv, Live
    <3> QED BY <3>1 DEF IInv, TypeOK
  <2> QED BY <2>1
<1>2. \A x \in Msgs : phase'[x] = "none" <=> phase[x] = "none"
  BY Kinds DEF EnterTurn, IInv, TypeOK
<1> QED BY <1>1, <1>2 DEF OpenInv, Somewhere

LEMMA TaskStartsOpen ==
  ASSUME IInv, OpenInv, TaskStarts
  PROVE  OpenInv'
<1> DEFINE m == Head(ready)
<1>1. m \in Bus /\ phase[m] = "ready"
  BY HeadTailFacts DEF TaskStarts, IInv, TypeOK, PlaceInv
<1>2. /\ UNCHANGED <<inbound, deferred, fate>>
      /\ EnterGate(m) \/ (phase' = [phase EXCEPT ![m] = "lock"] /\ UNCHANGED turnVars)
  BY DEF TaskStarts, autoVars
<1> HIDE DEF m
<1> QED BY <1>1, <1>2, TaskMovesOpen DEF EnterGate, turnVars

LEMMA WakesOpen ==
  ASSUME IInv, OpenInv, NEW m \in Bus, Wakes(m)
  PROVE  OpenInv'
BY TaskMovesOpen DEF Wakes, LockWakes, GateWakes, EnterGate, turnVars, autoVars

(* The messages a turn takes in are nowhere else.                          *)
LEMMA TurnRunsOpen ==
  ASSUME IInv, OpenInv, NEW m \in Bus, phase[m] = "running", TakeInjections(m),
         NEW p \in Live, NEW q \in Seq(Bus),
         ToSet(AfterDrain(m)) \subseteq ToSet(q), ToSet(q) \subseteq ToSet(AfterDrain(m)) \cup {m},
         phase' = [phase EXCEPT ![m] = p], queue' = [queue EXCEPT ![m] = q],
         UNCHANGED <<inbound, deferred>>
  PROVE  OpenInv'
<1> DEFINE taken == ToSet(queue[m]) \ ToSet(AfterDrain(m))
<1>1. /\ m \in Msgs /\ phase'[m] # "none" /\ phase[m] # "none"
      /\ \A x \in Msgs : phase'[x] = "none" <=> phase[x] = "none"
  BY Kinds DEF IInv, TypeOK, Live
<1>2. /\ ToSet(AfterDrain(m)) \subseteq ToSet(queue[m]) /\ ToSet(queue[m]) \subseteq Users
      /\ m \notin ToSet(queue[m])
  BY DrainFacts DEF IInv, QueueInv
<1>3. \A x \in Msgs : fate'[x] = IF x \in taken THEN "injected" ELSE fate[x]
  BY DEF TakeInjections
<1>4. \A x \in Bus : ToSet(queue'[x]) = IF x = m THEN ToSet(q) ELSE ToSet(queue[x])
  BY DEF IInv, TypeOK
<1>5. ASSUME NEW x \in taken
      PROVE  fate'[x] # "open" /\ ~Somewhere(x)'
  <2>1. x \in ToSet(queue[m]) /\ x \notin ToSet(AfterDrain(m)) /\ x # m
    BY <1>2
  <2>2. /\ x \in Msgs /\ phase[x] = "none" /\ x \notin ToSet(inbound)
        /\ x \notin ToSet(deferred[SessionOf[x]])
        /\ \A o \in Bus : x \in ToSet(queue[o]) => o = m
    BY <2>1, QueuedFacts
  <2> QED BY <1>1, <1>3, <1>4, <2>1, <2>2 DEF Somewhere
<1>6. ASSUME NEW x \in Msgs \ taken
      PROVE  fate'[x] = "open" <=> Somewhere(x)'
  <2>1. fate'[x] = fate[x]
    BY <1>3
  <2>2. CASE x = m
    BY <1>1, <2>1, <2>2 DEF OpenInv, Somewhere
  <2>3. CASE x # m
    <3>1. \A o \in Bus : x \in ToSet(queue'[o]) <=> x \in ToSet(queue[o])
      BY <1>2, <1>4, <1>6, <2>3
    <3> QED BY <1>1, <2>1, <3>1 DEF OpenInv, Somewhere
  <2> QED BY <2>2, <2>3
<1> QED BY <1>5, <1>6 DEF OpenInv

LEMMA RunningOpen ==
  ASSUME IInv, OpenInv, NEW m \in Bus, DrainPending(m) \/ RunnerStops(m) \/ ContinueTurn(m)
  PROVE  OpenInv'
<1> DEFINE left == AfterDrain(m)
<1>1. /\ phase[m] = "running" /\ TakeInjections(m) /\ UNCHANGED <<inbound, deferred>>
  BY DEF DrainPending, RunnerStops, ContinueTurn, Running, autoVars
<1>2. left \in Seq(Bus) /\ ToSet(Append(left, m)) = ToSet(left) \cup {m} /\ Append(left, m) \in Seq(Bus)
  <2>1. left \in Seq(Bus)
    BY <1>1, DrainFacts
  <2> HIDE DEF left
  <2> QED BY <2>1, AppendFacts
<1>3. phase \in [Msgs -> Phases] /\ phase = [phase EXCEPT ![m] = "running"]
  BY <1>1 DEF IInv, TypeOK
<1>4. /\ {"running", "finishing", "blocked"} \subseteq Live
      /\ \/ phase' = phase \/ phase' = [phase EXCEPT ![m] = "finishing"]
         \/ phase' = [phase EXCEPT ![m] = "blocked"]
      /\ \/ queue' = [queue EXCEPT ![m] = left]
         \/ queue' = [queue EXCEPT ![m] = Append(left, m)]
  BY DEF DrainPending, RunnerStops, ContinueTurn, Live, taskVars
<1>5. \E p \in Live : phase' = [phase EXCEPT ![m] = p]
  BY <1>3, <1>4
<1>6. PICK p \in Live : phase' = [phase EXCEPT ![m] = p]
  BY <1>5
<1>7. CASE queue' = [queue EXCEPT ![m] = left]
  BY <1>1, <1>2, <1>6, <1>7, TurnRunsOpen
<1>8. CASE queue' = [queue EXCEPT ![m] = Append(left, m)]
  BY <1>1, <1>2, <1>6, <1>8, TurnRunsOpen
<1> QED BY <1>4, <1>7, <1>8

(* A task that ends leaves its queue, and the next deferred turn, on the   *)
(* bus; it is settled itself unless its continuation was in its queue.     *)
LEMMA NextDeferredSplits ==
  ASSUME TypeOK, NEW s \in Sessions, DropDeferred(s)
  PROVE  /\ ToSet(deferred[s]) = ToSet(deferred'[s]) \cup ToSet(NextDeferred(s))
         /\ \A t \in Sessions : t # s => deferred'[t] = deferred[t]
<1> DEFINE q == deferred[s]
<1>1. q \in Seq(Autos)
  BY DEF TypeOK
<1>2. CASE q = <<>>
  BY <1>2, EmptyFacts DEF NextDeferred, DropDeferred, TypeOK
<1>3. CASE q # <<>>
  <2>1. NextDeferred(s) = <<Head(q)>> /\ <<Head(q)>> # <<>> /\ ToSet(<<Head(q)>>) = {Head(q)}
    BY <1>3 DEF NextDeferred, ToSet
  <2>2. deferred' = [deferred EXCEPT ![s] = Tail(q)]
    BY <2>1 DEF DropDeferred
  <2>3. ToSet(q) = ToSet(Tail(q)) \cup {Head(q)}
    BY <1>1, <1>3, ConsFacts
  <2> HIDE DEF q
  <2> QED BY <2>1, <2>2, <2>3 DEF TypeOK, q
<1> QED BY <1>2, <1>3

LEMMA TaskEndsOpen ==
  ASSUME IInv, OpenInv, NEW m \in Bus, phase[m] \notin {"none", "ready"},
         phase' = [phase EXCEPT ![m] = "none"], DropDeferred(SessionOf[m]),
         inbound' = inbound \o queue[m] \o NextDeferred(SessionOf[m]),
         queue' = [queue EXCEPT ![m] = <<>>],
         NEW how \in {"handled", "failed", "stopped"},
         fate' = IF m \in ToSet(queue[m]) THEN fate ELSE [fate EXCEPT ![m] = how]
  PROVE  OpenInv'
<1> DEFINE s == SessionOf[m]  next == NextDeferred(s)
<1>1. /\ TypeOK /\ PlaceInv /\ m \in Msgs /\ s \in Sessions
      /\ inbound \in Seq(Bus) /\ queue[m] \in Seq(Bus)
  BY Kinds DEF IInv, TypeOK
<1>2. next \in Seq(Bus)
  BY <1>1, NextDeferredFacts
<1>3. /\ ToSet(deferred[s]) = ToSet(deferred'[s]) \cup ToSet(next)
      /\ \A t \in Sessions : t # s => deferred'[t] = deferred[t]
  BY <1>1, NextDeferredSplits
<1> HIDE DEF next
<1>4. ToSet(inbound') = ToSet(inbound) \cup ToSet(queue[m]) \cup ToSet(next)
  <2> DEFINE half == inbound \o queue[m]
  <2>1. half \in Seq(Bus) /\ ToSet(half) = ToSet(inbound) \cup ToSet(queue[m])
    BY <1>1, ConcatFacts
  <2> HIDE DEF half
  <2>2. ToSet(half \o next) = ToSet(half) \cup ToSet(next)
    BY <1>2, <2>1, ConcatFacts
  <2> QED BY <2>1, <2>2 DEF half, next
<1>5. /\ phase'[m] = "none" /\ \A x \in Msgs : x # m => phase'[x] = phase[x]
      /\ \A x \in Bus : ToSet(queue'[x]) = IF x = m THEN {} ELSE ToSet(queue[x])
      /\ \A x \in Msgs : x # m => fate'[x] = fate[x]
  BY <1>1, EmptyFacts DEF TypeOK
<1>6. /\ m \notin ToSet(inbound) /\ m \notin ToSet(deferred[s])
      /\ \A o \in Bus : m \in ToSet(queue[o]) => o = m
  <2>1. m \notin ToSet(inbound) /\ m \notin ToSet(deferred[s])
    BY <1>1 DEF PlaceInv
  <2>2. \A o \in Bus : m \in ToSet(queue[o]) => o = m
    BY QueuedFacts
  <2> QED BY <2>1, <2>2
<1>7. fate'[m] = "open" <=> Somewhere(m)'
  <2>1. CASE m \in ToSet(queue[m])
    BY <1>1, <1>4, <2>1 DEF OpenInv, Somewhere
  <2>2. CASE m \notin ToSet(queue[m])
    <3>1. fate'[m] # "open"
      BY <1>1, <2>2 DEF TypeOK
    <3>2. m \notin ToSet(inbound') /\ m \notin ToSet(deferred'[s])
      BY <1>3, <1>4, <1>6, <2>2
    <3>3. \A o \in Bus : m \notin ToSet(queue'[o])
      BY <1>5, <1>6
    <3> QED BY <1>5, <3>1, <3>2, <3>3 DEF Somewhere
  <2> QED BY <2>1, <2>2
<1>8. ASSUME NEW x \in Msgs, x # m
      PROVE  Somewhere(x)' <=> Somewhere(x)
  <2>1. x \in ToSet(next) => SessionOf[x] = s
    BY <1>1, <1>3 DEF PlaceInv
  <2>2. SessionOf[x] \in Sessions
    BY Kinds
  <2>3. x \in ToSet(inbound') \cup ToSet(deferred'[SessionOf[x]]) <=>
          x \in ToSet(inbound) \cup ToSet(deferred[SessionOf[x]]) \cup ToSet(queue[m])
    <3>1. CASE SessionOf[x] = s
      BY <1>3, <1>4, <3>1
    <3>2. CASE SessionOf[x] # s
      BY <1>3, <1>4, <2>1, <2>2, <3>2
    <3> QED BY <3>1, <3>2
  <2>4. (\E o \in Bus : x \in ToSet(queue[o])) <=>
          x \in ToSet(queue[m]) \/ \E o \in Bus : x \in ToSet(queue'[o])
    BY <1>5
  <2> QED BY <1>5, <1>8, <2>3, <2>4 DEF Somewhere
<1> QED BY <1>5, <1>7, <1>8 DEF OpenInv

LEMMA EndTurnOpen ==
  ASSUME IInv, OpenInv, NEW m \in Bus, phase[m] \in Live,
         NEW how \in {"handled", "failed", "stopped"}, NEW outcome, EndTurn(m, how, outcome)
  PROVE  OpenInv'
<1>1. Continued(m) <=> m \in ToSet(queue[m])
  BY DEF Continued, Contains, ToSet
<1>2. phase[m] \notin {"none", "ready"}
  BY DEF Live
<1>3. fate' = IF m \in ToSet(queue[m]) THEN fate ELSE [fate EXCEPT ![m] = how]
  BY <1>1 DEF EndTurn
<1>4. /\ phase' = [phase EXCEPT ![m] = "none"] /\ DropDeferred(SessionOf[m])
      /\ inbound' = inbound \o queue[m] \o NextDeferred(SessionOf[m])
      /\ queue' = [queue EXCEPT ![m] = <<>>]
  BY DEF EndTurn, Leftovers
<1> QED BY <1>2, <1>3, <1>4, TaskEndsOpen

LEMMA WaitCancelledOpen ==
  ASSUME IInv, OpenInv, NEW m \in Bus, WaitCancelled(m)
  PROVE  OpenInv'
<1>1. /\ phase[m] \in {"lock", "gate"} /\ phase' = [phase EXCEPT ![m] = "none"]
      /\ DropDeferred(SessionOf[m]) /\ inbound' = inbound \o NextDeferred(SessionOf[m])
      /\ fate' = [fate EXCEPT ![m] = "stopped"] /\ queue' = queue
  BY DEF WaitCancelled, turnVars
<1>2. queue[m] = <<>> /\ m \notin ToSet(queue[m])
  BY <1>1, EmptyFacts DEF IInv, QueueInv, Live
<1>3. queue' = [queue EXCEPT ![m] = <<>>] /\ inbound \o <<>> = inbound
  BY <1>1, <1>2 DEF IInv, TypeOK
<1> QED BY <1>1, <1>2, <1>3, TaskEndsOpen

LEMMA StartCancelledOpen ==
  ASSUME IInv, OpenInv, StartCancelled
  PROVE  OpenInv'
<1> DEFINE m == Head(ready)
<1>1. m \in Bus /\ m \in Msgs /\ m \in ToSet(ready) /\ phase[m] = "ready" /\ SessionOf[m] \in Sessions
  BY HeadTailFacts, Kinds DEF StartCancelled, IInv, TypeOK, PlaceInv
<1>2. /\ phase' = [phase EXCEPT ![m] = "none"] /\ fate' = [fate EXCEPT ![m] = "stopped"]
      /\ UNCHANGED <<inbound, deferred, queue>>
  BY DEF StartCancelled, turnVars, autoVars
<1> HIDE DEF m
<1>3. /\ phase'[m] = "none" /\ \A x \in Msgs : x # m => phase'[x] = phase[x]
      /\ fate'[m] = "stopped" /\ \A x \in Msgs : x # m => fate'[x] = fate[x]
  BY <1>1, <1>2 DEF IInv, TypeOK
<1>4. /\ m \notin ToSet(inbound) /\ m \notin ToSet(deferred[SessionOf[m]])
  BY <1>1 DEF IInv, PlaceInv
<1>5. \A o \in Bus : m \notin ToSet(queue[o])
  BY <1>1, QueuedFacts DEF Live
<1> QED BY <1>2, <1>3, <1>4, <1>5 DEF OpenInv, Somewhere

LEMMA StepOpen ==
  ASSUME IInv, OpenInv, [Next]_vars
  PROVE  OpenInv'
<1>1. ASSUME NEW u \in Users, Publish(u) PROVE OpenInv'
  BY <1>1, PublishOpen, Kinds DEF Publish, taskVars, turnVars, autoVars
<1>2. ASSUME NEW a \in Autos, Submit(a) PROVE OpenInv'
  BY <1>2, PublishOpen, Kinds DEF Submit, taskVars, turnVars
<1>3. ASSUME NEW d \in Directs, CallDirect(d) PROVE OpenInv'
  BY <1>3, CallDirectOpen
<1>4. ASSUME NEW s \in Sessions, StopBegins(s) PROVE OpenInv'
  BY <1>4 DEF StopBegins, OpenInv, Somewhere, taskVars, turnVars, autoVars
<1>5. CASE Consume \/ StopEnds \/ NewTask
  BY <1>5, ConsumeOpen, StopEndsOpen, TaskStartsOpen, StartCancelledOpen DEF NewTask
<1>6. ASSUME NEW m \in Bus, Wakes(m) PROVE OpenInv'
  BY <1>6, WakesOpen
<1>7. ASSUME NEW m \in Bus, TurnStep(m) PROVE OpenInv'
  <2>1. CASE DrainPending(m) \/ RunnerStops(m) \/ ContinueTurn(m)
    BY <2>1, RunningOpen
  <2>2. CASE TurnReturns(m) \/ TurnFails(m) \/ TurnCancelled(m)
    BY <2>2, EndTurnOpen DEF TurnReturns, TurnFails, TurnCancelled, Live
  <2>3. CASE WaitCancelled(m)
    BY <2>3, WaitCancelledOpen
  <2> QED BY <1>7, <2>1, <2>2, <2>3 DEF TurnStep
<1>8. ASSUME NEW d \in Directs, DirectStep(d) PROVE OpenInv'
  BY <1>8, DirectWakesOpen, DirectEndsOpen DEF DirectStep
<1>9. CASE UNCHANGED vars
  BY <1>9 DEF vars, taskVars, turnVars, autoVars, OpenInv, Somewhere
<1> QED BY <1>1, <1>2, <1>3, <1>4, <1>5, <1>6, <1>7, <1>8, <1>9 DEF Next, Environment

(* The invariant with it: every open message is somewhere, every settled   *)
(* one nowhere.                                                            *)
THEOREM DispatchInvariant == Spec => []DispatchInv
<1>1. Init => OpenInv
  <2> SUFFICES ASSUME Init PROVE OpenInv
    OBVIOUS
  <2>1. \A m \in Msgs : fate[m] = "unsent" /\ SessionOf[m] \in Sessions
    BY Kinds DEF Init
  <2>2. \A m \in Msgs : ~Somewhere(m)
    BY <2>1, EmptyFacts DEF Init, Somewhere
  <2> QED BY <2>1, <2>2 DEF OpenInv
<1>2. DispatchInv /\ [Next]_vars => DispatchInv'
  BY StepInv, StepOpen DEF DispatchInv
<1> QED BY <1>1, <1>2, InitInv, PTL DEF Spec, DispatchInv

(* Where a message is not, it has no place.                                *)
LEMMA EmptyPlaces ==
  ASSUME NEW m
  PROVE  /\ m \notin ToSet(inbound) => BusPlaces(m) = {}
         /\ (\A s \in Sessions : m \notin ToSet(deferred[s])) => DeferredPlaces(m) = {}
         /\ (\A o \in Bus : m \notin ToSet(queue[o])) => QueuePlaces(m) = {}
<1>1. m \notin ToSet(inbound) => BusPlaces(m) = {}
  BY DEF ToSet, BusPlaces
<1>2. (\A s \in Sessions : m \notin ToSet(deferred[s])) => DeferredPlaces(m) = {}
  BY DEF ToSet, DeferredPlaces
<1>3. (\A o \in Bus : m \notin ToSet(queue[o])) => QueuePlaces(m) = {}
  BY DEF ToSet, QueuePlaces
<1> QED BY <1>1, <1>2, <1>3

LEMMA OnePlace ==
  ASSUME IInv, OpenInv, NEW m \in Msgs
  PROVE  Cardinality(Places(m)) = (IF fate[m] = "open" THEN 1 ELSE 0)
<1>1. Places(m) = TaskPlaces(m) \cup BusPlaces(m) \cup DeferredPlaces(m) \cup QueuePlaces(m)
  BY DEF Places
<1>2. fate[m] = "open" <=> Somewhere(m)
  BY DEF OpenInv
<1>3. \A s \in Sessions : m \in ToSet(deferred[s]) =>
        SessionOf[m] = s /\ phase[m] = "none" /\ m \notin ToSet(inbound)
  BY DEF IInv, PlaceInv
<1>4. \A o \in Bus : m \in ToSet(queue[o]) =>
        /\ m = o \/ phase[m] = "none"
        /\ m \notin ToSet(inbound) /\ m \notin ToSet(deferred[SessionOf[m]])
        /\ \A x \in Bus : m \in ToSet(queue[x]) => x = o
  BY QueuedFacts
<1>5. m \in ToSet(inbound) => phase[m] = "none"
  BY DEF IInv, PlaceInv
<1>6. Continued(m) <=> m \in Bus /\ m \in ToSet(queue[m])
  <2>1. m \in Bus => queue[m] \in Seq(Bus)
    BY DEF IInv, TypeOK
  <2> QED BY <2>1 DEF Continued, Contains, ToSet
<1>7. (\E p : Places(m) = {p}) => Cardinality(Places(m)) = 1
  BY FS_Singleton
<1>8. Places(m) = {} => Cardinality(Places(m)) = 0
  BY FS_EmptySet
<1>9. SessionOf[m] \in Sessions
  BY Kinds
<1>10. CASE ~Somewhere(m)
  BY <1>1, <1>2, <1>3, <1>8, <1>10, EmptyPlaces DEF Somewhere, TaskPlaces
<1>11. CASE phase[m] # "none" /\ ~Continued(m)
  <2>1. \A o \in Bus : m \notin ToSet(queue[o])
    BY <1>4, <1>6, <1>11
  <2>2. Places(m) = {<<"task", None, 0>>}
    BY <1>1, <1>3, <1>5, <1>11, <2>1, EmptyPlaces DEF TaskPlaces
  <2> QED BY <1>2, <1>7, <1>11, <2>2 DEF Somewhere
<1>12. CASE m \in ToSet(inbound)
  <2>1. PICK i \in DOMAIN inbound : inbound[i] = m
    BY <1>12 DEF ToSet
  <2>2. \A j \in DOMAIN inbound : inbound[j] = m => j = i
    BY <2>1 DEF IInv, PlaceInv, IsInjective
  <2>3. BusPlaces(m) = {<<"inbound", None, i>>}
    BY <2>1, <2>2 DEF BusPlaces
  <2>4. TaskPlaces(m) = {} /\ DeferredPlaces(m) = {} /\ QueuePlaces(m) = {}
    BY <1>3, <1>4, <1>5, <1>12, EmptyPlaces DEF TaskPlaces
  <2>5. Places(m) = {<<"inbound", None, i>>}
    BY <1>1, <2>3, <2>4
  <2> QED BY <1>2, <1>7, <1>12, <2>5 DEF Somewhere
<1>13. CASE m \in ToSet(deferred[SessionOf[m]])
  <2> DEFINE s == SessionOf[m]
  <2>1. PICK i \in DOMAIN deferred[s] : deferred[s][i] = m
    BY <1>13 DEF ToSet
  <2>2. \A j \in DOMAIN deferred[s] : deferred[s][j] = m => j = i
    BY <1>9, <2>1 DEF IInv, PlaceInv, IsInjective
  <2>3. \A t \in Sessions : t # s => \A j \in DOMAIN deferred[t] : deferred[t][j] # m
    BY <1>3 DEF ToSet
  <2> HIDE DEF s
  <2>4. DeferredPlaces(m) = {<<"deferred", s, i>>}
    <3>1. <<"deferred", s, i>> \in DeferredPlaces(m)
      BY <1>9, <2>1 DEF DeferredPlaces, s
    <3>2. ASSUME NEW p \in DeferredPlaces(m) PROVE p = <<"deferred", s, i>>
      <4>1. PICK t \in Sessions :
              p \in {<<"deferred", t, j>> : j \in {j \in DOMAIN deferred[t] : deferred[t][j] = m}}
        BY DEF DeferredPlaces
      <4>2. PICK j \in DOMAIN deferred[t] : deferred[t][j] = m /\ p = <<"deferred", t, j>>
        BY <4>1
      <4> QED BY <2>2, <2>3, <4>2
    <3> QED BY <3>1, <3>2
  <2>5. TaskPlaces(m) = {} /\ BusPlaces(m) = {} /\ QueuePlaces(m) = {}
    BY <1>3, <1>4, <1>9, <1>13, EmptyPlaces DEF TaskPlaces
  <2>6. Places(m) = {<<"deferred", s, i>>}
    BY <1>1, <2>4, <2>5
  <2> QED BY <1>2, <1>7, <1>13, <2>6 DEF Somewhere
<1>14. ASSUME NEW o \in Bus, m \in ToSet(queue[o])
       PROVE  Cardinality(Places(m)) = (IF fate[m] = "open" THEN 1 ELSE 0)
  <2>1. PICK i \in DOMAIN queue[o] : queue[o][i] = m
    BY <1>14 DEF ToSet
  <2>2. \A j \in DOMAIN queue[o] : queue[o][j] = m => j = i
    BY <2>1 DEF IInv, QueueInv, IsInjective
  <2>3. \A x \in Bus : x # o => \A j \in DOMAIN queue[x] : queue[x][j] # m
    BY <1>4, <1>14 DEF ToSet
  <2>4. QueuePlaces(m) = {<<"queue", o, i>>}
    <3>1. <<"queue", o, i>> \in QueuePlaces(m)
      BY <2>1 DEF QueuePlaces
    <3>2. ASSUME NEW p \in QueuePlaces(m) PROVE p = <<"queue", o, i>>
      <4>1. PICK x \in Bus :
              p \in {<<"queue", x, j>> : j \in {j \in DOMAIN queue[x] : queue[x][j] = m}}
        BY DEF QueuePlaces
      <4>2. PICK j \in DOMAIN queue[x] : queue[x][j] = m /\ p = <<"queue", x, j>>
        BY <4>1
      <4> QED BY <2>2, <2>3, <4>2
    <3> QED BY <3>1, <3>2
  <2>5. TaskPlaces(m) = {}
    BY <1>4, <1>6, <1>14 DEF TaskPlaces
  <2>6. BusPlaces(m) = {} /\ DeferredPlaces(m) = {}
    BY <1>3, <1>4, <1>14, EmptyPlaces
  <2>7. Places(m) = {<<"queue", o, i>>}
    BY <1>1, <2>4, <2>5, <2>6
  <2> QED BY <1>2, <1>7, <1>14, <2>7 DEF Somewhere
<1> QED BY <1>6, <1>10, <1>11, <1>12, <1>13, <1>14 DEF Somewhere

(* No message is lost and none has two places: it is accounted for once    *)
(* while it is open, and nowhere once it is settled.                       *)
THEOREM MessagesAccounted == Spec => []NoMessageLost
<1>1. DispatchInv => NoMessageLost
  BY OnePlace DEF DispatchInv, NoMessageLost
<1> QED BY <1>1, DispatchInvariant, PTL
-----------------------------------------------------------------------------
(* A deferred turn is left behind only by a task cancelled before its      *)
(* first step.                                                             *)

(* Steps that take nothing off the bus, end no task and defer nothing.     *)
LEMMA DeferredKept ==
  ASSUME DeferredNotStranded, deferred' = deferred, skipped' = skipped,
         ToSet(inbound) \subseteq ToSet(inbound'),
         \A x \in Bus : phase[x] # "none" => phase'[x] # "none"
  PROVE  DeferredNotStranded'
<1>1. \A s \in Sessions : Tasks(s) \subseteq Tasks(s)'
  BY DEF Tasks
<1> QED BY <1>1 DEF DeferredNotStranded

(* The deferred turn that is next goes to the bus when a task ends.        *)
LEMMA TaskEndsDeferred ==
  ASSUME IInv, DeferredNotStranded, NEW m \in Bus,
         phase' = [phase EXCEPT ![m] = "none"], DropDeferred(SessionOf[m]),
         NEW back \in Seq(Bus), inbound' = inbound \o back \o NextDeferred(SessionOf[m]),
         skipped' = skipped \ {SessionOf[m]}
  PROVE  DeferredNotStranded'
<1> DEFINE s == SessionOf[m]  next == NextDeferred(s)
<1>1. /\ TypeOK /\ PlaceInv /\ m \in Msgs /\ s \in Sessions /\ inbound \in Seq(Bus)
  BY Kinds DEF IInv, TypeOK
<1>2. next \in Seq(Bus) /\ ToSet(next) \subseteq ToSet(deferred[s])
  BY <1>1, NextDeferredFacts
<1>3. /\ ToSet(deferred[s]) = ToSet(deferred'[s]) \cup ToSet(next)
      /\ \A t \in Sessions : t # s => deferred'[t] = deferred[t]
  BY <1>1, NextDeferredSplits
<1>4. deferred[s] # <<>> => ToSet(next) # {}
  BY <1>1 DEF NextDeferred, ToSet
<1>5. deferred[s] = <<>> => deferred'[s] = <<>>
  BY <1>1 DEF NextDeferred, DropDeferred, TypeOK
<1> HIDE DEF next
<1>6. ToSet(inbound') = ToSet(inbound) \cup ToSet(back) \cup ToSet(next)
  <2> DEFINE half == inbound \o back
  <2>1. half \in Seq(Bus) /\ ToSet(half) = ToSet(inbound) \cup ToSet(back)
    BY <1>1, ConcatFacts
  <2> HIDE DEF half
  <2>2. ToSet(half \o next) = ToSet(half) \cup ToSet(next)
    BY <1>2, <2>1, ConcatFacts
  <2> QED BY <2>1, <2>2 DEF half, next
<1>7. \A x \in Bus : x # m => phase'[x] = phase[x]
  BY <1>1, Kinds DEF TypeOK
<1> SUFFICES ASSUME NEW t \in Sessions, deferred'[t] # <<>>
             PROVE  \/ Tasks(t)' # {}
                    \/ \E a \in Autos \cap ToSet(inbound') : SessionOf[a] = t
                    \/ t \in skipped'
  BY DEF DeferredNotStranded
<1>8. CASE t = s
  <2>1. PICK a \in ToSet(next) : TRUE
    BY <1>4, <1>5, <1>8
  <2>2. a \in Autos /\ SessionOf[a] = s
    BY <1>1, <1>2, <2>1, DeferredFacts
  <2> QED BY <1>6, <1>8, <2>2
<1>9. CASE t # s
  <2>1. Tasks(t)' = Tasks(t)
    BY <1>7, <1>9 DEF Tasks
  <2>2. deferred[t] # <<>>
    BY <1>3, <1>9
  <2> QED BY <1>6, <1>9, <2>1, <2>2 DEF DeferredNotStranded
<1> QED BY <1>8, <1>9

(* One that had no first step publishes nothing.                           *)
LEMMA StartCancelledDeferred ==
  ASSUME IInv, DeferredNotStranded, StartCancelled
  PROVE  DeferredNotStranded'
<1>1. PICK m \in Bus : m = Head(ready)
  BY HeadTailFacts DEF StartCancelled, IInv, TypeOK
<1>2. /\ m \in Msgs /\ SessionOf[m] \in Sessions
      /\ skipped' = skipped \cup {SessionOf[m]} /\ UNCHANGED <<inbound, deferred>>
      /\ \A x \in Bus : x # m => phase'[x] = phase[x]
  BY <1>1, Kinds DEF StartCancelled, autoVars, IInv, TypeOK
<1> SUFFICES ASSUME NEW t \in Sessions, deferred[t] # <<>>, t # SessionOf[m]
             PROVE  \/ Tasks(t)' # {}
                    \/ \E a \in Autos \cap ToSet(inbound) : SessionOf[a] = t
                    \/ t \in skipped'
  BY <1>2 DEF DeferredNotStranded
<1>3. Tasks(t)' = Tasks(t)
  BY <1>2 DEF Tasks
<1> QED BY <1>2, <1>3 DEF DeferredNotStranded

LEMMA ConsumeDeferred ==
  ASSUME IInv, DeferredNotStranded, Consume
  PROVE  DeferredNotStranded'
<1>0. PICK m \in Bus : m = Head(inbound)
  BY ConsumeFacts
<1> DEFINE s == SessionOf[m]
<1>1. /\ m \in Msgs /\ s \in Sessions /\ phase[m] = "none"
      /\ ToSet(inbound) = ToSet(inbound') \cup {m} /\ skipped' = skipped
  <2>1. inbound \in Seq(Bus) /\ inbound # <<>> /\ inbound' = Tail(inbound)
    BY DEF Consume, IInv, TypeOK
  <2>2. ToSet(inbound) = ToSet(Tail(inbound)) \cup {Head(inbound)}
    BY <2>1, ConsFacts
  <2> QED BY <1>0, <2>1, <2>2, ConsumeFacts DEF Consume, stopVars
<1>2. CASE Defer(m)
  <2>1. /\ m \in Autos /\ registered[s] # None
        /\ deferred' = [deferred EXCEPT ![s] = Append(@, m)] /\ phase' = phase
    BY <1>2 DEF Defer, IsAutomation, taskVars
  <2>2. registered[s] \in Tasks(s)
    <3>1. registered[s] \in Bus
      BY <1>1, <2>1 DEF IInv, TypeOK
    <3>2. registered[s] \in Turns(s)
      BY <1>1, <3>1 DEF IInv, QueueInv, PendingQueueOwned
    <3> QED BY <3>1, <3>2 DEF Turns, Tasks, Live
  <2>3. \A t \in Sessions : Tasks(t)' = Tasks(t)
    BY <2>1 DEF Tasks
  <2>4. \A t \in Sessions : t # s => deferred'[t] = deferred[t]
    BY <1>1, <2>1 DEF IInv, TypeOK
  <2> QED BY <1>1, <2>2, <2>3, <2>4 DEF DeferredNotStranded
<1>3. CASE Inject(m)
  <2>1. m \notin Autos /\ deferred' = deferred /\ phase' = phase
    BY <1>3 DEF Inject, IsAutomation, taskVars
  <2>2. \A t \in Sessions : Tasks(t)' = Tasks(t)
    BY <2>1 DEF Tasks
  <2> QED BY <1>1, <2>1, <2>2 DEF DeferredNotStranded
<1>4. CASE Spawn(m)
  <2>1. deferred' = deferred /\ phase' = [phase EXCEPT ![m] = "ready"]
    BY <1>4 DEF Spawn
  <2>2. phase'[m] = "ready" /\ \A x \in Msgs : x # m => phase'[x] = phase[x]
    BY <1>1, <2>1 DEF IInv, TypeOK
  <2>3. \A t \in Sessions : Tasks(t) \subseteq Tasks(t)'
    BY <1>1, <2>2, Kinds DEF Tasks
  <2>4. m \in Tasks(s)'
    BY <2>2 DEF Tasks
  <2> SUFFICES ASSUME NEW t \in Sessions, deferred[t] # <<>>
               PROVE  \/ Tasks(t)' # {}
                      \/ \E a \in Autos \cap ToSet(inbound') : SessionOf[a] = t
                      \/ t \in skipped'
    BY <2>1 DEF DeferredNotStranded
  <2> QED BY <1>1, <2>3, <2>4 DEF DeferredNotStranded
<1> QED BY <1>0, <1>2, <1>3, <1>4 DEF Consume

LEMMA StepDeferred ==
  ASSUME IInv, DeferredNotStranded, [Next]_vars
  PROVE  DeferredNotStranded'
<1>0. /\ phase \in [Msgs -> Phases] /\ inbound \in Seq(Bus)
      /\ Bus \subseteq Msgs /\ Bus \cap Directs = {}
  BY Kinds DEF IInv, TypeOK
<1>1. ASSUME NEW x \in Bus, inbound' = Append(inbound, x), UNCHANGED <<taskVars, deferred, stopVars>>
      PROVE  DeferredNotStranded'
  <2>1. ToSet(inbound) \subseteq ToSet(inbound')
    BY <1>0, <1>1, AppendFacts
  <2> QED BY <1>1, <2>1, DeferredKept DEF taskVars, stopVars
<1>2. ASSUME NEW u \in Users, Publish(u) PROVE DeferredNotStranded'
  BY <1>1, <1>2, Kinds DEF Publish, autoVars
<1>3. ASSUME NEW a \in Autos, Submit(a) PROVE DeferredNotStranded'
  BY <1>1, <1>3, Kinds DEF Submit
<1>4. ASSUME NEW d \in Directs, CallDirect(d) \/ DirectWakes(d) \/ DirectEnds(d) PROVE DeferredNotStranded'
  <2>1. \A x \in Bus : phase'[x] = phase[x]
    BY <1>0, <1>4 DEF CallDirect, DirectWakes, DirectEnds
  <2>2. UNCHANGED <<inbound, deferred, skipped>>
    BY <1>4 DEF CallDirect, DirectWakes, DirectEnds, autoVars, stopVars
  <2> QED BY <2>1, <2>2, DeferredKept
<1>5. ASSUME NEW s \in Sessions, StopBegins(s) PROVE DeferredNotStranded'
  BY <1>5, DeferredKept DEF StopBegins, taskVars, autoVars
<1>6. CASE Consume
  BY <1>6, ConsumeDeferred
<1>7. CASE StopEnds
  BY <1>7, DeferredKept DEF StopEnds, taskVars, autoVars
<1>8. ASSUME NEW m \in Bus, NEW p \in Phases \ {"none"},
             phase' = [phase EXCEPT ![m] = p], UNCHANGED <<inbound, deferred, skipped>>
      PROVE  DeferredNotStranded'
  <2>1. \A x \in Bus : phase[x] # "none" => phase'[x] # "none"
    BY <1>0, <1>8
  <2> QED BY <1>8, <2>1, DeferredKept
<1>9. CASE NewTask
  <2>1. CASE TaskStarts
    <3>1. PICK m \in Bus : m = Head(ready)
      BY <2>1, HeadTailFacts DEF TaskStarts, IInv, TypeOK
    <3>2. /\ UNCHANGED <<inbound, deferred, skipped>>
          /\ \E p \in {"lock", "gate", "running"} : phase' = [phase EXCEPT ![m] = p]
      BY <2>1, <3>1 DEF TaskStarts, EnterGate, EnterTurn, autoVars, stopVars
    <3> QED BY <1>8, <3>2 DEF Phases, Live
  <2> QED BY <1>9, <2>1, StartCancelledDeferred DEF NewTask
<1>10. ASSUME NEW m \in Bus, Wakes(m) PROVE DeferredNotStranded'
  <2>1. /\ UNCHANGED <<inbound, deferred, skipped>>
        /\ phase' = [phase EXCEPT ![m] = "running"] \/ phase' = [phase EXCEPT ![m] = "gate"]
    BY <1>10 DEF Wakes, LockWakes, GateWakes, EnterGate, EnterTurn, autoVars, stopVars
  <2> QED BY <1>8, <2>1 DEF Phases, Live
<1>11. ASSUME NEW m \in Bus, TurnStep(m) PROVE DeferredNotStranded'
  <2>1. CASE DrainPending(m)
    BY <2>1, DeferredKept DEF DrainPending, taskVars, autoVars, stopVars
  <2>2. CASE RunnerStops(m) \/ ContinueTurn(m)
    <3>1. /\ UNCHANGED <<inbound, deferred, skipped>>
          /\ phase' = [phase EXCEPT ![m] = "finishing"] \/ phase' = [phase EXCEPT ![m] = "blocked"]
      BY <2>2 DEF RunnerStops, ContinueTurn, autoVars, stopVars
    <3> QED BY <1>8, <3>1 DEF Phases, Live
  <2>3. ASSUME NEW how, NEW outcome, EndTurn(m, how, outcome)
        PROVE  DeferredNotStranded'
    <3>1. queue[m] \in Seq(Bus)
      BY DEF IInv, TypeOK
    <3> QED BY <2>3, <3>1, TaskEndsDeferred DEF EndTurn, Leftovers
  <2>4. CASE TurnReturns(m) \/ TurnFails(m) \/ TurnCancelled(m)
    BY <2>3, <2>4 DEF TurnReturns, TurnFails, TurnCancelled
  <2>5. CASE WaitCancelled(m)
    <3>1. <<>> \in Seq(Bus) /\ inbound \o <<>> = inbound
      BY <1>0
    <3> QED BY <2>5, <3>1, TaskEndsDeferred DEF WaitCancelled
  <2> QED BY <1>11, <2>1, <2>2, <2>4, <2>5 DEF TurnStep
<1>12. CASE UNCHANGED vars
  BY <1>12, DeferredKept DEF vars, taskVars, autoVars, stopVars
<1> QED BY <1>2, <1>3, <1>4, <1>5, <1>6, <1>7, <1>9, <1>10, <1>11, <1>12
        DEF Next, Environment, DirectStep

(* A deferred automation turn has something left that will publish it,     *)
(* however run(), tasks and /stop interleave, unless the latest task of    *)
(* its session to end never had its first step.                            *)
THEOREM DeferredTurnsReachable == Spec => []DeferredNotStranded
<1>1. Init => DeferredNotStranded
  BY Kinds DEF Init, DeferredNotStranded
<1>2. IInv /\ DeferredNotStranded /\ [Next]_vars => DeferredNotStranded'
  BY StepDeferred
<1> QED BY <1>1, <1>2, InductiveInvariant, PTL DEF Spec
=============================================================================
