----------------------- MODULE ChannelDeliveryProofs -----------------------
(***************************************************************************)
(* Machine-checked proofs about ChannelDelivery, for every set of          *)
(* sessions and chats and every number of streams, pieces, waiting         *)
(* messages, retries and faults: what the user sees of an answer is in     *)
(* order and whole, and no answer is dropped as a duplicate that was not   *)
(* given before.                                                           *)
(***************************************************************************)
EXTENDS ChannelDelivery, SequenceTheorems, WellFoundedInduction, TLAPS

Texts == Answers \cup {Apology}

(***************************************************************************)
(* Streams and messages.                                                   *)
(***************************************************************************)
LEMMA StreamFacts ==
  ASSUME NEW id \in Streams
  PROVE  /\ id[1] \in Talkers /\ id[2] \in 1 .. LastStream[id[1]]
         /\ id[2] \in Nat /\ id[2] >= 1 /\ id = <<id[1], id[2]>>
         /\ ChatOf[id[1]] \in Chats
<1>1. PICK s \in Talkers : id \in {s} \X (1 .. LastStream[s])
  BY DEF Streams
<1>2. LastStream[s] \in Nat /\ ChatOf \in [Talkers -> Chats]
  BY <1>1, DeliveryAssumption
<1>3. id[1] = s /\ id[2] \in 1 .. LastStream[s] /\ id = <<id[1], id[2]>>
  BY <1>1
<1> QED BY <1>1, <1>2, <1>3

LEMMA StreamExists ==
  ASSUME NEW s \in Talkers, NEW n \in 1 .. LastStream[s]
  PROVE  <<s, n>> \in Streams
BY DEF Streams

LEMMA PiecesAreNumbers == Pieces \subseteq Nat \ {0}
<1> SUFFICES ASSUME NEW p \in Pieces PROVE p \in Nat \ {0}
  OBVIOUS
<1>1. PICK s \in Talkers : p \in 1 .. LastPiece[s]
  BY DEF Pieces
<1>2. LastPiece[s] \in Nat
  BY <1>1, DeliveryAssumption
<1> QED BY <1>1, <1>2

LEMMA SomePieces ==
  ASSUME NEW id \in Streams
  PROVE  LastPiece[id[1]] \in Nat \ {0} /\ 1 .. LastPiece[id[1]] \subseteq Pieces
BY StreamFacts, DeliveryAssumption DEF Pieces

(* What waits.                                                             *)
IsWaiting(msg) ==
  /\ msg.kind \in {"delta", "end", "merge", "reply", "followup"} /\ msg.id \in Streams
  /\ msg.kind = "delta" => msg.text \in [{1} -> Pieces]
  /\ msg.kind \in {"end", "merge"} => msg.text = <<>>
  /\ IsPlain(msg) => msg.text \in [{1} -> Texts]

LEMMA OnePieceFacts ==
  ASSUME NEW msg \in OnePiece
  PROVE  IsWaiting(msg) /\ (msg.kind = "delta" => msg.text[1] \in Pieces)
BY DEF OnePiece, Messages, IsWaiting, IsPlain, Texts

(* What is sent.                                                           *)
LEMMA InHandFacts ==
  ASSUME NEW msg \in InHand
  PROVE  /\ msg.kind \in {"delta", "end", "merge", "reply", "followup"} /\ msg.id \in Streams
         /\ msg.kind = "delta" => msg.text \in Seq(Pieces) \ {<<>>}
         /\ msg.kind \in {"end", "merge"} => msg.text = <<>>
         /\ IsPlain(msg) => msg.text \in [{1} -> Texts]
         /\ DOMAIN msg = {"kind", "id", "text"}
BY DEF InHand, Messages, IsPlain, Texts

LEMMA MessagesMade ==
  ASSUME NEW id \in Streams
  PROVE  /\ \A p \in Pieces : DeltaOf(id, <<p>>) \in OnePiece
         /\ \A merge \in BOOLEAN : EndOf(id, merge) \in OnePiece
         /\ \A answer \in Texts :
              ReplyTo(id, answer) \in OnePiece /\ FollowUpOn(id, answer) \in OnePiece
<1>1. ASSUME NEW S, NEW x \in S PROVE <<x>> \in [{1} -> S]
  <2>1. <<x>> = [i \in {1} |-> x]
    OBVIOUS
  <2> QED BY <2>1
<1>2. \A p \in Pieces : <<p>> \in [{1} -> Pieces]
  BY <1>1
<1>3. \A answer \in Texts : <<answer>> \in [{1} -> Texts]
  BY <1>1
<1> QED BY <1>2, <1>3 DEF OnePiece, Messages, DeltaOf, EndOf, ReplyTo, FollowUpOn, Texts

(* A text of one element is that element.                                  *)
LEMMA OneElement ==
  ASSUME NEW S, NEW text \in [{1} -> S]
  PROVE  text = <<text[1]>> /\ text[1] \in S /\ text \in Seq(S) /\ Len(text) = 1
<1>1. {1} = 1 .. 1
  OBVIOUS
<1>2. text \in [1 .. 1 -> S]
  BY <1>1
<1>3. text \in Seq(S)
  BY <1>2, SeqDef
<1>4. Len(text) = 1
  BY <1>2, <1>3
<1>5. <<text[1]>> \in Seq(S) /\ Len(<<text[1]>>) = 1 /\ <<text[1]>>[1] = text[1]
  BY <1>2
<1> QED BY <1>2, <1>3, <1>4, <1>5, SeqEqual

(***************************************************************************)
(* The queue, with what was kept aside in front.                           *)
(***************************************************************************)
LEMMA WaitingFacts ==
  ASSUME DeliveryTypeOK
  PROVE  /\ Waiting \in Seq(OnePiece) /\ Len(Waiting) = Len(aside) + Len(outbound)
         /\ Len(Waiting) \in Nat /\ Len(aside) \in Nat /\ Len(outbound) \in Nat
         /\ \A i \in 1 .. Len(Waiting) : Waiting[i] \in OnePiece
         /\ \A i \in 1 .. Len(Waiting) :
              Waiting[i] = IF i <= Len(aside) THEN aside[i] ELSE outbound[i - Len(aside)]
<1>1. aside \in Seq(OnePiece) /\ outbound \in Seq(OnePiece)
  BY DEF DeliveryTypeOK
<1>2. Len(aside) \in Nat /\ Len(outbound) \in Nat
  BY <1>1, LenProperties
<1>3. /\ Waiting \in Seq(OnePiece) /\ Len(Waiting) = Len(aside) + Len(outbound)
      /\ \A i \in 1 .. Len(aside) + Len(outbound) :
           Waiting[i] = IF i <= Len(aside) THEN aside[i] ELSE outbound[i - Len(aside)]
  BY <1>1, ConcatProperties DEF Waiting
<1>4. \A i \in 1 .. Len(Waiting) : Waiting[i] \in OnePiece
  BY <1>3, ElementOfSeq
<1> QED BY <1>2, <1>3, <1>4

LEMMA WaitingTypes ==
  ASSUME DeliveryTypeOK, NEW i \in 1 .. Len(Waiting)
  PROVE  /\ i \in Nat /\ i >= 1 /\ IsWaiting(Waiting[i]) /\ Waiting[i].id \in Streams
         /\ Waiting[i].kind = "delta" => Waiting[i].text[1] \in Nat \ {0}
<1>1. i \in Nat /\ i >= 1
  BY WaitingFacts
<1>2. Waiting[i] \in OnePiece
  BY WaitingFacts
<1>3. IsWaiting(Waiting[i]) /\ (Waiting[i].kind = "delta" => Waiting[i].text[1] \in Pieces)
  BY <1>2, OnePieceFacts
<1> QED BY <1>1, <1>3, PiecesAreNumbers DEF IsWaiting

LEMMA TurnTypes ==
  ASSUME DeliveryTypeOK, NEW id \in Streams
  PROVE  /\ turnOf[id[1]].stream \in Nat /\ turnOf[id[1]].live \in BOOLEAN
         /\ turnOf[id[1]].open \in BOOLEAN
         /\ wrote[id] \in Nat /\ wrote[id] \in 0 .. LastPiece[id[1]]
<1>1. id[1] \in Talkers /\ LastStream[id[1]] \in Nat /\ LastPiece[id[1]] \in Nat
  BY StreamFacts, DeliveryAssumption
<1> QED BY <1>1 DEF DeliveryTypeOK

(* The message in hand.                                                    *)
LEMMA HandFacts ==
  ASSUME DeliveryTypeOK, hand # <<>>
  PROVE  Msg \in InHand /\ hand = <<Msg>> /\ Len(hand) = 1
<1>1. hand \in Seq(InHand) /\ Len(hand) = 1
  <2> DEFINE n == Len(hand)
  <2>1. hand \in Seq(InHand) /\ n <= 1
    BY DEF DeliveryTypeOK
  <2>2. n \in Nat \ {0}
    BY <2>1, EmptySeq
  <2> HIDE DEF n
  <2>3. n = 1
    BY <2>1, <2>2
  <2> QED BY <2>1, <2>3 DEF n
<1>2. Msg \in InHand
  BY <1>1, ElementOfSeq DEF Msg
<1>3. <<Msg>> \in Seq(InHand) /\ Len(<<Msg>>) = 1 /\ <<Msg>>[1] = hand[1]
  BY <1>2 DEF Msg
<1>4. \A i \in 1 .. Len(hand) : hand[i] = <<Msg>>[i]
  BY <1>1, <1>3
<1>5. hand = <<Msg>>
  BY <1>1, <1>3, <1>4, SeqEqual
<1> QED BY <1>1, <1>2, <1>5

LEMMA LastFacts ==
  ASSUME NEW text \in Seq(Pieces) \ {<<>>}
  PROVE  /\ Len(text) \in Nat \ {0} /\ LastOf(text) \in Nat \ {0} /\ LastOf(text) \in Pieces
         /\ \A i \in 1 .. Len(text) : text[i] \in Nat \ {0} /\ text[i] \in Pieces
<1>1. Len(text) \in Nat \ {0}
  BY EmptySeq
<1>2. \A i \in 1 .. Len(text) : text[i] \in Pieces
  BY ElementOfSeq
<1>3. Len(text) \in 1 .. Len(text)
  BY <1>1
<1> QED BY <1>1, <1>2, <1>3, PiecesAreNumbers DEF LastOf

(***************************************************************************)
(* What the dispatcher takes: the first message that waits, and the pieces *)
(* of the same stream right behind it.                                     *)
(***************************************************************************)
SomeWait == aside # <<>> \/ outbound # <<>>

LEMMA FirstFacts ==
  ASSUME DeliveryTypeOK, SomeWait
  PROVE  /\ Len(Waiting) \in Nat \ {0} /\ First = Waiting[1]
         /\ Behind \in Seq(OnePiece) /\ Len(Behind) = Len(Waiting) - 1
         /\ Len(Behind) <= OutboundCap
         /\ \A i \in 1 .. Len(Behind) : Behind[i] = Waiting[i + 1]
<1>1. /\ aside \in Seq(OnePiece) /\ outbound \in Seq(OnePiece)
      /\ Len(aside) <= 1 /\ Len(outbound) <= OutboundCap /\ OutboundCap \in Nat
  BY DeliveryAssumption DEF DeliveryTypeOK
<1>2. Len(aside) \in Nat /\ Len(outbound) \in Nat
  BY <1>1, LenProperties
<1>3. CASE aside # <<>>
  <2>1. Len(aside) \in Nat \ {0} /\ Head(aside) = aside[1]
    BY <1>1, <1>3, EmptySeq
  <2> DEFINE n == Len(aside)
  <2>2. n = 1
    <3>1. n <= 1 /\ n \in Nat \ {0}
      BY <1>1, <2>1
    <3> HIDE DEF n
    <3> QED BY <3>1
  <2>3. First = Waiting[1] /\ Len(Waiting) = Len(outbound) + 1
    BY <1>1, <1>3, <2>1, <2>2, WaitingFacts DEF First
  <2>4. ASSUME NEW i \in 1 .. Len(outbound) PROVE outbound[i] = Waiting[i + 1]
    BY <1>2, <2>2, <2>3, WaitingFacts
  <2> QED BY <1>1, <1>2, <1>3, <2>3, <2>4 DEF Behind
<1>4. CASE aside = <<>>
  <2>1. Len(outbound) \in Nat \ {0} /\ Head(outbound) = outbound[1]
    BY <1>1, <1>4, EmptySeq DEF SomeWait
  <2>2. /\ Tail(outbound) \in Seq(OnePiece) /\ Len(Tail(outbound)) = Len(outbound) - 1
        /\ \A i \in 1 .. Len(Tail(outbound)) : Tail(outbound)[i] = outbound[i + 1]
    BY <1>1, <1>4, HeadTailProperties DEF SomeWait
  <2>3. Waiting = outbound
    BY <1>1, <1>4, ConcatEmptySeq DEF Waiting
  <2> QED BY <1>1, <1>4, <2>1, <2>2, <2>3 DEF First, Behind
<1> QED BY <1>3, <1>4

LEMMA RunLengthFacts ==
  ASSUME DeliveryTypeOK, SomeWait
  PROVE  /\ RunLength \in 0 .. Len(Behind)
         /\ First.kind # "delta" => RunLength = 0
         /\ First.kind = "delta" =>
              \A i \in 1 .. RunLength : Behind[i].kind = "delta" /\ Behind[i].id = First.id
<1>1. Len(Behind) \in Nat
  BY FirstFacts
<1>2. CASE First.kind # "delta"
  BY <1>1, <1>2 DEF RunLength
<1>3. CASE First.kind = "delta"
  <2> DEFINE m       == Len(Behind)
             same(n) == \A i \in 1 .. n : Behind[i].kind = "delta" /\ Behind[i].id = First.id
             others  == {i \in 1 .. m : ~(Behind[i].kind = "delta" /\ Behind[i].id = First.id)}
             fits(n) == same(n) /\ (n < m => ~same(n + 1))
  <2>1. m \in Nat
    BY <1>1
  <2>2. RunLength = CHOOSE n \in 0 .. m : fits(n)
    BY <1>3 DEF RunLength
  <2>3. \E n \in 0 .. m : fits(n)
    <3>1. CASE others = {}
      <4>1. m \in 0 .. m /\ same(m)
        BY <2>1, <3>1
      <4> QED BY <2>1, <4>1
    <3>2. CASE others # {}
      <4>1. others \subseteq Nat
        BY <2>1
      <4>2. PICK x \in others : \A y \in others : ~ (<<y, x>> \in OpToRel(<, Nat))
        <5> HIDE DEF others
        <5> QED BY <3>2, <4>1, NatLessThanWellFounded, WFMin
      <4>3. x \in Nat /\ x \in 1 .. m /\ x - 1 \in 0 .. m
        BY <2>1
      <4>4. \A y \in others : ~(y < x)
        BY <4>1, <4>2, <4>3 DEF OpToRel
      <4>5. ASSUME NEW i \in 1 .. x - 1
            PROVE Behind[i].kind = "delta" /\ Behind[i].id = First.id
        <5>1. i \in 1 .. m /\ i < x
          BY <2>1, <4>3
        <5> QED BY <4>4, <5>1
      <4>6. same(x - 1)
        BY <4>5
      <4>7. (x - 1) + 1 = x /\ x \in 1 .. x
        BY <4>3
      <4>8. ~same(x)
        BY <4>7
      <4>9. ~same((x - 1) + 1)
        <5> HIDE DEF same
        <5> QED BY <4>7, <4>8
      <4> QED BY <4>3, <4>6, <4>9
    <3> QED BY <3>1, <3>2
  <2>4. RunLength \in 0 .. m /\ fits(RunLength)
    <3> HIDE DEF fits, m
    <3> QED BY <2>2, <2>3
  <2> QED BY <1>3, <2>4
<1> QED BY <1>2, <1>3

(* The message that is sent for them.                                      *)
LEMMA CoalescedFacts ==
  ASSUME DeliveryTypeOK, SomeWait
  PROVE  /\ Coalesced \in InHand
         /\ Coalesced.kind = Waiting[1].kind /\ Coalesced.id = Waiting[1].id
         /\ Waiting[1].kind # "delta" => Coalesced.text = Waiting[1].text
         /\ Waiting[1].kind = "delta" =>
              /\ Len(Coalesced.text) = RunLength + 1
              /\ \A i \in 1 .. RunLength + 1 : Coalesced.text[i] = Waiting[i].text[1]
<1>1. /\ First = Waiting[1] /\ Len(Waiting) \in Nat \ {0} /\ Len(Behind) = Len(Waiting) - 1
      /\ \A i \in 1 .. Len(Behind) : Behind[i] = Waiting[i + 1]
  BY FirstFacts
<1>2. RunLength \in Nat /\ RunLength <= Len(Behind)
  BY <1>1, RunLengthFacts
<1>3. First \in OnePiece
  BY <1>1, WaitingFacts
<1>4. IsWaiting(First) /\ DOMAIN First = {"kind", "id", "text"}
  BY <1>3, OnePieceFacts DEF OnePiece, Messages
<1> DEFINE rest == [i \in 1 .. RunLength |-> Behind[i].text[1]]
<1>5. /\ Coalesced.kind = First.kind /\ Coalesced.id = First.id
      /\ Coalesced.text = First.text \o rest
      /\ Coalesced = [kind |-> First.kind, id |-> First.id, text |-> First.text \o rest]
  <2> DEFINE first == First  whole == First.text \o rest
  <2>1. Coalesced = [first EXCEPT !.text = whole]
    BY DEF Coalesced
  <2>2. first \in OnePiece
    BY <1>3
  <2> HIDE DEF first, whole
  <2>3. /\ Coalesced.kind = first.kind /\ Coalesced.id = first.id /\ Coalesced.text = whole
        /\ Coalesced = [kind |-> first.kind, id |-> first.id, text |-> whole]
    BY <2>1, <2>2 DEF OnePiece, Messages
  <2> QED BY <2>3 DEF first, whole
<1> HIDE DEF rest
<1>6. CASE First.kind # "delta"
  <2>1. RunLength = 0
    BY <1>6, RunLengthFacts
  <2>2. rest = <<>>
    BY <2>1 DEF rest
  <2>3. First.text = <<>> \/ First.text \in [{1} -> Texts]
    BY <1>4, <1>6 DEF IsWaiting, IsPlain
  <2>4. First.text \in Seq(Texts)
    <3>1. <<>> \in Seq(Texts)
      BY EmptySeq
    <3>2. CASE First.text \in [{1} -> Texts]
      BY <3>2, OneElement
    <3> QED BY <2>3, <3>1, <3>2
  <2>5. Coalesced.text = First.text
    BY <1>5, <2>2, <2>4, ConcatEmptySeq
  <2>6. Coalesced \in InHand
    BY <1>4, <1>5, <1>6, <2>5 DEF InHand, Messages, IsWaiting, IsPlain, Texts
  <2> QED BY <1>1, <1>5, <1>6, <2>5, <2>6
<1>7. CASE First.kind = "delta"
  <2>1. ASSUME NEW i \in 1 .. RunLength
        PROVE  i + 1 \in 1 .. Len(Waiting) /\ Behind[i] = Waiting[i + 1]
               /\ Waiting[i + 1].kind = "delta"
    <3>1. i \in 1 .. Len(Behind) /\ i + 1 \in 1 .. Len(Waiting)
      BY <1>1, <1>2
    <3> QED BY <1>1, <1>7, <3>1, RunLengthFacts
  <2>2. ASSUME NEW i \in 1 .. RunLength PROVE Behind[i].text[1] \in Pieces
    BY <2>1, WaitingFacts, OnePieceFacts
  <2>3. rest \in [1 .. RunLength -> Pieces]
    BY <2>2 DEF rest
  <2>4. rest \in Seq(Pieces) /\ Len(rest) = RunLength
    BY <1>2, <2>3, SeqDef
  <2>5. First.text \in [{1} -> Pieces]
    BY <1>4, <1>7 DEF IsWaiting
  <2>6. First.text \in Seq(Pieces) /\ Len(First.text) = 1
    BY <2>5, OneElement
  <2>7. /\ Coalesced.text \in Seq(Pieces) /\ Len(Coalesced.text) = RunLength + 1
        /\ \A i \in 1 .. 1 + RunLength : Coalesced.text[i] =
             IF i <= 1 THEN First.text[i] ELSE rest[i - 1]
    <3> DEFINE p == First.text
    <3>1. p \in Seq(Pieces) /\ rest \in Seq(Pieces)
      BY <2>4, <2>6
    <3> HIDE DEF p
    <3>2. /\ p \o rest \in Seq(Pieces) /\ Len(p \o rest) = Len(p) + Len(rest)
          /\ \A i \in 1 .. Len(p) + Len(rest) : (p \o rest)[i] =
               IF i <= Len(p) THEN p[i] ELSE rest[i - Len(p)]
      BY <3>1, ConcatProperties
    <3>3. Len(p) = 1 /\ Len(rest) = RunLength
      BY <2>4, <2>6 DEF p
    <3>4. Coalesced.text = p \o rest
      BY <1>5 DEF p
    <3> QED BY <1>2, <3>2, <3>3, <3>4 DEF p
  <2>8. Coalesced.text # <<>>
    <3>1. Len(<<>>) = 0 /\ RunLength + 1 # 0
      BY <1>2
    <3> QED BY <2>7, <3>1
  <2>9. Coalesced \in InHand
    BY <1>4, <1>5, <1>7, <2>7, <2>8 DEF InHand, Messages, IsWaiting
  <2>10. ASSUME NEW i \in 1 .. RunLength + 1 PROVE Coalesced.text[i] = Waiting[i].text[1]
    <3>1. CASE i = 1
      BY <1>1, <1>2, <2>7, <3>1
    <3>2. CASE i # 1
      <4>1. i \in 1 .. 1 + RunLength /\ ~(i <= 1) /\ i - 1 \in 1 .. RunLength /\ (i - 1) + 1 = i
        BY <1>2, <3>2
      <4>2. Coalesced.text[i] = rest[i - 1]
        BY <2>7, <4>1
      <4>3. rest[i - 1] = Behind[i - 1].text[1]
        BY <4>1 DEF rest
      <4>4. Behind[i - 1] = Waiting[(i - 1) + 1]
        BY <2>1, <4>1
      <4> QED BY <4>1, <4>2, <4>3, <4>4
    <3> QED BY <3>1, <3>2
  <2> QED BY <1>1, <1>5, <1>7, <2>7, <2>9, <2>10
<1> QED BY <1>6, <1>7

(* Taking drops a beginning of the queue, of one stream.                   *)
Taken == RunLength + 1
LEMMA TakeFacts ==
  ASSUME DeliveryTypeOK, Take
  PROVE  /\ Taken \in 1 .. Len(Waiting)
         /\ aside' \in Seq(OnePiece) /\ Len(aside') <= 1
         /\ outbound' \in Seq(OnePiece) /\ Len(outbound') <= OutboundCap
         /\ Len(Waiting') = Len(Waiting) - Taken
         /\ \A i \in 1 .. Len(Waiting') : Waiting'[i] = Waiting[i + Taken]
         /\ \A i \in 1 .. Taken : Waiting[i].id = Waiting[1].id
         /\ Waiting[1].kind # "delta" => Taken = 1
         /\ Waiting[1].kind = "delta" => \A i \in 1 .. Taken : Waiting[i].kind = "delta"
<1>1. SomeWait
  BY DEF Take, SomeWait
<1>2. /\ Len(Waiting) \in Nat \ {0} /\ First = Waiting[1]
      /\ Behind \in Seq(OnePiece) /\ Len(Behind) = Len(Waiting) - 1
      /\ Len(Behind) <= OutboundCap
      /\ \A i \in 1 .. Len(Behind) : Behind[i] = Waiting[i + 1]
  BY <1>1, FirstFacts
<1> DEFINE r == RunLength
           w == Behind
           m == Len(Behind)
           b == IF First.kind = "delta" /\ RunLength < Len(Behind) THEN 1 ELSE 0
<1>3. r \in 0 .. m /\ m \in Nat /\ m <= OutboundCap /\ OutboundCap \in Nat
  BY <1>1, <1>2, RunLengthFacts, DeliveryAssumption
<1>4. b \in {0, 1} /\ r + b <= m
  BY <1>3
<1>5. aside' = SubSeq(w, r + 1, r + b) /\ outbound' = SubSeq(w, r + b + 1, m)
  BY DEF Take
<1>6. w \in Seq(OnePiece) /\ Len(w) = m
  BY <1>2
<1>6a. m = Len(Waiting) - 1
  BY <1>2
<1> HIDE DEF r, b, w, m
<1>7. /\ aside' \in Seq(OnePiece) /\ Len(aside') = b
      /\ \A i \in 1 .. b : aside'[i] = w[r + i]
  <2>1. r + 1 \in Int /\ r + b \in Int
    BY <1>3, <1>4
  <2>2. \A i \in r + 1 .. r + b : w[i] \in OnePiece
    BY <1>3, <1>4, <1>6, ElementOfSeq
  <2>3. /\ aside' \in Seq(OnePiece)
        /\ Len(aside') = IF r + 1 <= r + b THEN (r + b) - (r + 1) + 1 ELSE 0
        /\ \A i \in 1 .. (r + b) - (r + 1) + 1 : aside'[i] = w[(r + 1) + i - 1]
    BY <1>5, <2>1, <2>2, SubSeqProperties
  <2>4. (r + b) - (r + 1) + 1 = b /\ \A i \in 1 .. b : (r + 1) + i - 1 = r + i
    BY <1>3, <1>4
  <2>5. Len(aside') = b
    BY <1>3, <1>4, <2>3
  <2>6. ASSUME NEW i \in 1 .. b PROVE aside'[i] = w[r + i]
    BY <2>3, <2>4
  <2> QED BY <2>3, <2>5, <2>6
<1>8. /\ outbound' \in Seq(OnePiece) /\ Len(outbound') = m - r - b
      /\ \A i \in 1 .. m - r - b : outbound'[i] = w[r + b + i]
  <2>1. r + b + 1 \in Int /\ m \in Int
    BY <1>3, <1>4
  <2>2. \A i \in r + b + 1 .. m : w[i] \in OnePiece
    BY <1>3, <1>4, <1>6, ElementOfSeq
  <2>3. /\ outbound' \in Seq(OnePiece)
        /\ Len(outbound') = IF r + b + 1 <= m THEN m - (r + b + 1) + 1 ELSE 0
        /\ \A i \in 1 .. m - (r + b + 1) + 1 : outbound'[i] = w[(r + b + 1) + i - 1]
    BY <1>5, <2>1, <2>2, SubSeqProperties
  <2>4. m - (r + b + 1) + 1 = m - r - b
    BY <1>3, <1>4
  <2>5. Len(outbound') = m - r - b
    BY <1>3, <1>4, <2>3
  <2>6. ASSUME NEW i \in 1 .. m - r - b PROVE outbound'[i] = w[r + b + i]
    <3>1. (r + b + 1) + i - 1 = r + b + i
      BY <1>3, <1>4
    <3> QED BY <2>3, <2>4, <3>1
  <2> QED BY <2>3, <2>5, <2>6
<1>9. /\ Len(Waiting') = m - r
      /\ \A i \in 1 .. m - r : Waiting'[i] = w[r + i]
  <2> DEFINE a == aside'
             o == outbound'
  <2>1. Waiting' = a \o o
    BY DEF Waiting
  <2>2. a \in Seq(OnePiece) /\ o \in Seq(OnePiece) /\ Len(a) = b /\ Len(o) = m - r - b
    BY <1>7, <1>8
  <2>2a. \A i \in 1 .. b : a[i] = w[r + i]
    BY <1>7
  <2>2b. \A i \in 1 .. m - r - b : o[i] = w[r + b + i]
    BY <1>8
  <2> HIDE DEF a, o
  <2>3. /\ Len(a \o o) = b + (m - r - b)
        /\ \A i \in 1 .. b + (m - r - b) :
             (a \o o)[i] = IF i <= b THEN a[i] ELSE o[i - b]
    <3>1. /\ Len(a \o o) = Len(a) + Len(o)
          /\ \A i \in 1 .. Len(a) + Len(o) :
               (a \o o)[i] = IF i <= Len(a) THEN a[i] ELSE o[i - Len(a)]
      BY <2>2, ConcatProperties
    <3> QED BY <2>2, <3>1
  <2>4. b + (m - r - b) = m - r
    BY <1>3, <1>4
  <2>5. ASSUME NEW i \in 1 .. m - r PROVE (a \o o)[i] = w[r + i]
    <3>1. CASE i <= b
      <4>1. i \in 1 .. b
        BY <3>1, <1>4
      <4> QED BY <2>2a, <2>3, <2>4, <3>1, <4>1
    <3>2. CASE ~(i <= b)
      <4>1. i - b \in 1 .. m - r - b /\ r + b + (i - b) = r + i
        BY <3>2, <1>3, <1>4
      <4> QED BY <2>2b, <2>3, <2>4, <3>2, <4>1
    <3> QED BY <3>1, <3>2
  <2> QED BY <2>1, <2>3, <2>4, <2>5
<1>10. Taken = r + 1
  BY DEF Taken, r
<1>10a. \A i \in 1 .. m : w[i] = Waiting[i + 1]
  BY <1>2 DEF w, m
<1>11. Taken \in 1 .. Len(Waiting) /\ m - r = Len(Waiting) - Taken
  BY <1>2, <1>3, <1>6a, <1>10
<1>12. ASSUME NEW i \in 1 .. Len(Waiting') PROVE Waiting'[i] = Waiting[i + Taken]
  <2>1. i \in 1 .. m - r /\ r + i \in 1 .. m /\ (r + i) + 1 = i + Taken
    BY <1>3, <1>9, <1>10
  <2> QED BY <1>9, <1>10a, <2>1
<1>13. First.kind # "delta" => r = 0
  BY <1>1, RunLengthFacts DEF r
<1>14. First.kind = "delta" => \A i \in 1 .. r : w[i].kind = "delta" /\ w[i].id = First.id
  BY <1>1, RunLengthFacts DEF r, w
<1>15. ASSUME NEW i \in 1 .. Taken
       PROVE  /\ Waiting[i].id = Waiting[1].id
              /\ Waiting[1].kind = "delta" => Waiting[i].kind = "delta"
  <2>1. CASE i = 1
    BY <2>1
  <2>2. CASE i # 1
    <3>1. i - 1 \in 1 .. r /\ i - 1 \in 1 .. m /\ (i - 1) + 1 = i /\ r # 0
      BY <1>3, <1>10, <2>2
    <3>2. w[i - 1] = Waiting[i]
      BY <1>10a, <3>1
    <3>3. First.kind = "delta"
      BY <1>13, <3>1
    <3> QED BY <1>2, <1>14, <3>1, <3>2, <3>3
  <2> QED BY <2>1, <2>2
<1>16. First.kind # "delta" => Taken = 1
  BY <1>10, <1>13
<1>17. Len(aside') <= 1
  BY <1>4, <1>7
<1>18. Len(outbound') <= OutboundCap
  BY <1>3, <1>4, <1>8
<1> QED BY <1>2, <1>7, <1>8, <1>9, <1>11, <1>12, <1>15, <1>16, <1>17, <1>18

(***************************************************************************)
(* What a turn publishes comes last.                                       *)
(***************************************************************************)
LEMMA PublishFacts ==
  ASSUME DeliveryTypeOK, NEW msgs \in Seq(OnePiece), Publish(msgs)
  PROVE  /\ outbound' \in Seq(OnePiece) /\ Len(outbound') = Len(outbound) + Len(msgs)
         /\ Len(msgs) \in Nat /\ Len(Waiting') = Len(Waiting) + Len(msgs)
         /\ \A i \in 1 .. Len(Waiting) : i \in 1 .. Len(Waiting') /\ Waiting'[i] = Waiting[i]
         /\ \A i \in 1 .. Len(msgs) :
              /\ Len(Waiting) + i \in 1 .. Len(Waiting')
              /\ Waiting'[Len(Waiting) + i] = msgs[i]
         /\ \A i \in 1 .. Len(Waiting') : i \in 1 .. Len(Waiting) \/
              (i > Len(Waiting) /\ \E j \in 1 .. Len(msgs) : Waiting'[i] = msgs[j])
<1>1. /\ aside \in Seq(OnePiece) /\ outbound \in Seq(OnePiece)
      /\ outbound' = outbound \o msgs /\ aside' = aside
  BY DEF DeliveryTypeOK, Publish
<1>2. outbound' \in Seq(OnePiece) /\ Len(outbound') = Len(outbound) + Len(msgs)
  BY <1>1, ConcatProperties
<1> DEFINE old == Waiting  new == Waiting'
<1>3. new = old \o msgs
  <2>1. new = aside \o (outbound \o msgs)
    BY <1>1 DEF Waiting
  <2> QED BY <1>1, <2>1, ConcatAssociative DEF Waiting
<1>4. old \in Seq(OnePiece) /\ Len(old) \in Nat /\ Len(msgs) \in Nat
  BY WaitingFacts, LenProperties
<1> HIDE DEF old, new
<1>5. /\ Len(new) = Len(old) + Len(msgs)
      /\ \A i \in 1 .. Len(old) + Len(msgs) :
           new[i] = IF i <= Len(old) THEN old[i] ELSE msgs[i - Len(old)]
  BY <1>3, <1>4, ConcatProperties
<1>6. \A i \in 1 .. Len(old) : i \in 1 .. Len(new) /\ new[i] = old[i]
  BY <1>4, <1>5
<1>7. ASSUME NEW i \in 1 .. Len(msgs)
      PROVE  Len(old) + i \in 1 .. Len(new) /\ new[Len(old) + i] = msgs[i]
  <2>1. /\ Len(old) + i \in 1 .. Len(old) + Len(msgs) /\ ~(Len(old) + i <= Len(old))
        /\ (Len(old) + i) - Len(old) = i
    BY <1>4
  <2> QED BY <1>5, <2>1
<1>8. ASSUME NEW i \in 1 .. Len(new), i \notin 1 .. Len(old)
      PROVE  i > Len(old) /\ \E j \in 1 .. Len(msgs) : new[i] = msgs[j]
  <2>1. i > Len(old) /\ i - Len(old) \in 1 .. Len(msgs) /\ Len(old) + (i - Len(old)) = i
    BY <1>4, <1>5, <1>8
  <2> QED BY <1>7, <2>1
<1> QED BY <1>2, <1>4, <1>5, <1>6, <1>7, <1>8 DEF old, new

(* The turns within their bounds.                                          *)
TurnRecords(s) ==
  [live : BOOLEAN, stream : 0 .. LastStream[s], open : BOOLEAN,
   merged : 0 .. LastPiece[s], again : 0 .. LastFollowUp[s]]
TurnsTypeOK ==
  /\ DOMAIN turnOf = Talkers /\ \A s \in Talkers : turnOf[s] \in TurnRecords(s)
  /\ DOMAIN wrote = Streams /\ \A id \in Streams : wrote[id] \in 0 .. LastPiece[id[1]]

LEMMA TurnsTyped == DeliveryTypeOK => TurnsTypeOK
BY DEF DeliveryTypeOK, TurnsTypeOK, TurnRecords

LEMMA OwnTurn ==
  ASSUME DeliveryTypeOK, NEW s \in Talkers
  PROVE  /\ turnOf[s] \in TurnRecords(s)
         /\ turnOf[s].live \in BOOLEAN /\ turnOf[s].open \in BOOLEAN
         /\ turnOf[s].stream \in 0 .. LastStream[s] /\ turnOf[s].stream \in Nat
         /\ turnOf[s].merged \in 0 .. LastPiece[s] /\ turnOf[s].again \in 0 .. LastFollowUp[s]
         /\ StreamOf(s)[1] = s /\ StreamOf(s)[2] = turnOf[s].stream
         /\ turnOf[s].stream > 0 => StreamOf(s) \in Streams
         /\ LastStream[s] \in Nat /\ LastPiece[s] \in Nat /\ LastFollowUp[s] \in Nat
<1>1. LastStream[s] \in Nat /\ LastPiece[s] \in Nat /\ LastFollowUp[s] \in Nat
  BY DeliveryAssumption
<1>2. turnOf[s] \in TurnRecords(s)
  BY TurnsTyped DEF TurnsTypeOK
<1>3. turnOf[s].stream \in 0 .. LastStream[s] /\ turnOf[s].stream \in Nat
  BY <1>1, <1>2 DEF TurnRecords
<1>4. turnOf[s].stream > 0 => turnOf[s].stream \in 1 .. LastStream[s]
  BY <1>1, <1>3
<1> QED BY <1>1, <1>2, <1>3, <1>4, StreamExists DEF TurnRecords, StreamOf

(* A turn that publishes no piece: it may end streams it has, and says so  *)
(* of every stream that got a piece.                                       *)
Quiet(s, msgs) ==
  /\ Publish(msgs) /\ msgs \in Seq(OnePiece) /\ Len(outbound) + Len(msgs) <= OutboundCap
  /\ UNCHANGED wrote /\ TurnsTypeOK' /\ TurnsInv'
  /\ \A i \in 1 .. Len(msgs) :
       /\ msgs[i].id = StreamOf(s) /\ msgs[i].id \in Streams /\ msgs[i].kind # "delta"
       /\ msgs[i].kind = "end" => Ended(msgs[i].id)'
  /\ \A id \in Streams :
       /\ turnOf[id[1]].stream <= turnOf'[id[1]].stream
       /\ Ended(id) => Ended(id)'
       /\ Ended(id)' /\ ~Ended(id) /\ wrote[id] > 0 =>
            \E i \in 1 .. Len(msgs) : msgs[i].kind = "end" /\ msgs[i].id = id

LEMMA QuietFacts ==
  ASSUME DeliveryTypeOK, TurnsInv, NEW s \in Talkers,
         NEW t \in TurnRecords(s), turnOf' = [turnOf EXCEPT ![s] = t], UNCHANGED wrote,
         turnOf[s].stream <= t.stream,
         turnOf[s].stream = t.stream => (t.live => turnOf[s].live),
         t.live => t.stream > 0 /\ (t.open <=> wrote[<<s, t.stream>>] > 0), ~t.live => ~t.open,
         NEW msgs \in Seq(OnePiece), Publish(msgs), Len(outbound) + Len(msgs) <= OutboundCap,
         \A i \in 1 .. Len(msgs) :
            /\ msgs[i].id = StreamOf(s) /\ msgs[i].kind # "delta"
            /\ msgs[i].kind = "end" => t.stream > turnOf[s].stream \/ ~t.live,
         turnOf[s].live /\ (t.stream > turnOf[s].stream \/ ~t.live) /\ turnOf[s].open =>
            \E i \in 1 .. Len(msgs) : msgs[i].kind = "end"
  PROVE  Quiet(s, msgs)
<1>1. /\ DOMAIN turnOf = Talkers /\ turnOf'[s] = t /\ DOMAIN turnOf' = Talkers
      /\ \A r \in Talkers \ {s} : turnOf'[r] = turnOf[r]
  BY TurnsTyped DEF TurnsTypeOK
<1>2. t.stream \in Nat /\ t.live \in BOOLEAN /\ t.open \in BOOLEAN /\ turnOf[s].stream \in Nat
  BY OwnTurn DEF TurnRecords
<1>3. TurnsTypeOK'
  BY <1>1, TurnsTyped DEF TurnsTypeOK, TurnRecords
<1>4. TurnsInv'
  <2>1. ASSUME NEW r \in Talkers
        PROVE  /\ turnOf'[r].live => turnOf'[r].stream > 0 /\
                                     (turnOf'[r].open <=> wrote'[StreamOf(r)'] > 0)
               /\ ~turnOf'[r].live => ~turnOf'[r].open
    BY <1>1 DEF TurnsInv, StreamOf
  <2>2. ASSUME NEW id \in Streams, id[2] > turnOf'[id[1]].stream
        PROVE  wrote'[id] = 0
    <3>1. id[1] \in Talkers /\ id[2] \in Nat /\ turnOf[id[1]].stream \in Nat
      BY StreamFacts, TurnTypes
    <3>2. id[2] > turnOf[id[1]].stream
      BY <1>1, <1>2, <2>2, <3>1
    <3> QED BY <3>2 DEF TurnsInv
  <2> QED BY <2>1, <2>2 DEF TurnsInv
<1>5. ASSUME NEW id \in Streams
      PROVE  /\ turnOf[id[1]].stream <= turnOf'[id[1]].stream
             /\ Ended(id) => Ended(id)'
             /\ Ended(id)' /\ ~Ended(id) /\ wrote[id] > 0 => id = StreamOf(s) /\ turnOf[s].live
  <2>1. id[1] \in Talkers /\ id[2] \in Nat /\ turnOf[id[1]].stream \in Nat /\ id = <<id[1], id[2]>>
    BY StreamFacts, TurnTypes
  <2>2. CASE id[1] # s
    BY <1>1, <2>1, <2>2 DEF Ended, EndedBy
  <2>3. CASE id[1] = s
    <3>1. turnOf[id[1]].stream <= turnOf'[id[1]].stream
      BY <1>1, <2>3
    <3>2. Ended(id) => Ended(id)'
      BY <1>1, <1>2, <2>1, <2>3 DEF Ended, EndedBy
    <3>3. ASSUME Ended(id)', ~Ended(id), wrote[id] > 0 PROVE id = StreamOf(s) /\ turnOf[s].live
      <4>1. /\ id[2] < t.stream \/ (id[2] = t.stream /\ ~t.live)
            /\ ~(id[2] < turnOf[s].stream) /\ ~(id[2] = turnOf[s].stream /\ ~turnOf[s].live)
        BY <1>1, <2>3, <3>3 DEF Ended, EndedBy
      <4>2. CASE id[2] = turnOf[s].stream
        BY <2>1, <2>3, <4>1, <4>2 DEF StreamOf
      <4>3. CASE id[2] # turnOf[s].stream
        (* Nothing was written to a stream to come.                       *)
        <5>1. id[2] > turnOf[s].stream
          BY <1>2, <2>1, <4>1, <4>3
        <5>2. wrote[id] = 0
          BY <2>3, <5>1 DEF TurnsInv
        <5> QED BY <3>3, <5>2
      <4> QED BY <4>2, <4>3
    <3> QED BY <3>1, <3>2, <3>3
  <2> QED BY <2>2, <2>3
<1>6. ASSUME NEW id \in Streams, Ended(id)', ~Ended(id), wrote[id] > 0
      PROVE  \E i \in 1 .. Len(msgs) : msgs[i].kind = "end" /\ msgs[i].id = id
  <2>1. id = StreamOf(s) /\ turnOf[s].live
    BY <1>5, <1>6
  <2>2. turnOf[s].open
    BY <1>6, <2>1 DEF TurnsInv
  <2>3. id[1] = s /\ id[2] = turnOf[s].stream
    BY <2>1 DEF StreamOf
  <2>4. t.stream > turnOf[s].stream \/ ~t.live
    BY <1>1, <1>2, <1>6, <2>3 DEF Ended, EndedBy
  <2>5. PICK i \in 1 .. Len(msgs) : msgs[i].kind = "end"
    BY <2>1, <2>2, <2>4
  <2>6. msgs[i].id = id
    BY <2>1
  <2> QED BY <2>5, <2>6
<1>7. ASSUME NEW i \in 1 .. Len(msgs)
      PROVE  /\ msgs[i].id = StreamOf(s) /\ msgs[i].id \in Streams /\ msgs[i].kind # "delta"
             /\ msgs[i].kind = "end" => Ended(msgs[i].id)'
  <2>1. msgs[i] \in OnePiece
    BY ElementOfSeq
  <2>2. msgs[i].id \in Streams
    BY <2>1, OnePieceFacts DEF IsWaiting
  <2>3. msgs[i].id = StreamOf(s) /\ msgs[i].kind # "delta"
    OBVIOUS
  <2>4. ASSUME msgs[i].kind = "end" PROVE Ended(msgs[i].id)'
    <3>1. t.stream > turnOf[s].stream \/ ~t.live
      BY <2>4
    <3>2. turnOf'[s] = t
      BY <1>1
    <3> QED BY <1>2, <2>3, <3>1, <3>2 DEF Ended, EndedBy, StreamOf
  <2> QED BY <2>2, <2>3, <2>4
<1> QED BY <1>3, <1>4, <1>5, <1>6, <1>7 DEF Quiet

LEMMA OneMessage ==
  ASSUME NEW m \in OnePiece
  PROVE  /\ <<m>> \in Seq(OnePiece) /\ Len(<<m>>) = 1 /\ <<m>>[1] = m
         /\ \A i \in 1 .. Len(<<m>>) : <<m>>[i] = m
OBVIOUS

LEMMA QuietOne ==
  ASSUME DeliveryTypeOK, TurnsInv, NEW s \in Talkers,
         NEW t \in TurnRecords(s), turnOf' = [turnOf EXCEPT ![s] = t], UNCHANGED wrote,
         turnOf[s].stream <= t.stream,
         turnOf[s].stream = t.stream => (t.live => turnOf[s].live),
         t.live => t.stream > 0 /\ (t.open <=> wrote[<<s, t.stream>>] > 0), ~t.live => ~t.open,
         NEW m \in OnePiece, Publish(<<m>>), Len(outbound) + 1 <= OutboundCap,
         m.id = StreamOf(s), m.kind # "delta",
         m.kind = "end" => t.stream > turnOf[s].stream \/ ~t.live,
         turnOf[s].live /\ (t.stream > turnOf[s].stream \/ ~t.live) /\ turnOf[s].open =>
            m.kind = "end"
  PROVE  Quiet(s, <<m>>)
<1> DEFINE q == <<m>>
<1>1. /\ q \in Seq(OnePiece) /\ Len(q) = 1 /\ q[1] = m /\ \A i \in 1 .. Len(q) : q[i] = m
      /\ 1 \in 1 .. Len(q)
  BY OneMessage
<1>2. Publish(q)
  OBVIOUS
<1> HIDE DEF q
<1>3. Len(outbound) + Len(q) <= OutboundCap
  BY <1>1
<1>4. \A i \in 1 .. Len(q) :
        /\ q[i].id = StreamOf(s) /\ q[i].kind # "delta"
        /\ q[i].kind = "end" => t.stream > turnOf[s].stream \/ ~t.live
  BY <1>1
<1>5. turnOf[s].live /\ (t.stream > turnOf[s].stream \/ ~t.live) /\ turnOf[s].open =>
        \E i \in 1 .. Len(q) : q[i].kind = "end"
  BY <1>1
<1>6. Quiet(s, q)
  BY <1>1, <1>2, <1>3, <1>4, <1>5, QuietFacts
<1> QED BY <1>6 DEF q

LEMMA StartsQuietly ==
  ASSUME DeliveryTypeOK, TurnsInv, NEW s \in Talkers, TurnStarts(s)
  PROVE  Quiet(s, <<>>)
<1> DEFINE t == [live |-> TRUE, stream |-> turnOf[s].stream + 1,
                 open |-> FALSE, merged |-> 0, again |-> 0]
<1>1. turnOf' = [turnOf EXCEPT ![s] = t] /\ UNCHANGED wrote
  BY DEF TurnStarts
<1>2. t \in TurnRecords(s) /\ turnOf[s].stream < t.stream /\ t.live /\ ~t.open /\ t.stream > 0
  BY OwnTurn DEF TurnStarts, TurnRecords
<1>3. t.stream \in Nat /\ turnOf[s].stream \in Nat /\ t.stream # turnOf[s].stream
  BY <1>2, OwnTurn
<1>4. <<s, t.stream>> \in Streams
  BY <1>2, OwnTurn, StreamExists DEF TurnRecords
<1>5. wrote[<<s, t.stream>>] = 0
  BY <1>2, <1>4 DEF TurnsInv
<1>6. <<>> \in Seq(OnePiece) /\ Len(<<>>) = 0 /\ Publish(<<>>)
  BY EmptySeq DEF TurnStarts
<1> DEFINE q == <<>>
<1>7. /\ q \in Seq(OnePiece) /\ Len(q) = 0 /\ 1 .. Len(q) = {} /\ Publish(q)
  BY <1>6
<1>8. ~turnOf[s].live
  BY DEF TurnStarts, Talking
<1> HIDE DEF t, q
<1>9. Len(outbound) + Len(q) <= OutboundCap
  <2>1. outbound \in Seq(OnePiece) /\ Len(outbound) <= OutboundCap
    BY DEF DeliveryTypeOK
  <2>2. Len(outbound) \in Nat
    BY <2>1, LenProperties
  <2> QED BY <1>7, <2>1, <2>2, DeliveryAssumption
<1>10. t.live => t.stream > 0 /\ (t.open <=> wrote[<<s, t.stream>>] > 0)
  BY <1>2, <1>5
<1>11. /\ turnOf[s].stream <= t.stream /\ (turnOf[s].stream = t.stream => (t.live => turnOf[s].live))
       /\ ~t.live => ~t.open
  BY <1>2, <1>3
<1>12. Quiet(s, q)
  BY <1>1, <1>2, <1>7, <1>8, <1>9, <1>10, <1>11, QuietFacts
<1> QED BY <1>12 DEF q

LEMMA BoundaryIsQuiet ==
  ASSUME DeliveryTypeOK, TurnsInv, NEW s \in Talkers, StreamBoundary(s)
  PROVE  \E msgs : Quiet(s, msgs)
<1> DEFINE n == turnOf[s].stream + 1
           t == [turnOf[s] EXCEPT !.stream = n, !.open = FALSE, !.merged = 0]
           m == EndOf(StreamOf(s), FALSE)
<1>0. /\ turnOf[s] \in TurnRecords(s) /\ turnOf[s].stream \in Nat
      /\ turnOf[s].stream < LastStream[s] /\ LastStream[s] \in Nat /\ LastPiece[s] \in Nat
      /\ turnOf[s].live
  BY OwnTurn DEF StreamBoundary, Talking
<1>1. turnOf' = [turnOf EXCEPT ![s] = t] /\ UNCHANGED wrote
  BY <1>0 DEF StreamBoundary, TurnRecords
<1>1a. n \in 0 .. LastStream[s] /\ 0 \in 0 .. LastPiece[s]
  BY <1>0
<1>2. t \in TurnRecords(s) /\ t.stream = turnOf[s].stream + 1 /\ t.live /\ ~t.open
  <2> HIDE DEF n
  <2>1. t \in TurnRecords(s) /\ t.stream = n /\ t.live /\ ~t.open
    BY <1>0, <1>1a DEF TurnRecords
  <2> QED BY <2>1 DEF n
<1>3. t.stream > turnOf[s].stream /\ t.stream > 0 /\ t.stream # turnOf[s].stream
  BY <1>0, <1>2
<1>4. <<s, t.stream>> \in Streams
  BY <1>0, <1>2, <1>3, StreamExists
<1>5. wrote[<<s, t.stream>>] = 0
  BY <1>3, <1>4 DEF TurnsInv
<1>6. m \in OnePiece /\ m.id = StreamOf(s) /\ m.kind = "end"
  BY <1>0, OwnTurn, MessagesMade DEF TurnsInv, EndOf
<1>7. Publish(<<m>>) /\ Len(outbound) + 1 <= OutboundCap
  BY DEF StreamBoundary, Room
<1> HIDE DEF t, m
<1>8. turnOf[s].stream <= t.stream /\ (t.open <=> wrote[<<s, t.stream>>] > 0)
  BY <1>0, <1>2, <1>5
<1>9. Quiet(s, <<m>>)
  BY <1>1, <1>2, <1>3, <1>6, <1>7, <1>8, QuietOne
<1> QED BY <1>9

LEMMA MergeIsQuiet ==
  ASSUME DeliveryTypeOK, TurnsInv, NEW s \in Talkers, MergeBoundary(s)
  PROVE  \E msgs : Quiet(s, msgs)
<1> DEFINE t == [turnOf[s] EXCEPT !.merged = wrote[StreamOf(s)]]
           m == EndOf(StreamOf(s), TRUE)
<1>0. /\ turnOf[s] \in TurnRecords(s) /\ turnOf[s].stream \in Nat
      /\ turnOf[s].live /\ turnOf[s].stream > 0 /\ StreamOf(s) \in Streams
      /\ StreamOf(s) = <<s, turnOf[s].stream>> /\ StreamOf(s)[1] = s
      /\ turnOf[s].open \in BOOLEAN
  BY OwnTurn DEF MergeBoundary, Talking, TurnsInv, StreamOf
<1>1. turnOf' = [turnOf EXCEPT ![s] = t] /\ UNCHANGED wrote
  BY <1>0 DEF MergeBoundary, TurnRecords
<1>2. wrote[StreamOf(s)] \in 0 .. LastPiece[s]
  BY <1>0, TurnTypes
<1>3. /\ t \in TurnRecords(s) /\ t.stream = turnOf[s].stream /\ t.live
      /\ t.open = turnOf[s].open
  BY <1>0, <1>2 DEF TurnRecords
<1>4. t.open <=> wrote[<<s, t.stream>>] > 0
  BY <1>0, <1>3 DEF TurnsInv
<1>6. m \in OnePiece /\ m.id = StreamOf(s) /\ m.kind = "merge"
  BY <1>0, MessagesMade DEF EndOf
<1>7. Publish(<<m>>) /\ Len(outbound) + 1 <= OutboundCap
  BY DEF MergeBoundary, Room
<1>8. turnOf[s].stream <= t.stream /\ ~(t.stream > turnOf[s].stream) /\ t.stream > 0
  BY <1>0, <1>3
<1> HIDE DEF t, m
<1>9. Quiet(s, <<m>>)
  BY <1>0, <1>1, <1>3, <1>4, <1>6, <1>7, <1>8, QuietOne
<1> QED BY <1>9

(* A turn that ends, having published these messages.                      *)
LEMMA EndsQuietly ==
  ASSUME DeliveryTypeOK, TurnsInv, NEW s \in Talkers, Talking(s),
         turnOf' = [turnOf EXCEPT ![s].live = FALSE, ![s].open = FALSE], UNCHANGED wrote,
         NEW msgs \in Seq(OnePiece), Publish(msgs), Len(outbound) + Len(msgs) <= OutboundCap,
         \A i \in 1 .. Len(msgs) : msgs[i].id = StreamOf(s) /\ msgs[i].kind # "delta",
         turnOf[s].open => \E i \in 1 .. Len(msgs) : msgs[i].kind = "end"
  PROVE  Quiet(s, msgs)
<1> DEFINE t == [turnOf[s] EXCEPT !.live = FALSE, !.open = FALSE]
<1>0. /\ turnOf[s] \in TurnRecords(s) /\ turnOf[s].stream \in Nat
  BY OwnTurn
<1>1. turnOf' = [turnOf EXCEPT ![s] = t]
  BY <1>0 DEF TurnRecords
<1>2. t \in TurnRecords(s) /\ t.stream = turnOf[s].stream /\ ~t.live /\ ~t.open
  BY <1>0 DEF TurnRecords
<1>3. turnOf[s].stream <= t.stream
  BY <1>0, <1>2
<1> HIDE DEF t
<1> QED BY <1>0, <1>1, <1>2, <1>3, QuietFacts

LEMMA EndsWithOne ==
  ASSUME DeliveryTypeOK, TurnsInv, NEW s \in Talkers, Talking(s),
         turnOf' = [turnOf EXCEPT ![s].live = FALSE, ![s].open = FALSE], UNCHANGED wrote,
         NEW m \in OnePiece, Publish(<<m>>), Len(outbound) + 1 <= OutboundCap,
         m.id = StreamOf(s), m.kind # "delta", turnOf[s].open => m.kind = "end"
  PROVE  Quiet(s, <<m>>)
<1> DEFINE q == <<m>>
<1>1. /\ q \in Seq(OnePiece) /\ Len(q) = 1 /\ \A i \in 1 .. Len(q) : q[i] = m
      /\ 1 \in 1 .. Len(q) /\ Publish(q)
  BY OneMessage
<1> HIDE DEF q
<1>2. Len(outbound) + Len(q) <= OutboundCap
  BY <1>1
<1>3. Quiet(s, q)
  BY <1>1, <1>2, EndsQuietly
<1> QED BY <1>3 DEF q

LEMMA StreamedEndIsQuiet ==
  ASSUME DeliveryTypeOK, TurnsInv, NEW s \in Talkers, StreamedTurnEnds(s)
  PROVE  \E msgs : Quiet(s, msgs)
<1> DEFINE m == EndOf(StreamOf(s), FALSE)
<1>1. m \in OnePiece /\ m.id = StreamOf(s) /\ m.kind = "end"
  BY OwnTurn, MessagesMade DEF StreamedTurnEnds, Talking, TurnsInv, EndOf
<1>2. /\ Publish(<<m>>) /\ Len(outbound) + 1 <= OutboundCap /\ Talking(s) /\ UNCHANGED wrote
      /\ turnOf' = [turnOf EXCEPT ![s].live = FALSE, ![s].open = FALSE]
  BY DEF StreamedTurnEnds, Room
<1> HIDE DEF m
<1>3. Quiet(s, <<m>>)
  BY <1>1, <1>2, EndsWithOne
<1> QED BY <1>3

LEMMA PlainEndIsQuiet ==
  ASSUME DeliveryTypeOK, TurnsInv, NEW s \in Talkers, NEW answer \in Answers,
         PlainTurnEnds(s, answer)
  PROVE  \E msgs : Quiet(s, msgs)
<1> DEFINE m == ReplyTo(StreamOf(s), answer)
<1>1. m \in OnePiece /\ m.id = StreamOf(s) /\ m.kind = "reply"
  BY OwnTurn, MessagesMade DEF PlainTurnEnds, Talking, TurnsInv, ReplyTo, Texts
<1>2. /\ Publish(<<m>>) /\ Len(outbound) + 1 <= OutboundCap /\ Talking(s) /\ UNCHANGED wrote
      /\ turnOf' = [turnOf EXCEPT ![s].live = FALSE] /\ ~turnOf[s].open
  BY DEF PlainTurnEnds, Room
<1>3. turnOf' = [turnOf EXCEPT ![s].live = FALSE, ![s].open = FALSE]
  <2>1. turnOf[s] \in TurnRecords(s) /\ turnOf[s].open = FALSE
    BY <1>2, OwnTurn
  <2> QED BY <1>2, <2>1 DEF TurnRecords
<1> HIDE DEF m
<1>4. Quiet(s, <<m>>)
  BY <1>1, <1>2, <1>3, EndsWithOne
<1> QED BY <1>4

LEMMA AbortIsQuiet ==
  ASSUME DeliveryTypeOK, TurnsInv, NEW s \in Talkers,
         NEW apology \in {<<>>, <<ReplyTo(StreamOf(s), Apology)>>}, TurnAborts(s, apology)
  PROVE  \E msgs : Quiet(s, msgs)
<1> DEFINE e == EndOf(StreamOf(s), FALSE)  r == ReplyTo(StreamOf(s), Apology)
           msgs == Aborted(s) \o apology
<1>1. e \in OnePiece /\ e.id = StreamOf(s) /\ e.kind = "end"
  BY OwnTurn, MessagesMade DEF TurnAborts, Talking, TurnsInv, EndOf
<1>2. r \in OnePiece /\ r.id = StreamOf(s) /\ r.kind = "reply"
  BY OwnTurn, MessagesMade DEF TurnAborts, Talking, TurnsInv, ReplyTo, Texts
<1>3. /\ Publish(msgs) /\ Len(outbound) + 2 <= OutboundCap /\ Talking(s) /\ UNCHANGED wrote
      /\ turnOf' = [turnOf EXCEPT ![s].live = FALSE, ![s].open = FALSE]
  BY DEF TurnAborts, Room
<1>4. Aborted(s) = IF turnOf[s].open THEN <<e>> ELSE <<>>
  BY DEF Aborted
<1>5. apology = <<>> \/ apology = <<r>>
  OBVIOUS
<1> HIDE DEF e, r
<1>6. CASE turnOf[s].open /\ apology = <<r>>
  <2> DEFINE a == <<e>>  b == <<r>>
  <2>1. msgs = a \o b
    BY <1>4, <1>6
  <2>2. /\ a \in Seq(OnePiece) /\ b \in Seq(OnePiece) /\ Len(a) = 1 /\ Len(b) = 1
        /\ a[1] = e /\ b[1] = r
    BY <1>1, <1>2
  <2> HIDE DEF a, b, msgs
  <2>3. /\ msgs \in Seq(OnePiece) /\ Len(msgs) = Len(a) + Len(b)
        /\ \A i \in 1 .. Len(a) + Len(b) : msgs[i] = IF i <= Len(a) THEN a[i] ELSE b[i - Len(a)]
    BY <2>1, <2>2, ConcatProperties
  <2>4. Len(msgs) = 2 /\ msgs[1] = e /\ \A i \in 1 .. Len(msgs) : msgs[i] = e \/ msgs[i] = r
    BY <2>2, <2>3
  <2>5. /\ \A i \in 1 .. Len(msgs) : msgs[i].id = StreamOf(s) /\ msgs[i].kind # "delta"
        /\ \E i \in 1 .. Len(msgs) : msgs[i].kind = "end"
    BY <1>1, <1>2, <2>4
  <2>6. Len(outbound) + Len(msgs) <= OutboundCap
    BY <1>3, <2>4
  <2>7. Quiet(s, msgs)
    BY <1>3, <2>3, <2>5, <2>6, EndsQuietly
  <2> QED BY <2>7
<1>7. CASE turnOf[s].open /\ apology = <<>>
  <2>1. msgs = <<e>>
    BY <1>4, <1>7
  <2>2. Len(outbound) + 1 <= OutboundCap
    BY <1>3, WaitingFacts, DeliveryAssumption
  <2>3. Quiet(s, <<e>>)
    BY <1>1, <1>3, <2>1, <2>2, EndsWithOne
  <2> QED BY <2>3
<1>8. CASE ~turnOf[s].open /\ apology = <<r>>
  <2>1. msgs = <<r>>
    BY <1>4, <1>8
  <2>2. Len(outbound) + 1 <= OutboundCap
    BY <1>3, WaitingFacts, DeliveryAssumption
  <2>3. Quiet(s, <<r>>)
    BY <1>2, <1>3, <1>8, <2>1, <2>2, EndsWithOne
  <2> QED BY <2>3
<1>9. CASE ~turnOf[s].open /\ apology = <<>>
  <2>1. msgs = <<>>
    BY <1>4, <1>9
  <2>2. <<>> \in Seq(OnePiece) /\ Len(<<>>) = 0 /\ 1 .. Len(<<>>) = {}
    BY EmptySeq
  <2>3. Len(outbound) + Len(<<>>) <= OutboundCap
    BY <1>3, <2>2, WaitingFacts, DeliveryAssumption
  <2> HIDE DEF msgs
  <2>4. Quiet(s, msgs)
    BY <1>3, <1>9, <2>1, <2>2, <2>3, EndsQuietly
  <2> QED BY <2>4
<1> QED BY <1>5, <1>6, <1>7, <1>8, <1>9

LEMMA FollowUpIsQuiet ==
  ASSUME DeliveryTypeOK, TurnsInv, NEW s \in Talkers, NEW answer \in Answers,
         FollowUp(s, answer)
  PROVE  \E msgs : Quiet(s, msgs)
<1> DEFINE t == [turnOf[s] EXCEPT !.again = @ + 1]  m == FollowUpOn(StreamOf(s), answer)
<1>0. /\ turnOf[s] \in TurnRecords(s) /\ turnOf[s].stream \in Nat
      /\ ~turnOf[s].live /\ StreamOf(s) \in Streams
      /\ turnOf[s].again < LastFollowUp[s] /\ LastFollowUp[s] \in Nat
      /\ turnOf[s].again \in 0 .. LastFollowUp[s]
  BY OwnTurn DEF FollowUp, Talking
<1>1. turnOf' = [turnOf EXCEPT ![s] = t] /\ UNCHANGED wrote
  BY <1>0 DEF FollowUp, TurnRecords
<1>2. /\ t \in TurnRecords(s) /\ t.stream = turnOf[s].stream /\ ~t.live /\ t.open = turnOf[s].open
  BY <1>0 DEF TurnRecords
<1>3. turnOf[s].stream <= t.stream /\ ~t.open
  BY <1>0, <1>2 DEF TurnsInv
<1>4. m \in OnePiece /\ m.id = StreamOf(s) /\ m.kind = "followup"
  BY <1>0, MessagesMade DEF FollowUpOn, Texts
<1>5. Publish(<<m>>) /\ Len(outbound) + 1 <= OutboundCap
  BY DEF FollowUp, Room
<1> HIDE DEF t, m
<1>6. Quiet(s, <<m>>)
  BY <1>0, <1>1, <1>2, <1>3, <1>4, <1>5, QuietOne
<1> QED BY <1>6

LEMMA TurnIsQuiet ==
  ASSUME DeliveryTypeOK, TurnsInv, Turns
  PROVE  \E s \in Talkers : StreamsPiece(s) \/ \E msgs : Quiet(s, msgs)
<1>1. PICK s \in Talkers :
        \/ TurnStarts(s) \/ StreamsPiece(s) \/ StreamBoundary(s) \/ MergeBoundary(s)
        \/ StreamedTurnEnds(s)
        \/ \E answer \in Answers : PlainTurnEnds(s, answer) \/ FollowUp(s, answer)
        \/ TurnAborts(s, <<>>) \/ TurnAborts(s, <<ReplyTo(StreamOf(s), Apology)>>)
  BY DEF Turns
<1> QED BY <1>1, StartsQuietly, BoundaryIsQuiet, MergeIsQuiet, StreamedEndIsQuiet,
           PlainEndIsQuiet, AbortIsQuiet, FollowUpIsQuiet

(* A turn that publishes a piece.                                          *)
LEMMA PieceFacts ==
  ASSUME DeliveryTypeOK, TurnsInv, NEW s \in Talkers, StreamsPiece(s)
  PROVE  LET id == StreamOf(s)  n == Len(Waiting) + 1
             piece == DeltaOf(StreamOf(s), <<wrote[StreamOf(s)] + 1>>) IN
         /\ id \in Streams /\ id[1] = s /\ id[2] = turnOf[s].stream /\ ~Ended(id)
         /\ wrote[id] \in Nat /\ wrote'[id] = wrote[id] + 1
         /\ \A other \in Streams \ {id} : wrote'[other] = wrote[other]
         /\ piece \in OnePiece /\ Len(outbound) + 1 <= OutboundCap /\ Publish(<<piece>>)
         /\ Len(Waiting) \in Nat /\ Len(Waiting') = n
         /\ \A i \in 1 .. Len(Waiting) : i \in 1 .. Len(Waiting') /\ Waiting'[i] = Waiting[i]
         /\ n \in 1 .. Len(Waiting') /\ IsPiece(Waiting'[n], id)
         /\ Waiting'[n].text[1] = wrote[id] + 1
         /\ \A i \in 1 .. Len(Waiting') : i \in 1 .. Len(Waiting) \/ i = n
         /\ TurnsTypeOK' /\ TurnsInv'
         /\ \A other \in Streams : /\ turnOf'[other[1]].stream = turnOf[other[1]].stream
                                   /\ Ended(other)' <=> Ended(other)
<1> DEFINE id == StreamOf(s)  n == Len(Waiting) + 1
           piece == DeltaOf(StreamOf(s), <<wrote[StreamOf(s)] + 1>>)
<1>1. /\ turnOf[s] \in TurnRecords(s) /\ turnOf[s].live /\ turnOf[s].stream > 0
      /\ turnOf[s].stream \in Nat /\ id \in Streams /\ id[1] = s /\ id[2] = turnOf[s].stream
  BY OwnTurn DEF StreamsPiece, Talking, TurnsInv
<1>2. ~Ended(id)
  BY <1>1 DEF Ended, EndedBy
<1>3. wrote[id] \in Nat /\ LastPiece[s] \in Nat /\ wrote[id] < LastPiece[s]
  BY <1>1, TurnTypes, OwnTurn DEF StreamsPiece
<1>4. wrote[id] + 1 \in Pieces
  BY <1>1, <1>3, SomePieces
<1>5. wrote' = [wrote EXCEPT ![id] = wrote[id] + 1] /\ DOMAIN wrote = Streams
  BY TurnsTyped DEF StreamsPiece, TurnsTypeOK
<1>6. wrote'[id] = wrote[id] + 1 /\ \A other \in Streams \ {id} : wrote'[other] = wrote[other]
  BY <1>1, <1>5
<1>7. piece \in OnePiece
  BY <1>1, <1>4, MessagesMade
<1>8. Publish(<<piece>>) /\ Len(outbound) + 1 <= OutboundCap
  BY <1>6 DEF StreamsPiece, Room
<1>9. IsPiece(piece, id) /\ piece.text[1] = wrote[id] + 1
  BY DEF IsPiece, DeltaOf
<1>10. turnOf' = [turnOf EXCEPT ![s].open = TRUE] /\ DOMAIN turnOf = Talkers
  BY TurnsTyped DEF StreamsPiece, TurnsTypeOK
<1>11. /\ DOMAIN turnOf' = Talkers /\ turnOf'[s] \in TurnRecords(s)
       /\ turnOf'[s].stream = turnOf[s].stream /\ turnOf'[s].live = turnOf[s].live
       /\ turnOf'[s].open = TRUE
       /\ \A r \in Talkers \ {s} : turnOf'[r] = turnOf[r]
  BY <1>1, <1>10 DEF TurnRecords
<1>12. \A r \in Talkers : turnOf'[r].stream = turnOf[r].stream /\ turnOf'[r].live = turnOf[r].live
  BY <1>11
<1>13. TurnsTypeOK'
  <2>1. wrote'[id] \in 0 .. LastPiece[id[1]] /\ DOMAIN wrote' = Streams
    BY <1>1, <1>3, <1>5, <1>6
  <2>2. \A other \in Streams : wrote'[other] \in 0 .. LastPiece[other[1]]
    BY <1>6, <2>1, TurnsTyped DEF TurnsTypeOK
  <2>3. \A r \in Talkers : turnOf'[r] \in TurnRecords(r)
    BY <1>11, TurnsTyped DEF TurnsTypeOK
  <2> QED BY <1>11, <2>1, <2>2, <2>3 DEF TurnsTypeOK
<1>14. TurnsInv'
  <2>1. ASSUME NEW r \in Talkers
        PROVE  /\ turnOf'[r].live => turnOf'[r].stream > 0 /\
                                     (turnOf'[r].open <=> wrote'[StreamOf(r)'] > 0)
               /\ ~turnOf'[r].live => ~turnOf'[r].open
    <3>1. CASE r = s
      <4>1. StreamOf(r)' = id
        BY <1>12, <3>1 DEF StreamOf
      <4>2. wrote'[id] > 0
        BY <1>3, <1>6
      <4> QED BY <1>1, <1>11, <3>1, <4>1, <4>2
    <3>2. CASE r # s
      <4>1. StreamOf(r)' = StreamOf(r) /\ turnOf'[r] = turnOf[r]
        BY <1>11, <3>2 DEF StreamOf
      <4>2. StreamOf(r) # id
        BY <3>2 DEF StreamOf
      <4>3. turnOf[r].live => turnOf[r].stream > 0 /\ StreamOf(r) \in Streams
        BY OwnTurn DEF TurnsInv
      <4>4. turnOf[r].live => wrote'[StreamOf(r)] = wrote[StreamOf(r)]
        BY <1>6, <4>2, <4>3
      <4> QED BY <4>1, <4>4 DEF TurnsInv
    <3> QED BY <3>1, <3>2
  <2>2. ASSUME NEW other \in Streams, other[2] > turnOf'[other[1]].stream
        PROVE  wrote'[other] = 0
    <3>1. other[1] \in Talkers
      BY StreamFacts
    <3>2. other[2] > turnOf[other[1]].stream
      BY <1>12, <2>2, <3>1
    <3>3. other # id
      BY <1>1, <3>2
    <3> QED BY <1>6, <3>2, <3>3 DEF TurnsInv
  <2> QED BY <2>1, <2>2 DEF TurnsInv
<1>15. ASSUME NEW other \in Streams
       PROVE  turnOf'[other[1]].stream = turnOf[other[1]].stream /\ (Ended(other)' <=> Ended(other))
  BY <1>12, StreamFacts DEF Ended, EndedBy
<1> HIDE DEF piece
<1> DEFINE q == <<piece>>
<1>16. q \in Seq(OnePiece) /\ Len(q) = 1 /\ q[1] = piece /\ 1 \in 1 .. Len(q) /\ Publish(q)
  BY <1>7, <1>8, OneMessage
<1> HIDE DEF q
<1>17. /\ Len(Waiting') = n /\ Len(Waiting) \in Nat
       /\ \A i \in 1 .. Len(Waiting) : i \in 1 .. Len(Waiting') /\ Waiting'[i] = Waiting[i]
       /\ n \in 1 .. Len(Waiting') /\ Waiting'[n] = piece
  BY <1>16, PublishFacts, WaitingFacts
<1>18. \A i \in 1 .. Len(Waiting') : i \in 1 .. Len(Waiting) \/ i = n
  BY <1>17
<1> QED BY <1>1, <1>2, <1>3, <1>6, <1>7, <1>8, <1>9, <1>13, <1>14, <1>15, <1>17, <1>18 DEF piece

(***************************************************************************)
(* The order of what waits.                                                *)
(***************************************************************************)
Line == Seq(OnePiece)

LEMMA LineTypes ==
  ASSUME NEW q \in Line
  PROVE  /\ Len(q) \in Nat
         /\ \A i \in 1 .. Len(q) :
              /\ q[i].id \in Streams /\ q[i].id[1] \in Talkers /\ q[i].id[2] \in Nat
              /\ q[i].kind = "delta" => q[i].text[1] \in Nat \ {0}
<1>1. Len(q) \in Nat
  BY LenProperties DEF Line
<1>2. ASSUME NEW i \in 1 .. Len(q)
      PROVE  /\ q[i].id \in Streams /\ q[i].id[1] \in Talkers /\ q[i].id[2] \in Nat
             /\ q[i].kind = "delta" => q[i].text[1] \in Nat \ {0}
  <2>1. q[i] \in OnePiece
    BY ElementOfSeq DEF Line
  <2>2. q[i].id \in Streams /\ (q[i].kind = "delta" => q[i].text[1] \in Pieces)
    BY <2>1, OnePieceFacts DEF IsWaiting
  <2> QED BY <2>2, StreamFacts, PiecesAreNumbers
<1> QED BY <1>1, <1>2

(* Grown(q, r): r is q with messages behind it.                            *)
Grown(q, r) ==
  /\ Len(q) <= Len(r)
  /\ \A i \in 1 .. Len(q) : i \in 1 .. Len(r) /\ r[i] = q[i]

LEMMA QuietLine ==
  ASSUME NEW q \in Line, NEW r \in Line, NEW t, NEW u, NEW w, InLine(q, t, w), Grown(q, r),
         NEW id \in Streams, t[id[1]].stream \in Nat, id[2] = t[id[1]].stream,
         \A x \in Streams : /\ t[x[1]].stream \in Nat /\ u[x[1]].stream \in Nat
                            /\ t[x[1]].stream <= u[x[1]].stream
                            /\ EndedBy(t, x) => EndedBy(u, x),
         \A i \in 1 .. Len(r) : i \in 1 .. Len(q) \/
            /\ i > Len(q) /\ r[i].id = id /\ r[i].kind # "delta"
            /\ r[i].kind = "end" => EndedBy(u, id)
  PROVE  InLine(r, u, w)
<1>1. /\ Len(q) \in Nat /\ Len(r) \in Nat
      /\ \A i \in 1 .. Len(r) :
              /\ r[i].id \in Streams /\ r[i].id[1] \in Talkers /\ r[i].id[2] \in Nat
              /\ r[i].kind = "delta" => r[i].text[1] \in Nat \ {0}
  BY LineTypes
<1>2. ASSUME NEW i \in 1 .. Len(r)
      PROVE  /\ r[i].id[2] <= u[r[i].id[1]].stream
             /\ r[i].kind = "end" => EndedBy(u, r[i].id)
             /\ r[i].kind = "delta" => r[i].text[1] <= w[r[i].id]
  <2>1. CASE i \in 1 .. Len(q)
    <3>1. /\ r[i] = q[i] /\ q[i].id[2] <= t[q[i].id[1]].stream
          /\ q[i].kind = "end" => EndedBy(t, q[i].id)
          /\ q[i].kind = "delta" => q[i].text[1] <= w[q[i].id]
      BY <2>1 DEF InLine, Grown
    <3> QED BY <1>1, <3>1
  <2>2. CASE i \notin 1 .. Len(q)
    BY <1>1, <2>2
  <2> QED BY <2>1, <2>2
<1>3. ASSUME NEW i \in 1 .. Len(r), NEW j \in 1 .. Len(r), i < j
      PROVE  /\ NotAfter(r[i].id, r[j].id)
             /\ r[i].kind = "end" => ~IsPiece(r[j], r[i].id)
  <2>1. CASE j \in 1 .. Len(q)
    <3>1. i \in 1 .. Len(q)
      BY <1>1, <1>3, <2>1
    <3> QED BY <1>3, <2>1, <3>1 DEF InLine, Grown
  <2>2. CASE j \notin 1 .. Len(q)
    <3>1. r[j].id = id /\ r[j].kind # "delta"
      BY <2>2
    <3>2. NotAfter(r[i].id, id)
      <4>1. CASE i \in 1 .. Len(q)
        <5>1. r[i].id[2] <= t[r[i].id[1]].stream
          BY <4>1 DEF InLine, Grown
        <5> QED BY <5>1 DEF NotAfter
      <4>2. CASE i \notin 1 .. Len(q)
        BY <1>1, <4>2 DEF NotAfter
      <4> QED BY <4>1, <4>2
    <3> QED BY <3>1, <3>2 DEF IsPiece
  <2> QED BY <2>1, <2>2
<1>4. ASSUME NEW i \in 1 .. Len(r), r[i].kind = "delta"
      PROVE  i \in 1 .. Len(q) /\ r[i] = q[i] /\ q[i].kind = "delta"
  BY <1>4 DEF Grown
<1>5. ASSUME NEW i \in 1 .. Len(r), r[i].kind = "delta", NEW j \in i + 1 .. Len(r),
             IsPiece(r[j], r[i].id)
      PROVE  r[j].text[1] > r[i].text[1]
  <2>1. i \in 1 .. Len(q) /\ r[i] = q[i] /\ q[i].kind = "delta"
    BY <1>4, <1>5
  <2>2. j \in 1 .. Len(r)
    BY <1>1
  <2>3. j \in 1 .. Len(q) /\ r[j] = q[j]
    BY <1>4, <1>5, <2>2 DEF IsPiece
  <2>4. j \in i + 1 .. Len(q)
    BY <1>1, <2>3
  <2> QED BY <1>5, <2>1, <2>3, <2>4 DEF InLine
<1>6. ASSUME NEW i \in 1 .. Len(r), r[i].kind = "delta", r[i].text[1] < w[r[i].id]
      PROVE  \E j \in i + 1 .. Len(r) :
                IsPiece(r[j], r[i].id) /\ r[j].text[1] = r[i].text[1] + 1
  <2>1. i \in 1 .. Len(q) /\ r[i] = q[i] /\ q[i].kind = "delta"
    BY <1>4, <1>6
  <2>2. PICK j \in i + 1 .. Len(q) : IsPiece(q[j], q[i].id) /\ q[j].text[1] = q[i].text[1] + 1
    BY <1>6, <2>1 DEF InLine
  <2>3. j \in 1 .. Len(q) /\ j \in i + 1 .. Len(r)
    BY <1>1 DEF Grown
  <2>4. r[j] = q[j]
    BY <2>3 DEF Grown
  <2> QED BY <2>1, <2>2, <2>3, <2>4
<1>7. ASSUME NEW i \in 1 .. Len(r), r[i].kind = "delta", NEW j \in i .. Len(r),
             \A k \in i .. j : IsPiece(r[k], r[i].id)
      PROVE  r[j].text[1] = r[i].text[1] + j - i
  <2>1. i \in 1 .. Len(q) /\ r[i] = q[i] /\ q[i].kind = "delta"
    BY <1>4, <1>7
  <2>2. j \in i .. j /\ j \in 1 .. Len(r)
    BY <1>1
  <2>3. j \in 1 .. Len(q)
    BY <1>4, <1>7, <2>2 DEF IsPiece
  <2>4. j \in i .. Len(q) /\ \A k \in i .. j : k \in 1 .. Len(q)
    BY <1>1, <2>3
  <2>5. \A k \in i .. j : IsPiece(q[k], q[i].id)
    BY <1>7, <2>1, <2>4 DEF Grown
  <2>6. q[j].text[1] = q[i].text[1] + j - i
    BY <2>1, <2>4, <2>5 DEF InLine
  <2> QED BY <2>1, <2>3, <2>6 DEF Grown
<1> QED BY <1>2, <1>3, <1>5, <1>6, <1>7 DEF InLine

LEMMA PieceLine ==
  ASSUME NEW q \in Line, NEW r \in Line, NEW t, NEW u, NEW v, NEW w, InLine(q, t, v), Grown(q, r),
         NEW id \in Streams, t[id[1]].stream \in Nat, id[2] = t[id[1]].stream, ~EndedBy(t, id),
         \A x \in Streams : /\ u[x[1]].stream = t[x[1]].stream /\ t[x[1]].stream \in Nat
                            /\ EndedBy(u, x) <=> EndedBy(t, x),
         \A x \in Streams : v[x] \in Nat,
         w[id] = v[id] + 1, \A x \in Streams \ {id} : w[x] = v[x],
         Len(r) = Len(q) + 1, IsPiece(r[Len(r)], id), r[Len(r)].text[1] = v[id] + 1
  PROVE  InLine(r, u, w)
<1> DEFINE n == Len(r)
<1>1. /\ Len(q) \in Nat /\ n \in Nat /\ n = Len(q) + 1 /\ n \in 1 .. n
      /\ \A i \in 1 .. n :
              /\ r[i].id \in Streams /\ r[i].id[1] \in Talkers /\ r[i].id[2] \in Nat
              /\ r[i].kind = "delta" => r[i].text[1] \in Nat \ {0}
      /\ \A i \in 1 .. n : (i \in 1 .. Len(q) /\ i < n) \/ i = n
      /\ \A i \in 1 .. Len(q) : i \in 1 .. n /\ r[i] = q[i]
  BY LineTypes DEF Grown
<1>2. IsPiece(r[n], id) /\ r[n].text[1] = v[id] + 1 /\ r[n].id = id
  BY DEF IsPiece
<1>3. \A x \in Streams : v[x] <= w[x] /\ v[x] \in Nat /\ w[x] \in Nat
  <2>1. \A x \in Streams : x = id \/ x \in Streams \ {id}
    OBVIOUS
  <2>2. v[id] \in Nat /\ v[id] <= w[id] /\ w[id] \in Nat
    OBVIOUS
  <2> QED BY <2>1, <2>2
<1> HIDE DEF n
<1>4. ASSUME NEW i \in 1 .. n
      PROVE  /\ r[i].id[2] <= u[r[i].id[1]].stream
             /\ r[i].kind = "end" => EndedBy(u, r[i].id)
             /\ r[i].kind = "delta" => r[i].text[1] <= w[r[i].id]
  <2>1. CASE i \in 1 .. Len(q)
    <3>1. /\ r[i] = q[i] /\ q[i].id[2] <= t[q[i].id[1]].stream
          /\ q[i].kind = "end" => EndedBy(t, q[i].id)
          /\ q[i].kind = "delta" => q[i].text[1] <= v[q[i].id]
      BY <1>1, <2>1 DEF InLine
    <3>2. r[i].id \in Streams /\ (r[i].kind = "delta" => r[i].text[1] \in Nat)
      BY <1>1
    <3> QED BY <1>3, <3>1, <3>2
  <2>2. CASE i = n
    BY <1>1, <1>2, <2>2 DEF IsPiece
  <2> QED BY <1>1, <2>1, <2>2
<1>5. ASSUME NEW i \in 1 .. n, NEW j \in 1 .. n, i < j
      PROVE  /\ NotAfter(r[i].id, r[j].id)
             /\ r[i].kind = "end" => ~IsPiece(r[j], r[i].id)
  <2>0. i \in 1 .. Len(q) /\ r[i] = q[i]
    BY <1>1, <1>5
  <2>1. CASE j \in 1 .. Len(q)
    BY <1>1, <1>5, <2>0, <2>1 DEF InLine
  <2>2. CASE j = n
    <3>1. /\ r[i].id[2] <= t[r[i].id[1]].stream
          /\ r[i].kind = "end" => EndedBy(t, r[i].id)
      BY <2>0 DEF InLine
    <3> QED BY <1>2, <2>2, <3>1 DEF NotAfter, IsPiece
  <2> QED BY <1>1, <2>1, <2>2
<1>6. ASSUME NEW i \in 1 .. Len(q), q[i].kind = "delta"
      PROVE  q[i].text[1] <= v[q[i].id] /\ q[i].text[1] \in Nat
  BY <1>1, <1>6, LineTypes DEF InLine
<1>7. ASSUME NEW i \in 1 .. n, r[i].kind = "delta", NEW j \in i + 1 .. n, IsPiece(r[j], r[i].id)
      PROVE  r[j].text[1] > r[i].text[1]
  <2>0. i \in 1 .. Len(q) /\ r[i] = q[i] /\ j \in 1 .. n
    BY <1>1
  <2>1. CASE j \in 1 .. Len(q)
    <3>1. j \in i + 1 .. Len(q) /\ r[j] = q[j]
      BY <1>1, <2>1
    <3> QED BY <1>7, <2>0, <3>1 DEF InLine
  <2>2. CASE j = n
    <3>1. q[i].id = id
      BY <1>2, <1>7, <2>0, <2>2 DEF IsPiece
    <3> QED BY <1>2, <1>6, <1>7, <2>0, <2>2, <3>1
  <2> QED BY <1>1, <2>0, <2>1, <2>2
<1>8. ASSUME NEW i \in 1 .. n, r[i].kind = "delta", r[i].text[1] < w[r[i].id]
      PROVE  \E j \in i + 1 .. n : IsPiece(r[j], r[i].id) /\ r[j].text[1] = r[i].text[1] + 1
  <2>1. i \in 1 .. Len(q) /\ r[i] = q[i]
    <3>1. i # n
      BY <1>2, <1>3, <1>8
    <3> QED BY <1>1, <3>1
  <2>2. CASE q[i].text[1] < v[q[i].id]
    <3>1. PICK j \in i + 1 .. Len(q) : IsPiece(q[j], q[i].id) /\ q[j].text[1] = q[i].text[1] + 1
      BY <1>8, <2>1, <2>2 DEF InLine
    <3>2. j \in 1 .. Len(q) /\ j \in i + 1 .. n
      BY <1>1
    <3> QED BY <1>1, <2>1, <3>1, <3>2
  <2>3. CASE ~(q[i].text[1] < v[q[i].id])
    <3>1. q[i].text[1] = v[q[i].id]
      <4>1. q[i].text[1] <= v[q[i].id] /\ q[i].text[1] \in Nat /\ v[q[i].id] \in Nat
        BY <1>1, <1>6, <1>8, <2>1
      <4> QED BY <2>3, <4>1
    <3>2. q[i].id = id
      <4>1. q[i].id \in Streams /\ v[q[i].id] \in Nat
        BY <1>1, <2>1
      <4> QED BY <1>8, <2>1, <3>1, <4>1
    <3>3. n \in i + 1 .. n
      BY <1>1, <2>1
    <3> QED BY <1>2, <2>1, <3>1, <3>2, <3>3
  <2> QED BY <2>2, <2>3
<1>9. ASSUME NEW i \in 1 .. n, r[i].kind = "delta", NEW j \in i .. n,
             \A k \in i .. j : IsPiece(r[k], r[i].id)
      PROVE  r[j].text[1] = r[i].text[1] + j - i
  <2>0. i \in Nat /\ j \in Nat /\ i <= j /\ j <= n /\ j \in 1 .. n /\ r[i].text[1] \in Nat
    BY <1>1, <1>9
  <2>1. CASE j \in 1 .. Len(q)
    <3>1. i \in 1 .. Len(q) /\ j \in i .. Len(q) /\ \A k \in i .. j : k \in 1 .. Len(q)
      BY <2>0, <2>1
    <3>2. r[i] = q[i] /\ r[j] = q[j] /\ \A k \in i .. j : IsPiece(q[k], q[i].id)
      BY <1>1, <1>9, <2>1, <3>1
    <3> QED BY <1>9, <3>1, <3>2 DEF InLine
  <2>2. CASE j = n /\ i = n
    BY <2>0, <2>2
  <2>3. CASE j = n /\ i # n
    <3> DEFINE l == Len(q)
    <3>1. i \in 1 .. l /\ l \in i .. l /\ l \in 1 .. l /\ l \in i .. j /\ l \in Nat
          /\ j \in i .. j /\ \A k \in i .. l : k \in i .. j /\ k \in 1 .. l
      BY <1>1, <2>0, <2>3
    <3> HIDE DEF l
    <3>2. r[i] = q[i] /\ r[l] = q[l]
      BY <1>1, <3>1 DEF l
    <3>3. \A k \in i .. l : IsPiece(q[k], q[i].id)
      BY <1>1, <1>9, <3>1, <3>2 DEF l
    <3>4. q[l].text[1] = q[i].text[1] + l - i
      BY <1>9, <3>1, <3>2, <3>3 DEF InLine, l
    <3>5. q[i].id = id /\ IsPiece(q[l], id)
      <4>1. IsPiece(r[n], r[i].id)
        BY <1>9, <2>3, <3>1
      <4>2. r[i].id = id
        BY <1>2, <4>1 DEF IsPiece
      <4> QED BY <3>1, <3>2, <3>3, <4>2
    (* The piece before is the last one that was written.                  *)
    <3>6. q[l].text[1] = v[id]
      <4>1. q[l].text[1] <= v[id] /\ q[l].text[1] \in Nat /\ q[l].kind = "delta" /\ q[l].id = id
        BY <1>6, <3>1, <3>5 DEF IsPiece, l
      <4>2. ~(q[l].text[1] < v[id])
        <5>1. ASSUME q[l].text[1] < v[id] PROVE FALSE
          <6>1. \E x \in l + 1 .. Len(q) : IsPiece(q[x], q[l].id) /\ q[x].text[1] = q[l].text[1] + 1
            BY <3>1, <4>1, <5>1 DEF InLine, l
          <6>2. l + 1 .. Len(q) = {}
            BY <3>1 DEF l
          <6> QED BY <6>1, <6>2
        <5> QED BY <5>1
      <4>3. v[id] \in Nat
        OBVIOUS
      <4> QED BY <4>1, <4>2, <4>3
    <3>7. n = l + 1
      BY <1>1 DEF l
    <3> QED BY <1>2, <2>0, <2>3, <3>1, <3>2, <3>4, <3>6, <3>7
  <2> QED BY <1>1, <2>0, <2>1, <2>2, <2>3
<1> QED BY <1>4, <1>5, <1>7, <1>8, <1>9 DEF InLine, n

(* Rest(q, r, n): r is q without its first n messages.                     *)
Rest(q, r, n) ==
  /\ n \in 1 .. Len(q) /\ Len(r) = Len(q) - n
  /\ \A i \in 1 .. Len(r) : r[i] = q[i + n]

LEMMA RestLine ==
  ASSUME NEW q \in Line, NEW r \in Line, NEW t, NEW w, InLine(q, t, w), NEW n, Rest(q, r, n)
  PROVE  InLine(r, t, w)
<1>1. /\ Len(q) \in Nat /\ Len(r) \in Nat /\ n \in Nat /\ n >= 1 /\ Len(r) = Len(q) - n
      /\ \A i \in 1 .. Len(q) :
              /\ q[i].id \in Streams /\ q[i].id[1] \in Talkers /\ q[i].id[2] \in Nat
              /\ q[i].kind = "delta" => q[i].text[1] \in Nat \ {0}
  BY LineTypes DEF Rest
<1>2. ASSUME NEW i \in 1 .. Len(r) PROVE i + n \in 1 .. Len(q) /\ r[i] = q[i + n]
  BY <1>1 DEF Rest
<1>3. ASSUME NEW i \in 1 .. Len(r)
      PROVE  /\ r[i].id[2] <= t[r[i].id[1]].stream
             /\ r[i].kind = "end" => EndedBy(t, r[i].id)
             /\ r[i].kind = "delta" => r[i].text[1] <= w[r[i].id]
  BY <1>2 DEF InLine
<1>4. ASSUME NEW i \in 1 .. Len(r), NEW j \in 1 .. Len(r), i < j
      PROVE  /\ NotAfter(r[i].id, r[j].id)
             /\ r[i].kind = "end" => ~IsPiece(r[j], r[i].id)
  <2>1. i + n < j + n /\ i + n \in 1 .. Len(q) /\ j + n \in 1 .. Len(q)
    BY <1>1, <1>2, <1>4
  <2>2. /\ NotAfter(q[i + n].id, q[j + n].id)
        /\ q[i + n].kind = "end" => ~IsPiece(q[j + n], q[i + n].id)
    BY <2>1 DEF InLine
  <2> QED BY <1>2, <2>2
<1>5. ASSUME NEW i \in 1 .. Len(r), r[i].kind = "delta", NEW j \in i + 1 .. Len(r),
             IsPiece(r[j], r[i].id)
      PROVE  r[j].text[1] > r[i].text[1]
  <2>1. j \in 1 .. Len(r) /\ j + n \in (i + n) + 1 .. Len(q)
    BY <1>1
  <2>2. r[i] = q[i + n] /\ r[j] = q[j + n] /\ i + n \in 1 .. Len(q)
    BY <1>2, <2>1
  <2> QED BY <1>5, <2>1, <2>2 DEF InLine
<1>6. ASSUME NEW i \in 1 .. Len(r), r[i].kind = "delta", r[i].text[1] < w[r[i].id]
      PROVE  \E j \in i + 1 .. Len(r) : IsPiece(r[j], r[i].id) /\ r[j].text[1] = r[i].text[1] + 1
  <2>1. r[i] = q[i + n] /\ i + n \in 1 .. Len(q)
    BY <1>2
  <2>2. PICK k \in (i + n) + 1 .. Len(q) :
          IsPiece(q[k], q[i + n].id) /\ q[k].text[1] = q[i + n].text[1] + 1
    BY <1>6, <2>1 DEF InLine
  <2>3. k - n \in i + 1 .. Len(r) /\ k - n \in 1 .. Len(r) /\ (k - n) + n = k
    BY <1>1
  <2>4. r[k - n] = q[k]
    BY <1>2, <2>3
  <2> QED BY <2>1, <2>2, <2>3, <2>4
<1>7. ASSUME NEW i \in 1 .. Len(r), r[i].kind = "delta", NEW j \in i .. Len(r),
             \A k \in i .. j : IsPiece(r[k], r[i].id)
      PROVE  r[j].text[1] = r[i].text[1] + j - i
  <2>1. /\ j \in 1 .. Len(r) /\ j + n \in i + n .. Len(q) /\ r[i] = q[i + n]
        /\ i + n \in 1 .. Len(q)
    BY <1>1, <1>2
  <2>2. r[j] = q[j + n]
    BY <1>2, <2>1
  <2>3. ASSUME NEW k \in i + n .. j + n PROVE IsPiece(q[k], q[i + n].id)
    <3>1. k - n \in i .. j /\ k - n \in 1 .. Len(r) /\ (k - n) + n = k
      BY <1>1, <2>1
    <3>2. r[k - n] = q[k]
      BY <1>2, <3>1
    <3> QED BY <1>7, <2>1, <3>1, <3>2
  <2>4. q[j + n].text[1] = q[i + n].text[1] + (j + n) - (i + n)
    BY <1>7, <2>1, <2>3 DEF InLine
  <2>5. q[i + n].text[1] \in Nat
    BY <1>1, <1>7, <2>1
  <2> QED BY <1>1, <2>1, <2>2, <2>4, <2>5
<1> QED BY <1>3, <1>4, <1>5, <1>6, <1>7 DEF InLine

(***************************************************************************)
(* The pieces of a stream that are still to come.                          *)
(***************************************************************************)
LEMMA QuietGoesOn ==
  ASSUME NEW q \in Line, NEW r \in Line, NEW w, NEW id, NEW n, Grown(q, r), GoesOn(q, w, id, n),
         \A i \in 1 .. Len(r) : i \in 1 .. Len(q) \/ r[i].kind # "delta"
  PROVE  GoesOn(r, w, id, n)
<1>1. ASSUME NEW i \in 1 .. Len(r), IsPiece(r[i], id) PROVE r[i].text[1] > n
  <2>1. i \in 1 .. Len(q) /\ r[i] = q[i]
    BY <1>1 DEF IsPiece, Grown
  <2> QED BY <1>1, <2>1 DEF GoesOn
<1>2. ASSUME n < w[id] PROVE \E i \in 1 .. Len(r) : IsPiece(r[i], id) /\ r[i].text[1] = n + 1
  <2>1. PICK i \in 1 .. Len(q) : IsPiece(q[i], id) /\ q[i].text[1] = n + 1
    BY <1>2 DEF GoesOn
  <2>2. i \in 1 .. Len(r) /\ r[i] = q[i]
    BY DEF Grown
  <2> QED BY <2>1, <2>2
<1> QED BY <1>1, <1>2 DEF GoesOn

LEMMA PieceGoesOn ==
  ASSUME NEW q \in Line, NEW r \in Line, NEW v, NEW w, NEW own \in Streams, NEW id \in Streams,
         NEW n \in Nat, Grown(q, r), GoesOn(q, v, id, n), \A x \in Streams : v[x] \in Nat,
         w[own] = v[own] + 1, \A x \in Streams \ {own} : w[x] = v[x],
         Len(r) = Len(q) + 1, IsPiece(r[Len(r)], own), r[Len(r)].text[1] = v[own] + 1
  PROVE  GoesOn(r, w, id, n)
<1>1. /\ Len(q) \in Nat /\ Len(r) \in Nat /\ Len(r) \in 1 .. Len(r)
      /\ \A i \in 1 .. Len(r) : i \in 1 .. Len(q) \/ i = Len(r)
  BY LineTypes
<1>2. n <= v[id] /\ v[id] \in Nat /\ n <= w[id]
  BY DEF GoesOn
<1>3. ASSUME NEW i \in 1 .. Len(r), IsPiece(r[i], id) PROVE r[i].text[1] > n
  <2>1. CASE i \in 1 .. Len(q)
    BY <1>3, <2>1 DEF GoesOn, Grown
  <2>2. CASE i = Len(r)
    <3>1. id = own
      BY <1>3, <2>2 DEF IsPiece
    <3> QED BY <1>2, <2>2, <3>1
  <2> QED BY <1>1, <2>1, <2>2
<1>4. ASSUME n < w[id] PROVE \E i \in 1 .. Len(r) : IsPiece(r[i], id) /\ r[i].text[1] = n + 1
  <2>1. CASE n < v[id]
    <3>1. PICK i \in 1 .. Len(q) : IsPiece(q[i], id) /\ q[i].text[1] = n + 1
      BY <2>1 DEF GoesOn
    <3>2. i \in 1 .. Len(r) /\ r[i] = q[i]
      BY DEF Grown
    <3> QED BY <3>1, <3>2
  <2>2. CASE ~(n < v[id])
    <3>1. n = v[id] /\ id = own
      BY <1>2, <1>4, <2>2
    <3> QED BY <1>1, <3>1
  <2> QED BY <2>1, <2>2
<1> QED BY <1>2, <1>3, <1>4 DEF GoesOn

(* Messages of other streams are taken.                                    *)
LEMMA RestGoesOn ==
  ASSUME NEW q \in Line, NEW r \in Line, NEW w, NEW id, NEW n, GoesOn(q, w, id, n),
         NEW m, Rest(q, r, m), \A i \in 1 .. m : ~IsPiece(q[i], id)
  PROVE  GoesOn(r, w, id, n)
<1>1. Len(q) \in Nat /\ Len(r) \in Nat /\ m \in Nat /\ m >= 1 /\ Len(r) = Len(q) - m
  BY LineTypes DEF Rest
<1>2. ASSUME NEW i \in 1 .. Len(r), IsPiece(r[i], id) PROVE r[i].text[1] > n
  <2>1. i + m \in 1 .. Len(q) /\ r[i] = q[i + m]
    BY <1>1 DEF Rest
  <2> QED BY <1>2, <2>1 DEF GoesOn
<1>3. ASSUME n < w[id] PROVE \E i \in 1 .. Len(r) : IsPiece(r[i], id) /\ r[i].text[1] = n + 1
  <2>1. PICK i \in 1 .. Len(q) : IsPiece(q[i], id) /\ q[i].text[1] = n + 1
    BY <1>3 DEF GoesOn
  <2>2. i \notin 1 .. m
    BY <2>1
  <2>3. i - m \in 1 .. Len(r) /\ (i - m) + m = i
    BY <1>1, <2>2
  <2>4. r[i - m] = q[i]
    BY <2>3 DEF Rest
  <2> QED BY <2>1, <2>3, <2>4
<1> QED BY <1>2, <1>3 DEF GoesOn

(* The first message that waits, if it is one of the stream, is the next   *)
(* piece.                                                                  *)
LEMMA FirstIsNext ==
  ASSUME NEW q \in Line, NEW t, NEW w, InLine(q, t, w), Len(q) \in Nat \ {0},
         NEW id \in Streams, NEW n \in Nat, w[id] \in Nat, GoesOn(q, w, id, n), IsPiece(q[1], id)
  PROVE  q[1].text[1] = n + 1
<1>1. 1 \in 1 .. Len(q) /\ q[1].kind = "delta" /\ q[1].id = id
  BY DEF IsPiece
<1>2. q[1].text[1] > n /\ q[1].text[1] <= w[id] /\ q[1].text[1] \in Nat
  BY <1>1, LineTypes DEF GoesOn, InLine
<1>3. n < w[id]
  BY <1>2
<1>4. PICK i \in 1 .. Len(q) : IsPiece(q[i], id) /\ q[i].text[1] = n + 1
  BY <1>3 DEF GoesOn
<1>5. CASE i = 1
  BY <1>4, <1>5
<1>6. CASE i # 1
  <2>1. i \in 1 + 1 .. Len(q)
    BY <1>6
  <2>2. q[i].text[1] > q[1].text[1]
    BY <1>1, <1>4, <2>1 DEF InLine
  <2> QED BY <1>2, <1>4, <2>2
<1> QED BY <1>5, <1>6

(* When pieces of the stream are taken, it goes on after the last of them. *)
LEMMA TakenGoesOn ==
  ASSUME NEW q \in Line, NEW r \in Line, NEW t, NEW w, InLine(q, t, w),
         NEW id \in Streams, NEW m, Rest(q, r, m), IsPiece(q[m], id)
  PROVE  GoesOn(r, w, id, q[m].text[1])
<1>1. /\ Len(q) \in Nat /\ Len(r) \in Nat /\ m \in Nat /\ m >= 1 /\ Len(r) = Len(q) - m
      /\ m \in 1 .. Len(q) /\ q[m].kind = "delta" /\ q[m].id = id
  BY LineTypes DEF Rest, IsPiece
<1>2. q[m].text[1] <= w[id]
  BY <1>1 DEF InLine
<1>3. ASSUME NEW i \in 1 .. Len(r), IsPiece(r[i], id) PROVE r[i].text[1] > q[m].text[1]
  <2>1. i + m \in m + 1 .. Len(q) /\ r[i] = q[i + m]
    BY <1>1 DEF Rest
  <2> QED BY <1>1, <1>3, <2>1 DEF InLine
<1>4. ASSUME q[m].text[1] < w[id]
      PROVE  \E i \in 1 .. Len(r) : IsPiece(r[i], id) /\ r[i].text[1] = q[m].text[1] + 1
  <2>1. PICK i \in m + 1 .. Len(q) : IsPiece(q[i], id) /\ q[i].text[1] = q[m].text[1] + 1
    BY <1>1, <1>4 DEF InLine
  <2>2. i - m \in 1 .. Len(r) /\ (i - m) + m = i
    BY <1>1
  <2>3. r[i - m] = q[i]
    BY <2>2 DEF Rest
  <2> QED BY <2>1, <2>2, <2>3
<1> QED BY <1>2, <1>3, <1>4 DEF GoesOn

(***************************************************************************)
(* The parts of the type invariant.                                        *)
(***************************************************************************)
QueueTypes ==
  /\ outbound \in Seq(OnePiece) /\ Len(outbound) <= OutboundCap
  /\ aside \in Seq(OnePiece) /\ Len(aside) <= 1 /\ hand \in Seq(InHand) /\ Len(hand) <= 1
  /\ tries \in 0 .. SendTries - 1 /\ stale \in BOOLEAN /\ enabled \in BOOLEAN
Shown  == [id : Streams, text : Seq(Pieces)]
Buffer1 == [id : Streams, text : Seq(Pieces) \ {<<>>}, message : Nat]
ScreenTypes ==
  /\ screen \in [Chats -> Seq(Shown)] /\ buffers \in [Chats -> Seq(Buffer1)]
  /\ \A c \in Chats : Len(buffers[c]) <= 1
ReplyTypes ==
  /\ fingerprint \in [Streams -> {<<>>} \cup [{1} -> Texts]]
  /\ said \cup suppressed \subseteq Streams \X Texts
  /\ spoiled \cup taken \subseteq Streams /\ sendFaults \in 0 .. MaxSendFaults

LEMMA TypeParts == DeliveryTypeOK <=> TurnsTypeOK /\ QueueTypes /\ ScreenTypes /\ ReplyTypes
BY DEF DeliveryTypeOK, TurnsTypeOK, TurnRecords, QueueTypes, ScreenTypes, Shown, Buffer1,
       ReplyTypes, Texts

LEMMA TypePartsNext ==
  DeliveryTypeOK' <=> TurnsTypeOK' /\ QueueTypes' /\ ScreenTypes' /\ ReplyTypes'
BY DEF DeliveryTypeOK, TurnsTypeOK, TurnRecords, QueueTypes, ScreenTypes, Shown, Buffer1,
       ReplyTypes, Texts

LEMMA BufferFacts ==
  ASSUME DeliveryTypeOK, NEW c \in Chats, buffers[c] # <<>>
  PROVE  /\ Len(buffers[c]) = 1 /\ buffers[c] = <<buffers[c][1]>> /\ buffers[c][1] \in Buffer1
         /\ buffers[c][1].id \in Streams /\ buffers[c][1].message \in Nat
         /\ buffers[c][1].text \in Seq(Pieces) \ {<<>>}
<1> DEFINE b == buffers[c]  n == Len(b)
<1>1. b \in Seq(Buffer1) /\ n <= 1
  BY TypeParts DEF ScreenTypes
<1>2. n \in Nat \ {0}
  BY <1>1, EmptySeq
<1>3. n = 1
  <2> HIDE DEF n
  <2> QED BY <1>1, <1>2
<1>4. b[1] \in Buffer1
  BY <1>1, <1>3, ElementOfSeq
<1> HIDE DEF b
<1>5. <<b[1]>> \in Seq(Buffer1) /\ Len(<<b[1]>>) = 1 /\ <<b[1]>>[1] = b[1]
  BY <1>4
<1>6. \A i \in 1 .. Len(b) : b[i] = <<b[1]>>[i]
  BY <1>3, <1>5
<1>7. b = <<b[1]>>
  BY <1>1, <1>3, <1>5, <1>6, SeqEqual
<1> QED BY <1>3, <1>4, <1>7 DEF b, Buffer1

LEMMA InitTypes == DeliveryInit => DeliveryTypeOK
<1> SUFFICES ASSUME DeliveryInit PROVE DeliveryTypeOK
  OBVIOUS
<1>1. TurnsTypeOK
  <2>1. \A s \in Talkers : LastStream[s] \in Nat /\ LastPiece[s] \in Nat /\ LastFollowUp[s] \in Nat
    BY DeliveryAssumption
  <2>2. \A id \in Streams : LastPiece[id[1]] \in Nat
    BY <2>1, StreamFacts
  <2> QED BY <2>1, <2>2 DEF DeliveryInit, TurnsTypeOK, TurnRecords
<1>2. QueueTypes
  <2>1. /\ <<>> \in Seq(OnePiece) /\ <<>> \in Seq(InHand) /\ Len(<<>>) = 0
    BY EmptySeq
  <2> DEFINE none == <<>>
  <2>2. outbound = none /\ aside = none /\ hand = none
    BY DEF DeliveryInit
  <2>3. none \in Seq(OnePiece) /\ none \in Seq(InHand) /\ Len(none) = 0
    BY <2>1
  <2>4. /\ 0 \in 0 .. SendTries - 1 /\ 0 <= OutboundCap /\ 0 <= 1
    BY DeliveryAssumption
  <2>5. tries \in 0 .. SendTries - 1 /\ stale \in BOOLEAN /\ enabled \in BOOLEAN
    BY <2>4 DEF DeliveryInit
  <2> HIDE DEF none
  <2> QED BY <2>2, <2>3, <2>4, <2>5 DEF QueueTypes
<1>3. ScreenTypes
  <2>1. <<>> \in Seq(Shown) /\ <<>> \in Seq(Buffer1) /\ Len(<<>>) <= 1
    BY EmptySeq
  <2> QED BY <2>1 DEF DeliveryInit, ScreenTypes
<1>4. ReplyTypes
  BY DeliveryAssumption DEF DeliveryInit, ReplyTypes
<1> QED BY <1>1, <1>2, <1>3, <1>4, TypeParts

LEMMA InitWaiting == DeliveryInit => Waiting = <<>> /\ Len(Waiting) = 0
BY DEF DeliveryInit, Waiting

LEMMA InitIInv == DeliveryInit => DeliveryIInv
<1> SUFFICES ASSUME DeliveryInit PROVE DeliveryIInv
  OBVIOUS
<1>1. DeliveryTypeOK
  BY InitTypes
<1>2. TurnsInv
  BY StreamFacts DEF DeliveryInit, TurnsInv
<1>3. WaitingInv
  <2>1. 1 .. Len(Waiting) = {}
    BY InitWaiting
  <2> QED BY <2>1 DEF WaitingInv, InLine
<1>4. HandInv /\ BufferInv
  BY DEF DeliveryInit, HandInv, BufferInv
<1>5. FingerprintInv
  <2>1. \A answer : <<>> # <<answer>>
    OBVIOUS
  <2> QED BY <2>1 DEF DeliveryInit, FingerprintInv
<1>6. PiecesInOrder
  <2>1. \A c \in Chats : 1 .. Len(screen[c]) = {}
    BY DEF DeliveryInit
  <2> QED BY <2>1 DEF PiecesInOrder
<1>7. SuppressedWasSaid
  BY DEF DeliveryInit, SuppressedWasSaid
<1> QED BY <1>1, <1>2, <1>3, <1>4, <1>5, <1>6, <1>7 DEF DeliveryIInv

(***************************************************************************)
(* A step of a turn.                                                       *)
(***************************************************************************)
BeyondTurns == <<aside, hand, tries, stale, enabled, buffers, screen, fingerprint, said,
                 suppressed, spoiled, taken, sendFaults>>
TurnStep ==
  /\ UNCHANGED BeyondTurns
  /\ DeliveryTypeOK' /\ TurnsInv' /\ Waiting \in Line /\ Waiting' \in Line /\ Grown(Waiting, Waiting')
  /\ InLine(Waiting', turnOf', wrote')
  /\ \A x \in Streams :
       /\ turnOf[x[1]].stream \in Nat /\ turnOf'[x[1]].stream \in Nat
       /\ turnOf[x[1]].stream <= turnOf'[x[1]].stream
       /\ EndedBy(turnOf, x) => EndedBy(turnOf', x) /\ wrote'[x] = wrote[x]
       /\ wrote[x] > 0 /\ EndedBy(turnOf', x) /\ ~EndedBy(turnOf, x) =>
            \E i \in 1 .. Len(Waiting') : Waiting'[i].kind = "end" /\ Waiting'[i].id = x
       /\ \A n \in Nat : GoesOn(Waiting, wrote, x, n) => GoesOn(Waiting', wrote', x, n)
       /\ wrote'[x] > 0 /\ wrote[x] = 0 => ~EndedBy(turnOf', x)
  /\ \A i \in 1 .. Len(Waiting') : i \in 1 .. Len(Waiting) \/
       /\ i > Len(Waiting) /\ Waiting'[i].id \in Streams
       /\ Waiting'[i].id[2] = turnOf[Waiting'[i].id[1]].stream
       /\ \A x \in Streams : IsPiece(Waiting'[i], x) => ~EndedBy(turnOf, x)

LEMMA TurnTyped ==
  ASSUME DeliveryTypeOK, NEW msgs \in Seq(OnePiece), Publish(msgs), TurnsTypeOK',
         Len(outbound) + Len(msgs) <= OutboundCap
  PROVE  /\ UNCHANGED BeyondTurns /\ DeliveryTypeOK'
         /\ Waiting \in Line /\ Waiting' \in Line /\ Grown(Waiting, Waiting')
<1>1. UNCHANGED BeyondTurns
  BY DEF Publish, BeyondTurns, channelVars, replyVars
<1>2. /\ outbound' \in Seq(OnePiece) /\ Len(outbound') <= OutboundCap
  BY PublishFacts
<1>3. QueueTypes' /\ ScreenTypes' /\ ReplyTypes'
  <2>1. QueueTypes /\ ScreenTypes /\ ReplyTypes
    BY TypeParts
  <2>2. QueueTypes'
    BY <1>1, <1>2, <2>1 DEF BeyondTurns, QueueTypes
  <2>3. ScreenTypes'
    BY <1>1, <2>1 DEF BeyondTurns, ScreenTypes
  <2>4. ReplyTypes'
    BY <1>1, <2>1 DEF BeyondTurns, ReplyTypes
  <2> QED BY <2>2, <2>3, <2>4
<1>4. DeliveryTypeOK'
  BY <1>3, TypePartsNext
<1>5. aside' \in Seq(OnePiece)
  BY <1>3 DEF QueueTypes
<1>6. Waiting' \in Line
  <2> DEFINE a == aside'  o == outbound'
  <2>1. a \in Seq(OnePiece) /\ o \in Seq(OnePiece)
    BY <1>2, <1>5
  <2>2. Waiting' = a \o o
    BY DEF Waiting
  <2> HIDE DEF a, o
  <2> QED BY <2>1, <2>2, ConcatProperties DEF Line
<1>7. Waiting \in Line
  BY WaitingFacts DEF Line
<1>8. Grown(Waiting, Waiting')
  <2>1. /\ Len(Waiting') = Len(Waiting) + Len(msgs) /\ Len(msgs) \in Nat
        /\ \A i \in 1 .. Len(Waiting) : i \in 1 .. Len(Waiting') /\ Waiting'[i] = Waiting[i]
    BY PublishFacts
  <2>2. Len(Waiting) \in Nat
    BY WaitingFacts
  <2>3. Len(Waiting) <= Len(Waiting')
    BY <2>1, <2>2
  <2> QED BY <2>1, <2>3 DEF Grown
<1> QED BY <1>1, <1>4, <1>6, <1>7, <1>8

LEMMA QuietStep ==
  ASSUME DeliveryIInv, NEW s \in Talkers, NEW msgs, Quiet(s, msgs)
  PROVE  TurnStep
<1>0. DeliveryTypeOK /\ TurnsInv /\ InLine(Waiting, turnOf, wrote)
  BY DEF DeliveryIInv, WaitingInv
<1> DEFINE q == Waiting  r == Waiting'  t == turnOf  u == turnOf'  id == StreamOf(s)
<1>1. /\ Publish(msgs) /\ msgs \in Seq(OnePiece) /\ Len(outbound) + Len(msgs) <= OutboundCap
      /\ wrote' = wrote /\ TurnsTypeOK' /\ TurnsInv'
  BY DEF Quiet
<1>2. UNCHANGED BeyondTurns /\ DeliveryTypeOK' /\ q \in Line /\ r \in Line /\ Grown(q, r)
  BY <1>0, <1>1, TurnTyped
<1>3. \A x \in Streams :
        /\ t[x[1]].stream \in Nat /\ t[x[1]].stream <= u[x[1]].stream
        /\ EndedBy(t, x) => EndedBy(u, x)
        /\ EndedBy(u, x) /\ ~EndedBy(t, x) /\ wrote[x] > 0 =>
             \E i \in 1 .. Len(msgs) : msgs[i].kind = "end" /\ msgs[i].id = x
  BY <1>0, TurnTypes DEF Quiet, Ended
<1>4. \A x \in Streams : u[x[1]].stream \in Nat
  <2>1. ASSUME NEW x \in Streams PROVE u[x[1]].stream \in Nat
    <3>1. x[1] \in Talkers /\ LastStream[x[1]] \in Nat
      BY StreamFacts, DeliveryAssumption
    <3>2. u[x[1]] \in TurnRecords(x[1])
      BY <1>1, <3>1 DEF TurnsTypeOK
    <3> QED BY <3>1, <3>2 DEF TurnRecords
  <2> QED BY <2>1
<1>5. \A i \in 1 .. Len(msgs) :
        /\ msgs[i].id = id /\ id \in Streams /\ msgs[i].kind # "delta"
        /\ msgs[i].kind = "end" => EndedBy(u, id)
  BY DEF Quiet, Ended, EndedBy
<1>6. \A i \in 1 .. Len(r) : i \in 1 .. Len(q) \/
        (i > Len(q) /\ \E j \in 1 .. Len(msgs) : r[i] = msgs[j])
  BY <1>0, <1>1, PublishFacts
<1>7. \A i \in 1 .. Len(msgs) : Len(q) + i \in 1 .. Len(r) /\ r[Len(q) + i] = msgs[i]
  BY <1>0, <1>1, PublishFacts
<1>8. id[1] = s /\ id[2] = t[s].stream
  BY <1>0, OwnTurn
<1> HIDE DEF q, r, t, u, id
<1>9. \A i \in 1 .. Len(r) : i \in 1 .. Len(q) \/
        /\ i > Len(q) /\ r[i].id = id /\ id \in Streams /\ r[i].kind # "delta"
        /\ r[i].kind = "end" => EndedBy(u, id)
  BY <1>5, <1>6
<1>10. InLine(r, u, wrote)
  <2>1. CASE id \in Streams
    <3>1. /\ t[id[1]].stream \in Nat /\ id[2] = t[id[1]].stream
      BY <1>3, <1>8, <2>1
    <3>2. InLine(q, t, wrote)
      BY <1>0 DEF q, t
    <3> QED BY <1>2, <1>3, <1>4, <1>9, <2>1, <3>1, <3>2, QuietLine
  <2>2. CASE id \notin Streams
    <3>1. \A i \in 1 .. Len(r) : i \in 1 .. Len(q)
      BY <1>9, <2>2
    <3>2. Len(r) \in Nat /\ Len(q) \in Nat /\ Len(q) <= Len(r)
      BY <1>2, LineTypes DEF Grown
    <3>3. Len(r) = Len(q)
      <4>1. Len(r) = 0 \/ Len(r) \in 1 .. Len(r)
        BY <3>2
      <4> QED BY <3>1, <3>2, <4>1
    <3>4. \A i \in 1 .. Len(q) : r[i] = q[i]
      BY <1>2 DEF Grown
    <3>5. r = q
      BY <1>2, <3>3, <3>4, SeqEqual DEF Line
    <3>6. msgs = <<>>
      <4>1. Len(msgs) \in Nat
        BY <1>1, LenProperties
      <4>2. Len(msgs) # 0 => 1 \in 1 .. Len(msgs)
        BY <4>1
      <4>3. Len(msgs) = 0
        BY <1>5, <2>2, <4>2
      <4> QED BY <1>1, <4>3, EmptySeq
    <3>7. InLine(q, t, wrote)
      BY <1>0 DEF q, t
    <3>8. \A i \in 1 .. Len(q) : q[i].id \in Streams /\ q[i].id[2] \in Nat
      BY <1>2, LineTypes
    <3>9. \A i \in 1 .. Len(q) : q[i].id[2] <= u[q[i].id[1]].stream
      <4>1. ASSUME NEW i \in 1 .. Len(q) PROVE q[i].id[2] <= u[q[i].id[1]].stream
        <5>1. q[i].id[2] <= t[q[i].id[1]].stream
          BY <3>7 DEF InLine
        <5> QED BY <1>3, <1>4, <3>8, <5>1
      <4> QED BY <4>1
    <3> QED BY <1>3, <3>5, <3>7, <3>8, <3>9 DEF InLine
  <2> QED BY <2>1, <2>2
<1>11. ASSUME NEW x \in Streams, wrote[x] > 0, EndedBy(u, x), ~EndedBy(t, x)
       PROVE  \E i \in 1 .. Len(r) : r[i].kind = "end" /\ r[i].id = x
  <2>1. PICK i \in 1 .. Len(msgs) : msgs[i].kind = "end" /\ msgs[i].id = x
    BY <1>3, <1>11
  <2> QED BY <1>7, <2>1
<1>12. ASSUME NEW x \in Streams, NEW n \in Nat, GoesOn(q, wrote, x, n)
       PROVE  GoesOn(r, wrote, x, n)
  BY <1>2, <1>9, <1>12, QuietGoesOn
<1>13. ASSUME NEW i \in 1 .. Len(r), i \notin 1 .. Len(q)
       PROVE  /\ i > Len(q) /\ r[i].id \in Streams /\ r[i].id[2] = t[r[i].id[1]].stream
              /\ \A x \in Streams : IsPiece(r[i], x) => ~EndedBy(t, x)
  BY <1>8, <1>9, <1>13 DEF IsPiece
<1>14. \A x \in Streams : wrote[x] \in Nat
  BY <1>0, TurnTypes
<1> QED BY <1>1, <1>2, <1>3, <1>4, <1>10, <1>11, <1>12, <1>13, <1>14 DEF TurnStep, q, r, t, u

LEMMA PieceStep ==
  ASSUME DeliveryIInv, NEW s \in Talkers, StreamsPiece(s)
  PROVE  TurnStep
<1>0. DeliveryTypeOK /\ TurnsInv /\ InLine(Waiting, turnOf, wrote)
  BY DEF DeliveryIInv, WaitingInv
<1> DEFINE q == Waiting  r == Waiting'  t == turnOf  u == turnOf'  id == StreamOf(s)
           v == wrote  w == wrote'
           piece == DeltaOf(StreamOf(s), <<wrote[StreamOf(s)] + 1>>)
<1>1. /\ id \in Streams /\ id[1] = s /\ id[2] = t[s].stream /\ ~EndedBy(t, id)
      /\ v[id] \in Nat /\ w[id] = v[id] + 1
      /\ \A other \in Streams \ {id} : w[other] = v[other]
      /\ piece \in OnePiece /\ Len(outbound) + 1 <= OutboundCap /\ Publish(<<piece>>)
      /\ Len(q) \in Nat /\ Len(r) = Len(q) + 1
      /\ IsPiece(r[Len(r)], id) /\ r[Len(r)].text[1] = v[id] + 1
      /\ \A i \in 1 .. Len(r) : i \in 1 .. Len(q) \/ i = Len(r)
      /\ TurnsTypeOK' /\ TurnsInv'
      /\ \A other \in Streams : /\ u[other[1]].stream = t[other[1]].stream
                                /\ EndedBy(u, other) <=> EndedBy(t, other)
  BY <1>0, PieceFacts DEF Ended
<1>2. UNCHANGED BeyondTurns /\ DeliveryTypeOK' /\ q \in Line /\ r \in Line /\ Grown(q, r)
  <2> DEFINE m == <<piece>>
  <2>1. m \in Seq(OnePiece) /\ Len(m) = 1 /\ Publish(m)
    BY <1>1, OneMessage
  <2> HIDE DEF m
  <2>2. Len(outbound) + Len(m) <= OutboundCap
    BY <1>1, <2>1
  <2> QED BY <1>0, <1>1, <2>1, <2>2, TurnTyped
<1>3. \A x \in Streams : t[x[1]].stream \in Nat /\ v[x] \in Nat
  BY <1>0, TurnTypes
<1>4. InLine(q, t, v)
  BY <1>0
<1> HIDE DEF q, r, t, u, v, w, id, piece
<1>5. t[id[1]].stream \in Nat /\ id[2] = t[id[1]].stream
  BY <1>1, <1>3
<1>6. InLine(r, u, w)
  BY <1>1, <1>2, <1>3, <1>4, <1>5, PieceLine
<1>7. ASSUME NEW x \in Streams, NEW n \in Nat, GoesOn(q, v, x, n)
      PROVE  GoesOn(r, w, x, n)
  BY <1>1, <1>2, <1>3, <1>7, PieceGoesOn
<1>8. ASSUME NEW i \in 1 .. Len(r), i \notin 1 .. Len(q)
      PROVE  /\ i > Len(q) /\ r[i].id \in Streams /\ r[i].id[2] = t[r[i].id[1]].stream
             /\ \A x \in Streams : IsPiece(r[i], x) => ~EndedBy(t, x)
  <2>1. i = Len(r) /\ r[i].id = id
    BY <1>1, <1>8 DEF IsPiece
  <2> QED BY <1>1, <2>1 DEF IsPiece
<1>9. ASSUME NEW x \in Streams
      PROVE  /\ u[x[1]].stream \in Nat /\ t[x[1]].stream \in Nat
             /\ t[x[1]].stream <= u[x[1]].stream
             /\ EndedBy(t, x) => EndedBy(u, x) /\ w[x] = v[x]
             /\ ~(EndedBy(u, x) /\ ~EndedBy(t, x))
             /\ w[x] > 0 /\ v[x] = 0 => ~EndedBy(u, x)
  <2>1. x = id \/ w[x] = v[x]
    BY <1>1
  <2>2. u[x[1]].stream = t[x[1]].stream /\ t[x[1]].stream \in Nat /\ v[x] \in Nat
    BY <1>1, <1>3
  <2> QED BY <1>1, <2>1, <2>2
<1> QED BY <1>1, <1>2, <1>6, <1>7, <1>8, <1>9 DEF TurnStep, q, r, t, u, v, w

LEMMA TurnsStep ==
  ASSUME DeliveryIInv, Turns
  PROVE  TurnStep
<1>1. DeliveryTypeOK /\ TurnsInv
  BY DEF DeliveryIInv
<1> QED BY <1>1, TurnIsQuiet, QuietStep, PieceStep

LEMMA TurnKeepsHand ==
  ASSUME DeliveryIInv, TurnStep
  PROVE  HandInv'
<1>0. DeliveryTypeOK /\ HandInv
  BY DEF DeliveryIInv
<1>1. hand' = hand /\ tries' = tries /\ stale' = stale /\ enabled' = enabled /\ spoiled' = spoiled
  BY DEF TurnStep, BeyondTurns
<1>2. CASE hand = <<>>
  BY <1>0, <1>1, <1>2 DEF HandInv
<1>3. CASE hand # <<>>
  <2> DEFINE m == Msg  q == Waiting  r == Waiting'
  <2>1. Msg' = m
    BY <1>1 DEF Msg
  <2>2. /\ enabled \/ stale
        /\ tries > 0 => m.id \in spoiled
        /\ m.id[2] <= turnOf[m.id[1]].stream
        /\ \A i \in 1 .. Len(q) :
             /\ NotAfter(m.id, q[i].id)
             /\ m.kind = "end" => ~IsPiece(q[i], m.id)
        /\ m.kind = "end" => EndedBy(turnOf, m.id)
        /\ m.kind = "delta" =>
             /\ \A i \in 1 .. Len(m.text) : m.text[i] = m.text[1] + i - 1
             /\ GoesOn(q, wrote, m.id, LastOf(m.text))
    BY <1>0, <1>3 DEF HandInv, Ended, Follows
  <2>3. m.id \in Streams /\ (m.kind = "delta" => LastOf(m.text) \in Nat)
    BY <1>0, <1>3, HandFacts, InHandFacts, LastFacts
  <2>4. /\ turnOf[m.id[1]].stream \in Nat /\ turnOf'[m.id[1]].stream \in Nat
        /\ turnOf[m.id[1]].stream <= turnOf'[m.id[1]].stream /\ m.id[2] \in Nat
        /\ EndedBy(turnOf, m.id) => EndedBy(turnOf', m.id)
    BY <2>3, StreamFacts DEF TurnStep
  <2>5. m.kind = "delta" => GoesOn(r, wrote', m.id, LastOf(m.text))
    BY <2>2, <2>3 DEF TurnStep
  <2>6. ASSUME NEW i \in 1 .. Len(r)
        PROVE  /\ NotAfter(m.id, r[i].id)
               /\ m.kind = "end" => ~IsPiece(r[i], m.id)
    <3>1. CASE i \in 1 .. Len(q)
      BY <2>2, <3>1 DEF TurnStep, Grown
    <3>2. CASE i \notin 1 .. Len(q)
      <4>1. /\ r[i].id[2] = turnOf[r[i].id[1]].stream
            /\ \A x \in Streams : IsPiece(r[i], x) => ~EndedBy(turnOf, x)
        BY <3>2 DEF TurnStep
      <4> QED BY <2>2, <2>3, <4>1 DEF NotAfter
    <3> QED BY <3>1, <3>2
  <2>7. m.id[2] <= turnOf'[m.id[1]].stream
    BY <2>2, <2>4
  <2> HIDE DEF m, q
  <2> QED BY <1>1, <1>3, <2>1, <2>2, <2>4, <2>5, <2>6, <2>7 DEF HandInv, Ended, Follows
<1> QED BY <1>2, <1>3

LEMMA TurnKeepsBuffers ==
  ASSUME DeliveryIInv, TurnStep
  PROVE  BufferInv'
<1>0. DeliveryTypeOK /\ BufferInv
  BY DEF DeliveryIInv
<1>1. /\ hand' = hand /\ tries' = tries /\ stale' = stale /\ enabled' = enabled
      /\ spoiled' = spoiled /\ buffers' = buffers /\ screen' = screen
  BY DEF TurnStep, BeyondTurns
<1>2. Msg' = Msg /\ \A id : InHandOf(id)' <=> InHandOf(id)
  BY <1>1 DEF Msg, InHandOf
<1>3. ASSUME NEW c \in Chats, buffers[c] # <<>>
      PROVE  LET b == buffers[c][1] IN
             /\ ChatOf[b.id[1]] = c
             /\ InOrder(b.id, b.text)'
             /\ b.message <= Len(screen[c])
             /\ b.message > 0 => screen[c][b.message].id = b.id
             /\ b.id[2] <= turnOf'[b.id[1]].stream
             /\ \A i \in 1 .. Len(Waiting') : NotAfter(b.id, Waiting'[i].id)
             /\ hand # <<>> => NotAfter(b.id, Msg.id)
             /\ IF InHandOf(b.id)
                  THEN \/ Msg.text[1] = LastOf(b.text) + 1
                       \/ tries > 0 /\ LastOf(b.text) = LastOf(Msg.text)
                  ELSE GoesOn(Waiting', wrote', b.id, LastOf(b.text))
  <2> DEFINE b == buffers[c][1]
  <2>1. /\ ChatOf[b.id[1]] = c
        /\ InOrder(b.id, b.text)
        /\ b.message <= Len(screen[c])
        /\ b.message > 0 => screen[c][b.message].id = b.id
        /\ b.id[2] <= turnOf[b.id[1]].stream
        /\ \A i \in 1 .. Len(Waiting) : NotAfter(b.id, Waiting[i].id)
        /\ hand # <<>> => NotAfter(b.id, Msg.id)
        /\ IF InHandOf(b.id)
             THEN \/ Msg.text[1] = LastOf(b.text) + 1
                  \/ tries > 0 /\ LastOf(b.text) = LastOf(Msg.text)
             ELSE GoesOn(Waiting, wrote, b.id, LastOf(b.text))
    BY <1>0, <1>3 DEF BufferInv, Follows
  <2>2. b.id \in Streams /\ LastOf(b.text) \in Nat
    BY <1>0, <1>3, BufferFacts, LastFacts
  <2> HIDE DEF b
  <2>3. InOrder(b.id, b.text)'
    <3>1. b' = b
      BY <1>1 DEF b
    <3> QED BY <1>1, <2>1, <3>1 DEF InOrder
  <2>4. b.id[2] <= turnOf'[b.id[1]].stream
    BY <2>1, <2>2, StreamFacts DEF TurnStep
  <2>5. ASSUME NEW i \in 1 .. Len(Waiting') PROVE NotAfter(b.id, Waiting'[i].id)
    <3>1. CASE i \in 1 .. Len(Waiting)
      BY <2>1, <3>1 DEF TurnStep, Grown
    <3>2. CASE i \notin 1 .. Len(Waiting)
      <4>1. Waiting'[i].id[2] = turnOf[Waiting'[i].id[1]].stream
        BY <3>2 DEF TurnStep
      <4> QED BY <2>1, <4>1 DEF NotAfter
    <3> QED BY <3>1, <3>2
  <2>6. GoesOn(Waiting, wrote, b.id, LastOf(b.text)) =>
          GoesOn(Waiting', wrote', b.id, LastOf(b.text))
    BY <2>2 DEF TurnStep
  <2> QED BY <2>1, <2>3, <2>4, <2>5, <2>6 DEF b
<1>4. stale \/ ~enabled => \A c \in Chats : buffers[c] = <<>>
  BY <1>0 DEF BufferInv
<1> QED BY <1>1, <1>2, <1>3, <1>4 DEF BufferInv, Follows, InOrder

LEMMA TurnKeepsComplete ==
  ASSUME DeliveryIInv, TurnStep, NEW id \in Streams, Finished(id) \/ UnderWay(id)
  PROVE  (Finished(id) \/ UnderWay(id))'
<1>0. DeliveryTypeOK /\ BufferInv
  BY DEF DeliveryIInv
<1>1. hand' = hand /\ buffers' = buffers /\ screen' = screen
  BY DEF TurnStep, BeyondTurns
<1>2. Msg' = Msg /\ (InHandOf(id)' <=> InHandOf(id)) /\ (Held(id)' <=> Held(id))
  BY <1>1 DEF Msg, InHandOf, Held
<1>3. /\ wrote[id] \in Nat
      /\ EndedBy(turnOf, id) => EndedBy(turnOf', id) /\ wrote'[id] = wrote[id]
      /\ wrote[id] > 0 /\ EndedBy(turnOf', id) /\ ~EndedBy(turnOf, id) =>
            \E i \in 1 .. Len(Waiting') : Waiting'[i].kind = "end" /\ Waiting'[i].id = id
      /\ wrote'[id] > 0 /\ wrote[id] = 0 => ~EndedBy(turnOf', id)
  BY <1>0, TurnTypes DEF TurnStep
<1>4. CASE Finished(id)
  <2>1. EndedBy(turnOf, id) /\ EndedBy(turnOf', id) /\ wrote'[id] = wrote[id] /\ wrote[id] > 0
    BY <1>3, <1>4 DEF Finished, Ended
  <2>2. OnOneScreen(id)'
    BY <1>1, <1>4, <2>1 DEF Finished, OnOneScreen, Whole
  <2>3. ASSUME NEW i \in 1 .. Len(Waiting') PROVE ~IsPiece(Waiting'[i], id)
    <3>1. CASE i \in 1 .. Len(Waiting)
      BY <1>4, <3>1 DEF Finished, TurnStep, Grown
    <3>2. CASE i \notin 1 .. Len(Waiting)
      BY <2>1, <3>2 DEF TurnStep
    <3> QED BY <3>1, <3>2
  <2>4. Finished(id)'
    BY <1>2, <1>4, <2>1, <2>2, <2>3 DEF Finished, Ended
  <2> QED BY <2>4
<1>5. CASE UnderWay(id)
  <2>1. ASSUME wrote'[id] > 0, EndedBy(turnOf', id) PROVE EndComes(id)'
    <3>1. wrote[id] > 0
      BY <1>3, <2>1
    <3>2. CASE EndedBy(turnOf, id)
      <4>1. EndComes(id)
        BY <1>5, <3>1, <3>2 DEF UnderWay, Ended
      <4>2. CASE hand # <<>> /\ Msg.kind = "end" /\ Msg.id = id
        BY <1>1, <1>2, <4>2 DEF EndComes
      <4>3. CASE \E i \in 1 .. Len(Waiting) : Waiting[i].kind = "end" /\ Waiting[i].id = id
        <5>1. \E i \in 1 .. Len(Waiting') : Waiting'[i].kind = "end" /\ Waiting'[i].id = id
          BY <4>3 DEF TurnStep, Grown
        <5> QED BY <5>1 DEF EndComes
      <4> QED BY <4>1, <4>2, <4>3 DEF EndComes
    <3>3. CASE ~EndedBy(turnOf, id)
      <4>1. \E i \in 1 .. Len(Waiting') : Waiting'[i].kind = "end" /\ Waiting'[i].id = id
        BY <1>3, <2>1, <3>1, <3>3
      <4> QED BY <4>1 DEF EndComes
    <3> QED BY <3>2, <3>3
  <2>2. GoesOn(Waiting, wrote, id, 0) => GoesOn(Waiting', wrote', id, 0)
    BY DEF TurnStep
  <2>3. CASE Held(id)
    <3> DEFINE b == buffers[ChatOf[id[1]]][1]
    <3>1. b' = b /\ b.message > 0 /\ \A i \in 1 .. Len(b.text) : b.text[i] = i
      BY <1>1, <1>5, <2>3 DEF UnderWay
    <3> QED BY <1>2, <2>1, <2>3, <3>1 DEF UnderWay, Ended
  <2>4. CASE ~Held(id) /\ InHandOf(id)
    <3>1. Msg'.text[1] = 1
      BY <1>2, <1>5, <2>4 DEF UnderWay
    <3> QED BY <1>2, <2>1, <2>4, <3>1 DEF UnderWay, Ended
  <2>5. CASE ~Held(id) /\ ~InHandOf(id)
    <3>1. GoesOn(Waiting', wrote', id, 0)
      BY <1>5, <2>2, <2>5 DEF UnderWay, Follows
    <3> QED BY <1>2, <2>1, <2>5, <3>1 DEF UnderWay, Ended, Follows
  <2> QED BY <2>3, <2>4, <2>5
<1> QED BY <1>4, <1>5

LEMMA TurnKeepsRest ==
  ASSUME DeliveryIInv, TurnStep
  PROVE  FingerprintInv' /\ PiecesInOrder' /\ SuppressedWasSaid'
<1>1. /\ hand' = hand /\ spoiled' = spoiled /\ screen' = screen /\ Msg' = Msg
      /\ fingerprint' = fingerprint /\ said' = said /\ suppressed' = suppressed
  BY DEF TurnStep, BeyondTurns, Msg
<1>2. FingerprintInv /\ PiecesInOrder /\ SuppressedWasSaid
  BY DEF DeliveryIInv
<1>3. FingerprintInv'
  BY <1>1, <1>2 DEF FingerprintInv
<1>4. PiecesInOrder'
  BY <1>1, <1>2 DEF PiecesInOrder
<1>5. SuppressedWasSaid'
  BY <1>1, <1>2 DEF SuppressedWasSaid
<1> QED BY <1>3, <1>4, <1>5

LEMMA TurnKeeps ==
  ASSUME DeliveryIInv, Turns
  PROVE  DeliveryIInv'
<1>1. TurnStep
  BY TurnsStep
<1>2. DeliveryTypeOK' /\ TurnsInv' /\ WaitingInv'
  BY <1>1 DEF TurnStep, WaitingInv
<1> QED BY <1>1, <1>2, TurnKeepsHand, TurnKeepsBuffers, TurnKeepsRest DEF DeliveryIInv

(***************************************************************************)
(* The dispatcher takes the next message.                                  *)
(***************************************************************************)
LEMMA TakeRest ==
  ASSUME DeliveryTypeOK, Take
  PROVE  /\ Waiting \in Line /\ Waiting' \in Line /\ Rest(Waiting, Waiting', Taken)
         /\ SomeWait /\ hand = <<>> /\ Len(Waiting) \in Nat \ {0}
         /\ turnOf' = turnOf /\ wrote' = wrote /\ enabled' = enabled /\ buffers' = buffers
         /\ screen' = screen /\ said' = said /\ taken' = taken
         /\ sendFaults' = sendFaults /\ tries' = 0 /\ stale' = FALSE
<1>1. SomeWait /\ hand = <<>>
  BY DEF Take, SomeWait
<1>2. Rest(Waiting, Waiting', Taken)
  BY TakeFacts DEF Rest
<1>3. Waiting' \in Line
  <2> DEFINE a == aside'  o == outbound'
  <2>1. a \in Seq(OnePiece) /\ o \in Seq(OnePiece)
    BY TakeFacts
  <2>2. Waiting' = a \o o
    BY DEF Waiting
  <2> HIDE DEF a, o
  <2> QED BY <2>1, <2>2, ConcatProperties DEF Line
<1>4. Waiting \in Line
  BY WaitingFacts DEF Line
<1>5. Len(Waiting) \in Nat \ {0}
  BY <1>1, FirstFacts
<1> QED BY <1>1, <1>2, <1>3, <1>4, <1>5 DEF Take, turnVars, channelVars

(* What comes into the hand: nothing if the channel is missing or the      *)
(* message is a duplicate.                                                 *)
LEMMA TakeHand ==
  ASSUME DeliveryTypeOK, Take
  PROVE  /\ hand' = IF enabled /\ ~Duplicate(Coalesced) THEN <<Coalesced>> ELSE <<>>
         /\ fingerprint' = IF enabled /\ IsPlain(Coalesced)
                             THEN [fingerprint EXCEPT ![Coalesced.id] = Coalesced.text]
                             ELSE fingerprint
         /\ suppressed' = IF enabled /\ Duplicate(Coalesced)
                            THEN suppressed \cup {<<Coalesced.id, Coalesced.text[1]>>}
                            ELSE suppressed
         /\ spoiled' = IF enabled THEN spoiled ELSE spoiled \cup {Coalesced.id}
         /\ hand' = <<>> \/ (hand' # <<>> /\ hand' = <<Coalesced>> /\ Msg' = Coalesced /\ enabled)
<1> DEFINE m == Coalesced
<1>1. /\ hand' = IF enabled /\ ~Duplicate(m) THEN <<m>> ELSE <<>>
      /\ fingerprint' = IF enabled /\ IsPlain(m)
                             THEN [fingerprint EXCEPT ![m.id] = m.text] ELSE fingerprint
      /\ suppressed' = IF enabled /\ Duplicate(m)
                            THEN suppressed \cup {<<m.id, m.text[1]>>} ELSE suppressed
      /\ spoiled' = IF enabled THEN spoiled ELSE spoiled \cup {m.id}
  BY DEF Take
<1> HIDE DEF m
<1>2. <<m>> # <<>> /\ <<m>>[1] = m
  OBVIOUS
<1>3. hand' = <<>> \/ (hand' # <<>> /\ hand' = <<m>> /\ Msg' = m /\ enabled)
  BY <1>1, <1>2 DEF Msg
<1> QED BY <1>1, <1>3 DEF m

LEMMA TakeTypes ==
  ASSUME DeliveryTypeOK, Take
  PROVE  DeliveryTypeOK'
<1> DEFINE m == Coalesced
<1>1. SomeWait
  BY TakeRest
<1>2. m \in InHand /\ m.id \in Streams /\ (IsPlain(m) => m.text \in [{1} -> Texts])
  BY <1>1, CoalescedFacts, InHandFacts
<1>3. hand' \in Seq(InHand) /\ Len(hand') <= 1
  <2>1. hand' = <<m>> \/ hand' = <<>>
    BY TakeHand
  <2> HIDE DEF m
  <2>2. <<m>> \in Seq(InHand) /\ Len(<<m>>) = 1
    BY <1>2
  <2>3. <<>> \in Seq(InHand) /\ Len(<<>>) = 0
    BY EmptySeq
  <2> DEFINE n == Len(hand')
  <2>4. hand' \in Seq(InHand) /\ n \in {0, 1}
    BY <2>1, <2>2, <2>3
  <2> HIDE DEF n
  <2>5. n <= 1
    BY <2>4
  <2> QED BY <2>4, <2>5 DEF n
<1>4. QueueTypes'
  <2>1. /\ aside' \in Seq(OnePiece) /\ Len(aside') <= 1
        /\ outbound' \in Seq(OnePiece) /\ Len(outbound') <= OutboundCap
    BY TakeFacts
  <2>2. tries' \in 0 .. SendTries - 1 /\ stale' \in BOOLEAN
    BY TakeRest, DeliveryAssumption
  <2>3. enabled' \in BOOLEAN
    BY TakeRest, TypeParts DEF QueueTypes
  <2> QED BY <1>3, <2>1, <2>2, <2>3 DEF QueueTypes
<1>5. TurnsTypeOK' /\ ScreenTypes'
  <2>1. /\ turnOf' = turnOf /\ wrote' = wrote /\ buffers' = buffers /\ screen' = screen
    BY TakeRest
  <2>2. TurnsTypeOK /\ ScreenTypes
    BY TypeParts
  <2>3. TurnsTypeOK'
    BY <2>1, <2>2 DEF TurnsTypeOK
  <2>4. ScreenTypes'
    BY <2>1, <2>2 DEF ScreenTypes
  <2> QED BY <2>3, <2>4
<1>6. ReplyTypes'
  <2>1. ReplyTypes
    BY TypeParts
  <2>2. /\ fingerprint' = IF enabled /\ IsPlain(m)
                             THEN [fingerprint EXCEPT ![m.id] = m.text] ELSE fingerprint
        /\ suppressed' = IF enabled /\ Duplicate(m)
                            THEN suppressed \cup {<<m.id, m.text[1]>>} ELSE suppressed
        /\ spoiled' = IF enabled THEN spoiled ELSE spoiled \cup {m.id}
        /\ said' = said /\ taken' = taken /\ sendFaults' = sendFaults
    BY TakeHand, TakeRest
  <2>3. Duplicate(m) => IsPlain(m)
    BY DEF Duplicate, IsPlain
  <2> HIDE DEF m
  <2>4. fingerprint' \in [Streams -> {<<>>} \cup [{1} -> Texts]]
    BY <1>2, <2>1, <2>2 DEF ReplyTypes
  <2>5. Duplicate(m) => <<m.id, m.text[1]>> \in Streams \X Texts
    BY <1>2, <2>3
  <2>6. suppressed' \subseteq Streams \X Texts
    BY <2>1, <2>2, <2>5 DEF ReplyTypes
  <2>7. said' \subseteq Streams \X Texts /\ spoiled' \cup taken' \subseteq Streams
    BY <1>2, <2>1, <2>2 DEF ReplyTypes
  <2>8. sendFaults' \in 0 .. MaxSendFaults
    BY <2>1, <2>2 DEF ReplyTypes
  <2> QED BY <2>4, <2>6, <2>7, <2>8 DEF ReplyTypes
<1> QED BY <1>4, <1>5, <1>6, TypePartsNext

(* The message taken, and what then waits behind it.                       *)
LEMMA TakenFacts ==
  ASSUME DeliveryIInv, Take
  PROVE  /\ Coalesced \in InHand /\ Coalesced.id \in Streams
         /\ Coalesced.kind = Waiting[1].kind /\ Coalesced.id = Waiting[1].id
         /\ Coalesced.id[2] <= turnOf[Coalesced.id[1]].stream
         /\ \A i \in 1 .. Len(Waiting') :
              /\ NotAfter(Coalesced.id, Waiting'[i].id)
              /\ Coalesced.kind = "end" => ~IsPiece(Waiting'[i], Coalesced.id)
         /\ Coalesced.kind = "end" => EndedBy(turnOf, Coalesced.id)
         /\ Coalesced.kind = "delta" =>
              /\ Coalesced.text[1] = Waiting[1].text[1]
              /\ \A i \in 1 .. Len(Coalesced.text) :
                   Coalesced.text[i] = Coalesced.text[1] + i - 1
              /\ GoesOn(Waiting', wrote, Coalesced.id, LastOf(Coalesced.text))
<1>0. DeliveryTypeOK /\ InLine(Waiting, turnOf, wrote)
  BY DEF DeliveryIInv, WaitingInv
<1> DEFINE q == Waiting  r == Waiting'  m == Coalesced  n == Taken
<1>1. /\ q \in Line /\ r \in Line /\ Rest(q, r, n) /\ SomeWait /\ Len(q) \in Nat \ {0}
      /\ 1 \in 1 .. Len(q)
  BY <1>0, TakeRest
<1>2. /\ m \in InHand /\ m.id \in Streams /\ m.kind = q[1].kind /\ m.id = q[1].id
      /\ q[1].kind = "delta" => /\ Len(m.text) = n
                                /\ \A i \in 1 .. n : m.text[i] = q[i].text[1]
  BY <1>0, <1>1, CoalescedFacts, InHandFacts DEF Taken
<1>3. /\ n \in 1 .. Len(q) /\ \A i \in 1 .. n : q[i].id = q[1].id
      /\ q[1].kind # "delta" => n = 1
      /\ q[1].kind = "delta" => \A i \in 1 .. n : q[i].kind = "delta"
  BY <1>0, TakeFacts
<1>4. n \in Nat /\ n >= 1 /\ n \in 1 .. n /\ Len(r) \in Nat
  BY <1>1, <1>3, LineTypes
<1>5. InLine(q, turnOf, wrote)
  BY <1>0
<1> HIDE DEF q, r, m, n
<1>6. m.id[2] <= turnOf[m.id[1]].stream /\ (m.kind = "end" => EndedBy(turnOf, m.id))
  BY <1>1, <1>2, <1>5 DEF InLine
<1>7. ASSUME NEW i \in 1 .. Len(r)
      PROVE  NotAfter(m.id, r[i].id) /\ (m.kind = "end" => ~IsPiece(r[i], m.id))
  <2>1. i + n \in 1 .. Len(q) /\ 1 < i + n /\ r[i] = q[i + n]
    BY <1>1, <1>4 DEF Rest
  <2> QED BY <1>1, <1>2, <1>5, <2>1 DEF InLine
<1>8. ASSUME m.kind = "delta"
      PROVE  /\ m.text[1] = q[1].text[1]
             /\ \A i \in 1 .. Len(m.text) : m.text[i] = m.text[1] + i - 1
             /\ GoesOn(r, wrote, m.id, LastOf(m.text))
  <2>1. /\ Len(m.text) = n /\ \A i \in 1 .. n : m.text[i] = q[i].text[1]
        /\ q[1].kind = "delta" /\ \A i \in 1 .. n : IsPiece(q[i], m.id)
    BY <1>2, <1>3, <1>8 DEF IsPiece
  <2>2. m.text[1] = q[1].text[1]
    BY <1>4, <2>1
  <2>3. ASSUME NEW i \in 1 .. n PROVE m.text[i] = m.text[1] + i - 1
    <3>1. i \in 1 .. Len(q) /\ \A k \in 1 .. i : k \in 1 .. n
      BY <1>3, <1>4
    <3>2. \A k \in 1 .. i : IsPiece(q[k], q[1].id)
      BY <1>2, <2>1, <3>1
    <3>3. q[i].text[1] = q[1].text[1] + i - 1
      BY <1>1, <1>5, <2>1, <3>1, <3>2 DEF InLine
    <3> QED BY <2>1, <2>2, <3>3
  <2>4. LastOf(m.text) = q[n].text[1] /\ IsPiece(q[n], m.id)
    BY <1>4, <2>1 DEF LastOf
  <2>5. GoesOn(r, wrote, m.id, q[n].text[1])
    BY <1>1, <1>2, <1>5, <2>4, TakenGoesOn
  <2> QED BY <2>1, <2>2, <2>3, <2>4, <2>5
<1> QED BY <1>2, <1>6, <1>7, <1>8 DEF q, r, m

(* Of another stream than the message taken, nothing is taken.             *)
LEMMA TakenOther ==
  ASSUME DeliveryIInv, Take, NEW id \in Streams, ~IsPiece(Waiting[1], id)
  PROVE  \A i \in 1 .. Taken : ~IsPiece(Waiting[i], id)
<1>0. DeliveryTypeOK
  BY DEF DeliveryIInv
<1>1. /\ Taken \in 1 .. Len(Waiting) /\ \A i \in 1 .. Taken : Waiting[i].id = Waiting[1].id
      /\ Waiting[1].kind # "delta" => Taken = 1
  BY <1>0, TakeFacts
<1>2. CASE Waiting[1].kind = "delta"
  BY <1>1, <1>2 DEF IsPiece
<1>3. CASE Waiting[1].kind # "delta"
  BY <1>1, <1>3 DEF IsPiece
<1> QED BY <1>2, <1>3

LEMMA TakeKeepsHand ==
  ASSUME DeliveryIInv, Take
  PROVE  HandInv'
<1>0. DeliveryTypeOK
  BY DEF DeliveryIInv
<1> DEFINE m == Coalesced  r == Waiting'
<1>1. turnOf' = turnOf /\ wrote' = wrote /\ enabled' = enabled /\ tries' = 0 /\ stale' = FALSE
  BY <1>0, TakeRest
<1>2. hand' = <<>> \/ (hand' # <<>> /\ hand' = <<m>> /\ Msg' = m /\ enabled)
  BY <1>0, TakeHand
<1>3. /\ m.id[2] <= turnOf[m.id[1]].stream
      /\ \A i \in 1 .. Len(r) :
            /\ NotAfter(m.id, r[i].id)
            /\ m.kind = "end" => ~IsPiece(r[i], m.id)
      /\ m.kind = "end" => EndedBy(turnOf, m.id)
      /\ m.kind = "delta" =>
           /\ \A i \in 1 .. Len(m.text) : m.text[i] = m.text[1] + i - 1
           /\ GoesOn(r, wrote, m.id, LastOf(m.text))
  BY TakenFacts
<1> HIDE DEF m, r
<1>4. CASE hand' = <<>>
  BY <1>1, <1>4 DEF HandInv
<1>5. CASE hand' # <<>>
  <2>1. Msg' = m /\ enabled
    BY <1>2, <1>5
  <2> QED BY <1>1, <1>3, <1>5, <2>1 DEF HandInv, Ended, Follows, r
<1> QED BY <1>4, <1>5

LEMMA TakeKeepsBuffers ==
  ASSUME DeliveryIInv, Take
  PROVE  BufferInv'
<1>0. DeliveryTypeOK /\ BufferInv /\ InLine(Waiting, turnOf, wrote)
  BY DEF DeliveryIInv, WaitingInv
<1> DEFINE m == Coalesced  q == Waiting  r == Waiting'
<1>1. /\ turnOf' = turnOf /\ wrote' = wrote /\ enabled' = enabled /\ buffers' = buffers
      /\ screen' = screen /\ stale' = FALSE /\ hand = <<>>
      /\ q \in Line /\ r \in Line /\ Rest(q, r, Taken) /\ Len(q) \in Nat \ {0}
  BY <1>0, TakeRest
<1>2. /\ hand' = <<>> \/ (hand' # <<>> /\ hand' = <<m>> /\ Msg' = m /\ enabled)
      /\ hand' = IF enabled /\ ~Duplicate(m) THEN <<m>> ELSE <<>>
      /\ enabled => spoiled' = spoiled
  BY <1>0, TakeHand
<1>3. m.kind = q[1].kind /\ m.id = q[1].id /\ (m.kind = "delta" => m.text[1] = q[1].text[1])
  BY TakenFacts
<1> HIDE DEF m, q, r
<1>4. CASE ~enabled
  <2>1. \A c \in Chats : buffers'[c] = <<>>
    BY <1>0, <1>1, <1>4 DEF BufferInv
  <2> QED BY <2>1 DEF BufferInv
<1>5. CASE enabled
  <2>1. ASSUME NEW c \in Chats, buffers[c] # <<>>
        PROVE  LET b == buffers[c][1] IN
             /\ ChatOf[b.id[1]] = c
             /\ InOrder(b.id, b.text)'
             /\ b.message <= Len(screen[c])
             /\ b.message > 0 => screen[c][b.message].id = b.id
             /\ b.id[2] <= turnOf[b.id[1]].stream
             /\ \A i \in 1 .. Len(r) : NotAfter(b.id, r[i].id)
             /\ hand' # <<>> => NotAfter(b.id, Msg'.id)
             /\ IF InHandOf(b.id)'
                  THEN Msg'.text[1] = LastOf(b.text) + 1
                  ELSE GoesOn(r, wrote, b.id, LastOf(b.text))
    <3> DEFINE b == buffers[c][1]
    <3>1. /\ ChatOf[b.id[1]] = c
          /\ InOrder(b.id, b.text)
          /\ b.message <= Len(screen[c])
          /\ b.message > 0 => screen[c][b.message].id = b.id
          /\ b.id[2] <= turnOf[b.id[1]].stream
          /\ \A i \in 1 .. Len(q) : NotAfter(b.id, q[i].id)
          /\ GoesOn(q, wrote, b.id, LastOf(b.text))
      BY <1>0, <1>1, <2>1 DEF BufferInv, Follows, InHandOf, q
    <3>2. b.id \in Streams /\ LastOf(b.text) \in Nat /\ wrote[b.id] \in Nat
      BY <1>0, <2>1, BufferFacts, LastFacts, TurnTypes
    <3>2a. b' = b
      BY <1>1
    <3> HIDE DEF b
    <3>3. InOrder(b.id, b.text)'
      BY <1>2, <1>5, <3>1, <3>2a DEF InOrder
    <3>4. \A i \in 1 .. Len(r) : NotAfter(b.id, r[i].id)
      <4>1. \A i \in 1 .. Len(r) : i + Taken \in 1 .. Len(q) /\ r[i] = q[i + Taken]
        BY <1>1, LineTypes DEF Rest
      <4> QED BY <3>1, <4>1
    <3>5. 1 \in 1 .. Len(q) /\ NotAfter(b.id, q[1].id)
      BY <1>1, <3>1
    <3>6. CASE IsPiece(q[1], b.id)
      <4>1. q[1].text[1] = LastOf(b.text) + 1
        BY <1>0, <1>1, <3>1, <3>2, <3>6, FirstIsNext DEF q
      <4>2. ~Duplicate(m)
        BY <1>3, <3>6 DEF Duplicate, IsPiece
      <4>3. hand' # <<>> /\ Msg' = m
        <5>1. hand' = <<m>>
          BY <1>2, <1>5, <4>2
        <5>2. <<m>> # <<>>
          OBVIOUS
        <5> QED BY <1>2, <5>1, <5>2
      <4>4. hand'[1] = m
        BY <4>3 DEF Msg
      <4>5. InHandOf(b.id)'
        <5>1. b.id' = b.id
          BY <3>2a
        <5>2. IsPiece(m, b.id)
          BY <1>3, <3>6 DEF IsPiece
        <5> QED BY <4>3, <4>4, <5>1, <5>2 DEF InHandOf, IsPiece
      <4> QED BY <1>3, <3>1, <3>3, <3>4, <3>5, <3>6, <4>1, <4>3, <4>5 DEF IsPiece, b
    <3>7. CASE ~IsPiece(q[1], b.id)
      <4>1. \A i \in 1 .. Taken : ~IsPiece(q[i], b.id)
        BY <3>2, <3>7, TakenOther DEF q
      <4>2. GoesOn(r, wrote, b.id, LastOf(b.text))
        BY <1>1, <3>1, <4>1, RestGoesOn
      <4>3. ~InHandOf(b.id)'
        <5>1. ~IsPiece(m, b.id)
          BY <1>3, <3>7 DEF IsPiece
        <5>2. b.id' = b.id
          BY <3>2a
        <5> QED BY <1>2, <5>1, <5>2 DEF InHandOf, IsPiece, Msg
      <4>4. hand' # <<>> => NotAfter(b.id, Msg'.id)
        BY <1>2, <1>3, <3>5
      <4> QED BY <3>1, <3>3, <3>4, <4>2, <4>3, <4>4 DEF b
    <3> QED BY <3>6, <3>7
  <2>2. ~(stale' \/ ~enabled')
    BY <1>1, <1>5
  <2> QED BY <1>1, <2>1, <2>2 DEF BufferInv, Follows, r
<1> QED BY <1>4, <1>5

LEMMA TakeKeepsRest ==
  ASSUME DeliveryIInv, Take
  PROVE  FingerprintInv' /\ PiecesInOrder' /\ SuppressedWasSaid'
<1>0. DeliveryTypeOK /\ FingerprintInv /\ PiecesInOrder /\ SuppressedWasSaid
  BY DEF DeliveryIInv
<1> DEFINE m == Coalesced
<1>1. screen' = screen /\ said' = said /\ hand = <<>>
  BY <1>0, TakeRest
<1>2. /\ hand' = IF enabled /\ ~Duplicate(m) THEN <<m>> ELSE <<>>
      /\ fingerprint' = IF enabled /\ IsPlain(m)
                             THEN [fingerprint EXCEPT ![m.id] = m.text] ELSE fingerprint
      /\ suppressed' = IF enabled /\ Duplicate(m)
                            THEN suppressed \cup {<<m.id, m.text[1]>>} ELSE suppressed
      /\ spoiled' = IF enabled THEN spoiled ELSE spoiled \cup {m.id}
      /\ hand' = <<>> \/ (hand' # <<>> /\ hand' = <<m>> /\ Msg' = m /\ enabled)
  BY <1>0, TakeHand
<1>3. m.id \in Streams /\ (IsPlain(m) => m.text \in [{1} -> Texts])
  BY <1>0, TakeRest, CoalescedFacts, InHandFacts
<1>4. fingerprint \in [Streams -> {<<>>} \cup [{1} -> Texts]]
  BY <1>0, TypeParts DEF ReplyTypes
<1>5. Duplicate(m) <=> m.kind = "followup" /\ fingerprint[m.id] = m.text
  BY DEF Duplicate
<1> HIDE DEF m
<1>6. spoiled \subseteq spoiled'
  BY <1>2
<1>7. \A id \in Streams : \A answer \in Texts :
        fingerprint[id] = <<answer>> => <<id, answer>> \in said \/ id \in spoiled
  BY <1>0, <1>1 DEF FingerprintInv, Texts
<1>8. PiecesInOrder'
  BY <1>0, <1>1, <1>6 DEF PiecesInOrder
<1>9. SuppressedWasSaid'
  <2>1. CASE enabled /\ Duplicate(m)
    <3>1. IsPlain(m) /\ fingerprint[m.id] = m.text
      BY <1>5, <2>1 DEF IsPlain
    <3>2. m.text = <<m.text[1]>> /\ m.text[1] \in Texts
      BY <1>3, <3>1, OneElement
    <3>3. <<m.id, m.text[1]>> \in said \/ m.id \in spoiled
      BY <1>3, <1>7, <3>1, <3>2
    <3> QED BY <1>0, <1>1, <1>2, <1>6, <2>1, <3>3 DEF SuppressedWasSaid
  <2>2. CASE ~(enabled /\ Duplicate(m))
    BY <1>0, <1>1, <1>2, <1>6, <2>2 DEF SuppressedWasSaid
  <2> QED BY <2>1, <2>2
<1>10. FingerprintInv'
  <2> SUFFICES ASSUME NEW id \in Streams, NEW answer \in Texts, fingerprint'[id] = <<answer>>
               PROVE  \/ <<id, answer>> \in said' \/ id \in spoiled'
                      \/ hand' # <<>> /\ IsPlain(Msg') /\ Msg'.id = id /\ Msg'.text = <<answer>>
    BY DEF FingerprintInv, Texts, IsPlain
  <2>1. CASE fingerprint[id] = <<answer>>
    BY <1>1, <1>6, <1>7, <2>1
  <2>2. CASE fingerprint[id] # <<answer>>
    <3>1. enabled /\ IsPlain(m) /\ m.id = id /\ m.text = <<answer>>
      BY <1>2, <1>3, <1>4, <2>2
    <3>2. ~Duplicate(m)
      BY <1>5, <2>2, <3>1
    <3>3. hand' = <<m>> /\ <<m>> # <<>>
      BY <1>2, <3>1, <3>2
    <3>4. hand' # <<>> /\ Msg' = m
      BY <1>2, <3>3
    <3> QED BY <3>1, <3>4
  <2> QED BY <2>1, <2>2
<1> QED BY <1>8, <1>9, <1>10

LEMMA TakeKeeps ==
  ASSUME DeliveryIInv, Take
  PROVE  DeliveryIInv'
<1>1. DeliveryTypeOK /\ TurnsInv /\ InLine(Waiting, turnOf, wrote)
  BY DEF DeliveryIInv, WaitingInv
<1>2. /\ turnOf' = turnOf /\ wrote' = wrote /\ Waiting \in Line /\ Waiting' \in Line
      /\ Rest(Waiting, Waiting', Taken)
  BY <1>1, TakeRest
<1>3. TurnsInv'
  BY <1>1, <1>2 DEF TurnsInv, StreamOf
<1>4. WaitingInv'
  <2>1. InLine(Waiting', turnOf, wrote)
    BY <1>1, <1>2, RestLine
  <2> QED BY <1>2, <2>1 DEF WaitingInv
<1> QED BY <1>1, <1>3, <1>4, TakeTypes, TakeKeepsHand, TakeKeepsBuffers, TakeKeepsRest
        DEF DeliveryIInv

LEMMA TakeKeepsComplete ==
  ASSUME DeliveryIInv, Take, NEW id \in Streams, id \notin spoiled',
         Finished(id) \/ UnderWay(id)
  PROVE  (Finished(id) \/ UnderWay(id))'
<1>0. DeliveryTypeOK /\ BufferInv /\ InLine(Waiting, turnOf, wrote)
  BY DEF DeliveryIInv, WaitingInv
<1> DEFINE m == Coalesced  q == Waiting  r == Waiting'
<1>1. /\ turnOf' = turnOf /\ wrote' = wrote /\ enabled' = enabled /\ buffers' = buffers
      /\ screen' = screen /\ hand = <<>>
      /\ q \in Line /\ r \in Line /\ Rest(q, r, Taken) /\ Len(q) \in Nat \ {0}
  BY <1>0, TakeRest
<1>2. /\ hand' = <<>> \/ (hand' # <<>> /\ hand' = <<m>> /\ Msg' = m /\ enabled)
      /\ hand' = IF enabled /\ ~Duplicate(m) THEN <<m>> ELSE <<>>
      /\ spoiled' = IF enabled THEN spoiled ELSE spoiled \cup {m.id}
  BY <1>0, TakeHand
<1>3. m.kind = q[1].kind /\ m.id = q[1].id /\ (m.kind = "delta" => m.text[1] = q[1].text[1])
  BY TakenFacts
<1>4. /\ Taken \in 1 .. Len(q) /\ \A i \in 1 .. Taken : q[i].id = q[1].id
      /\ q[1].kind # "delta" => Taken = 1
      /\ q[1].kind = "delta" => \A i \in 1 .. Taken : q[i].kind = "delta"
  BY <1>0, TakeFacts
<1>5. Duplicate(m) => m.kind = "followup"
  BY DEF Duplicate
<1>6. ~InHandOf(id) /\ (Held(id)' <=> Held(id))
  BY <1>1 DEF InHandOf, Held
<1>7. wrote[id] \in Nat
  BY <1>0, TurnTypes
<1>8. ~IsPiece(q[1], id) => \A i \in 1 .. Taken : ~IsPiece(q[i], id)
  BY TakenOther
<1>8a. m.kind = "delta" /\ enabled => hand' # <<>>
  <2>1. <<m>> # <<>>
    OBVIOUS
  <2> QED BY <1>2, <1>5, <2>1
<1> HIDE DEF m, q, r
<1>9. Len(q) \in Nat /\ Len(r) \in Nat /\ Taken \in Nat /\ Taken >= 1 /\ Len(r) = Len(q) - Taken
  BY <1>1, LineTypes DEF Rest
<1>10. \A i \in 1 .. Len(r) : i + Taken \in 1 .. Len(q) /\ r[i] = q[i + Taken]
  BY <1>1, <1>9 DEF Rest
<1>11. InHandOf(id)' <=> hand' # <<>> /\ IsPiece(m, id)
  BY <1>2 DEF InHandOf, IsPiece, Msg
<1>12. IsPiece(m, id) <=> IsPiece(q[1], id)
  BY <1>3 DEF IsPiece
<1>13. CASE Finished(id)
  <2>1. \A i \in 1 .. Len(q) : ~IsPiece(q[i], id)
    BY <1>13 DEF Finished, q
  <2>2. 1 \in 1 .. Len(q) /\ \A i \in 1 .. Len(r) : ~IsPiece(r[i], id)
    BY <1>1, <1>10, <2>1
  <2>3. ~InHandOf(id)'
    BY <1>11, <1>12, <2>1, <2>2
  <2>4. OnOneScreen(id)' /\ EndedBy(turnOf', id)
    BY <1>1, <1>13 DEF Finished, OnOneScreen, Whole, Ended
  <2>5. Finished(id)'
    BY <1>1, <1>6, <1>13, <2>2, <2>3, <2>4 DEF Finished, Ended, r
  <2> QED BY <2>5
<1>14. CASE UnderWay(id)
  (* The end of the stream is not lost: it is taken by itself.             *)
  <2>1. ASSUME wrote[id] > 0, EndedBy(turnOf, id) PROVE EndComes(id)'
    <3>1. PICK i \in 1 .. Len(q) : q[i].kind = "end" /\ q[i].id = id
      BY <1>1, <1>14, <2>1 DEF UnderWay, EndComes, Ended, q
    <3>2. CASE i \in 1 .. Taken
      <4>1. q[1].kind # "delta" /\ i = 1
        BY <1>4, <3>1, <3>2
      <4>2. m.kind = "end" /\ m.id = id
        BY <1>3, <3>1, <4>1
      <4>3. enabled
        BY <1>2, <4>2
      <4>4. hand' = <<m>>
        BY <1>2, <1>5, <4>2, <4>3
      <4>5. <<m>> # <<>>
        OBVIOUS
      <4>6. hand' # <<>> /\ Msg' = m
        BY <1>2, <4>4, <4>5
      <4> QED BY <4>2, <4>6 DEF EndComes
    <3>3. CASE i \notin 1 .. Taken
      <4>1. i - Taken \in 1 .. Len(r) /\ (i - Taken) + Taken = i
        BY <1>9, <3>3
      <4>2. r[i - Taken] = q[i]
        BY <1>10, <4>1
      <4>3. \E j \in 1 .. Len(r) : r[j].kind = "end" /\ r[j].id = id
        BY <3>1, <4>1, <4>2
      <4> QED BY <4>3 DEF EndComes, r
    <3> QED BY <3>2, <3>3
  <2>2. CASE Held(id)
    <3> DEFINE b == buffers[ChatOf[id[1]]][1]
    <3>1. b' = b /\ b.message > 0 /\ \A i \in 1 .. Len(b.text) : b.text[i] = i
      BY <1>1, <1>14, <2>2 DEF UnderWay
    <3> QED BY <1>1, <1>6, <2>1, <2>2, <3>1 DEF UnderWay, Ended
  <2>3. CASE ~Held(id)
    <3>1. GoesOn(q, wrote, id, 0)
      BY <1>6, <1>14, <2>3 DEF UnderWay, Follows, q
    <3>2. CASE IsPiece(q[1], id)
      <4>1. enabled
        BY <1>2, <1>3, <3>2 DEF IsPiece
      <4>2. hand' # <<>>
        BY <1>3, <1>8a, <3>2, <4>1 DEF IsPiece
      <4>3. Msg' = m /\ InHandOf(id)'
        BY <1>2, <1>11, <1>12, <3>2, <4>2
      <4>4. q[1].text[1] = 0 + 1
        BY <1>0, <1>1, <1>7, <3>1, <3>2, FirstIsNext DEF q
      <4>5. Msg'.text[1] = 1
        BY <1>3, <3>2, <4>3, <4>4 DEF IsPiece
      <4> QED BY <1>1, <1>6, <2>1, <2>3, <4>3, <4>5 DEF UnderWay, Ended
    <3>3. CASE ~IsPiece(q[1], id)
      <4>1. GoesOn(r, wrote, id, 0)
        BY <1>1, <1>8, <3>1, <3>3, RestGoesOn
      <4>2. ~InHandOf(id)'
        BY <1>11, <1>12, <3>3
      <4> QED BY <1>1, <1>6, <2>1, <2>3, <4>1, <4>2 DEF UnderWay, Ended, Follows, r
    <3> QED BY <3>2, <3>3
  <2> QED BY <2>2, <2>3
<1> QED BY <1>13, <1>14

(***************************************************************************)
(* A message is sent.                                                      *)
(***************************************************************************)
LEMMA SendFacts ==
  ASSUME DeliveryIInv, NEW outcome \in Outcomes, NEW due \in BOOLEAN, Send(outcome, due)
  PROVE  /\ hand # <<>> /\ ~stale /\ enabled /\ Msg \in InHand /\ Msg.id \in Streams
         /\ Chat \in Chats /\ Chat = ChatOf[Msg.id[1]] /\ Show(outcome, due)
         /\ UNCHANGED <<turnOf, wrote, outbound, aside, stale, enabled, fingerprint, suppressed>>
         /\ Waiting' = Waiting
         /\ \/ hand' = <<>> /\ tries' = 0
            \/ /\ outcome # "sent" /\ hand' = hand /\ Msg' = Msg /\ tries' = tries + 1
               /\ tries' \in 0 .. SendTries - 1 /\ tries' > 0
         /\ outcome = "sent" => spoiled' = spoiled
         /\ outcome # "sent" => spoiled' = spoiled \cup {Msg.id}
         /\ sendFaults' \in 0 .. MaxSendFaults /\ taken' = taken \cup Supplanted
<1>0. DeliveryTypeOK /\ HandInv
  BY DEF DeliveryIInv
<1>1. hand # <<>> /\ ~stale /\ Show(outcome, due)
  BY DEF Send
<1>2. Msg \in InHand /\ Msg.id \in Streams
  BY <1>0, <1>1, HandFacts, InHandFacts
<1>3. Chat \in Chats /\ Chat = ChatOf[Msg.id[1]]
  BY <1>2, StreamFacts DEF Chat
<1>4. enabled
  BY <1>0, <1>1 DEF HandInv
<1>5. UNCHANGED <<turnOf, wrote, outbound, aside, stale, enabled, fingerprint, suppressed>>
  BY DEF Send, turnVars
<1>6. Waiting' = Waiting
  BY <1>5 DEF Waiting
<1>7. tries \in 0 .. SendTries - 1 /\ sendFaults \in 0 .. MaxSendFaults
  BY <1>0 DEF DeliveryTypeOK
<1>8. \/ hand' = <<>> /\ tries' = 0
      \/ outcome # "sent" /\ hand' = hand /\ tries' = tries + 1 /\ ~(tries + 1 >= SendTries)
  BY DEF Send, GivenUp
<1>9. hand' = hand => Msg' = Msg
  BY DEF Msg
<1>10. ~(tries + 1 >= SendTries) => tries + 1 \in 0 .. SendTries - 1 /\ tries + 1 > 0
  BY <1>7, DeliveryAssumption
<1>11. /\ outcome = "sent" => spoiled' = spoiled
       /\ outcome # "sent" => spoiled' = spoiled \cup {Msg.id}
       /\ taken' = taken \cup Supplanted
  BY DEF Send
<1>12. sendFaults' \in 0 .. MaxSendFaults
  <2>1. \/ sendFaults' = sendFaults
        \/ outcome # "sent" /\ ~(tries > 0) /\ sendFaults' = sendFaults + 1
           /\ (tries > 0 \/ sendFaults < MaxSendFaults)
    BY DEF Send
  <2>2. sendFaults' = sendFaults \/ (sendFaults' = sendFaults + 1 /\ sendFaults < MaxSendFaults)
    BY <2>1
  <2>3. sendFaults < MaxSendFaults => sendFaults + 1 \in 0 .. MaxSendFaults
    BY <1>7, DeliveryAssumption
  <2> QED BY <1>7, <2>2, <2>3
<1>13. \/ hand' = <<>> /\ tries' = 0
       \/ /\ outcome # "sent" /\ hand' = hand /\ Msg' = Msg /\ tries' = tries + 1
          /\ tries' \in 0 .. SendTries - 1 /\ tries' > 0
  BY <1>8, <1>9, <1>10
<1> QED BY <1>1, <1>2, <1>3, <1>4, <1>5, <1>6, <1>11, <1>12, <1>13

(* What may become of the screen: a message of the stream is sent, or one  *)
(* is edited.                                                              *)
Puts(id, text) ==
  \/ screen' = screen
  \/ screen' = [screen EXCEPT ![Chat] = Append(@, [id |-> id, text |-> text])]
  \/ \E place \in 1 .. Len(screen[Chat]) :
        /\ screen[Chat][place].id = id
        /\ screen' = [screen EXCEPT ![Chat][place].text = text]

LEMMA PutsFacts ==
  ASSUME DeliveryTypeOK, Chat \in Chats, NEW id \in Streams, NEW text \in Seq(Pieces), Puts(id, text)
  PROVE  /\ screen' \in [Chats -> Seq(Shown)]
         /\ \A c \in Chats \ {Chat} : screen'[c] = screen[c]
         /\ \A c \in Chats :
              /\ Len(screen[c]) \in Nat /\ Len(screen'[c]) \in Nat
              /\ Len(screen[c]) <= Len(screen'[c])
              /\ \A m \in 1 .. Len(screen[c]) :
                   /\ screen'[c][m].id = screen[c][m].id
                   /\ screen[c][m].id # id => screen'[c][m] = screen[c][m]
              /\ \A m \in 1 .. Len(screen'[c]) :
                   \/ m \in 1 .. Len(screen[c]) /\ screen'[c][m] = screen[c][m]
                   \/ screen'[c][m] = [id |-> id, text |-> text]
<1> DEFINE ch == Chat  old == screen[Chat]  new == screen'[Chat]  msg == [id |-> id, text |-> text]
<1>1. screen \in [Chats -> Seq(Shown)] /\ ch \in Chats
  BY TypeParts DEF ScreenTypes
<1>2. old \in Seq(Shown) /\ msg \in Shown
  BY <1>1 DEF Shown
<1>3. \A c \in Chats : screen[c] \in Seq(Shown) /\ Len(screen[c]) \in Nat
  BY <1>1, LenProperties
<1>4. CASE screen' = screen
  <2>1. \A c \in Chats : Len(screen[c]) <= Len(screen[c])
    BY <1>3
  <2> QED BY <1>1, <1>3, <1>4, <2>1
<1>5. ASSUME NEW seq \in Seq(Shown), screen' = [screen EXCEPT ![ch] = seq],
             Len(old) <= Len(seq), Len(seq) \in Nat,
             \A m \in 1 .. Len(old) : /\ seq[m].id = old[m].id
                                      /\ old[m].id # id => seq[m] = old[m],
             \A m \in 1 .. Len(seq) : \/ m \in 1 .. Len(old) /\ seq[m] = old[m]
                                      \/ seq[m] = msg
      PROVE  /\ screen' \in [Chats -> Seq(Shown)]
             /\ \A c \in Chats \ {ch} : screen'[c] = screen[c]
             /\ \A c \in Chats :
                  /\ Len(screen[c]) \in Nat /\ Len(screen'[c]) \in Nat
                  /\ Len(screen[c]) <= Len(screen'[c])
                  /\ \A m \in 1 .. Len(screen[c]) :
                       /\ screen'[c][m].id = screen[c][m].id
                       /\ screen[c][m].id # id => screen'[c][m] = screen[c][m]
                  /\ \A m \in 1 .. Len(screen'[c]) :
                       \/ m \in 1 .. Len(screen[c]) /\ screen'[c][m] = screen[c][m]
                       \/ screen'[c][m] = msg
  <2>1. screen'[ch] = seq /\ \A c \in Chats \ {ch} : screen'[c] = screen[c]
    BY <1>1, <1>5
  <2>2. screen' \in [Chats -> Seq(Shown)]
    BY <1>1, <1>5
  <2>3. ASSUME NEW c \in Chats
        PROVE /\ Len(screen[c]) \in Nat /\ Len(screen'[c]) \in Nat
              /\ Len(screen[c]) <= Len(screen'[c])
              /\ \A m \in 1 .. Len(screen[c]) :
                   /\ screen'[c][m].id = screen[c][m].id
                   /\ screen[c][m].id # id => screen'[c][m] = screen[c][m]
              /\ \A m \in 1 .. Len(screen'[c]) :
                   \/ m \in 1 .. Len(screen[c]) /\ screen'[c][m] = screen[c][m]
                   \/ screen'[c][m] = msg
    <3>1. CASE c = ch
      BY <1>3, <1>5, <2>1, <3>1
    <3>2. CASE c # ch
      <4>1. screen'[c] = screen[c]
        BY <2>1, <3>2
      <4>2. Len(screen[c]) \in Nat /\ Len(screen[c]) <= Len(screen[c])
        BY <1>3
      <4> QED BY <4>1, <4>2
    <3> QED BY <3>1, <3>2
  <2> QED BY <2>1, <2>2, <2>3
<1>6. CASE screen' = [screen EXCEPT ![ch] = Append(@, msg)]
  <2> DEFINE seq == Append(old, msg)
  <2>1. screen' = [screen EXCEPT ![ch] = seq]
    BY <1>1, <1>6
  <2> HIDE DEF old, msg
  <2>2. /\ seq \in Seq(Shown) /\ Len(seq) = Len(old) + 1 /\ seq[Len(old) + 1] = msg
        /\ \A m \in 1 .. Len(old) : seq[m] = old[m]
    BY <1>2, AppendProperties
  <2>3. Len(old) \in Nat
    BY <1>2, LenProperties
  <2> HIDE DEF seq
  <2>4. Len(old) <= Len(seq) /\ Len(seq) \in Nat
    BY <2>2, <2>3
  <2>5. \A m \in 1 .. Len(seq) : m \in 1 .. Len(old) \/ m = Len(old) + 1
    BY <2>2, <2>3
  <2> QED BY <1>5, <2>1, <2>2, <2>4, <2>5 DEF old, msg
<1>7. CASE \E place \in 1 .. Len(old) :
             old[place].id = id /\ screen' = [screen EXCEPT ![ch][place].text = text]
  <2>1. PICK place \in 1 .. Len(old) :
             old[place].id = id /\ screen' = [screen EXCEPT ![ch][place].text = text]
    BY <1>7
  <2> DEFINE seq == [old EXCEPT ![place] = msg]
  <2>2. old[place] \in Shown
    BY <1>2, ElementOfSeq
  <2>3. [old[place] EXCEPT !.text = text] = msg
    BY <2>1, <2>2 DEF Shown
  <2>4. screen' = [screen EXCEPT ![ch] =
                     [screen[ch] EXCEPT ![place] = [screen[ch][place] EXCEPT !.text = text]]]
    BY <2>1
  <2>5. screen' = [screen EXCEPT ![ch] = seq]
    BY <2>3, <2>4
  <2> HIDE DEF old, msg
  <2>6. /\ seq \in Seq(Shown) /\ Len(seq) = Len(old)
        /\ \A m \in 1 .. Len(old) : seq[m] = IF m = place THEN msg ELSE old[m]
    BY <1>2, <2>1, ExceptSeq
  <2>7. Len(old) \in Nat /\ Len(old) <= Len(old)
    BY <1>2, LenProperties
  <2>8. msg.id = id
    BY DEF msg
  <2> HIDE DEF seq
  <2> QED BY <1>5, <2>1, <2>5, <2>6, <2>7, <2>8 DEF old, msg
<1> QED BY <1>4, <1>6, <1>7 DEF Puts

(* What the chat shows stays in order.                                     *)
LEMMA PutsInOrder ==
  ASSUME DeliveryIInv, Chat \in Chats, NEW id \in Streams, NEW text \in Seq(Pieces),
         Puts(id, text), spoiled \subseteq spoiled',
         \A i \in 1 .. Len(text) - 1 :
            text[i + 1] = text[i] + 1 \/ (text[i + 1] <= text[i] /\ id \in spoiled)
  PROVE  PiecesInOrder'
<1>0. DeliveryTypeOK /\ PiecesInOrder
  BY DEF DeliveryIInv
<1>1. \A c \in Chats : \A m \in 1 .. Len(screen'[c]) :
        \/ m \in 1 .. Len(screen[c]) /\ screen'[c][m] = screen[c][m]
        \/ screen'[c][m] = [id |-> id, text |-> text]
  BY <1>0, PutsFacts
<1>2. SUFFICES ASSUME NEW c \in Chats, NEW m \in 1 .. Len(screen'[c]),
                      NEW i \in 1 .. Len(screen'[c][m].text) - 1
               PROVE  \/ screen'[c][m].text[i + 1] = screen'[c][m].text[i] + 1
                      \/ /\ screen'[c][m].text[i + 1] <= screen'[c][m].text[i]
                         /\ screen'[c][m].id \in spoiled'
  BY DEF PiecesInOrder
<1>3. CASE m \in 1 .. Len(screen[c]) /\ screen'[c][m] = screen[c][m]
  BY <1>0, <1>3 DEF PiecesInOrder
<1>4. CASE screen'[c][m] = [id |-> id, text |-> text]
  BY <1>4
<1> QED BY <1>1, <1>3, <1>4

(* A piece is sent: the chat's buffer is that of its stream, with the      *)
(* piece at the end.                                                       *)
PieceSent(outcome, text, place) ==
  /\ text \in Seq(Pieces) \ {<<>>} /\ place \in Nat /\ LastOf(text) = LastOf(Msg.text)
  /\ buffers' = [buffers EXCEPT ![Chat] = <<[id |-> Msg.id, text |-> text, message |-> place]>>]
  /\ \A i \in 1 .. Len(text) - 1 :
       text[i + 1] = text[i] + 1 \/ (text[i + 1] <= text[i] /\ Msg.id \in spoiled)
  /\ Puts(Msg.id, text) /\ place <= Len(screen'[Chat])
  /\ place > 0 => screen'[Chat][place].id = Msg.id
  /\ outcome = "sent" => place > 0
  /\ IF Held(Msg.id) THEN text = Buffer[1].text \o Msg.text ELSE text = Msg.text

LEMMA PieceSends ==
  ASSUME DeliveryIInv, NEW outcome \in Outcomes, NEW due \in BOOLEAN, Send(outcome, due),
         Msg.kind = "delta"
  PROVE  /\ said' = said
         /\ \E text, place : PieceSent(outcome, text, place)
<1>0. DeliveryTypeOK /\ HandInv /\ BufferInv
  BY DEF DeliveryIInv
<1>1. /\ hand # <<>> /\ Msg \in InHand /\ Msg.id \in Streams
      /\ Chat \in Chats /\ Chat = ChatOf[Msg.id[1]] /\ Show(outcome, due)
  BY SendFacts
<1>2. ShowPiece(outcome, due) /\ said' = said
  BY <1>1 DEF Show, IsPlain
<1> DEFINE id == Msg.id  new == Msg.text  shown == screen[Chat]
           mine == Buffer # <<>> /\ Buffer[1].id = Msg.id
           buf == IF mine THEN Buffer[1] ELSE [id |-> Msg.id, text |-> <<>>, message |-> 0]
           text == buf.text \o Msg.text
           first == buf.message = 0
           sends == first \/ due
           shows == sends /\ outcome # "refused"
           place == IF first /\ outcome = "sent" THEN Len(shown) + 1 ELSE buf.message
<1>3. /\ ~sends => outcome = "sent"
      /\ screen' = IF ~shows THEN screen
                   ELSE IF first THEN OnScreen(text) ELSE Edited(buf.message, text)
      /\ buffers' = [buffers EXCEPT ![Chat] = <<[id |-> id, text |-> text, message |-> place]>>]
  BY <1>2 DEF ShowPiece
<1>4. mine <=> Held(id)
  BY <1>1 DEF Held, Buffer
<1>5. /\ new \in Seq(Pieces) \ {<<>>} /\ Len(new) \in Nat \ {0}
      /\ \A i \in 1 .. Len(new) : new[i] = new[1] + i - 1 /\ new[i] \in Nat /\ new[1] \in Nat
  <2>1. new \in Seq(Pieces) \ {<<>>}
    BY <1>1, InHandFacts
  <2>2. Len(new) \in Nat \ {0} /\ \A i \in 1 .. Len(new) : new[i] \in Nat
    BY <2>1, LastFacts
  <2>3. \A i \in 1 .. Len(new) : new[i] = new[1] + i - 1
    BY <1>0, <1>1 DEF HandInv
  <2> QED BY <2>1, <2>2, <2>3
<1>6. shown \in Seq(Shown) /\ Len(shown) \in Nat
  <2>1. shown \in Seq(Shown)
    BY <1>0, <1>1, TypeParts DEF ScreenTypes
  <2> QED BY <2>1, LenProperties
(* The text that was held ends where the piece begins, or the piece is     *)
(* being sent again.                                                       *)
<1>7. ASSUME mine
      PROVE  /\ buf.text \in Seq(Pieces) \ {<<>>} /\ buf.message \in Nat
             /\ buf.message <= Len(shown)
             /\ buf.message > 0 => shown[buf.message].id = id
             /\ \A i \in 1 .. Len(buf.text) - 1 :
                  buf.text[i + 1] = buf.text[i] + 1 \/ (buf.text[i + 1] <= buf.text[i] /\ id \in spoiled)
             /\ new[1] = LastOf(buf.text) + 1 \/ (new[1] <= LastOf(buf.text) /\ id \in spoiled)
  <2>1. buffers[Chat] # <<>> /\ buf = buffers[Chat][1] /\ buf.id = id
    BY <1>7 DEF Buffer
  <2>2. /\ buf.text \in Seq(Pieces) \ {<<>>} /\ buf.message \in Nat
    BY <1>0, <1>1, <2>1, BufferFacts
  <2> HIDE DEF buf
  <2>3. InHandOf(buf.id)
    BY <1>1, <2>1 DEF InHandOf, IsPiece, Msg
  <2>4. /\ InOrder(buf.id, buf.text)
        /\ buf.message <= Len(shown)
        /\ buf.message > 0 => shown[buf.message].id = buf.id
        /\ \/ Msg.text[1] = LastOf(buf.text) + 1
           \/ tries > 0 /\ LastOf(buf.text) = LastOf(Msg.text)
    BY <1>0, <1>1, <2>1, <2>3 DEF BufferInv
  <2>5. tries > 0 => id \in spoiled
    BY <1>0, <1>1 DEF HandInv
  <2>6. new[1] <= LastOf(new)
    <3>1. LastOf(new) = new[1] + Len(new) - 1 /\ new[1] \in Nat /\ Len(new) \in Nat \ {0}
      <4>1. Len(new) \in 1 .. Len(new) /\ 1 \in 1 .. Len(new)
        BY <1>5
      <4> QED BY <1>5, <4>1 DEF LastOf
    <3> HIDE DEF new
    <3> QED BY <3>1
  <2> QED BY <2>1, <2>2, <2>4, <2>5, <2>6 DEF InOrder
<1>8. ~mine => buf.text = <<>> /\ buf.message = 0
  OBVIOUS
<1>9. buf.text \in Seq(Pieces) /\ buf.message \in Nat /\ buf.message <= Len(shown)
  <2>1. <<>> \in Seq(Pieces)
    BY EmptySeq
  <2> QED BY <1>6, <1>7, <1>8, <2>1
<1>10. ~mine => text = new
  BY <1>5, <1>8, ConcatEmptySeq
<1>11. mine => text = Buffer[1].text \o Msg.text
  OBVIOUS
<1> DEFINE old == buf.text
<1>12. old \in Seq(Pieces) /\ Len(old) \in Nat /\ text = old \o new
  BY <1>9, LenProperties
<1>12a. mine => /\ old # <<>>
                /\ new[1] = LastOf(old) + 1 \/ (new[1] <= LastOf(old) /\ id \in spoiled)
  BY <1>7
<1>12b. \A i \in 1 .. Len(old) - 1 :
           old[i + 1] = old[i] + 1 \/ (old[i + 1] <= old[i] /\ id \in spoiled)
  <2>1. CASE mine
    BY <1>7, <2>1
  <2>2. CASE ~mine
    <3>1. Len(old) = 0 /\ 1 .. Len(old) - 1 = {}
      BY <1>8, <2>2
    <3> QED BY <3>1
  <2> QED BY <2>1, <2>2
<1>12c. Len(old) > 0 => mine
  <2>1. ~mine => Len(old) = 0
    BY <1>8
  <2> QED BY <2>1
<1>13. buf.message > 0 => shown[buf.message].id = id
  BY <1>7, <1>8
<1> HIDE DEF old, new, mine, text, id, shown
<1>14. /\ text \in Seq(Pieces) /\ Len(text) = Len(old) + Len(new)
       /\ \A i \in 1 .. Len(old) + Len(new) :
            text[i] = IF i <= Len(old) THEN old[i] ELSE new[i - Len(old)]
  BY <1>5, <1>12, ConcatProperties
<1>15. text # <<>> /\ LastOf(text) = LastOf(new)
  <2>1. /\ Len(text) \in 1 .. Len(old) + Len(new) /\ ~(Len(text) <= Len(old))
        /\ Len(text) - Len(old) = Len(new) /\ Len(text) # 0
    BY <1>5, <1>12, <1>14
  <2>2. text[Len(text)] = new[Len(new)]
    BY <1>14, <2>1
  <2>3. text # <<>>
    BY <2>1
  <2> QED BY <2>2, <2>3 DEF LastOf
<1>16. ASSUME NEW i \in 1 .. Len(text) - 1
       PROVE  text[i + 1] = text[i] + 1 \/ (text[i + 1] <= text[i] /\ id \in spoiled)
  <2>0. i \in Nat /\ i >= 1 /\ i + 1 \in 1 .. Len(old) + Len(new) /\ i \in 1 .. Len(old) + Len(new)
    BY <1>5, <1>12, <1>14
  <2>1. CASE i < Len(old)
    <3>1. i + 1 <= Len(old) /\ i <= Len(old) /\ i \in 1 .. Len(old) - 1
      BY <1>12, <2>0, <2>1
    <3>2. text[i + 1] = old[i + 1] /\ text[i] = old[i]
      BY <1>14, <2>0, <3>1
    <3> QED BY <1>12b, <3>1, <3>2
  <2>2. CASE i = Len(old)
    <3>1. ~(i + 1 <= Len(old)) /\ i <= Len(old) /\ (i + 1) - Len(old) = 1 /\ Len(old) > 0
      BY <1>12, <2>0, <2>2
    <3>2. text[i + 1] = new[1] /\ text[i] = old[i]
      BY <1>14, <2>0, <3>1
    <3>3. old[i] = LastOf(old)
      BY <2>2 DEF LastOf
    <3> QED BY <1>12a, <1>12c, <3>1, <3>2, <3>3
  <2>3. CASE i > Len(old)
    <3> DEFINE k == i - Len(old)
    <3>1. /\ ~(i + 1 <= Len(old)) /\ ~(i <= Len(old)) /\ (i + 1) - Len(old) = k + 1
          /\ k \in 1 .. Len(new) /\ k + 1 \in 1 .. Len(new) /\ k \in Nat
      BY <1>5, <1>12, <2>0, <2>3
    <3>2. text[i + 1] = new[k + 1] /\ text[i] = new[k]
      BY <1>14, <2>0, <3>1
    <3> HIDE DEF k
    <3>3. new[k + 1] = new[1] + (k + 1) - 1 /\ new[k] = new[1] + k - 1 /\ new[1] \in Nat
      BY <1>5, <3>1
    <3>4. new[k + 1] = new[k] + 1
      BY <3>1, <3>3
    <3> QED BY <3>2, <3>4
  <2> QED BY <1>12, <2>0, <2>1, <2>2, <2>3
<1>17. Puts(id, text)
  <2>1. CASE ~shows
    BY <1>3, <2>1 DEF Puts
  <2>2. CASE shows /\ first
    BY <1>3, <2>2 DEF Puts, OnScreen, id
  <2>3. CASE shows /\ ~first
    <3>1. buf.message \in 1 .. Len(shown) /\ buf.message > 0
      BY <1>6, <1>9, <2>3
    <3>2. screen' = [screen EXCEPT ![Chat][buf.message].text = text]
      BY <1>3, <2>3 DEF Edited
    <3> QED BY <1>13, <3>1, <3>2 DEF Puts, shown
  <2> QED BY <2>1, <2>2, <2>3
<1>18. /\ place \in Nat /\ place <= Len(screen'[Chat])
       /\ place > 0 => screen'[Chat][place].id = id
       /\ outcome = "sent" => place > 0
  <2>1. /\ Len(screen'[Chat]) \in Nat /\ Len(shown) <= Len(screen'[Chat])
        /\ \A m \in 1 .. Len(shown) : screen'[Chat][m].id = shown[m].id
    BY <1>0, <1>1, <1>14, <1>17, PutsFacts DEF id, shown
  <2>2. CASE first /\ outcome = "sent"
    <3>1. place = Len(shown) + 1 /\ shows
      BY <2>2
    <3>2. screen' = OnScreen(text)
      BY <1>3, <2>2, <3>1
    <3> DEFINE m == [id |-> id, text |-> text]
    <3>3. screen'[Chat] = Append(shown, m)
      <4>1. screen \in [Chats -> Seq(Shown)]
        BY <1>0, TypeParts DEF ScreenTypes
      <4> QED BY <1>1, <3>2, <4>1 DEF OnScreen, id, shown
    <3>4. m \in Shown
      BY <1>1, <1>14 DEF Shown, id
    <3>5. m.id = id
      OBVIOUS
    <3> HIDE DEF m
    <3>6. Len(Append(shown, m)) = Len(shown) + 1 /\ Append(shown, m)[Len(shown) + 1] = m
      BY <1>6, <3>4, AppendProperties
    <3> HIDE DEF place
    <3>7. place \in Nat /\ place <= Len(screen'[Chat]) /\ place > 0
      BY <1>6, <3>1, <3>3, <3>6
    <3> QED BY <3>1, <3>3, <3>5, <3>6, <3>7
  <2>3. CASE ~(first /\ outcome = "sent")
    <3>1. place = buf.message
      BY <2>3
    <3>2. outcome = "sent" => place > 0
      BY <1>9, <2>3, <3>1
    <3>3. place > 0 => place \in 1 .. Len(shown)
      BY <1>6, <1>9, <3>1
    <3>4. place <= Len(screen'[Chat])
      BY <1>6, <1>9, <2>1, <3>1
    <3> QED BY <1>9, <1>13, <2>1, <3>1, <3>2, <3>3, <3>4
  <2> QED BY <2>2, <2>3
<1>19. buffers' = [buffers EXCEPT ![Chat] = <<[id |-> id, text |-> text, message |-> place]>>]
  BY <1>3
<1> HIDE DEF place
<1>20. PieceSent(outcome, text, place)
  BY <1>4, <1>10, <1>11, <1>14, <1>15, <1>16, <1>17, <1>18, <1>19
     DEF PieceSent, id, new
<1> QED BY <1>2, <1>20

(* The end of a stream is sent: the message on the screen gets the whole   *)
(* text of the buffer, which is dropped.                                   *)
EndSent(outcome) ==
  /\ Held(Msg.id) /\ Buffer # <<>> /\ Buffer[1].id = Msg.id /\ Buffer[1].message > 0
  /\ Puts(Msg.id, Buffer[1].text)
  /\ outcome = "sent" =>
       /\ buffers' = [buffers EXCEPT ![Chat] = <<>>]
       /\ screen' = Edited(Buffer[1].message, Buffer[1].text)
  /\ outcome # "sent" => buffers' = buffers

LEMMA EndSends ==
  ASSUME DeliveryIInv, NEW outcome \in Outcomes, NEW due \in BOOLEAN, Send(outcome, due),
         Msg.kind = "end"
  PROVE  /\ said' = said
         /\ \/ EndSent(outcome)
            \/ /\ screen' = screen /\ buffers' = buffers /\ outcome = "sent"
               /\ ~(Held(Msg.id) /\ Buffer[1].message > 0)
<1>0. DeliveryTypeOK /\ BufferInv
  BY DEF DeliveryIInv
<1>1. /\ hand # <<>> /\ Msg \in InHand /\ Msg.id \in Streams
      /\ Chat \in Chats /\ Chat = ChatOf[Msg.id[1]] /\ Show(outcome, due)
  BY SendFacts
<1>2. ShowEnd(outcome) /\ said' = said
  BY <1>1 DEF Show, IsPlain
<1>3. Buffer # <<>> /\ Buffer[1].id = Msg.id <=> Held(Msg.id)
  BY <1>1 DEF Held, Buffer
<1>4. CASE Held(Msg.id) /\ Buffer[1].message > 0
  <2> DEFINE b == buffers[Chat][1]
  <2>1. Buffer # <<>> /\ Buffer[1].id = Msg.id /\ Buffer[1] = b
    BY <1>3, <1>4 DEF Buffer
  <2>2. /\ screen' = IF outcome = "refused" THEN screen ELSE Edited(b.message, b.text)
        /\ buffers' = IF outcome = "sent" THEN [buffers EXCEPT ![Chat] = <<>>] ELSE buffers
    BY <1>2, <1>4, <2>1 DEF ShowEnd
  <2>3. b.message \in 1 .. Len(screen[Chat]) /\ screen[Chat][b.message].id = Msg.id
    <3>1. buffers[Chat] # <<>> /\ b.message > 0
      BY <1>4, <2>1 DEF Buffer
    <3>2. b.message \in Nat /\ b.message <= Len(screen[Chat]) /\ screen[Chat][b.message].id = b.id
      BY <1>0, <1>1, <3>1, BufferFacts DEF BufferInv
    <3>3. screen[Chat] \in Seq(Shown)
      BY <1>0, <1>1, TypeParts DEF ScreenTypes
    <3>4. Len(screen[Chat]) \in Nat
      BY <3>3, LenProperties
    <3> QED BY <2>1, <3>1, <3>2, <3>4
  <2> HIDE DEF b
  <2>4. Puts(Msg.id, b.text)
    <3>1. screen' = screen \/ screen' = [screen EXCEPT ![Chat][b.message].text = b.text]
      BY <2>2 DEF Edited
    <3> QED BY <2>3, <3>1 DEF Puts
  <2>5. outcome = "sent" => outcome # "refused"
    OBVIOUS
  <2> QED BY <1>2, <1>4, <2>1, <2>2, <2>4, <2>5 DEF EndSent
<1>5. CASE ~(Held(Msg.id) /\ Buffer[1].message > 0)
  BY <1>2, <1>3, <1>5 DEF ShowEnd, channelVars
<1> QED BY <1>2, <1>4, <1>5

LEMMA OtherSends ==
  ASSUME DeliveryIInv, NEW outcome \in Outcomes, NEW due \in BOOLEAN, Send(outcome, due),
         Msg.kind \notin {"delta", "end"}
  PROVE  /\ screen' = screen /\ buffers' = buffers
         /\ Msg.kind = "merge" => said' = said
         /\ IsPlain(Msg) =>
              said' = IF outcome = "refused" THEN said ELSE said \cup {<<Msg.id, Msg.text[1]>>}
<1>1. Show(outcome, due)
  BY SendFacts
<1> QED BY <1>1 DEF Show, ShowPlain, channelVars, IsPlain

(* Whatever is sent.                                                       *)
LEMMA SendEffects ==
  ASSUME DeliveryIInv, NEW outcome \in Outcomes, NEW due \in BOOLEAN, Send(outcome, due)
  PROVE  /\ \/ Msg.kind = "delta" /\ \E text, place : PieceSent(outcome, text, place)
            \/ Msg.kind = "end" /\ EndSent(outcome)
            \/ Msg.kind # "delta" /\ screen' = screen /\ buffers' = buffers
         /\ ~IsPlain(Msg) => said' = said
         /\ IsPlain(Msg) =>
              said' = IF outcome = "refused" THEN said ELSE said \cup {<<Msg.id, Msg.text[1]>>}
<1>1. Msg.kind \in {"delta", "end", "merge", "reply", "followup"}
  BY SendFacts, InHandFacts
<1>2. CASE Msg.kind = "delta"
  BY <1>2, PieceSends DEF IsPlain
<1>3. CASE Msg.kind = "end"
  BY <1>3, EndSends DEF IsPlain
<1>4. CASE Msg.kind \notin {"delta", "end"}
  BY <1>1, <1>4, OtherSends DEF IsPlain
<1> QED BY <1>2, <1>3, <1>4

LEMMA SendScreen ==
  ASSUME DeliveryIInv, NEW outcome \in Outcomes, NEW due \in BOOLEAN, Send(outcome, due)
  PROVE  /\ screen' \in [Chats -> Seq(Shown)] /\ PiecesInOrder'
         /\ \A c \in Chats :
              /\ Len(screen[c]) \in Nat /\ Len(screen[c]) <= Len(screen'[c])
              /\ Len(screen'[c]) \in Nat
              /\ \A m \in 1 .. Len(screen[c]) :
                   /\ screen'[c][m].id = screen[c][m].id
                   /\ screen[c][m].id # Msg.id => screen'[c][m] = screen[c][m]
<1>0. DeliveryTypeOK /\ PiecesInOrder /\ BufferInv
  BY DEF DeliveryIInv
<1>1. Msg.id \in Streams /\ Chat \in Chats /\ spoiled \subseteq spoiled'
  BY SendFacts
<1>2. CASE Msg.kind = "delta"
  <2>1. PICK text, place : PieceSent(outcome, text, place)
    BY <1>2, PieceSends
  <2>2. /\ text \in Seq(Pieces) /\ Puts(Msg.id, text)
        /\ \A i \in 1 .. Len(text) - 1 :
             text[i + 1] = text[i] + 1 \/ (text[i + 1] <= text[i] /\ Msg.id \in spoiled)
    BY <2>1 DEF PieceSent
  <2> QED BY <1>0, <1>1, <2>2, PutsFacts, PutsInOrder
<1>3. CASE Msg.kind = "end" /\ EndSent(outcome)
  <2> DEFINE b == buffers[Chat][1]
  <2>1. Puts(Msg.id, b.text) /\ buffers[Chat] # <<>> /\ b.id = Msg.id
    BY <1>3 DEF EndSent, Buffer
  <2>2. b.text \in Seq(Pieces)
    BY <1>0, <1>1, <2>1, BufferFacts
  <2>3. InOrder(b.id, b.text)
    BY <1>0, <1>1, <2>1 DEF BufferInv
  <2> HIDE DEF b
  <2>4. \A i \in 1 .. Len(b.text) - 1 :
          b.text[i + 1] = b.text[i] + 1 \/ (b.text[i + 1] <= b.text[i] /\ Msg.id \in spoiled)
    BY <2>1, <2>3 DEF InOrder
  <2> QED BY <1>0, <1>1, <2>1, <2>2, <2>4, PutsFacts, PutsInOrder
<1>4. CASE screen' = screen
  <2>1. screen \in [Chats -> Seq(Shown)]
    BY <1>0, TypeParts DEF ScreenTypes
  <2>2. \A c \in Chats : Len(screen[c]) \in Nat /\ Len(screen[c]) <= Len(screen[c])
    BY <2>1, LenProperties
  <2>3. PiecesInOrder'
    BY <1>0, <1>1, <1>4 DEF PiecesInOrder
  <2> QED BY <1>4, <2>1, <2>2, <2>3
<1> QED BY <1>2, <1>3, <1>4, SendEffects

LEMMA SendTypes ==
  ASSUME DeliveryIInv, NEW outcome \in Outcomes, NEW due \in BOOLEAN, Send(outcome, due)
  PROVE  DeliveryTypeOK'
<1>0. DeliveryTypeOK
  BY DEF DeliveryIInv
<1>00. TurnsTypeOK /\ QueueTypes /\ ScreenTypes /\ ReplyTypes
  BY <1>0, TypeParts
<1>1. /\ UNCHANGED <<turnOf, wrote, outbound, aside, stale, enabled, fingerprint, suppressed>>
      /\ Msg \in InHand /\ Msg.id \in Streams /\ Chat \in Chats
      /\ (hand' = <<>> /\ tries' = 0) \/ (hand' = hand /\ tries' \in 0 .. SendTries - 1)
      /\ spoiled' = spoiled \/ spoiled' = spoiled \cup {Msg.id}
      /\ sendFaults' \in 0 .. MaxSendFaults
  BY SendFacts
<1>2. TurnsTypeOK'
  BY <1>00, <1>1 DEF TurnsTypeOK
<1>3. QueueTypes'
  <2>1. hand' \in Seq(InHand) /\ Len(hand') <= 1
    <3> DEFINE n == Len(hand')
    <3>1. <<>> \in Seq(InHand) /\ Len(<<>>) = 0 /\ hand \in Seq(InHand) /\ Len(hand) <= 1
      BY <1>00, EmptySeq DEF QueueTypes
    <3>2. hand' \in Seq(InHand) /\ (n = 0 \/ n <= 1)
      BY <1>1, <3>1
    <3> HIDE DEF n
    <3>3. n <= 1
      BY <3>2
    <3> QED BY <3>2, <3>3 DEF n
  <2>2. tries' \in 0 .. SendTries - 1
    BY <1>1, DeliveryAssumption
  <2> QED BY <1>00, <1>1, <2>1, <2>2 DEF QueueTypes
<1>4. ScreenTypes'
  <2>1. screen' \in [Chats -> Seq(Shown)]
    BY SendScreen
  <2>2. buffers \in [Chats -> Seq(Buffer1)] /\ \A c \in Chats : Len(buffers[c]) <= 1
    BY <1>00 DEF ScreenTypes
  <2>3. ASSUME NEW b \in Seq(Buffer1), Len(b) <= 1, buffers' = [buffers EXCEPT ![Chat] = b]
        PROVE  buffers' \in [Chats -> Seq(Buffer1)] /\ \A c \in Chats : Len(buffers'[c]) <= 1
    <3>1. buffers' \in [Chats -> Seq(Buffer1)]
      BY <2>2, <2>3
    <3>2. \A c \in Chats : buffers'[c] = b \/ buffers'[c] = buffers[c]
      BY <2>2, <2>3
    <3> QED BY <2>2, <2>3, <3>1, <3>2
  <2>4. CASE buffers' = buffers
    BY <2>1, <2>2, <2>4 DEF ScreenTypes
  <2>5. CASE Msg.kind = "end" /\ EndSent(outcome) /\ outcome = "sent"
    <3> DEFINE none == <<>>
    <3>1. none \in Seq(Buffer1) /\ Len(none) = 0
      BY EmptySeq
    <3>2. buffers' = [buffers EXCEPT ![Chat] = none]
      BY <2>5 DEF EndSent
    <3> HIDE DEF none
    <3>3. Len(none) <= 1
      BY <3>1
    <3> QED BY <2>1, <2>3, <3>1, <3>2, <3>3 DEF ScreenTypes
  <2>6. CASE Msg.kind = "delta" /\ \E text, place : PieceSent(outcome, text, place)
    <3>1. PICK text, place : PieceSent(outcome, text, place)
      BY <2>6
    <3> DEFINE b == [id |-> Msg.id, text |-> text, message |-> place]  one == <<b>>
    <3>2. b \in Buffer1 /\ buffers' = [buffers EXCEPT ![Chat] = one]
      BY <1>1, <3>1 DEF PieceSent, Buffer1
    <3> HIDE DEF b
    <3>3. one \in Seq(Buffer1) /\ Len(one) = 1
      BY <3>2
    <3> HIDE DEF one
    <3>4. Len(one) <= 1
      BY <3>3
    <3> QED BY <2>1, <2>3, <3>2, <3>3, <3>4 DEF ScreenTypes
  <2>7. EndSent(outcome) /\ outcome # "sent" => buffers' = buffers
    BY DEF EndSent
  <2> QED BY <2>4, <2>5, <2>6, <2>7, SendEffects
<1>5. ReplyTypes'
  <2>1. said' \subseteq Streams \X Texts
    <3>1. IsPlain(Msg) => Msg.text[1] \in Texts
      BY <1>1, InHandFacts
    <3>2. said' = said \/ (said' = said \cup {<<Msg.id, Msg.text[1]>>} /\ IsPlain(Msg))
      BY SendEffects
    <3>3. said \subseteq Streams \X Texts
      BY <1>00 DEF ReplyTypes
    <3>4. IsPlain(Msg) => <<Msg.id, Msg.text[1]>> \in Streams \X Texts
      BY <1>1, <3>1
    <3> QED BY <3>2, <3>3, <3>4
  <2>2. fingerprint' = fingerprint /\ suppressed' = suppressed
    BY <1>1
  <2>3. spoiled' \cup taken' \subseteq Streams
    <3>1. Supplanted \subseteq Streams
      BY <1>0, <1>1, BufferFacts DEF Supplanted, Buffer
    <3> QED BY <1>00, <1>1, <3>1, SendFacts DEF ReplyTypes
  <2>4. sendFaults' \in 0 .. MaxSendFaults
    BY <1>1
  <2> QED BY <1>00, <2>1, <2>2, <2>3, <2>4 DEF ReplyTypes
<1> QED BY <1>2, <1>3, <1>4, <1>5, TypePartsNext

LEMMA SendKeepsHand ==
  ASSUME DeliveryIInv, NEW outcome \in Outcomes, NEW due \in BOOLEAN, Send(outcome, due)
  PROVE  HandInv'
<1>0. HandInv
  BY DEF DeliveryIInv
<1>1. /\ hand # <<>> /\ ~stale /\ enabled
      /\ UNCHANGED <<turnOf, wrote, outbound, aside, stale, enabled, fingerprint, suppressed>>
      /\ Waiting' = Waiting
      /\ \/ hand' = <<>> /\ tries' = 0
         \/ outcome # "sent" /\ hand' = hand /\ Msg' = Msg /\ tries' > 0
      /\ outcome # "sent" => spoiled' = spoiled \cup {Msg.id}
  BY SendFacts
<1>2. CASE hand' = <<>> /\ tries' = 0
  BY <1>1, <1>2 DEF HandInv
<1>3. CASE outcome # "sent" /\ hand' = hand /\ Msg' = Msg
  <2>1. Msg' = Msg /\ Msg.id \in spoiled'
    BY <1>1, <1>3
  <2> QED BY <1>0, <1>1, <1>3, <2>1 DEF HandInv, Ended, Follows
<1> QED BY <1>1, <1>2, <1>3

(* What the channel may hold for a chat.                                   *)
BufferOK(c) ==
  LET b == buffers[c][1] IN
  /\ ChatOf[b.id[1]] = c
  /\ InOrder(b.id, b.text)
  /\ b.message <= Len(screen[c])
  /\ b.message > 0 => screen[c][b.message].id = b.id
  /\ b.id[2] <= turnOf[b.id[1]].stream
  /\ \A i \in 1 .. Len(Waiting) : NotAfter(b.id, Waiting[i].id)
  /\ hand # <<>> => NotAfter(b.id, Msg.id)
  /\ IF InHandOf(b.id)
       THEN \/ Msg.text[1] = LastOf(b.text) + 1
            \/ tries > 0 /\ LastOf(b.text) = LastOf(Msg.text)
       ELSE Follows(b.id, LastOf(b.text))

LEMMA BuffersOK == BufferInv => \A c \in Chats : buffers[c] # <<>> => BufferOK(c)
BY DEF BufferInv, BufferOK

LEMMA BuffersNext ==
  /\ stale' \/ ~enabled' => \A c \in Chats : buffers'[c] = <<>>
  /\ \A c \in Chats : buffers'[c] # <<>> => BufferOK(c)'
  => BufferInv'
BY DEF BufferInv, BufferOK

(* The buffer of a chat where no piece is sent.                            *)
LEMMA SendKeepsBuffer ==
  ASSUME DeliveryIInv, NEW outcome \in Outcomes, NEW due \in BOOLEAN, Send(outcome, due),
         NEW c \in Chats, buffers[c] # <<>>, buffers'[c] = buffers[c],
         ~InHandOf(buffers[c][1].id)
  PROVE  BufferOK(c)'
<1>0. DeliveryTypeOK /\ BufferInv
  BY DEF DeliveryIInv
<1>1. /\ turnOf' = turnOf /\ wrote' = wrote /\ Waiting' = Waiting
      /\ hand' = <<>> \/ (hand' = hand /\ Msg' = Msg)
      /\ spoiled \subseteq spoiled'
  BY SendFacts
<1> DEFINE b == buffers[c][1]
<1>2. BufferOK(c)
  BY <1>0, BuffersOK
<1>3. b' = b
  OBVIOUS
<1>4. b.message \in Nat
  BY <1>0, BufferFacts
<1>5. /\ Len(screen[c]) \in Nat /\ Len(screen[c]) <= Len(screen'[c]) /\ Len(screen'[c]) \in Nat
      /\ \A m \in 1 .. Len(screen[c]) : screen'[c][m].id = screen[c][m].id
  BY SendScreen
<1>6. /\ ChatOf[b.id[1]] = c
      /\ InOrder(b.id, b.text)
      /\ b.message <= Len(screen[c])
      /\ b.message > 0 => screen[c][b.message].id = b.id
      /\ b.id[2] <= turnOf[b.id[1]].stream
      /\ \A i \in 1 .. Len(Waiting) : NotAfter(b.id, Waiting[i].id)
      /\ hand # <<>> => NotAfter(b.id, Msg.id)
      /\ GoesOn(Waiting, wrote, b.id, LastOf(b.text))
  BY <1>2 DEF BufferOK, Follows
<1>7. ~InHandOf(b.id)
  OBVIOUS
<1> HIDE DEF b
<1>8. b.message <= Len(screen'[c]) /\ (b.message > 0 => screen'[c][b.message].id = b.id)
  <2>1. b.message <= Len(screen'[c])
    BY <1>4, <1>5, <1>6
  <2>2. b.message > 0 => b.message \in 1 .. Len(screen[c])
    BY <1>4, <1>5, <1>6
  <2> QED BY <1>5, <1>6, <2>1, <2>2
<1>9. InOrder(b.id, b.text)'
  BY <1>1, <1>3, <1>6 DEF InOrder
<1>10. ~InHandOf(b.id)'
  BY <1>1, <1>3, <1>7 DEF InHandOf
<1>11. hand' # <<>> => NotAfter(b.id, Msg'.id)
  BY <1>1, <1>6
<1>12. Follows(b.id, LastOf(b.text))'
  BY <1>1, <1>3, <1>6 DEF Follows
<1>13. BufferOK(c)' <=> LET d == b' IN
        /\ ChatOf[d.id[1]] = c
        /\ InOrder(b.id, b.text)'
        /\ d.message <= Len(screen'[c])
        /\ d.message > 0 => screen'[c][d.message].id = d.id
        /\ d.id[2] <= turnOf'[d.id[1]].stream
        /\ \A i \in 1 .. Len(Waiting') : NotAfter(d.id, Waiting'[i].id)
        /\ hand' # <<>> => NotAfter(d.id, Msg'.id)
        /\ IF InHandOf(b.id)'
             THEN \/ Msg'.text[1] = LastOf(d.text) + 1
                  \/ tries' > 0 /\ LastOf(d.text) = LastOf(Msg'.text)
             ELSE Follows(b.id, LastOf(b.text))'
  BY DEF BufferOK, b
<1> QED BY <1>1, <1>3, <1>6, <1>8, <1>9, <1>10, <1>11, <1>12, <1>13

(* The buffer of the chat where a piece is sent.                           *)
LEMMA SendMakesBuffer ==
  ASSUME DeliveryIInv, NEW outcome \in Outcomes, NEW due \in BOOLEAN, Send(outcome, due),
         Msg.kind = "delta", NEW text, NEW place, PieceSent(outcome, text, place),
         NEW c \in Chats, c = Chat
  PROVE  BufferOK(c)' /\ \A d \in Chats \ {c} : buffers'[d] = buffers[d]
<1>0. DeliveryTypeOK /\ HandInv
  BY DEF DeliveryIInv
<1> DEFINE b == [id |-> Msg.id, text |-> text, message |-> place]
<1>1. /\ turnOf' = turnOf /\ wrote' = wrote /\ Waiting' = Waiting /\ hand # <<>>
      /\ hand' = <<>> \/ (hand' = hand /\ hand' # <<>> /\ Msg' = Msg /\ tries' > 0)
      /\ spoiled \subseteq spoiled' /\ c \in Chats /\ c = ChatOf[Msg.id[1]]
  BY SendFacts
<1>2. /\ LastOf(text) = LastOf(Msg.text)
      /\ buffers' = [buffers EXCEPT ![c] = <<b>>]
      /\ \A i \in 1 .. Len(text) - 1 :
           text[i + 1] = text[i] + 1 \/ (text[i + 1] <= text[i] /\ Msg.id \in spoiled)
      /\ place <= Len(screen'[c])
      /\ place > 0 => screen'[c][place].id = Msg.id
  BY DEF PieceSent
<1>3. /\ Msg.id[2] <= turnOf[Msg.id[1]].stream
      /\ \A i \in 1 .. Len(Waiting) : NotAfter(Msg.id, Waiting[i].id)
      /\ Follows(Msg.id, LastOf(Msg.text))
  BY <1>0, <1>1 DEF HandInv
<1>4. DOMAIN buffers = Chats
  BY <1>0, TypeParts DEF ScreenTypes
<1>5. b.id = Msg.id /\ b.text = text /\ b.message = place
  OBVIOUS
<1>6. buffers'[c][1] = b
  <2> DEFINE one == <<b>>
  <2>1. one[1] = b
    OBVIOUS
  <2> HIDE DEF one, b
  <2>2. buffers'[c] = one
    BY <1>1, <1>2, <1>4 DEF one
  <2> QED BY <2>1, <2>2
<1>7. \A d \in Chats \ {c} : buffers'[d] = buffers[d]
  BY <1>2, <1>4
<1> HIDE DEF b
<1>8. NotAfter(Msg.id, Msg.id)
  BY <1>0, <1>1, HandFacts, InHandFacts, StreamFacts DEF NotAfter
<1>9. BufferOK(c)'
  <2> DEFINE d == buffers[c][1]
  <2>1. d' = b
    BY <1>6
  <2>2. InOrder(d.id, d.text)'
    BY <1>1, <1>2, <1>5, <2>1 DEF InOrder
  <2>3. /\ d'.message <= Len(screen'[c])
        /\ d'.message > 0 => screen'[c][d'.message].id = d'.id
        /\ ChatOf[d'.id[1]] = c
        /\ d'.id[2] <= turnOf'[d'.id[1]].stream
        /\ \A i \in 1 .. Len(Waiting') : NotAfter(d'.id, Waiting'[i].id)
        /\ hand' # <<>> => NotAfter(d'.id, Msg'.id)
    BY <1>1, <1>2, <1>3, <1>5, <1>8, <2>1
  <2>4. hand' # <<>> => tries' > 0 /\ LastOf(d'.text) = LastOf(Msg'.text)
    BY <1>1, <1>2, <1>5, <2>1
  <2>5. Follows(d.id, LastOf(d.text))'
    BY <1>1, <1>2, <1>3, <1>5, <2>1 DEF Follows
  <2>6. InHandOf(d.id)' => hand' # <<>>
    BY DEF InHandOf
  <2> QED BY <2>2, <2>3, <2>4, <2>5, <2>6 DEF BufferOK
<1> QED BY <1>7, <1>9

LEMMA SendKeepsBuffers ==
  ASSUME DeliveryIInv, NEW outcome \in Outcomes, NEW due \in BOOLEAN, Send(outcome, due)
  PROVE  BufferInv'
<1>0. DeliveryTypeOK /\ BufferInv
  BY DEF DeliveryIInv
<1>1. ~stale' /\ enabled' /\ Chat \in Chats /\ Chat = ChatOf[Msg.id[1]] /\ hand # <<>>
  BY SendFacts
<1>2. ASSUME NEW c \in Chats, buffers'[c] # <<>>
      PROVE  BufferOK(c)'
  <2>1. CASE Msg.kind = "delta"
    <3>1. PICK text, place : PieceSent(outcome, text, place)
      BY <2>1, PieceSends
    <3>2. CASE c = Chat
      BY <2>1, <3>1, <3>2, SendMakesBuffer
    <3>3. CASE c # Chat
      <4>1. buffers'[c] = buffers[c]
        BY <1>1, <2>1, <3>1, <3>3, SendMakesBuffer
      <4>2. buffers[c] # <<>> /\ ChatOf[buffers[c][1].id[1]] = c
        BY <1>0, <1>2, <4>1, BuffersOK DEF BufferOK
      <4>3. ~InHandOf(buffers[c][1].id)
        BY <1>1, <3>3, <4>2 DEF InHandOf, IsPiece, Msg
      <4> QED BY <4>1, <4>2, <4>3, SendKeepsBuffer
    <3> QED BY <3>2, <3>3
  <2>2. CASE Msg.kind # "delta"
    <3>1. \/ buffers' = buffers
          \/ buffers' = [buffers EXCEPT ![Chat] = <<>>]
      BY <2>2, SendEffects DEF EndSent, Outcomes
    <3>2. DOMAIN buffers = Chats
      BY <1>0, TypeParts DEF ScreenTypes
    <3>3. buffers'[c] = buffers[c]
      BY <1>1, <1>2, <3>1, <3>2
    <3>4. ~InHandOf(buffers[c][1].id)
      BY <2>2 DEF InHandOf, IsPiece, Msg
    <3> QED BY <1>2, <3>3, <3>4, SendKeepsBuffer
  <2> QED BY <2>1, <2>2
<1> QED BY <1>1, <1>2, BuffersNext

LEMMA SendKeepsRest ==
  ASSUME DeliveryIInv, NEW outcome \in Outcomes, NEW due \in BOOLEAN, Send(outcome, due)
  PROVE  FingerprintInv' /\ SuppressedWasSaid' /\ TurnsInv' /\ WaitingInv'
<1>0. /\ DeliveryTypeOK /\ FingerprintInv /\ SuppressedWasSaid /\ TurnsInv
      /\ InLine(Waiting, turnOf, wrote)
  BY DEF DeliveryIInv, WaitingInv
<1>1. /\ turnOf' = turnOf /\ wrote' = wrote /\ Waiting' = Waiting /\ hand # <<>>
      /\ fingerprint' = fingerprint /\ suppressed' = suppressed
      /\ outcome # "sent" => spoiled' = spoiled \cup {Msg.id}
      /\ outcome = "sent" => spoiled' = spoiled
  BY SendFacts
<1>2. /\ ~IsPlain(Msg) => said' = said
      /\ IsPlain(Msg) =>
           said' = IF outcome = "refused" THEN said ELSE said \cup {<<Msg.id, Msg.text[1]>>}
  BY SendEffects
<1>3. said \subseteq said' /\ spoiled \subseteq spoiled'
  BY <1>1, <1>2
<1>4. ASSUME NEW id \in Streams, NEW answer \in Answers \cup {Apology},
             fingerprint[id] = <<answer>>
      PROVE  <<id, answer>> \in said' \/ id \in spoiled'
  <2>1. \/ <<id, answer>> \in said \/ id \in spoiled
        \/ hand # <<>> /\ IsPlain(Msg) /\ Msg.id = id /\ Msg.text = <<answer>>
    BY <1>0, <1>4 DEF FingerprintInv
  <2>2. CASE IsPlain(Msg) /\ Msg.id = id /\ Msg.text = <<answer>>
    <3>1. Msg.text[1] = answer
      <4>1. <<answer>>[1] = answer
        OBVIOUS
      <4> QED BY <2>2, <4>1
    <3>2. CASE outcome = "sent"
      <4>1. outcome # "refused"
        BY <3>2
      <4> QED BY <1>2, <2>2, <3>1, <4>1
    <3>3. CASE outcome # "sent"
      BY <1>1, <2>2, <3>3
    <3> QED BY <3>2, <3>3
  <2> QED BY <1>3, <2>1, <2>2
<1>5. FingerprintInv'
  BY <1>1, <1>4 DEF FingerprintInv
<1>6. SuppressedWasSaid'
  BY <1>0, <1>1, <1>3 DEF SuppressedWasSaid
<1>7. TurnsInv'
  BY <1>0, <1>1 DEF TurnsInv, StreamOf
<1>8. WaitingInv'
  BY <1>0, <1>1 DEF WaitingInv
<1> QED BY <1>5, <1>6, <1>7, <1>8

LEMMA SendKeeps ==
  ASSUME DeliveryIInv, NEW outcome \in Outcomes, NEW due \in BOOLEAN, Send(outcome, due)
  PROVE  DeliveryIInv'
BY SendTypes, SendScreen, SendKeepsHand, SendKeepsBuffers, SendKeepsRest DEF DeliveryIInv

(***************************************************************************)
(* The channel is disabled, enabled, or replaced while it sends.           *)
(***************************************************************************)
LEMMA IntoNothingKeeps ==
  ASSUME DeliveryIInv, SendIntoNothing
  PROVE  DeliveryIInv'
<1>0. /\ DeliveryTypeOK /\ HandInv /\ BufferInv /\ FingerprintInv /\ SuppressedWasSaid
      /\ TurnsInv /\ InLine(Waiting, turnOf, wrote) /\ PiecesInOrder
  BY DEF DeliveryIInv, WaitingInv
<1>1. /\ turnOf' = turnOf /\ wrote' = wrote /\ Waiting' = Waiting /\ hand' = <<>> /\ tries' = 0
      /\ stale' = FALSE /\ stale /\ hand # <<>> /\ enabled' = enabled /\ buffers' = buffers
      /\ screen' = screen /\ fingerprint' = fingerprint /\ suppressed' = suppressed
      /\ said' = said /\ spoiled' = spoiled \cup {Msg.id} /\ sendFaults' = sendFaults /\ taken' = taken
      /\ outbound' = outbound /\ aside' = aside
  BY DEF SendIntoNothing, Waiting, turnVars, channelVars, replyVars
<1>2. Msg.id \in Streams
  BY <1>0, <1>1, HandFacts, InHandFacts
<1>3. DeliveryTypeOK'
  <2>1. TurnsTypeOK /\ QueueTypes /\ ScreenTypes /\ ReplyTypes
    BY <1>0, TypeParts
  <2>2. TurnsTypeOK' /\ ScreenTypes'
    BY <1>1, <2>1 DEF TurnsTypeOK, ScreenTypes
  <2>3. QueueTypes'
    <3>1. hand' \in Seq(InHand) /\ Len(hand') <= 1
      <4> DEFINE q == <<>>
      <4>1. q \in Seq(InHand) /\ Len(q) = 0
        BY EmptySeq
      <4>2. hand' = q
        BY <1>1
      <4> HIDE DEF q
      <4> QED BY <4>1, <4>2
    <3>2. tries' \in 0 .. SendTries - 1
      BY <1>1, DeliveryAssumption
    <3> QED BY <1>1, <2>1, <3>1, <3>2 DEF QueueTypes
  <2>4. ReplyTypes'
    BY <1>1, <1>2, <2>1 DEF ReplyTypes
  <2> QED BY <2>2, <2>3, <2>4, TypePartsNext
<1>4. HandInv'
  BY <1>1 DEF HandInv
<1>5. BufferInv'
  <2>1. \A c \in Chats : buffers'[c] = <<>>
    BY <1>0, <1>1 DEF BufferInv
  <2> QED BY <2>1 DEF BufferInv
<1>6. FingerprintInv'
  <2>1. ASSUME NEW id \in Streams, NEW answer \in Answers \cup {Apology},
               fingerprint[id] = <<answer>>
        PROVE  <<id, answer>> \in said' \/ id \in spoiled'
    BY <1>0, <1>1, <2>1 DEF FingerprintInv
  <2> QED BY <1>1, <2>1 DEF FingerprintInv
<1>7. SuppressedWasSaid' /\ PiecesInOrder'
  BY <1>0, <1>1 DEF SuppressedWasSaid, PiecesInOrder
<1>8. TurnsInv' /\ WaitingInv'
  BY <1>0, <1>1 DEF TurnsInv, StreamOf, WaitingInv
<1> QED BY <1>3, <1>4, <1>5, <1>6, <1>7, <1>8 DEF DeliveryIInv

LEMMA DisableKeeps ==
  ASSUME DeliveryIInv, Disable
  PROVE  DeliveryIInv'
<1>0. /\ DeliveryTypeOK /\ HandInv /\ BufferInv /\ FingerprintInv /\ SuppressedWasSaid
      /\ TurnsInv /\ InLine(Waiting, turnOf, wrote) /\ PiecesInOrder
  BY DEF DeliveryIInv, WaitingInv
<1> DEFINE gone == {buffers[c][1].id : c \in {d \in Chats : buffers[d] # <<>>}}
<1>1. /\ turnOf' = turnOf /\ wrote' = wrote /\ Waiting' = Waiting /\ hand' = hand /\ Msg' = Msg
      /\ tries' = tries /\ stale' = (hand # <<>>) /\ enabled' = FALSE
      /\ buffers' = [c \in Chats |-> <<>>]
      /\ screen' = screen /\ fingerprint' = fingerprint /\ suppressed' = suppressed
      /\ said' = said /\ spoiled' = spoiled \cup gone
      /\ sendFaults' = sendFaults + 1 /\ sendFaults < MaxSendFaults /\ taken' = taken
      /\ outbound' = outbound /\ aside' = aside
  BY DEF Disable, Waiting, Msg, turnVars, replyVars
<1>2. gone \subseteq Streams
  BY <1>0, BufferFacts
<1> HIDE DEF gone
<1>3. DeliveryTypeOK'
  <2>1. TurnsTypeOK /\ QueueTypes /\ ScreenTypes /\ ReplyTypes
    BY <1>0, TypeParts
  <2>2. TurnsTypeOK' /\ QueueTypes'
    BY <1>1, <2>1 DEF TurnsTypeOK, QueueTypes
  <2>3. ScreenTypes'
    <3> DEFINE q == <<>>
    <3>1. q \in Seq(Buffer1) /\ Len(q) = 0
      BY EmptySeq
    <3>2. buffers' = [c \in Chats |-> q]
      BY <1>1
    <3> HIDE DEF q
    <3>3. Len(q) <= 1
      BY <3>1
    <3>4. buffers' \in [Chats -> Seq(Buffer1)] /\ \A c \in Chats : Len(buffers'[c]) <= 1
      BY <3>1, <3>2, <3>3
    <3> QED BY <1>1, <2>1, <3>4 DEF ScreenTypes
  <2>4. ReplyTypes'
    <3>1. sendFaults' \in 0 .. MaxSendFaults
      BY <1>1, <2>1, DeliveryAssumption DEF ReplyTypes
    <3>2. spoiled' \cup taken' \subseteq Streams
      BY <1>1, <1>2, <2>1 DEF ReplyTypes
    <3> QED BY <1>1, <2>1, <3>1, <3>2 DEF ReplyTypes
  <2> QED BY <2>2, <2>3, <2>4, TypePartsNext
<1>4. HandInv'
  BY <1>0, <1>1 DEF HandInv, Ended, Follows
<1>5. BufferInv'
  <2>1. \A c \in Chats : buffers'[c] = <<>>
    BY <1>1
  <2> QED BY <2>1 DEF BufferInv
<1>6. FingerprintInv'
  <2>1. ASSUME NEW id \in Streams, NEW answer \in Answers \cup {Apology},
               fingerprint[id] = <<answer>>
        PROVE  \/ <<id, answer>> \in said' \/ id \in spoiled'
               \/ hand' # <<>> /\ IsPlain(Msg') /\ Msg'.id = id /\ Msg'.text = <<answer>>
    BY <1>0, <1>1, <2>1 DEF FingerprintInv
  <2> QED BY <1>1, <2>1 DEF FingerprintInv, IsPlain
<1>7. SuppressedWasSaid' /\ PiecesInOrder'
  BY <1>0, <1>1 DEF SuppressedWasSaid, PiecesInOrder
<1>8. TurnsInv' /\ WaitingInv'
  BY <1>0, <1>1 DEF TurnsInv, StreamOf, WaitingInv
<1> QED BY <1>3, <1>4, <1>5, <1>6, <1>7, <1>8 DEF DeliveryIInv

LEMMA EnableKeeps ==
  ASSUME DeliveryIInv, Enable
  PROVE  DeliveryIInv'
<1>0. /\ DeliveryTypeOK /\ HandInv /\ BufferInv /\ FingerprintInv /\ SuppressedWasSaid
      /\ TurnsInv /\ InLine(Waiting, turnOf, wrote) /\ PiecesInOrder
  BY DEF DeliveryIInv, WaitingInv
<1>1. /\ turnOf' = turnOf /\ wrote' = wrote /\ Waiting' = Waiting /\ hand' = hand /\ Msg' = Msg
      /\ tries' = tries /\ stale' = stale /\ enabled' = TRUE /\ ~enabled /\ buffers' = buffers
      /\ screen' = screen /\ fingerprint' = fingerprint /\ suppressed' = suppressed
      /\ said' = said /\ spoiled' = spoiled /\ sendFaults' = sendFaults /\ taken' = taken
      /\ outbound' = outbound /\ aside' = aside
  BY DEF Enable, Waiting, Msg, turnVars, channelVars, replyVars
<1>2. DeliveryTypeOK'
  <2>1. TurnsTypeOK /\ QueueTypes /\ ScreenTypes /\ ReplyTypes
    BY <1>0, TypeParts
  <2>2. TurnsTypeOK' /\ QueueTypes' /\ ScreenTypes' /\ ReplyTypes'
    BY <1>1, <2>1 DEF TurnsTypeOK, QueueTypes, ScreenTypes, ReplyTypes
  <2> QED BY <2>2, TypePartsNext
<1>3. HandInv'
  BY <1>0, <1>1 DEF HandInv, Ended, Follows
<1>4. BufferInv'
  <2>1. \A c \in Chats : buffers'[c] = <<>>
    BY <1>0, <1>1 DEF BufferInv
  <2> QED BY <2>1 DEF BufferInv
<1>5. FingerprintInv' /\ SuppressedWasSaid' /\ PiecesInOrder'
  BY <1>0, <1>1 DEF FingerprintInv, SuppressedWasSaid, PiecesInOrder
<1>6. TurnsInv' /\ WaitingInv'
  BY <1>0, <1>1 DEF TurnsInv, StreamOf, WaitingInv
<1> QED BY <1>2, <1>3, <1>4, <1>5, <1>6 DEF DeliveryIInv

LEMMA StutterKeeps ==
  ASSUME DeliveryIInv, UNCHANGED deliveryVars
  PROVE  DeliveryIInv'
<1>0. /\ DeliveryTypeOK /\ HandInv /\ BufferInv /\ FingerprintInv /\ SuppressedWasSaid
      /\ TurnsInv /\ InLine(Waiting, turnOf, wrote) /\ PiecesInOrder
  BY DEF DeliveryIInv, WaitingInv
<1>1. /\ turnOf' = turnOf /\ wrote' = wrote /\ Waiting' = Waiting /\ hand' = hand /\ Msg' = Msg
      /\ tries' = tries /\ stale' = stale /\ enabled' = enabled /\ buffers' = buffers
      /\ screen' = screen /\ fingerprint' = fingerprint /\ suppressed' = suppressed
      /\ said' = said /\ spoiled' = spoiled /\ sendFaults' = sendFaults /\ taken' = taken
      /\ outbound' = outbound /\ aside' = aside
  BY DEF deliveryVars, Waiting, Msg
<1>2. DeliveryTypeOK'
  <2>1. TurnsTypeOK /\ QueueTypes /\ ScreenTypes /\ ReplyTypes
    BY <1>0, TypeParts
  <2>2. TurnsTypeOK' /\ QueueTypes' /\ ScreenTypes' /\ ReplyTypes'
    BY <1>1, <2>1 DEF TurnsTypeOK, QueueTypes, ScreenTypes, ReplyTypes
  <2> QED BY <2>2, TypePartsNext
<1>3. HandInv'
  BY <1>0, <1>1 DEF HandInv, Ended, Follows
<1>4. BufferInv'
  BY <1>0, <1>1 DEF BufferInv, InOrder, InHandOf, Follows
<1>5. FingerprintInv' /\ SuppressedWasSaid' /\ PiecesInOrder'
  BY <1>0, <1>1 DEF FingerprintInv, SuppressedWasSaid, PiecesInOrder
<1>6. TurnsInv' /\ WaitingInv'
  BY <1>0, <1>1 DEF TurnsInv, StreamOf, WaitingInv
<1> QED BY <1>2, <1>3, <1>4, <1>5, <1>6 DEF DeliveryIInv

(***************************************************************************)
(* The invariant.                                                          *)
(***************************************************************************)
LEMMA NextKeeps == DeliveryIInv /\ [DeliveryNext]_deliveryVars => DeliveryIInv'
<1> SUFFICES ASSUME DeliveryIInv, [DeliveryNext]_deliveryVars PROVE DeliveryIInv'
  OBVIOUS
<1>1. CASE Turns
  BY <1>1, TurnKeeps
<1>2. CASE Take
  BY <1>2, TakeKeeps
<1>3. CASE SendIntoNothing
  BY <1>3, IntoNothingKeeps
<1>4. CASE \E outcome \in Outcomes, due \in BOOLEAN : Send(outcome, due)
  BY <1>4, SendKeeps
<1>5. CASE Disable
  BY <1>5, DisableKeeps
<1>6. CASE Enable
  BY <1>6, EnableKeeps
<1>7. CASE UNCHANGED deliveryVars
  BY <1>7, StutterKeeps
<1> QED BY <1>1, <1>2, <1>3, <1>4, <1>5, <1>6, <1>7 DEF DeliveryNext, Dispatcher

(* The inductive invariant of the delivery holds in every reachable state: *)
(* what is published is sent, merged, buffered and shown in order.         *)
THEOREM DeliveryInvariant == DeliverySpec => []DeliveryIInv
<1>1. DeliveryInit => DeliveryIInv
  BY InitIInv
<1>2. DeliveryIInv /\ [DeliveryNext]_deliveryVars => DeliveryIInv'
  BY NextKeeps
<1> QED BY <1>1, <1>2, PTL DEF DeliverySpec

(* Every variable of the delivery keeps its type.                          *)
THEOREM DeliveryTypeCorrect == DeliverySpec => []DeliveryTypeOK
<1>1. DeliveryIInv => DeliveryTypeOK
  BY DEF DeliveryIInv
<1> QED BY <1>1, DeliveryInvariant, PTL

(* The pieces of a message on the screen are those of one stream, in the   *)
(* order in which the turn wrote them, and one stands twice only where a   *)
(* send raised (_coalesce_stream_deltas, TelegramChannel.send_delta).      *)
THEOREM PiecesAreInOrder == DeliverySpec => []PiecesInOrder
<1>1. DeliveryIInv => PiecesInOrder
  BY DEF DeliveryIInv
<1> QED BY <1>1, DeliveryInvariant, PTL

(* An answer dropped as a duplicate reached the chat, or its send raised   *)
(* or met a channel that was gone (_should_suppress_outbound).             *)
THEOREM SuppressedAnswersWereSaid == DeliverySpec => []SuppressedWasSaid
<1>1. DeliveryIInv => SuppressedWasSaid
  BY DEF DeliveryIInv
<1> QED BY <1>1, DeliveryInvariant, PTL

(***************************************************************************)
(* A stream that nothing has touched is complete or will be.               *)
(***************************************************************************)
LEMMA CompleteStays ==
  ASSUME NEW id \in Streams, turnOf' = turnOf, wrote' = wrote, Waiting' = Waiting,
         OnOneScreen(id) => OnOneScreen(id)',
         \/ hand' = hand /\ Msg' = Msg
         \/ /\ ~InHandOf(id) /\ ~InHandOf(id)'
            /\ ~(hand # <<>> /\ Msg.kind = "end" /\ Msg.id = id),
         \/ buffers'[ChatOf[id[1]]] = buffers[ChatOf[id[1]]]
         \/ ~Held(id) /\ ~Held(id)',
         Finished(id) \/ UnderWay(id)
  PROVE  (Finished(id) \/ UnderWay(id))'
<1>1. InHandOf(id)' <=> InHandOf(id)
  BY DEF InHandOf
<1>2. InHandOf(id) => Msg' = Msg
  OBVIOUS
<1>3. Held(id)' <=> Held(id)
  BY DEF Held
<1>4. Held(id) => buffers'[ChatOf[id[1]]] = buffers[ChatOf[id[1]]]
  OBVIOUS
<1>5. CASE Finished(id)
  BY <1>1, <1>3, <1>5 DEF Finished, Ended
<1>6. CASE UnderWay(id)
  <2>1. wrote[id] > 0 /\ Ended(id) => EndComes(id)'
    BY <1>6 DEF UnderWay, EndComes
  <2>2. Ended(id)' <=> Ended(id)
    BY DEF Ended
  <2>3. CASE Held(id)
    BY <1>3, <1>4, <1>6, <2>1, <2>2, <2>3 DEF UnderWay
  <2>4. CASE ~Held(id)
    BY <1>1, <1>2, <1>3, <1>6, <2>1, <2>2, <2>4 DEF UnderWay, Follows
  <2> QED BY <2>3, <2>4
<1> QED BY <1>5, <1>6

(* A piece is added to what is there.                                      *)
LEMMA PieceAdded ==
  ASSUME NEW b \in Seq(Pieces) \ {<<>>}, NEW t \in Seq(Pieces) \ {<<>>},
         \A i \in 1 .. Len(b) : b[i] = i, \A i \in 1 .. Len(t) : t[i] = t[1] + i - 1,
         t[1] = LastOf(b) + 1
  PROVE  \A i \in 1 .. Len(b \o t) : (b \o t)[i] = i
<1>1. Len(b) \in Nat \ {0} /\ Len(t) \in Nat \ {0}
  BY LastFacts
<1>2. LastOf(b) = Len(b)
  <2>1. Len(b) \in 1 .. Len(b)
    BY <1>1
  <2> QED BY <2>1 DEF LastOf
<1>3. /\ Len(b \o t) = Len(b) + Len(t)
      /\ \A i \in 1 .. Len(b) + Len(t) : (b \o t)[i] = IF i <= Len(b) THEN b[i] ELSE t[i - Len(b)]
  BY ConcatProperties
<1> DEFINE n == Len(b)  k == Len(t)  u == b \o t
<1>4. /\ n \in Nat /\ k \in Nat /\ Len(u) = n + k /\ t[1] = n + 1
      /\ \A i \in 1 .. n : b[i] = i
      /\ \A i \in 1 .. k : t[i] = t[1] + i - 1
      /\ \A i \in 1 .. n + k : u[i] = IF i <= n THEN b[i] ELSE t[i - n]
  BY <1>1, <1>2, <1>3
<1> HIDE DEF n, k, u
<1>5. ASSUME NEW i \in 1 .. n + k PROVE u[i] = i
  <2>1. CASE i <= n
    <3>1. i \in 1 .. n
      BY <1>4, <2>1
    <3> QED BY <1>4, <2>1, <3>1
  <2>2. CASE ~(i <= n)
    <3>1. i - n \in 1 .. k
      BY <1>4, <2>2
    <3>2. t[i - n] = (n + 1) + (i - n) - 1
      BY <1>4, <3>1
    <3> QED BY <1>4, <2>2, <3>2
  <2> QED BY <2>1, <2>2
<1> QED BY <1>4, <1>5 DEF u

LEMMA SendsOther ==
  ASSUME DeliveryIInv, NEW outcome \in Outcomes, NEW due \in BOOLEAN, Send(outcome, due),
         NEW id \in Streams, id # Msg.id, id \notin taken', Finished(id) \/ UnderWay(id)
  PROVE  (Finished(id) \/ UnderWay(id))'
<1>0. DeliveryTypeOK /\ BufferInv /\ HandInv
  BY DEF DeliveryIInv
<1>1. /\ turnOf' = turnOf /\ wrote' = wrote /\ Waiting' = Waiting /\ hand # <<>>
      /\ hand' = <<>> \/ (hand' = hand /\ Msg' = Msg)
      /\ Msg.id \in Streams /\ Chat \in Chats /\ Chat = ChatOf[Msg.id[1]]
  BY SendFacts
<1> DEFINE c == ChatOf[id[1]]
<1>2. /\ c \in Chats /\ id[1] \in Talkers /\ id[2] \in Nat /\ id = <<id[1], id[2]>>
      /\ Msg.id[1] \in Talkers /\ Msg.id[2] \in Nat /\ Msg.id = <<Msg.id[1], Msg.id[2]>>
  BY <1>1, StreamFacts
<1>3. ~InHandOf(id) /\ ~InHandOf(id)' /\ ~(hand # <<>> /\ Msg.kind = "end" /\ Msg.id = id)
  BY <1>1 DEF InHandOf, IsPiece, Msg
<1>4. OnOneScreen(id) => OnOneScreen(id)'
  <2>1. ASSUME OnOneScreen(id) PROVE OnOneScreen(id)'
    <3>1. PICK m \in 1 .. Len(screen[c]) : screen[c][m].id = id /\ screen[c][m].text = Whole(id)
      BY <2>1 DEF OnOneScreen
    <3>2. m \in 1 .. Len(screen'[c]) /\ screen'[c][m] = screen[c][m]
      BY <1>2, <3>1, SendScreen
    <3>3. Whole(id)' = Whole(id)
      BY <1>1 DEF Whole
    <3> QED BY <3>1, <3>2, <3>3 DEF OnOneScreen
  <2> QED BY <2>1
<1>5. buffers'[c] = buffers[c] \/ (~Held(id) /\ ~Held(id)')
  <2>1. DOMAIN buffers = Chats
    BY <1>0, TypeParts DEF ScreenTypes
  <2>2. \/ buffers' = buffers
        \/ buffers' = [buffers EXCEPT ![Chat] = <<>>]
        \/ Msg.kind = "delta" /\ \E text, place :
             buffers' = [buffers EXCEPT ![Chat] =
                           <<[id |-> Msg.id, text |-> text, message |-> place]>>]
    BY SendEffects DEF EndSent, PieceSent, Outcomes
  <2>3. CASE c # Chat
    BY <1>1, <1>2, <2>1, <2>2, <2>3
  <2>4. c = Chat /\ ~Held(id) => ~Held(id)'
    <3> SUFFICES ASSUME c = Chat, ~Held(id) PROVE ~Held(id)'
      OBVIOUS
    <3>1. CASE buffers' = buffers
      BY <3>1 DEF Held
    <3>2. CASE buffers' = [buffers EXCEPT ![Chat] = <<>>]
      BY <1>1, <2>1, <3>2 DEF Held
    <3>3. ASSUME NEW text, NEW place,
                 buffers' = [buffers EXCEPT ![Chat] =
                               <<[id |-> Msg.id, text |-> text, message |-> place]>>]
          PROVE  ~Held(id)'
      <4> DEFINE n == [id |-> Msg.id, text |-> text, message |-> place]  one == <<n>>
      <4>1. one[1] = n /\ n.id = Msg.id
        OBVIOUS
      <4>2. buffers' = [buffers EXCEPT ![Chat] = one]
        BY <3>3
      <4> HIDE DEF n, one
      <4>3. buffers'[c] = one
        BY <1>1, <2>1, <4>2
      <4> QED BY <4>1, <4>3 DEF Held
    <3> QED BY <2>2, <3>1, <3>2, <3>3
  <2>5. CASE buffers' # buffers /\ c = Chat /\ id[1] # Msg.id[1]
    (* The other session did not find the buffer taken: it would lose it.   *)
    <3>1. CASE Msg.kind = "delta"
      <4>1. Held(id) => Supplanted = {id}
        BY <1>1, <2>5, <3>1 DEF Held, Supplanted, Buffer
      <4>2. taken' = taken \cup Supplanted
        BY SendFacts
      <4> QED BY <2>4, <2>5, <4>1, <4>2
    <3>2. CASE EndSent(outcome)
      BY <1>1, <2>4, <2>5, <3>2 DEF EndSent, Held, Buffer
    <3> QED BY <2>5, <3>1, <3>2, SendEffects
  <2>6. CASE c = Chat /\ id[1] = Msg.id[1]
    <3>1. id[1] = Msg.id[1] /\ id[2] # Msg.id[2]
      BY <1>2, <2>6
    <3>2. ~Held(id)
      (* Otherwise the stream had ended, and its end would have been sent.  *)
      <4>1. SUFFICES ASSUME Held(id) PROVE FALSE
        OBVIOUS
      <4> DEFINE b == buffers[c][1]
      <4>2. buffers[c] # <<>> /\ b.id = id
        BY <4>1 DEF Held
      <4>3. BufferOK(c)
        BY <1>0, <1>2, <4>2, BuffersOK
      <4>4. NotAfter(id, Msg.id) /\ Follows(id, LastOf(b.text))
        BY <1>1, <1>3, <4>2, <4>3 DEF BufferOK
      <4>5. id[2] < Msg.id[2]
        BY <1>2, <3>1, <4>4 DEF NotAfter
      <4>6. Ended(id)
        <5>1. Msg.id[2] <= turnOf[id[1]].stream
          BY <1>0, <1>1, <3>1 DEF HandInv
        <5>2. turnOf[id[1]].stream \in Nat
          BY <1>0, TurnTypes
        <5>3. id[2] < turnOf[id[1]].stream
          BY <1>2, <4>5, <5>1, <5>2
        <5> QED BY <5>3 DEF Ended, EndedBy
      <4>7. wrote[id] > 0
        <5>1. LastOf(b.text) \in Nat \ {0} /\ LastOf(b.text) <= wrote[id]
          BY <1>0, <1>2, <4>2, <4>4, BufferFacts, LastFacts DEF Follows, GoesOn
        <5> QED BY <1>0, <5>1, TurnTypes
      <4>8. EndComes(id)
        BY <4>1, <4>6, <4>7 DEF Finished, UnderWay
      <4>9. PICK i \in 1 .. Len(Waiting) : Waiting[i].id = id
        BY <1>3, <4>8 DEF EndComes
      <4>10. NotAfter(Msg.id, id)
        BY <1>0, <1>1, <4>9 DEF HandInv
      <4> QED BY <1>2, <3>1, <4>5, <4>10 DEF NotAfter
    <3> QED BY <2>4, <2>6, <3>2
  <2>7. CASE buffers' = buffers
    BY <2>7
  <2> QED BY <2>3, <2>5, <2>6, <2>7
<1> QED BY <1>1, <1>3, <1>4, <1>5, CompleteStays

LEMMA SendsOwn ==
  ASSUME DeliveryIInv, NEW outcome \in Outcomes, NEW due \in BOOLEAN, Send(outcome, due),
         NEW id \in Streams, id = Msg.id, id \notin spoiled', Finished(id) \/ UnderWay(id)
  PROVE  (Finished(id) \/ UnderWay(id))'
<1>0. DeliveryTypeOK /\ BufferInv /\ HandInv
  BY DEF DeliveryIInv
<1>1. /\ turnOf' = turnOf /\ wrote' = wrote /\ Waiting' = Waiting /\ hand # <<>>
      /\ outcome = "sent" /\ spoiled' = spoiled /\ hand' = <<>>
      /\ Msg \in InHand /\ Chat \in Chats /\ Chat = ChatOf[id[1]]
  BY SendFacts
<1> DEFINE c == ChatOf[id[1]]  b == buffers[c][1]
<1>2. tries = 0 /\ id \notin spoiled
  BY <1>0, <1>1 DEF HandInv, DeliveryTypeOK
<1>3. ~InHandOf(id)' /\ (InHandOf(id) <=> Msg.kind = "delta")
  BY <1>1 DEF InHandOf, IsPiece, Msg
<1>4. /\ buffers[c] # <<>> => BufferOK(c) /\ b.text \in Seq(Pieces) \ {<<>>}
      /\ Held(id) <=> buffers[c] # <<>> /\ b.id = id
      /\ DOMAIN buffers = Chats
  BY <1>0, <1>1, BuffersOK, BufferFacts, TypeParts DEF Held, ScreenTypes
<1>5. wrote[id] \in Nat
  BY <1>0, TurnTypes
<1>6. CASE Msg.kind = "delta"
  <2>1. PICK text, place : PieceSent(outcome, text, place)
    BY <1>6, PieceSends
  <2>2. UnderWay(id)
    BY <1>3, <1>6 DEF Finished
  <2>3. /\ Msg.text \in Seq(Pieces) \ {<<>>}
        /\ \A i \in 1 .. Len(Msg.text) : Msg.text[i] = Msg.text[1] + i - 1
    BY <1>0, <1>1, <1>6, InHandFacts DEF HandInv
  <2>4. \A i \in 1 .. Len(text) : text[i] = i
    <3>1. CASE Held(id)
      <4>1. buffers[c] # <<>> /\ b.id = id /\ BufferOK(c) /\ b.text \in Seq(Pieces) \ {<<>>}
        BY <1>4, <3>1
      <4>2. \A i \in 1 .. Len(b.text) : b.text[i] = i
        BY <2>2, <3>1 DEF UnderWay
      <4>3. Msg.text[1] = LastOf(b.text) + 1
        <5>1. InHandOf(b.id)
          BY <1>3, <1>6, <4>1
        <5>2. \/ Msg.text[1] = LastOf(b.text) + 1
              \/ tries > 0 /\ LastOf(b.text) = LastOf(Msg.text)
          BY <4>1, <5>1 DEF BufferOK
        <5> HIDE DEF b
        <5> QED BY <1>2, <5>2
      <4>4. text = b.text \o Msg.text
        BY <1>1, <2>1, <3>1 DEF PieceSent, Buffer
      <4> HIDE DEF b
      <4> QED BY <2>3, <4>1, <4>2, <4>3, <4>4, PieceAdded
    <3>2. CASE ~Held(id)
      <4>1. Msg.text[1] = 1
        BY <1>3, <1>6, <2>2, <3>2 DEF UnderWay
      <4>2. text = Msg.text
        BY <1>1, <2>1, <3>2 DEF PieceSent
      <4>3. Len(text) \in Nat
        BY <2>3, <4>2, LastFacts
      <4> QED BY <2>3, <4>1, <4>2, <4>3
    <3> QED BY <3>1, <3>2
  <2> DEFINE n == [id |-> id, text |-> text, message |-> place]  one == <<n>>
  <2>5. one # <<>> /\ one[1] = n /\ n.id = id /\ n.text = text /\ n.message = place
    OBVIOUS
  <2>6. buffers' = [buffers EXCEPT ![Chat] = one] /\ place > 0
    BY <1>1, <2>1 DEF PieceSent
  <2> HIDE DEF n, one
  <2>7. buffers'[c] = one
    BY <1>1, <1>4, <2>6
  <2>8. Held(id)' /\ buffers'[c][1] = n
    BY <2>5, <2>7 DEF Held
  <2>9. wrote[id] > 0 /\ Ended(id) => EndComes(id)'
    <3>1. wrote[id] > 0 /\ Ended(id) => EndComes(id)
      BY <2>2 DEF UnderWay
    <3> QED BY <1>1, <1>6, <3>1 DEF EndComes
  <2>10. Ended(id)' <=> Ended(id)
    BY <1>1 DEF Ended
  <2>11. UnderWay(id)'
    BY <1>1, <2>4, <2>5, <2>6, <2>8, <2>9, <2>10 DEF UnderWay
  <2> QED BY <2>11
<1>7. CASE Msg.kind = "end"
  <2>1. /\ Ended(id) /\ Ended(id)'
        /\ \A i \in 1 .. Len(Waiting) : ~IsPiece(Waiting[i], id)
    BY <1>0, <1>1, <1>7 DEF HandInv, Ended
  <2>2. ~InHandOf(id)
    BY <1>3, <1>7
  <2>3. CASE EndSent(outcome)
    <3>1. Held(id) /\ UnderWay(id)
      BY <1>1, <2>3 DEF EndSent, Finished
    <3>2. buffers[c] # <<>> /\ b.id = id /\ BufferOK(c) /\ b.text \in Seq(Pieces) \ {<<>>}
      BY <1>4, <3>1
    <3>3. /\ b.message > 0 /\ b.message \in Nat
          /\ \A i \in 1 .. Len(b.text) : b.text[i] = i
      BY <1>0, <1>1, <3>1, <3>2, BufferFacts DEF UnderWay
    <3>4. GoesOn(Waiting, wrote, id, LastOf(b.text))
      BY <2>2, <3>2 DEF BufferOK, Follows
    <3>5. Len(b.text) \in Nat \ {0} /\ LastOf(b.text) = Len(b.text)
      <4>1. Len(b.text) \in Nat \ {0}
        BY <3>2, LastFacts
      <4>2. Len(b.text) \in 1 .. Len(b.text)
        BY <4>1
      <4> QED BY <3>3, <4>1, <4>2 DEF LastOf
    <3>6. Len(b.text) = wrote[id]
      BY <1>5, <2>1, <3>4, <3>5 DEF GoesOn
    <3>7. b.text = Whole(id) /\ Whole(id)' = Whole(id)
      <4> DEFINE text == b.text
      <4>1. text \in Seq(Pieces) /\ \A i \in 1 .. Len(text) : text[i] = i
        BY <3>2, <3>3
      <4>2. Len(text) = wrote[id]
        BY <3>6
      <4> HIDE DEF text
      <4>3. text = [i \in 1 .. Len(text) |-> text[i]]
        BY <4>1
      <4>4. [i \in 1 .. Len(text) |-> text[i]] = [i \in 1 .. Len(text) |-> i]
        BY <4>1
      <4>5. text = Whole(id)
        BY <4>2, <4>3, <4>4 DEF Whole
      <4> QED BY <1>1, <4>5 DEF Whole, text
    <3>8. /\ buffers' = [buffers EXCEPT ![c] = <<>>]
          /\ screen' = [screen EXCEPT ![c][b.message].text = b.text]
      BY <1>1, <2>3 DEF EndSent, Edited, Buffer
    <3>9. /\ screen \in [Chats -> Seq(Shown)] /\ screen[c] \in Seq(Shown)
          /\ Len(screen[c]) \in Nat /\ b.message \in 1 .. Len(screen[c])
          /\ screen[c][b.message].id = id
      <4>1. screen \in [Chats -> Seq(Shown)] /\ screen[c] \in Seq(Shown)
        BY <1>0, <1>1, TypeParts DEF ScreenTypes
      <4>2. Len(screen[c]) \in Nat
        BY <4>1, LenProperties
      <4>3. /\ b.message <= Len(screen[c])
            /\ b.message > 0 => screen[c][b.message].id = b.id
        BY <3>2 DEF BufferOK
      <4> HIDE DEF b
      <4>4. b.message \in 1 .. Len(screen[c])
        BY <3>3, <4>2, <4>3
      <4> QED BY <3>2, <3>3, <4>1, <4>2, <4>3, <4>4
    <3>10. OnOneScreen(id)'
      <4> DEFINE place == b.message  text == b.text
      <4>1. b.message \in 1 .. Len(screen'[c])
        <5>1. Len(screen'[c]) \in Nat /\ Len(screen[c]) <= Len(screen'[c])
          BY <1>1, SendScreen
        <5> HIDE DEF b
        <5> QED BY <3>9, <5>1
      <4> HIDE DEF place, text
      <4>2. screen' = [screen EXCEPT ![c] = [screen[c] EXCEPT ![place] =
                                               [screen[c][place] EXCEPT !.text = text]]]
        BY <3>8 DEF place, text
      <4>3. screen'[c] = [screen[c] EXCEPT ![place] = [screen[c][place] EXCEPT !.text = text]]
        BY <1>1, <3>9, <4>2
      <4>4. screen[c][place] \in Shown /\ place \in DOMAIN screen[c]
        BY <3>9 DEF place
      <4>5. screen'[c][place] = [screen[c][place] EXCEPT !.text = text]
        BY <4>3, <4>4
      <4>6. screen'[c][place].id = id /\ screen'[c][place].text = Whole(id)'
        BY <3>7, <3>9, <4>4, <4>5 DEF Shown, place, text
      <4> QED BY <4>1, <4>6 DEF OnOneScreen, place
    <3>11. ~Held(id)'
      BY <1>1, <1>4, <3>8 DEF Held
    <3>12. Finished(id)'
      <4>1. wrote[id] > 0
        BY <3>5, <3>6
      <4> QED BY <1>1, <1>3, <2>1, <3>10, <3>11, <4>1 DEF Finished
    <3> QED BY <3>12
  <2>4. CASE screen' = screen /\ buffers' = buffers /\ ~(Held(id) /\ b.message > 0)
    <3>1. Held(id)' <=> Held(id)
      BY <2>4 DEF Held
    <3>2. CASE Finished(id)
      <4>1. OnOneScreen(id)'
        BY <1>1, <2>4, <3>2 DEF Finished, OnOneScreen, Whole
      <4> QED BY <1>1, <1>3, <2>1, <3>1, <3>2, <4>1 DEF Finished
    <3>3. CASE UnderWay(id)
      <4>1. ~Held(id)
        BY <1>1, <2>4, <3>3 DEF UnderWay
      <4>2. GoesOn(Waiting, wrote, id, 0)
        BY <2>2, <3>3, <4>1 DEF UnderWay, Follows
      <4>3. ~(wrote[id] > 0)
        BY <1>5, <2>1, <4>2 DEF GoesOn
      <4>4. UnderWay(id)'
        BY <1>1, <1>3, <3>1, <4>1, <4>2, <4>3 DEF UnderWay, Follows
      <4> QED BY <4>4
    <3> QED BY <3>2, <3>3
  <2> QED BY <1>1, <1>7, <2>3, <2>4, EndSends DEF Buffer
<1>8. CASE Msg.kind \notin {"delta", "end"}
  <2>1. screen' = screen /\ buffers' = buffers
    BY <1>8, OtherSends
  <2>2. OnOneScreen(id) => OnOneScreen(id)'
    BY <1>1, <2>1 DEF OnOneScreen, Whole
  <2> QED BY <1>1, <1>3, <1>8, <2>1, <2>2, CompleteStays
<1> QED BY <1>6, <1>7, <1>8

LEMMA NextKeepsComplete ==
  ASSUME DeliveryIInv, CompleteInv, [DeliveryNext]_deliveryVars
  PROVE  CompleteInv'
<1>0. /\ DeliveryTypeOK /\ BufferInv /\ HandInv
      /\ \A id \in Streams \ (spoiled \cup taken) : Finished(id) \/ UnderWay(id)
  BY DEF DeliveryIInv, CompleteInv
<1>1. ASSUME NEW id \in Streams, id \notin spoiled', id \notin taken'
      PROVE  (Finished(id) \/ UnderWay(id))'
  <2> DEFINE c == ChatOf[id[1]]
  <2>0. c \in Chats
    BY StreamFacts
  <2>1. CASE Turns
    <3>1. TurnStep
      BY <2>1, TurnsStep
    <3>2. spoiled' = spoiled /\ taken' = taken
      BY <3>1 DEF TurnStep, BeyondTurns
    <3>3. Finished(id) \/ UnderWay(id)
      BY <1>0, <1>1, <3>2
    <3> QED BY <3>1, <3>3, TurnKeepsComplete
  <2>2. CASE Take
    <3>1. spoiled \subseteq spoiled' /\ taken' = taken
      BY <1>0, <2>2, TakeHand, TakeRest
    <3>2. Finished(id) \/ UnderWay(id)
      BY <1>0, <1>1, <3>1
    <3> QED BY <1>1, <2>2, <3>2, TakeKeepsComplete
  <2>3. CASE SendIntoNothing
    <3>1. /\ turnOf' = turnOf /\ wrote' = wrote /\ Waiting' = Waiting /\ hand' = <<>>
          /\ stale /\ hand # <<>> /\ buffers' = buffers /\ screen' = screen
          /\ spoiled' = spoiled \cup {Msg.id} /\ taken' = taken
      BY <2>3 DEF SendIntoNothing, Waiting, turnVars, channelVars, replyVars
    <3>2. Finished(id) \/ UnderWay(id)
      BY <1>0, <1>1, <3>1
    <3>3. Msg.id # id
      BY <1>1, <3>1
    <3>4. ~InHandOf(id) /\ ~InHandOf(id)' /\ ~(hand # <<>> /\ Msg.kind = "end" /\ Msg.id = id)
      BY <3>1, <3>3 DEF InHandOf, IsPiece, Msg
    <3>5. OnOneScreen(id) => OnOneScreen(id)'
      BY <3>1 DEF OnOneScreen, Whole
    <3> QED BY <3>1, <3>2, <3>4, <3>5, CompleteStays
  <2>4. CASE \E outcome \in Outcomes, due \in BOOLEAN : Send(outcome, due)
    <3>1. PICK outcome \in Outcomes, due \in BOOLEAN : Send(outcome, due)
      BY <2>4
    <3>2. spoiled \subseteq spoiled' /\ taken \subseteq taken'
      BY <3>1, SendFacts
    <3>3. Finished(id) \/ UnderWay(id)
      BY <1>0, <1>1, <3>2
    <3> QED BY <1>1, <3>1, <3>3, SendsOther, SendsOwn
  <2>5. CASE Disable
    <3>1. /\ turnOf' = turnOf /\ wrote' = wrote /\ Waiting' = Waiting /\ hand' = hand /\ Msg' = Msg
          /\ screen' = screen /\ buffers' = [d \in Chats |-> <<>>]
          /\ spoiled' = spoiled \cup
                          {buffers[e][1].id : e \in {d \in Chats : buffers[d] # <<>>}}
          /\ taken' = taken
      BY <2>5 DEF Disable, Waiting, Msg, turnVars, replyVars
    <3>2. Finished(id) \/ UnderWay(id)
      BY <1>0, <1>1, <3>1
    <3>3. ~Held(id) /\ ~Held(id)'
      <4>1. ~Held(id)'
        BY <2>0, <3>1 DEF Held
      <4>2. buffers[c] # <<>> => buffers[c][1].id \in spoiled'
        BY <2>0, <3>1
      <4> QED BY <1>1, <4>1, <4>2 DEF Held
    <3>4. OnOneScreen(id) => OnOneScreen(id)'
      BY <3>1 DEF OnOneScreen, Whole
    <3> QED BY <3>1, <3>2, <3>3, <3>4, CompleteStays
  <2>6. CASE Enable \/ UNCHANGED deliveryVars
    <3>1. /\ turnOf' = turnOf /\ wrote' = wrote /\ Waiting' = Waiting /\ hand' = hand /\ Msg' = Msg
          /\ screen' = screen /\ buffers' = buffers /\ spoiled' = spoiled /\ taken' = taken
      BY <2>6 DEF Enable, deliveryVars, Waiting, Msg, turnVars, channelVars
    <3>2. Finished(id) \/ UnderWay(id)
      BY <1>0, <1>1, <3>1
    <3>3. OnOneScreen(id) => OnOneScreen(id)'
      BY <3>1 DEF OnOneScreen, Whole
    <3> QED BY <3>1, <3>2, <3>3, CompleteStays
  <2> QED BY <2>1, <2>2, <2>3, <2>4, <2>5, <2>6 DEF DeliveryNext, Dispatcher
<1> QED BY <1>1 DEF CompleteInv

LEMMA InitComplete == DeliveryInit => CompleteInv
<1> SUFFICES ASSUME DeliveryInit, NEW id \in Streams PROVE UnderWay(id)
  BY DEF CompleteInv
<1>1. wrote[id] = 0 /\ ~Held(id) /\ ~InHandOf(id)
  BY StreamFacts DEF DeliveryInit, Held, InHandOf
<1>2. 1 .. Len(Waiting) = {}
  BY InitWaiting
<1> QED BY <1>1, <1>2 DEF UnderWay, Follows, GoesOn

LEMMA CompleteInvariant == DeliverySpec => []CompleteInv
<1>1. DeliveryInit => CompleteInv
  BY InitComplete
<1>2. DeliveryIInv /\ CompleteInv /\ [DeliveryNext]_deliveryVars => CompleteInv'
  BY NextKeepsComplete
<1> QED BY <1>1, <1>2, DeliveryInvariant, PTL DEF DeliverySpec

LEMMA CompleteFollows ==
  ASSUME DeliveryIInv, CompleteInv
  PROVE  StreamsComplete
<1>0. DeliveryTypeOK /\ BufferInv /\ HandInv /\ TurnsInv
  BY DEF DeliveryIInv
<1> SUFFICES ASSUME NEW id \in Streams \ (spoiled \cup taken), Closed(id), ~InFlight(id)
             PROVE  /\ wrote[id] > 0 => OnOneScreen(id)
                    /\ \A c \in Chats : buffers[c] # <<>> => buffers[c][1].id # id
  BY DEF StreamsComplete, Complete
<1>1. Finished(id) \/ UnderWay(id)
  BY DEF CompleteInv
<1>2. /\ Len(aside) \in Nat /\ Len(outbound) \in Nat
      /\ Len(Waiting) = Len(aside) + Len(outbound)
      /\ \A i \in 1 .. Len(Waiting) :
           Waiting[i] = IF i <= Len(aside) THEN aside[i] ELSE outbound[i - Len(aside)]
  BY <1>0, WaitingFacts
<1>3. \A i \in 1 .. Len(Waiting) : Waiting[i].id # id
  <2> SUFFICES ASSUME NEW i \in 1 .. Len(Waiting) PROVE Waiting[i].id # id
    OBVIOUS
  <2>1. CASE i <= Len(aside)
    <3>1. i \in 1 .. Len(aside)
      BY <1>2, <2>1
    <3> QED BY <1>2, <2>1, <3>1 DEF InFlight
  <2>2. CASE ~(i <= Len(aside))
    <3>1. i - Len(aside) \in 1 .. Len(outbound)
      BY <1>2, <2>2
    <3> QED BY <1>2, <2>2, <3>1 DEF InFlight
  <2> QED BY <2>1, <2>2
<1>4. ~(hand # <<>> /\ Msg.id = id)
  <2>1. hand # <<>> => 1 \in 1 .. Len(hand)
    BY <1>0, HandFacts
  <2> QED BY <2>1 DEF InFlight, Msg
<1>5. ~EndComes(id) /\ ~InHandOf(id)
  BY <1>3, <1>4 DEF EndComes, InHandOf, IsPiece, Msg
<1>6. id[1] \in Talkers /\ id[2] \in Nat /\ id = <<id[1], id[2]>>
  BY StreamFacts
<1>7. wrote[id] \in Nat /\ turnOf[id[1]].stream \in Nat
  BY <1>0, TurnTypes
<1>8. wrote[id] > 0 => Ended(id)
  <2> SUFFICES ASSUME wrote[id] > 0, ~Ended(id) PROVE FALSE
    OBVIOUS
  <2>1. id[2] = turnOf[id[1]].stream /\ ~turnOf[id[1]].open /\ turnOf[id[1]].live
    BY DEF Closed, Ended, EndedBy
  <2>2. StreamOf(id[1]) = id
    BY <1>6, <2>1 DEF StreamOf
  <2> QED BY <1>0, <1>6, <2>1, <2>2 DEF TurnsInv
<1>9. ~Held(id)
  <2> SUFFICES ASSUME Held(id) PROVE FALSE
    OBVIOUS
  <2> DEFINE c == ChatOf[id[1]]  b == buffers[c][1]
  <2>1. c \in Chats /\ buffers[c] # <<>> /\ b.id = id /\ UnderWay(id)
    BY <1>1, StreamFacts DEF Held, Finished
  <2>2. Follows(id, LastOf(b.text))
    BY <1>0, <1>5, <2>1, BuffersOK DEF BufferOK
  <2>3. LastOf(b.text) \in Nat \ {0}
    BY <1>0, <2>1, BufferFacts, LastFacts
  <2>4. wrote[id] > 0
    BY <1>7, <2>2, <2>3 DEF Follows, GoesOn
  <2> QED BY <1>5, <1>8, <2>1, <2>4 DEF UnderWay
<1>10. \A c \in Chats : buffers[c] # <<>> => buffers[c][1].id # id
  BY <1>0, <1>9, BuffersOK DEF BufferOK, Held
<1>11. wrote[id] > 0 => OnOneScreen(id)
  BY <1>1, <1>5, <1>8 DEF Finished, UnderWay
<1> QED BY <1>10, <1>11

(* Whatever sessions share a chat, a stream that was closed, of which       *)
(* nothing is under way, which no failed send, disabled channel or reload   *)
(* has touched and whose buffer no other session took stands whole in one   *)
(* message, and the channel holds nothing of it any more.                   *)
THEOREM StreamsAreComplete == DeliverySpec => []StreamsComplete
<1>1. DeliveryIInv /\ CompleteInv => StreamsComplete
  BY CompleteFollows
<1> QED BY <1>1, DeliveryInvariant, CompleteInvariant, PTL
=============================================================================
