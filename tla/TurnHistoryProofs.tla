------------------------- MODULE TurnHistoryProofs -------------------------
(* Theorems about TurnHistory.                                             *)
EXTENDS TurnHistory, SequenceTheorems, TLAPS

-----------------------------------------------------------------------------
(* Rows and sequences of rows.                                             *)

LEMMA RowShape ==
  ASSUME NEW row \in Rows
  PROVE  /\ row = [kind |-> row.kind, of |-> row.of]
         /\ row.kind \in ReplyKinds => \E n \in 1..LastReply : row.of = {n}
         /\ IsUser(row) => row.of \subseteq Msgs /\ row = Prompt(row.of)
         /\ row.kind \in ReplyKinds \/ IsUser(row) \/ row = Closed
BY DEF Rows, Prompt, Reply, Closed, ReplyKinds, IsUser

LEMMA SmallRows ==
  /\ \A ms \in SUBSET Msgs : Prompt(ms) \in Rows
  /\ Closed \in Rows
  /\ \A k \in ReplyKinds, n \in 1..LastReply : Reply(k, n) \in Rows
BY DEF Rows

LEMMA RangeIs ==
  ASSUME NEW S, NEW rows \in Seq(S)
  PROVE  /\ ToSet(rows) \subseteq S
         /\ \A x : x \in ToSet(rows) <=> \E i \in 1..Len(rows) : rows[i] = x
BY DEF ToSet

LEMMA RangeOfAppend ==
  ASSUME NEW S, NEW rows \in Seq(S), NEW row \in S
  PROVE  /\ Append(rows, row) \in Seq(S)
         /\ ToSet(Append(rows, row)) = ToSet(rows) \cup {row}
<1>1. Append(rows, row) \in Seq(S) /\ Len(Append(rows, row)) = Len(rows) + 1
  BY AppendProperties
<1>2. \A i \in 1..Len(rows) : Append(rows, row)[i] = rows[i]
  BY AppendProperties
<1>3. Append(rows, row)[Len(rows) + 1] = row
  BY AppendProperties
<1>4. \A x : x \in ToSet(rows) <=> \E i \in 1..Len(rows) : rows[i] = x
  BY RangeIs
<1>5. \A x : x \in ToSet(Append(rows, row)) <=>
                \E i \in 1..Len(rows) + 1 : Append(rows, row)[i] = x
  BY <1>1, RangeIs
<1>6. \A x : x \in ToSet(Append(rows, row)) <=> x \in ToSet(rows) \/ x = row
  BY <1>1, <1>2, <1>3, <1>4, <1>5
<1> QED
  BY <1>1, <1>6

LEMMA RangeOfConcat ==
  ASSUME NEW S, NEW s \in Seq(S), NEW t \in Seq(S)
  PROVE  s \o t \in Seq(S) /\ ToSet(s \o t) = ToSet(s) \cup ToSet(t)
<1>1. /\ s \o t \in Seq(S) /\ Len(s \o t) = Len(s) + Len(t)
      /\ \A i \in 1..Len(s) + Len(t) :
           (s \o t)[i] = IF i <= Len(s) THEN s[i] ELSE t[i - Len(s)]
  BY ConcatProperties
<1>2. ASSUME NEW j \in 1..Len(t)
      PROVE  t[j] \in ToSet(s \o t)
  <2>1. (s \o t)[j + Len(s)] = t[j] /\ j + Len(s) \in 1..Len(s \o t)
    BY <1>1
  <2> QED
    BY <2>1, <1>1, RangeIs
<1>3. ASSUME NEW j \in 1..Len(s)
      PROVE  s[j] \in ToSet(s \o t)
  <2>1. (s \o t)[j] = s[j] /\ j \in 1..Len(s \o t)
    BY <1>1
  <2> QED
    BY <2>1, <1>1, RangeIs
<1>4. ASSUME NEW j \in 1..Len(s \o t)
      PROVE  (s \o t)[j] \in ToSet(s) \cup ToSet(t)
  <2>1. CASE j <= Len(s)
    BY <2>1, <1>1, RangeIs
  <2>2. CASE j > Len(s)
    <3>1. (s \o t)[j] = t[j - Len(s)] /\ j - Len(s) \in 1..Len(t)
      BY <2>2, <1>1
    <3> QED
      BY <3>1, RangeIs
  <2> QED
    BY <2>1, <2>2, <1>1
<1>5. /\ \A x : x \in ToSet(s) <=> \E i \in 1..Len(s) : s[i] = x
      /\ \A x : x \in ToSet(t) <=> \E i \in 1..Len(t) : t[i] = x
  BY RangeIs
<1>6. \A x : x \in ToSet(s \o t) <=> \E i \in 1..Len(s \o t) : (s \o t)[i] = x
  BY <1>1, RangeIs
<1>7. \A x : x \in ToSet(s \o t) <=> x \in ToSet(s) \cup ToSet(t)
  BY <1>2, <1>3, <1>4, <1>5, <1>6
<1> QED
  BY <1>1, <1>7

LEMMA LastAndFront ==
  ASSUME NEW S, NEW rows \in Seq(S), rows # <<>>
  PROVE  /\ Last(rows) \in S /\ Last(rows) = rows[Len(rows)]
         /\ Len(rows) \in Nat \ {0}
         /\ Front(rows) \in Seq(S) /\ Len(Front(rows)) = Len(rows) - 1
         /\ \A i \in 1..Len(rows) - 1 : Front(rows)[i] = rows[i]
         /\ Last(rows) \in ToSet(rows) /\ ToSet(Front(rows)) \subseteq ToSet(rows)
         /\ ToSet(rows) = ToSet(Front(rows)) \cup {Last(rows)}
<1>1. Len(rows) \in Nat \ {0}
  BY EmptySeq
<1>2. Last(rows) = rows[Len(rows)] /\ Last(rows) \in S
  BY <1>1 DEF Last
<1>3. /\ Front(rows) \in Seq(S) /\ Len(Front(rows)) = Len(rows) - 1
      /\ \A i \in 1..Len(rows) - 1 : Front(rows)[i] = rows[i]
  <2>1. PICK n \in Nat : Len(rows) = n + 1
    BY <1>1
  <2>2. \A i \in 1..n : rows[i] \in S
    BY <2>1
  <2>3. /\ SubSeq(rows, 1, n) \in Seq(S)
        /\ Len(SubSeq(rows, 1, n)) = IF 1 <= n THEN n - 1 + 1 ELSE 0
        /\ \A i \in 1..n - 1 + 1 : SubSeq(rows, 1, n)[i] = rows[1 + i - 1]
    BY <2>2, SubSeqProperties
  <2>4. Front(rows) = SubSeq(rows, 1, n)
    BY <2>1 DEF Front
  <2> QED
    BY <2>1, <2>3, <2>4
<1>4. ToSet(rows) = ToSet(Front(rows)) \cup {Last(rows)}
  BY <1>1, <1>2, <1>3, RangeIs
<1> QED
  BY <1>1, <1>2, <1>3, <1>4

LEMMA LastOfAppend ==
  ASSUME NEW S, NEW rows \in Seq(S), NEW row \in S
  PROVE  /\ Append(rows, row) # <<>> /\ Last(Append(rows, row)) = row
         /\ Front(Append(rows, row)) = rows
<1>1. /\ Append(rows, row) \in Seq(S) /\ Len(Append(rows, row)) = Len(rows) + 1
      /\ Append(rows, row)[Len(rows) + 1] = row
      /\ \A i \in 1..Len(rows) : Append(rows, row)[i] = rows[i]
  BY AppendProperties
<1>2. Append(rows, row) # <<>>
  BY <1>1
<1>3. Front(Append(rows, row)) = rows
  <2> DEFINE longer == Append(rows, row)
  <2>1. /\ Front(longer) \in Seq(S) /\ Len(Front(longer)) = Len(longer) - 1
        /\ \A i \in 1..Len(longer) - 1 : Front(longer)[i] = longer[i]
    BY <1>1, <1>2, LastAndFront
  <2> QED
    BY <2>1, <1>1, SeqEqual
<1> QED
  BY <1>1, <1>2, <1>3 DEF Last

(* The rows after the k-th.                                                *)
LEMMA AfterType ==
  ASSUME NEW S, NEW rows \in Seq(S), NEW k \in 0..Len(rows)
  PROVE  /\ After(rows, k) \in Seq(S) /\ Len(After(rows, k)) = Len(rows) - k
         /\ \A i \in 1..Len(rows) - k : After(rows, k)[i] = rows[k + i]
         /\ ToSet(After(rows, k)) \subseteq ToSet(rows)
<1>1. PICK n \in Nat : n = Len(rows)
  OBVIOUS
<1>2. \A i \in k + 1..n : rows[i] \in S
  BY <1>1
<1>3. /\ SubSeq(rows, k + 1, n) \in Seq(S)
      /\ Len(SubSeq(rows, k + 1, n)) = IF k + 1 <= n THEN n - (k + 1) + 1 ELSE 0
      /\ \A i \in 1..n - (k + 1) + 1 : SubSeq(rows, k + 1, n)[i] = rows[(k + 1) + i - 1]
  BY <1>1, <1>2, SubSeqProperties
<1>4. After(rows, k) = SubSeq(rows, k + 1, n)
  BY <1>1 DEF After
<1>5. /\ After(rows, k) \in Seq(S) /\ Len(After(rows, k)) = Len(rows) - k
      /\ \A i \in 1..Len(rows) - k : After(rows, k)[i] = rows[k + i]
  BY <1>1, <1>3, <1>4
<1>6. \A x : x \in ToSet(After(rows, k)) => x \in ToSet(rows)
  <2>1. \A i \in 1..Len(rows) - k : k + i \in 1..Len(rows)
    BY <1>1
  <2> QED
    BY <2>1, <1>5, RangeIs
<1> QED
  BY <1>5, <1>6

LEMMA NothingAfterAll ==
  ASSUME NEW S, NEW rows \in Seq(S)
  PROVE  /\ After(rows, Len(rows)) = <<>>
         /\ After(rows, 0) = rows
<1>1. After(rows, Len(rows)) \in Seq(S) /\ Len(After(rows, Len(rows))) = 0
  BY AfterType
<1>2. /\ After(rows, 0) \in Seq(S) /\ Len(After(rows, 0)) = Len(rows)
      /\ \A i \in 1..Len(rows) : After(rows, 0)[i] = rows[i]
  BY AfterType
<1>3. After(rows, 0) = rows
  BY <1>2, SeqEqual
<1> QED
  BY <1>1, <1>3, EmptySeq

LEMMA AfterAppend ==
  ASSUME NEW S, NEW rows \in Seq(S), NEW k \in 0..Len(rows), NEW row \in S
  PROVE  After(Append(rows, row), k) = Append(After(rows, k), row)
<1> DEFINE longer == Append(rows, row)
           here == After(longer, k)
           there == Append(After(rows, k), row)
<1>1. /\ longer \in Seq(S) /\ Len(longer) = Len(rows) + 1
      /\ longer[Len(rows) + 1] = row
      /\ \A i \in 1..Len(rows) : longer[i] = rows[i]
  BY AppendProperties
<1>2. /\ After(rows, k) \in Seq(S) /\ Len(After(rows, k)) = Len(rows) - k
      /\ \A i \in 1..Len(rows) - k : After(rows, k)[i] = rows[k + i]
  BY AfterType
<1>3. /\ there \in Seq(S) /\ Len(there) = Len(rows) - k + 1
      /\ there[Len(rows) - k + 1] = row
      /\ \A i \in 1..Len(rows) - k : there[i] = After(rows, k)[i]
  BY <1>2, AppendProperties
<1>4. /\ here \in Seq(S) /\ Len(here) = Len(longer) - k
      /\ \A i \in 1..Len(longer) - k : here[i] = longer[k + i]
  <2>1. k \in 0..Len(longer)
    BY <1>1
  <2> HIDE DEF longer
  <2> QED
    BY <2>1, <1>1, AfterType
<1>5. Len(here) = Len(there)
  BY <1>1, <1>3, <1>4
<1>6. ASSUME NEW i \in 1..Len(here)
      PROVE  here[i] = there[i]
  <2> HIDE DEF longer, here, there
  <2>0. PICK n \in Nat : n = Len(rows) /\ k \in 0..n /\ i \in 1..n - k + 1
    BY <1>1, <1>4
  <2>1. CASE i = Len(rows) - k + 1
    BY <2>0, <2>1, <1>1, <1>3, <1>4
  <2>2. CASE i # Len(rows) - k + 1
    <3>1. i \in 1..Len(rows) - k /\ k + i \in 1..Len(rows) /\ i \in 1..Len(longer) - k
      BY <2>0, <2>2, <1>1, <1>4
    <3> QED
      BY <3>1, <1>1, <1>2, <1>3, <1>4
  <2> QED
    BY <2>1, <2>2
<1> QED
  <2> HIDE DEF longer, here, there
  <2>1. here = there
    BY <1>3, <1>4, <1>5, <1>6, SeqEqual
  <2> QED
    BY <2>1 DEF longer, here, there

(* The last row is exchanged for another.                                  *)
LEMMA AfterReplace ==
  ASSUME NEW S, NEW rows \in Seq(S), rows # <<>>, NEW k \in 0..Len(rows), NEW row \in S
  PROVE  LET other == Append(Front(rows), row) IN
         /\ other \in Seq(S) /\ Len(other) = Len(rows)
         /\ k = Len(rows) => After(other, k) = <<>> /\ After(rows, k) = <<>>
         /\ k < Len(rows) =>
              /\ After(rows, k) # <<>> /\ Last(After(rows, k)) = Last(rows)
              /\ After(other, k) = Append(Front(After(rows, k)), row)
<1> DEFINE other == Append(Front(rows), row)
           short == Front(rows)
<1>1. PICK n \in Nat : Len(rows) = n + 1
  BY EmptySeq
<1>2. /\ short \in Seq(S) /\ Len(short) = n
      /\ \A i \in 1..n : short[i] = rows[i]
      /\ Last(rows) \in S /\ rows = Append(short, Last(rows))
  <2>1. /\ short \in Seq(S) /\ Len(short) = n
        /\ \A i \in 1..n : short[i] = rows[i]
        /\ Last(rows) \in S /\ Last(rows) = rows[n + 1]
    BY <1>1, LastAndFront
  <2> DEFINE again == Append(short, Last(rows))
  <2>2. /\ again \in Seq(S) /\ Len(again) = n + 1 /\ again[n + 1] = Last(rows)
        /\ \A i \in 1..n : again[i] = short[i]
    BY <2>1, AppendProperties
  <2>3. rows = again
    <3> HIDE DEF again, short
    <3>1. \A i \in 1..Len(rows) : rows[i] = again[i]
      BY <1>1, <2>1, <2>2
    <3> QED
      BY <3>1, <1>1, <2>2, SeqEqual
  <2> QED
    BY <2>1, <2>3
<1>3. other \in Seq(S) /\ Len(other) = n + 1
  BY <1>2, AppendProperties
<1>4. CASE k = Len(rows)
  <2>1. After(other, Len(other)) = <<>> /\ After(rows, Len(rows)) = <<>>
    <3> HIDE DEF other
    <3> QED
      BY <1>3, NothingAfterAll
  <2> QED
    BY <2>1, <1>4, <1>1, <1>3
<1>5. CASE k < Len(rows)
  <2>1. k \in 0..Len(short)
    BY <1>5, <1>1, <1>2
  <2>2. After(other, k) = Append(After(short, k), row)
    BY <2>1, <1>2, AfterAppend
  <2>3. After(rows, k) = Append(After(short, k), Last(rows))
    <3> HIDE DEF short
    <3>1. After(Append(short, Last(rows)), k) = Append(After(short, k), Last(rows))
      BY <2>1, <1>2, AfterAppend
    <3> QED
      BY <3>1, <1>2
  <2>4. After(short, k) \in Seq(S)
    BY <2>1, <1>2, AfterType
  <2>5. /\ After(rows, k) # <<>> /\ Last(After(rows, k)) = Last(rows)
        /\ Front(After(rows, k)) = After(short, k)
    BY <2>3, <2>4, <1>2, LastOfAppend
  <2> QED
    BY <2>2, <2>5, <1>3, <1>1, <1>5
<1> QED
  BY <1>4, <1>5, <1>1

-----------------------------------------------------------------------------
(* What a checkpoint restores.                                             *)

LEMMA RestoredRows ==
  ASSUME NEW c \in Checkpoints
  PROVE  /\ Restored(c) \in Seq(Rows) /\ Len(Restored(c)) \in 0..2
         /\ c # NoCheckpoint <=> Restored(c) # <<>>
         /\ c # NoCheckpoint =>
              /\ c.of \in 1..LastReply
              /\ c.phase \in {"awaiting_tools", "tools_completed", "final_response"}
              /\ \A row \in ToSet(Restored(c)) : row.kind \in ReplyKinds /\ row.of = {c.of}
              /\ ~ EndsWithUser(Restored(c))
<1>1. CASE c = NoCheckpoint
  BY <1>1 DEF Restored, NoCheckpoint
<1>2. CASE c # NoCheckpoint
  <2>1. /\ c.of \in 1..LastReply
        /\ c.phase \in {"awaiting_tools", "tools_completed", "final_response"}
    BY <1>2 DEF Checkpoints
  <2>2. /\ Reply("calls", c.of) \in Rows /\ Reply("interrupted", c.of) \in Rows
        /\ Reply("result", c.of) \in Rows /\ Reply("answer", c.of) \in Rows
    BY <2>1, SmallRows DEF ReplyKinds
  <2>3. \/ Restored(c) = <<Reply("calls", c.of), Reply("interrupted", c.of)>>
        \/ Restored(c) = <<Reply("calls", c.of), Reply("result", c.of)>>
        \/ Restored(c) = <<Reply("answer", c.of)>>
    BY <2>1 DEF Restored
  <2>4. /\ Restored(c) \in Seq(Rows) /\ Len(Restored(c)) \in 1..2
        /\ \A i \in 1..Len(Restored(c)) :
             Restored(c)[i].kind \in ReplyKinds /\ Restored(c)[i].of = {c.of}
    <3>1. \A k \in ReplyKinds : Reply(k, c.of).kind \in ReplyKinds /\ Reply(k, c.of).of = {c.of}
      BY DEF Reply
    <3>2. /\ "calls" \in ReplyKinds /\ "interrupted" \in ReplyKinds
          /\ "result" \in ReplyKinds /\ "answer" \in ReplyKinds
      BY DEF ReplyKinds
    <3>3. ASSUME NEW a \in Rows, NEW b \in Rows
          PROVE  /\ <<a, b>> \in Seq(Rows) /\ Len(<<a, b>>) = 2 /\ <<a, b>>[1] = a /\ <<a, b>>[2] = b
                 /\ <<a>> \in Seq(Rows) /\ Len(<<a>>) = 1 /\ <<a>>[1] = a
      OBVIOUS
    <3>4. CASE Restored(c) = <<Reply("calls", c.of), Reply("interrupted", c.of)>>
      BY <2>2, <3>1, <3>2, <3>3, <3>4
    <3>5. CASE Restored(c) = <<Reply("calls", c.of), Reply("result", c.of)>>
      BY <2>2, <3>1, <3>2, <3>3, <3>5
    <3>6. CASE Restored(c) = <<Reply("answer", c.of)>>
      BY <2>2, <3>1, <3>2, <3>3, <3>6
    <3> QED
      BY <2>3, <3>4, <3>5, <3>6
  <2>5. \A row \in ToSet(Restored(c)) : row.kind \in ReplyKinds /\ row.of = {c.of}
    BY <2>4, RangeIs
  <2>6. ~ EndsWithUser(Restored(c))
    BY <2>4 DEF EndsWithUser, IsUser, Last, ReplyKinds
  <2> QED
    BY <1>2, <2>1, <2>4, <2>5, <2>6
<1> QED
  BY <1>1, <1>2

(* The rows that are missing begin where the overlap ends.                 *)
Overlap(rows, restored, size) ==
  /\ size <= Len(rows) /\ size <= Len(restored)
  /\ SubSeq(rows, Len(rows) - size + 1, Len(rows)) = SubSeq(restored, 1, size)

LEMMA Beyond ==
  ASSUME NEW n \in 0..2
  PROVE  /\ \A more \in 1 + 1..n : more = 2 /\ n = 2
         /\ \A more \in 0 + 1..n : (more = 1 /\ n >= 1) \/ (more = 2 /\ n = 2)
OBVIOUS

LEMMA MissingIs ==
  ASSUME NEW rows \in Seq(Rows), NEW restored \in Seq(Rows), Len(restored) \in 0..2
  PROVE  \E size \in 0..Len(restored) :
           /\ Overlap(rows, restored, size)
           /\ \A more \in size + 1..Len(restored) : ~ Overlap(rows, restored, more)
           /\ Missing(rows, restored) = After(restored, size)
<1> DEFINE P(size) == /\ Overlap(rows, restored, size)
                      /\ \A more \in size + 1..Len(restored) : ~ Overlap(rows, restored, more)
           overlap == CHOOSE size \in 0..Len(restored) : P(size)
<1>1. Overlap(rows, restored, 0)
  <2>1. Len(rows) \in Nat /\ SubSeq(rows, Len(rows) + 1, Len(rows)) = <<>>
    BY NothingAfterAll DEF After
  <2>2. SubSeq(restored, 1, 0) = <<>>
    BY SubSeqEmpty
  <2> QED
    BY <2>1, <2>2 DEF Overlap
<1>2. \E size \in 0..Len(restored) : P(size)
  <2>1. CASE Overlap(rows, restored, 2) /\ Len(restored) = 2
    <3>1. P(2) /\ 2 \in 0..Len(restored)
      BY <2>1
    <3> QED
      BY <3>1
  <2>2. CASE Overlap(rows, restored, 1) /\ Len(restored) >= 1
             /\ ~ (Overlap(rows, restored, 2) /\ Len(restored) = 2)
    <3>1. \A more \in 1 + 1..Len(restored) : more = 2 /\ Len(restored) = 2
      BY Beyond
    <3>2. P(1) /\ 1 \in 0..Len(restored)
      BY <2>2, <3>1
    <3> QED
      BY <3>2
  <2>3. CASE /\ ~ (Overlap(rows, restored, 2) /\ Len(restored) = 2)
             /\ ~ (Overlap(rows, restored, 1) /\ Len(restored) >= 1)
    <3>1. \A more \in 0 + 1..Len(restored) :
             (more = 1 /\ Len(restored) >= 1) \/ (more = 2 /\ Len(restored) = 2)
      BY Beyond
    <3>2. P(0) /\ 0 \in 0..Len(restored)
      BY <2>3, <1>1, <3>1
    <3> QED
      BY <3>2
  <2> QED
    BY <2>1, <2>2, <2>3
<1>3. overlap \in 0..Len(restored) /\ P(overlap)
  <2> HIDE DEF P
  <2> QED
    BY <1>2
<1>4. Missing(rows, restored) = After(restored, overlap)
  BY DEF Missing, Overlap
<1> QED
  BY <1>3, <1>4

(* Restoring a checkpoint adds rows of its reply at the end, and does not  *)
(* leave a prompt there.                                                   *)
LEMMA RestoringAdds ==
  ASSUME NEW s \in Sessions, s.checkpoint # NoCheckpoint
  PROVE  LET added == Missing(s.rows, Restored(s.checkpoint)) IN
         /\ added \in Seq(Rows) /\ ToSet(added) \subseteq ToSet(Restored(s.checkpoint))
         /\ RestoreCheckpoint(s).rows = s.rows \o added
         /\ RestoreCheckpoint(s).rows # <<>>
         /\ ~ EndsWithUser(RestoreCheckpoint(s).rows)
<1> DEFINE rows == s.rows
           restored == Restored(s.checkpoint)
           added == Missing(rows, restored)
<1>1. /\ rows \in Seq(Rows) /\ restored \in Seq(Rows) /\ Len(restored) \in 1..2
      /\ ~ EndsWithUser(restored)
  BY RestoredRows DEF Sessions
<1>2. PICK size \in 0..Len(restored) :
        Overlap(rows, restored, size) /\ added = After(restored, size)
  <2> HIDE DEF rows, restored
  <2> QED
    BY <1>1, MissingIs
<1>3. /\ added \in Seq(Rows) /\ Len(added) = Len(restored) - size
      /\ \A i \in 1..Len(restored) - size : added[i] = restored[size + i]
      /\ ToSet(added) \subseteq ToSet(restored)
  <2> HIDE DEF rows, restored, added
  <2> QED
    BY <1>1, <1>2, AfterType
<1>4. RestoreCheckpoint(s).rows = rows \o added
  BY DEF RestoreCheckpoint
<1>5. /\ rows \o added \in Seq(Rows) /\ Len(rows \o added) = Len(rows) + Len(added)
      /\ \A i \in 1..Len(rows) + Len(added) :
           (rows \o added)[i] = IF i <= Len(rows) THEN rows[i] ELSE added[i - Len(rows)]
  <2> HIDE DEF rows, added
  <2> QED
    BY <1>1, <1>3, ConcatProperties
<1>6. rows \o added # <<>> /\ Last(rows \o added) = Last(restored)
  <2> HIDE DEF rows, restored, added
  <2>1. CASE size < Len(restored)
    <3>0. /\ Len(rows) \in Nat /\ Len(restored) \in 1..2
          /\ \A n \in 1..2 : \A j \in 0..n : j < n => j \in 0..1
      BY <1>1
    <3>1. PICK n \in Nat, k \in 1..2, j \in 0..1 :
             n = Len(rows) /\ k = Len(restored) /\ j = size /\ j < k
      <4>1. size \in 0..1
        BY <2>1, <3>0
      <4> QED
        BY <2>1, <3>0, <4>1
    <3>2. Len(added) = k - j /\ added[k - j] = restored[k]
      BY <3>1, <1>3
    <3>3. Len(rows \o added) = n + (k - j) /\ (rows \o added)[n + (k - j)] = added[k - j]
      BY <3>1, <3>2, <1>5
    <3> QED
      BY <3>1, <3>2, <3>3, <1>1, <1>5 DEF Last
  <2>2. CASE size = Len(restored)
    <3>1. PICK n \in Nat, k \in 1..2 :
             n = Len(rows) /\ k = Len(restored) /\ k = size /\ k <= n
      BY <2>2, <1>1, <1>2 DEF Overlap
    <3>2. SubSeq(rows, n - k + 1, n) = SubSeq(restored, 1, k)
      BY <3>1, <1>2 DEF Overlap
    <3>3. \A i \in n - k + 1..n : rows[i] \in Rows
      BY <3>1, <1>1
    <3>4. \A i \in 1..n - (n - k + 1) + 1 :
             SubSeq(rows, n - k + 1, n)[i] = rows[(n - k + 1) + i - 1]
      BY <3>1, <3>3, SubSeqProperties
    <3>5. SubSeq(restored, 1, k) = restored
      BY <3>1, <1>1, SubSeqFull
    <3>6. rows[n] = restored[k]
      BY <3>1, <3>2, <3>4, <3>5
    <3>7. Len(rows \o added) = n /\ (rows \o added)[n] = rows[n]
      BY <3>1, <1>1, <1>3, <1>5
    <3> QED
      BY <3>1, <3>6, <3>7, <1>1, <1>5 DEF Last
  <2> QED
    BY <2>1, <2>2
<1>7. ~ EndsWithUser(rows \o added)
  <2> HIDE DEF rows, restored, added
  <2>1. restored # <<>>
    BY <1>1
  <2> QED
    BY <2>1, <1>1, <1>6 DEF EndsWithUser
<1> QED
  BY <1>3, <1>4, <1>6, <1>7

LEMMA RestoreIs ==
  ASSUME NEW s \in Sessions
  PROVE  /\ RestoreCheckpoint(s) \in Sessions
         /\ RestoreCheckpoint(s).checkpoint = NoCheckpoint
         /\ s.checkpoint = NoCheckpoint => RestoreCheckpoint(s) = s
         /\ s.checkpoint # NoCheckpoint =>
              /\ ~ RestoreCheckpoint(s).pending
              /\ RestoreCheckpoint(s).provider = IF Exact(s.checkpoint) THEN s.provider ELSE {}
<1>1. CASE s.checkpoint = NoCheckpoint
  BY <1>1 DEF RestoreCheckpoint
<1>2. CASE s.checkpoint # NoCheckpoint
  <2> DEFINE added == Missing(s.rows, Restored(s.checkpoint))
  <2>1. added \in Seq(Rows)
    BY <1>2, RestoringAdds
  <2>2. s.rows \o added \in Seq(Rows)
    <3> HIDE DEF added
    <3> QED
      BY <2>1, ConcatProperties DEF Sessions
  <2>3. RestoreCheckpoint(s) =
          [rows |-> s.rows \o added, checkpoint |-> NoCheckpoint, pending |-> FALSE,
           provider |-> IF Exact(s.checkpoint) THEN s.provider ELSE {}]
    BY <1>2 DEF RestoreCheckpoint
  <2> HIDE DEF added
  <2>4. NoCheckpoint \in Checkpoints /\ s.provider \in SUBSET Rows
    BY DEF Checkpoints, Sessions
  <2> QED
    BY <1>2, <2>2, <2>3, <2>4 DEF Sessions
<1> QED
  BY <1>1, <1>2

LEMMA PendingIs ==
  ASSUME NEW s \in Sessions
  PROVE  /\ RestorePending(s) \in Sessions
         /\ RestorePending(s).checkpoint = s.checkpoint
         /\ ~ RestorePending(s).pending
         /\ s.pending /\ EndsWithUser(s.rows) =>
              RestorePending(s).rows = Append(s.rows, Closed) /\ RestorePending(s).provider = {}
         /\ ~ (s.pending /\ EndsWithUser(s.rows)) =>
              RestorePending(s).rows = s.rows /\ RestorePending(s).provider = s.provider
<1>1. Append(s.rows, Closed) \in Seq(Rows)
  BY SmallRows, AppendProperties DEF Sessions
<1> QED
  BY <1>1 DEF RestorePending, Sessions

-----------------------------------------------------------------------------
(* What a turn becomes.                                                    *)

LEMMA JoinedIs ==
  ASSUME NEW rows \in Seq(Rows), NEW ms \in SUBSET Msgs
  PROVE  /\ Joined(rows, ms) \in Seq(Rows) /\ Len(Joined(rows, ms)) >= Len(rows)
         /\ Joined(rows, ms) # <<>> /\ EndsWithUser(Joined(rows, ms))
         /\ EndsWithUser(rows) =>
              /\ Last(rows).of \in SUBSET Msgs /\ Last(rows) = Prompt(Last(rows).of)
              /\ Prompt(Last(rows).of \cup ms) \in Rows
              /\ Joined(rows, ms) = Append(Front(rows), Prompt(Last(rows).of \cup ms))
              /\ Len(Joined(rows, ms)) = Len(rows)
         /\ ~ EndsWithUser(rows) => Joined(rows, ms) = Append(rows, Prompt(ms))
<1>1. CASE EndsWithUser(rows)
  <2> DEFINE row == Prompt(Last(rows).of \cup ms)
  <2>1. rows # <<>> /\ IsUser(Last(rows)) /\ Last(rows) \in Rows
    BY <1>1, LastAndFront DEF EndsWithUser
  <2>2. Last(rows).of \in SUBSET Msgs /\ Last(rows) = Prompt(Last(rows).of)
    BY <2>1, RowShape
  <2>3. row \in Rows /\ IsUser(row)
    BY <2>2, SmallRows DEF Prompt, IsUser
  <2>4. Joined(rows, ms) = Append(Front(rows), row)
    BY <1>1 DEF Joined
  <2> HIDE DEF row
  <2>5. /\ Front(rows) \in Seq(Rows) /\ Len(Front(rows)) = Len(rows) - 1
        /\ Len(rows) \in Nat \ {0}
    BY <2>1, LastAndFront
  <2>6. /\ Append(Front(rows), row) \in Seq(Rows)
        /\ Len(Append(Front(rows), row)) = Len(Front(rows)) + 1
        /\ Append(Front(rows), row) # <<>> /\ Last(Append(Front(rows), row)) = row
    BY <2>3, <2>5, AppendProperties, LastOfAppend
  <2> QED
    BY <1>1, <2>2, <2>3, <2>4, <2>5, <2>6 DEF row, EndsWithUser
<1>2. CASE ~ EndsWithUser(rows)
  <2>1. Prompt(ms) \in Rows /\ IsUser(Prompt(ms))
    BY SmallRows DEF Prompt, IsUser
  <2>2. Joined(rows, ms) = Append(rows, Prompt(ms))
    BY <1>2 DEF Joined
  <2>3. /\ Append(rows, Prompt(ms)) \in Seq(Rows)
        /\ Len(Append(rows, Prompt(ms))) = Len(rows) + 1
        /\ Append(rows, Prompt(ms)) # <<>> /\ Last(Append(rows, Prompt(ms))) = Prompt(ms)
    BY <2>1, AppendProperties, LastOfAppend
  <2> QED
    BY <1>2, <2>1, <2>2, <2>3 DEF EndsWithUser
<1> QED
  BY <1>1, <1>2

LEMMA RequestedIs ==
  ASSUME NEW t \in Turns, t.boundary <= Len(t.full)
  PROVE  /\ Requested(t) \in SUBSET Rows /\ Snapshot(t) \in SUBSET Rows
         /\ After(t.full, t.boundary) \in Seq(Rows)
<1>1. t.full \in Seq(Rows) /\ t.thread \in SUBSET Rows /\ t.boundary \in 0..Len(t.full)
  BY DEF Turns
<1>2. After(t.full, t.boundary) \in Seq(Rows)
  BY <1>1, AfterType
<1>3. ToSet(t.full) \in SUBSET Rows /\ ToSet(After(t.full, t.boundary)) \in SUBSET Rows
  BY <1>1, <1>2, RangeIs
<1> QED
  BY <1>1, <1>2, <1>3 DEF Requested, Snapshot

LEMMA ObservedIs ==
  ASSUME NEW t \in Turns, t.boundary <= Len(t.full), NEW how
  PROVE  LET u == Observed(t, how) IN
         /\ u \in Turns
         /\ u.phase = t.phase /\ u.msg = t.msg /\ u.full = t.full /\ u.start = t.start
         /\ u.iteration = t.iteration /\ u.cycles = t.cycles /\ u.retried = t.retried
         /\ u.injected = t.injected
         /\ u.boundary = Len(t.full)
         /\ u.thread = CASE how = "adopt" -> Requested(t)
                         [] how = "keep" -> Snapshot(t)
                         [] OTHER -> {}
         /\ u.sealed = IF how = "adopt" THEN Len(t.full) ELSE t.sealed
<1>1. Requested(t) \in SUBSET Rows /\ Snapshot(t) \in SUBSET Rows /\ Len(t.full) \in Nat
  BY RequestedIs DEF Turns
<1> DEFINE thread == CASE how = "adopt" -> Requested(t)
                       [] how = "keep" -> Snapshot(t)
                       [] OTHER -> {}
<1>2. thread \in SUBSET Rows
  BY <1>1
<1>3. Observed(t, how) =
        [t EXCEPT !.thread = thread, !.boundary = Len(t.full),
                  !.sealed = IF how = "adopt" THEN Len(t.full) ELSE t.sealed]
  BY DEF Observed
<1> HIDE DEF thread
<1>4. IF how = "adopt" THEN Len(t.full) \in Nat ELSE t.sealed \in Nat
  BY <1>1 DEF Turns
<1> QED
  BY <1>1, <1>2, <1>3, <1>4 DEF Turns, thread

LEMMA InjectedIs ==
  ASSUME NEW t \in Turns, NEW ms \in SUBSET Msgs
  PROVE  LET u == Injected(t, ms) IN
         /\ u \in Turns
         /\ u.phase = t.phase /\ u.msg = t.msg /\ u.start = t.start
         /\ u.iteration = t.iteration /\ u.cycles = t.cycles /\ u.retried = t.retried
         /\ u.boundary = t.boundary /\ u.thread = t.thread /\ u.sealed = t.sealed
         /\ u.injected = t.injected \cup ms
         /\ u.full = IF t.sealed = Len(t.full) THEN Append(t.full, Prompt(ms))
                                               ELSE Joined(t.full, ms)
         /\ Len(u.full) >= Len(t.full)
<1>1. t.full \in Seq(Rows) /\ Prompt(ms) \in Rows
  BY SmallRows DEF Turns
<1>2. /\ Append(t.full, Prompt(ms)) \in Seq(Rows)
      /\ Len(Append(t.full, Prompt(ms))) >= Len(t.full)
  BY <1>1, AppendProperties
<1>3. Joined(t.full, ms) \in Seq(Rows) /\ Len(Joined(t.full, ms)) >= Len(t.full)
  BY <1>1, JoinedIs
<1> DEFINE full == IF t.sealed = Len(t.full) THEN Append(t.full, Prompt(ms))
                                             ELSE Joined(t.full, ms)
<1>4. full \in Seq(Rows) /\ Len(full) >= Len(t.full)
  BY <1>2, <1>3
<1>5. Injected(t, ms) = [t EXCEPT !.full = full, !.injected = t.injected \cup ms]
  BY DEF Injected
<1> HIDE DEF full
<1>6. t.injected \cup ms \in SUBSET Msgs
  BY DEF Turns
<1> QED
  BY <1>4, <1>5, <1>6 DEF Turns, full

-----------------------------------------------------------------------------
(* What the actions of the runner do.  "o" is the turn after the reply was *)
(* observed, or the turn as it is.                                         *)

Like(u, t) ==
  /\ u.msg = t.msg /\ u.start = t.start /\ u.boundary = t.boundary
  /\ u.sealed = t.sealed /\ u.thread = t.thread

Becomes(o, phase, full) ==
  /\ turn' \in Turns
  /\ \/ turn' = Idle
     \/ /\ Like(turn', o) /\ turn'.phase = phase /\ turn'.full = full
        /\ phase \in Handling => turn'.iteration < MaxIterations

Heard(o) ==
  /\ o \in Turns
  /\ o.msg = turn.msg /\ o.full = turn.full /\ o.start = turn.start
  /\ o.iteration = turn.iteration
  /\ o.boundary = Len(turn.full)
  /\ \/ o.thread = Requested(turn) /\ o.sealed = Len(turn.full)
     \/ Transient /\ o.thread = Snapshot(turn)
     \/ o.thread = {}

Merged(full, sealed, ms) ==
  IF sealed = Len(full) THEN Append(full, Prompt(ms)) ELSE Joined(full, ms)

SameSession == mem' = mem /\ disk' = disk

(* The session gets a checkpoint of the reply that is handled.             *)
Checkpointed(phase, n, provider) ==
  /\ mem' \in Sessions
  /\ mem'.rows = mem.rows /\ mem'.pending = mem.pending
  /\ mem'.checkpoint = [phase |-> phase, of |-> n] /\ mem'.provider = provider
  /\ disk' \in {disk, mem'}

Follows == NewSession \/ Crash \/ RowsFollow
Sound ==
  /\ HistoryAssumption /\ TypeOK /\ Counted /\ Placed
  /\ UNCHANGED setting /\ Follows /\ renewed' \in BOOLEAN

LEMMA Limits ==
  ASSUME Sound
  PROVE  /\ MaxIterations \in Nat /\ MaxCycles \in Nat /\ MaxFaults \in Nat
         /\ {Goal, Stateful, Transient, ArchiveFails} \subseteq BOOLEAN
         /\ LastReply \in Nat /\ None \notin Msgs
         /\ Turns' = Turns /\ MaxIterations' = MaxIterations /\ MaxFaults' = MaxFaults
         /\ Idle \in Turns
<1>1. /\ MaxIterations \in Nat /\ MaxCycles \in Nat /\ MaxFaults \in Nat
      /\ {Goal, Stateful, Transient, ArchiveFails} \subseteq BOOLEAN
      /\ LastReply \in Nat /\ None \notin Msgs
  BY DEF Sound, HistoryAssumption, TypeOK, MaxIterations, MaxCycles, MaxFaults,
         Goal, Stateful, Transient, ArchiveFails
<1>2. MaxIterations' = MaxIterations /\ MaxCycles' = MaxCycles /\ MaxFaults' = MaxFaults
  BY DEF Sound, MaxIterations, MaxCycles, MaxFaults
<1>3. Turns' = Turns
  BY <1>2 DEF Turns
<1>4. Idle \in Turns
  BY <1>1 DEF Idle, Turns, TurnPhases, Asking
<1> QED
  BY <1>1, <1>2, <1>3, <1>4

LEMMA RunnerState ==
  ASSUME Sound, turn.phase \in Asking
  PROVE  /\ turn \in Turns /\ turn.full \in Seq(Rows) /\ Len(turn.full) \in Nat
         /\ turn.start \in 0..turn.boundary /\ turn.boundary \in 0..Len(turn.full)
         /\ mem \in Sessions /\ disk \in Sessions
         /\ turn.phase \in Handling => replies \in 1..LastReply /\ turn.iteration < MaxIterations
         /\ turn # Idle
BY Limits DEF Sound, TypeOK, Counted, Placed, Writing, Turns, Idle, Asking, Handling

LEMMA ObservingHears ==
  ASSUME Sound, turn.phase = "ask",
         NEW how, how \in Outcomes \/ how \in Failures
  PROVE  Heard(Observed(turn, how))
<1>1. turn \in Turns /\ turn.boundary <= Len(turn.full)
  BY RunnerState DEF Asking
<1>2. how = "adopt" \/ how = "drop" \/ (how = "keep" /\ Transient)
  BY DEF Outcomes, Failures
<1> DEFINE u == Observed(turn, how)
<1>3. /\ u \in Turns
      /\ u.msg = turn.msg /\ u.full = turn.full /\ u.start = turn.start
      /\ u.iteration = turn.iteration
      /\ u.boundary = Len(turn.full)
      /\ u.thread = CASE how = "adopt" -> Requested(turn)
                      [] how = "keep" -> Snapshot(turn)
                      [] OTHER -> {}
      /\ u.sealed = IF how = "adopt" THEN Len(turn.full) ELSE turn.sealed
  BY <1>1, ObservedIs
<1> HIDE DEF u
<1> QED
  BY <1>2, <1>3 DEF Heard, u

LEMMA SavingEither ==
  ASSUME NEW next, Save(next)
  PROVE  \/ disk' = mem' /\ turn' = next
         \/ disk' = disk /\ turn' = Idle
BY DEF Save

LEMMA CheckpointIs ==
  ASSUME Sound, NEW phase \in {"awaiting_tools", "tools_completed", "final_response"},
         NEW n \in 1..LastReply, NEW provider \in SUBSET Rows,
         Checkpoint(phase, n, provider), disk' \in {disk, mem'}
  PROVE  Checkpointed(phase, n, provider)
<1>1. mem \in Sessions
  BY DEF Sound, TypeOK
<1>2. [phase |-> phase, of |-> n] \in Checkpoints
  BY DEF Checkpoints
<1> QED
  BY <1>1, <1>2 DEF Checkpoint, Checkpointed, Sessions

LEMMA ModelCallsToolsDoes ==
  ASSUME Sound, ModelCallsTools
  PROVE  /\ turn.phase = "ask" /\ turn.iteration < MaxIterations
         /\ replies' = replies + 1 /\ replies' \in 1..LastReply
         /\ Checkpointed("awaiting_tools", replies', mem.provider)
         /\ \E o : Heard(o) /\ Becomes(o, "tools", Append(o.full, Reply("calls", replies')))
         /\ UNCHANGED <<waiting, continue, promised>>
<1>1. /\ turn.phase = "ask" /\ turn.iteration < MaxIterations
      /\ replies' = replies + 1 /\ replies' \in 1..LastReply
  BY Limits DEF ModelCallsTools, Request, Sound, TypeOK
<1>2. PICK how \in Outcomes :
        LET t == [Observed(turn, how) EXCEPT !.phase = "tools",
                                             !.full = Append(@, Reply("calls", replies'))]
        IN Checkpoint("awaiting_tools", replies', mem.provider) /\ Save(t)
  BY DEF ModelCallsTools
<1> DEFINE o == Observed(turn, how)
           next == [o EXCEPT !.phase = "tools", !.full = Append(@, Reply("calls", replies'))]
<1>3. Checkpoint("awaiting_tools", replies', mem.provider) /\ Save(next)
  BY <1>2
<1>4. Heard(o)
  BY <1>1, ObservingHears
<1>5. o \in Turns /\ o.full \in Seq(Rows) /\ o.iteration < MaxIterations
  BY <1>1, <1>4 DEF Heard, Turns
<1>6. Append(o.full, Reply("calls", replies')) \in Seq(Rows)
  BY <1>1, <1>5, SmallRows, AppendProperties DEF ReplyKinds
<1> HIDE DEF o
<1>7. /\ next \in Turns /\ Like(next, o) /\ next.phase = "tools"
      /\ next.full = Append(o.full, Reply("calls", replies')) /\ next.iteration = o.iteration
  BY <1>5, <1>6 DEF Turns, Like, TurnPhases, Asking
<1> HIDE DEF next
<1>8. Becomes(o, "tools", Append(o.full, Reply("calls", replies')))
  BY <1>3, <1>5, <1>7, SavingEither, Limits DEF Becomes
<1>9. disk' \in {disk, mem'} /\ mem.provider \in SUBSET Rows
  BY <1>3, SavingEither DEF Sound, TypeOK, Sessions
<1>10. Checkpointed("awaiting_tools", replies', mem.provider)
  BY <1>1, <1>3, <1>9, CheckpointIs
<1> QED
  BY <1>1, <1>4, <1>8, <1>10 DEF ModelCallsTools

LEMMA Appended ==
  ASSUME NEW full \in Seq(Rows), NEW k \in ReplyKinds, NEW n \in 1..LastReply
  PROVE  /\ Append(full, Reply(k, n)) \in Seq(Rows)
         /\ Len(Append(full, Reply(k, n))) = Len(full) + 1
BY SmallRows, AppendProperties

LEMMA MergedIs ==
  ASSUME NEW full \in Seq(Rows), NEW sealed, NEW ms \in SUBSET Msgs
  PROVE  Merged(full, sealed, ms) \in Seq(Rows) /\ Len(Merged(full, sealed, ms)) >= Len(full)
<1>1. Joined(full, ms) \in Seq(Rows) /\ Len(Joined(full, ms)) >= Len(full)
  BY JoinedIs
<1>2. Append(full, Prompt(ms)) \in Seq(Rows) /\ Len(Append(full, Prompt(ms))) = Len(full) + 1
  BY SmallRows, AppendProperties
<1> QED
  BY <1>1, <1>2 DEF Merged

(* Messages are drained into a turn, or it just goes on.                   *)
LEMMA DrainedIs ==
  ASSUME Sound, NEW t \in Turns, t.iteration < MaxIterations,
         NEW ms \in SUBSET Msgs, t.cycles < MaxCycles
  PROVE  LET u == NextIteration(Drained(t, ms)) IN
         /\ u \in Turns /\ Like(u, t) /\ u.phase = "ask"
         /\ u.full = Merged(t.full, t.sealed, ms)
<1> DEFINE i == Injected(t, ms)
<1>1. /\ i \in Turns /\ i.iteration = t.iteration /\ i.cycles = t.cycles /\ Like(i, t)
      /\ i.full = Merged(t.full, t.sealed, ms)
  BY InjectedIs DEF Like, Merged
<1>2. Drained(t, ms) = [i EXCEPT !.cycles = @ + 1]
  BY DEF Drained
<1> HIDE DEF i
<1>3. NextIteration(Drained(t, ms)) = [i EXCEPT !.cycles = @ + 1, !.phase = "ask", !.iteration = @ + 1]
  BY <1>1, <1>2 DEF NextIteration, Turns
<1>4. i.cycles + 1 \in 0..MaxCycles /\ i.iteration + 1 \in 0..MaxIterations
  <2>1. t.iteration \in 0..MaxIterations /\ t.cycles \in 0..MaxCycles
    BY DEF Turns
  <2>2. MaxIterations \in Nat /\ MaxCycles \in Nat
    BY Limits
  <2> QED
    BY <1>1, <2>1, <2>2
<1> QED
  BY <1>1, <1>3, <1>4 DEF Turns, Like, TurnPhases, Asking

LEMMA NextIterationIs ==
  ASSUME Sound, NEW t \in Turns, t.iteration < MaxIterations
  PROVE  LET u == NextIteration(t) IN
         u \in Turns /\ Like(u, t) /\ u.phase = "ask" /\ u.full = t.full
<1>1. t.iteration + 1 \in 0..MaxIterations
  BY Limits DEF Turns
<1> QED
  BY <1>1 DEF NextIteration, Turns, Like, TurnPhases, Asking

LEMMA ToolsReturnDoes ==
  ASSUME Sound, ToolsReturn
  PROVE  /\ turn.phase = "tools" /\ replies \in 1..LastReply
         /\ LET full == Append(turn.full, Reply("result", replies)) IN
            /\ Becomes(turn, "afterTools", full)
            /\ \E t \in Turns : /\ Like(t, turn) /\ t.full = full
                                /\ Checkpointed("tools_completed", replies, Snapshot(t))
         /\ UNCHANGED <<replies, waiting, continue, promised>>
<1> DEFINE t == [turn EXCEPT !.phase = "afterTools", !.retried = FALSE,
                             !.full = Append(@, Reply("result", replies))]
<1>1. turn.phase = "tools" /\ Checkpoint("tools_completed", replies, Snapshot(t)) /\ Save(t)
  BY DEF ToolsReturn
<1>2. /\ turn \in Turns /\ turn.full \in Seq(Rows) /\ replies \in 1..LastReply
      /\ turn.boundary \in 0..Len(turn.full) /\ turn.iteration < MaxIterations
  BY <1>1, RunnerState DEF Asking, Handling
<1> DEFINE full == Append(turn.full, Reply("result", replies))
<1>3. full \in Seq(Rows) /\ Len(full) = Len(turn.full) + 1
  BY <1>2, Appended DEF ReplyKinds
<1>4. /\ t \in Turns /\ Like(t, turn) /\ t.full = full /\ t.phase = "afterTools"
      /\ t.iteration = turn.iteration
  BY <1>2, <1>3 DEF Turns, Like, TurnPhases, Asking
<1> HIDE DEF t
<1>5. Snapshot(t) \in SUBSET Rows
  <2>1. t.boundary <= Len(t.full)
    BY <1>2, <1>3, <1>4 DEF Like, Turns
  <2> QED
    BY <2>1, <1>4, RequestedIs
<1>6. Becomes(turn, "afterTools", full)
  BY <1>1, <1>2, <1>4, SavingEither, Limits DEF Becomes
<1>7. Checkpointed("tools_completed", replies, Snapshot(t))
  BY <1>1, <1>2, <1>5, SavingEither, CheckpointIs
<1> QED
  BY <1>1, <1>2, <1>4, <1>6, <1>7 DEF ToolsReturn

LEMMA TwoAppended ==
  ASSUME NEW full \in Seq(Rows), NEW a \in Rows, NEW b \in Rows
  PROVE  full \o <<a, b>> = Append(Append(full, a), b)
<1> DEFINE here == full \o <<a, b>>
           once == Append(full, a)
           there == Append(once, b)
<1>1. PICK n \in Nat : n = Len(full)
  OBVIOUS
<1>2. <<a, b>> \in Seq(Rows) /\ Len(<<a, b>>) = 2 /\ <<a, b>>[1] = a /\ <<a, b>>[2] = b
  OBVIOUS
<1>3. /\ here \in Seq(Rows) /\ Len(here) = n + 2
      /\ \A i \in 1..n + 2 : here[i] = IF i <= n THEN full[i] ELSE <<a, b>>[i - n]
  BY <1>1, <1>2, ConcatProperties
<1>4. /\ once \in Seq(Rows) /\ Len(once) = n + 1 /\ once[n + 1] = a
      /\ \A i \in 1..n : once[i] = full[i]
  BY <1>1, AppendProperties
<1>5. /\ there \in Seq(Rows) /\ Len(there) = n + 2 /\ there[n + 2] = b
      /\ \A i \in 1..n + 1 : there[i] = once[i]
  <2> HIDE DEF once
  <2> QED
    BY <1>4, AppendProperties
<1> HIDE DEF here, once, there
<1>6. \A i \in 1..n : here[i] = there[i]
  BY <1>3, <1>4, <1>5
<1>7. here[n + 1] = there[n + 1] /\ here[n + 2] = there[n + 2]
  BY <1>2, <1>3, <1>4, <1>5
<1>8. \A i \in 1..n + 2 : i \in 1..n \/ i = n + 1 \/ i = n + 2
  OBVIOUS
<1>9. here = there
  BY <1>3, <1>5, <1>6, <1>7, <1>8, SeqEqual
<1> QED
  BY <1>9 DEF here, there, once

LEMMA ToolsFailDoes ==
  ASSUME Sound, ToolsFail
  PROVE  /\ turn.phase = "tools" /\ replies \in 1..LastReply
         /\ Becomes(turn, "failed",
                    Append(Append(turn.full, Reply("result", replies)), Reply("note", replies)))
         /\ SameSession /\ UNCHANGED <<replies, waiting, continue, promised>>
<1>1. turn.phase = "tools"
  BY DEF ToolsFail
<1>2. turn \in Turns /\ turn.full \in Seq(Rows) /\ replies \in 1..LastReply
      /\ turn.iteration < MaxIterations
  BY <1>1, RunnerState DEF Asking, Handling
<1> DEFINE full == Append(Append(turn.full, Reply("result", replies)), Reply("note", replies))
<1>3. full \in Seq(Rows)
  BY <1>2, Appended DEF ReplyKinds
<1>4. turn.full \o <<Reply("result", replies), Reply("note", replies)>> = full
  <2>1. Reply("result", replies) \in Rows /\ Reply("note", replies) \in Rows
    BY <1>2, SmallRows DEF ReplyKinds
  <2> QED
    BY <2>1, <1>2, TwoAppended
<1> HIDE DEF full
<1>5. turn' = [turn EXCEPT !.phase = "failed", !.full = full]
  BY <1>4 DEF ToolsFail
<1>6. Becomes(turn, "failed", full)
  BY <1>2, <1>3, <1>5, Limits DEF Becomes, Turns, Like, TurnPhases, Asking
<1> QED
  BY <1>1, <1>2, <1>6 DEF ToolsFail, SameSession, full

LEMMA AfterToolsDoes ==
  ASSUME Sound, AfterTools
  PROVE  /\ turn.phase = "afterTools" /\ SameSession
         /\ UNCHANGED <<replies, continue, promised>>
         /\ \/ Becomes(turn, "ask", turn.full) /\ UNCHANGED waiting
            \/ \E ms \in SUBSET waiting :
                 /\ ms # {} /\ waiting' = waiting \ ms
                 /\ Becomes(turn, "ask", Merged(turn.full, turn.sealed, ms))
<1>1. turn.phase = "afterTools"
  BY DEF AfterTools
<1>2. turn \in Turns /\ turn.iteration < MaxIterations
  BY <1>1, RunnerState DEF Asking, Handling
<1>3. CASE turn' = NextIteration(turn) /\ UNCHANGED waiting
  <2>1. Becomes(turn, "ask", turn.full)
    BY <1>2, <1>3, NextIterationIs, Limits DEF Becomes, Handling
  <2> QED
    BY <2>1, <1>1, <1>3 DEF AfterTools, SameSession
<1>4. ASSUME NEW ms \in SUBSET waiting, Takes(ms), turn' = NextIteration(Drained(turn, ms))
      PROVE  /\ ms # {} /\ waiting' = waiting \ ms
             /\ Becomes(turn, "ask", Merged(turn.full, turn.sealed, ms))
  <2>1. ms \in SUBSET Msgs /\ turn.cycles < MaxCycles /\ ms # {} /\ waiting' = waiting \ ms
    BY <1>4 DEF Takes, Sound, TypeOK
  <2> QED
    BY <2>1, <1>2, <1>4, DrainedIs, Limits DEF Becomes, Handling
<1>5. \/ turn' = NextIteration(turn) /\ UNCHANGED waiting
      \/ \E ms \in SUBSET waiting : Takes(ms) /\ turn' = NextIteration(Drained(turn, ms))
  BY DEF AfterTools
<1> QED
  BY <1>1, <1>3, <1>4, <1>5 DEF AfterTools, SameSession

LEMMA RequestIs ==
  ASSUME Sound, Request
  PROVE  /\ turn.phase = "ask" /\ turn.iteration < MaxIterations
         /\ replies' = replies + 1 /\ replies' \in 1..LastReply
         /\ turn \in Turns /\ turn.full \in Seq(Rows)
<1>1. /\ turn.phase = "ask" /\ turn.iteration < MaxIterations
      /\ replies' = replies + 1 /\ replies' \in 1..LastReply
  BY Limits DEF Request, Sound, TypeOK
<1> QED
  BY <1>1, RunnerState DEF Asking

(* A blank reply was observed, and the one after it.                       *)
LEMMA HearingTwice ==
  ASSUME Sound, turn.phase = "ask",
         NEW blank \in Outcomes, NEW how, how = "drop" \/ how \in Failures
  PROVE  Heard(Observed(Observed(turn, blank), how))
<1> DEFINE o == Observed(turn, blank)
           u == Observed(o, how)
<1>1. Heard(o) /\ o \in Turns /\ Len(turn.full) \in Nat
  BY ObservingHears, RunnerState DEF Heard, Asking
<1>2. how = "drop" \/ (how = "keep" /\ Transient)
  BY DEF Failures
<1> HIDE DEF o
<1>3. o.boundary <= Len(o.full)
  BY <1>1 DEF Heard
<1>4. /\ u \in Turns
      /\ u.msg = o.msg /\ u.full = o.full /\ u.start = o.start
      /\ u.iteration = o.iteration /\ u.boundary = Len(o.full)
      /\ u.thread = CASE how = "adopt" -> Requested(o)
                      [] how = "keep" -> Snapshot(o)
                      [] OTHER -> {}
      /\ u.sealed = IF how = "adopt" THEN Len(o.full) ELSE o.sealed
  BY <1>1, <1>3, ObservedIs
<1>5. o.thread # {} => Requested(o) = o.thread
  <2>1. After(o.full, o.boundary) = <<>>
    BY <1>1, NothingAfterAll DEF Heard, Turns
  <2>2. ToSet(<<>>) = {}
    BY DEF ToSet
  <2> QED
    BY <2>1, <2>2 DEF Requested
<1>6. Snapshot(o) = o.thread
  BY <1>5 DEF Snapshot
<1> HIDE DEF u
<1>7. Heard(u)
  BY <1>1, <1>2, <1>4, <1>6 DEF Heard
<1> QED
  BY <1>7 DEF u, o

CutOffRows(full) == Append(Append(full, Reply("answer", replies')), Prompt({}))

LEMMA CutOffIs ==
  ASSUME Sound, NEW o \in Turns, o.iteration < MaxIterations, replies' \in 1..LastReply, CutOff(o)
  PROVE  Becomes(o, "ask", CutOffRows(o.full))
<1> DEFINE full == CutOffRows(o.full)
           t == [o EXCEPT !.full = full]
<1>1. Reply("answer", replies') \in Rows /\ Prompt({}) \in Rows /\ o.full \in Seq(Rows)
  BY SmallRows DEF ReplyKinds, Turns
<1>2. full = o.full \o <<Reply("answer", replies'), Prompt({})>>
  BY <1>1, TwoAppended DEF CutOffRows
<1>3. full \in Seq(Rows)
  <2>1. Append(o.full, Reply("answer", replies')) \in Seq(Rows)
    BY <1>1, AppendProperties
  <2> QED
    BY <2>1, <1>1, AppendProperties DEF CutOffRows
<1>4. turn' = NextIteration(t)
  BY <1>2 DEF CutOff
<1> HIDE DEF full
<1>5. t \in Turns /\ Like(t, o) /\ t.full = full /\ t.iteration < MaxIterations
  BY <1>3 DEF Turns, Like
<1> HIDE DEF t
<1>6. turn' \in Turns /\ Like(turn', o) /\ turn'.phase = "ask" /\ turn'.full = full
  BY <1>4, <1>5, NextIterationIs DEF Like
<1> QED
  BY <1>6, Limits DEF Becomes, Handling, full

LEMMA ModelGivesNothingDoes ==
  ASSUME Sound, ModelGivesNothing
  PROVE  /\ turn.phase = "ask" /\ turn.iteration < MaxIterations
         /\ replies' = replies + 1 /\ replies' \in 1..LastReply
         /\ \E o : Heard(o) /\ Becomes(o, "ask", o.full)
         /\ SameSession /\ UNCHANGED <<waiting, continue, promised>>
<1>1. /\ turn.phase = "ask" /\ turn.iteration < MaxIterations
      /\ replies' = replies + 1 /\ replies' \in 1..LastReply
  BY RequestIs DEF ModelGivesNothing
<1>2. PICK how \in Outcomes : turn' = NextIteration([Observed(turn, how) EXCEPT !.retried = TRUE])
  BY DEF ModelGivesNothing
<1> DEFINE o == Observed(turn, how)
           t == [o EXCEPT !.retried = TRUE]
<1>3. Heard(o)
  BY <1>1, ObservingHears
<1>4. o \in Turns /\ o.iteration < MaxIterations
  BY <1>1, <1>3 DEF Heard
<1>5. turn' = NextIteration(t)
  BY <1>2
<1> HIDE DEF o
<1>6. t \in Turns /\ Like(t, o) /\ t.full = o.full /\ t.iteration < MaxIterations
  BY <1>4 DEF Turns, Like
<1> HIDE DEF t
<1>7. turn' \in Turns /\ Like(turn', o) /\ turn'.phase = "ask" /\ turn'.full = o.full
  BY <1>5, <1>6, NextIterationIs DEF Like
<1>8. Becomes(o, "ask", o.full)
  BY <1>7, Limits DEF Becomes, Handling
<1> QED
  BY <1>1, <1>3, <1>8 DEF ModelGivesNothing, SameSession

LEMMA PhaseIs ==
  ASSUME Sound, NEW o \in Turns, o.iteration < MaxIterations,
         NEW phase \in TurnPhases, turn' = [o EXCEPT !.phase = phase]
  PROVE  Becomes(o, phase, o.full)
<1>1. turn' \in Turns /\ Like(turn', o) /\ turn'.phase = phase /\ turn'.full = o.full
      /\ turn'.iteration = o.iteration
  BY DEF Turns, Like
<1> QED
  BY <1>1, Limits DEF Becomes

LEMMA ModelAnswersDoes ==
  ASSUME Sound, ModelAnswers
  PROVE  /\ turn.phase = "ask" /\ turn.iteration < MaxIterations
         /\ replies' = replies + 1 /\ replies' \in 1..LastReply
         /\ \E o : Heard(o) /\ Becomes(o, "answered", o.full)
         /\ SameSession /\ UNCHANGED <<waiting, continue, promised>>
<1>1. /\ turn.phase = "ask" /\ turn.iteration < MaxIterations
      /\ replies' = replies + 1 /\ replies' \in 1..LastReply
  BY RequestIs DEF ModelAnswers
<1>2. PICK how \in Outcomes : turn' = [Observed(turn, how) EXCEPT !.phase = "answered"]
  BY DEF ModelAnswers
<1>3. Heard(Observed(turn, how))
  BY <1>1, ObservingHears
<1>4. Observed(turn, how) \in Turns /\ Observed(turn, how).iteration < MaxIterations
  BY <1>1, <1>3 DEF Heard
<1>5. Becomes(Observed(turn, how), "answered", Observed(turn, how).full)
  BY <1>2, <1>4, PhaseIs DEF TurnPhases, Asking
<1> QED
  BY <1>1, <1>3, <1>5 DEF ModelAnswers, SameSession

LEMMA ModelFailsDoes ==
  ASSUME Sound, ModelFails
  PROVE  /\ turn.phase = "ask" /\ turn.iteration < MaxIterations
         /\ replies' = replies + 1 /\ replies' \in 1..LastReply
         /\ \E o : Heard(o) /\ Becomes(o, "unanswered", o.full)
         /\ SameSession /\ UNCHANGED <<waiting, continue, promised>>
<1>1. /\ turn.phase = "ask" /\ turn.iteration < MaxIterations
      /\ replies' = replies + 1 /\ replies' \in 1..LastReply
  BY RequestIs DEF ModelFails
<1>2. PICK how \in Failures : turn' = [Observed(turn, how) EXCEPT !.phase = "unanswered"]
  BY DEF ModelFails
<1>3. Heard(Observed(turn, how))
  BY <1>1, ObservingHears
<1>4. Observed(turn, how) \in Turns /\ Observed(turn, how).iteration < MaxIterations
  BY <1>1, <1>3 DEF Heard
<1>5. Becomes(Observed(turn, how), "unanswered", Observed(turn, how).full)
  BY <1>2, <1>4, PhaseIs DEF TurnPhases, Asking
<1> QED
  BY <1>1, <1>3, <1>5 DEF ModelFails, SameSession

LEMMA ModelIsCutOffDoes ==
  ASSUME Sound, ModelIsCutOff
  PROVE  /\ turn.phase = "ask" /\ turn.iteration < MaxIterations
         /\ replies' = replies + 1 /\ replies' \in 1..LastReply
         /\ \E o : Heard(o) /\ Becomes(o, "ask", CutOffRows(o.full))
         /\ SameSession /\ UNCHANGED <<waiting, continue, promised>>
<1>1. /\ turn.phase = "ask" /\ turn.iteration < MaxIterations
      /\ replies' = replies + 1 /\ replies' \in 1..LastReply
  BY RequestIs DEF ModelIsCutOff
<1>2. PICK how \in Outcomes : CutOff(Observed(turn, how))
  BY DEF ModelIsCutOff
<1>3. Heard(Observed(turn, how))
  BY <1>1, ObservingHears
<1>4. Observed(turn, how) \in Turns /\ Observed(turn, how).iteration < MaxIterations
  BY <1>1, <1>3 DEF Heard
<1>5. Becomes(Observed(turn, how), "ask", CutOffRows(Observed(turn, how).full))
  BY <1>1, <1>2, <1>4, CutOffIs
<1> QED
  BY <1>1, <1>3, <1>5 DEF ModelIsCutOff, SameSession

LEMMA ModelFinalizesDoes ==
  ASSUME Sound, ModelFinalizes
  PROVE  /\ turn.phase = "ask" /\ turn.iteration < MaxIterations
         /\ replies' = replies + 1 /\ replies' \in 1..LastReply
         /\ \E o : /\ Heard(o)
                   /\ \/ Becomes(o, "answered", o.full)
                      \/ Becomes(o, "ask", CutOffRows(o.full))
                      \/ Becomes(o, "unanswered", o.full)
         /\ SameSession /\ UNCHANGED <<waiting, continue, promised>>
<1>1. /\ turn.phase = "ask" /\ turn.iteration < MaxIterations
      /\ replies' = replies + 1 /\ replies' \in 1..LastReply
  BY RequestIs DEF ModelFinalizes
<1>2. PICK blank \in Outcomes :
        LET t == Observed(turn, blank) IN
        \/ turn' = [Observed(t, "drop") EXCEPT !.phase = "answered"]
        \/ CutOff(Observed(t, "drop"))
        \/ \E how \in Failures : turn' = [Observed(t, how) EXCEPT !.phase = "unanswered"]
  BY DEF ModelFinalizes
<1> DEFINE t == Observed(turn, blank)
           Result(o) == \/ Becomes(o, "answered", o.full)
                        \/ Becomes(o, "ask", CutOffRows(o.full))
                        \/ Becomes(o, "unanswered", o.full)
<1>3. ASSUME NEW how, how = "drop" \/ how \in Failures
      PROVE  /\ Heard(Observed(t, how))
             /\ Observed(t, how) \in Turns /\ Observed(t, how).iteration < MaxIterations
  <2>1. Heard(Observed(t, how))
    BY <1>1, <1>3, HearingTwice
  <2> QED
    BY <2>1, <1>1 DEF Heard
<1> HIDE DEF t
<1>4. ASSUME turn' = [Observed(t, "drop") EXCEPT !.phase = "answered"]
      PROVE  \E o : Heard(o) /\ Result(o)
  <2>1. /\ Heard(Observed(t, "drop")) /\ Observed(t, "drop") \in Turns
        /\ Observed(t, "drop").iteration < MaxIterations
    BY <1>3
  <2>2. Becomes(Observed(t, "drop"), "answered", Observed(t, "drop").full)
    BY <2>1, <1>4, PhaseIs DEF TurnPhases, Asking
  <2> QED
    BY <2>1, <2>2
<1>5. ASSUME CutOff(Observed(t, "drop"))
      PROVE  \E o : Heard(o) /\ Result(o)
  <2>1. /\ Heard(Observed(t, "drop")) /\ Observed(t, "drop") \in Turns
        /\ Observed(t, "drop").iteration < MaxIterations
    BY <1>3
  <2>2. Becomes(Observed(t, "drop"), "ask", CutOffRows(Observed(t, "drop").full))
    BY <1>1, <2>1, <1>5, CutOffIs
  <2> QED
    BY <2>1, <2>2
<1>6. ASSUME NEW how \in Failures, turn' = [Observed(t, how) EXCEPT !.phase = "unanswered"]
      PROVE  \E o : Heard(o) /\ Result(o)
  <2>1. /\ Heard(Observed(t, how)) /\ Observed(t, how) \in Turns
        /\ Observed(t, how).iteration < MaxIterations
    BY <1>3
  <2>2. Becomes(Observed(t, how), "unanswered", Observed(t, how).full)
    BY <2>1, <1>6, PhaseIs DEF TurnPhases, Asking
  <2> QED
    BY <2>1, <2>2
<1>7. \E o : Heard(o) /\ Result(o)
  BY <1>2, <1>4, <1>5, <1>6 DEF t
<1> QED
  BY <1>1, <1>7 DEF ModelFinalizes, SameSession

(* The messages that a step may drain into the turn.                       *)
LEMMA TakesIs ==
  ASSUME Sound, NEW ms \in SUBSET waiting, Takes(ms)
  PROVE  /\ ms \in SUBSET Msgs /\ ms # {} /\ waiting' = waiting \ ms
         /\ turn.cycles < MaxCycles
BY DEF Takes, Sound, TypeOK

LEMMA AfterAnswerDoes ==
  ASSUME Sound, AfterAnswer
  PROVE  /\ turn.phase = "answered" /\ replies \in 1..LastReply
         /\ LET full == Append(turn.full, Reply("answer", replies)) IN
            /\ \E t \in Turns : /\ Like(t, turn) /\ t.full = full
                                /\ Checkpointed("final_response", replies, Snapshot(t))
            /\ \/ \E ms \in SUBSET waiting :
                    /\ ms # {} /\ waiting' = waiting \ ms
                    /\ Becomes(turn, "ask", Merged(full, turn.sealed, ms))
               \/ /\ Goal /\ waiting' = waiting
                  /\ Becomes(turn, "ask", Merged(full, turn.sealed, {}))
               \/ waiting' = waiting /\ Becomes(turn, "save", full)
         /\ UNCHANGED <<replies, continue, promised>>
<1> DEFINE full == Append(turn.full, Reply("answer", replies))
           t == [turn EXCEPT !.full = Append(@, Reply("answer", replies))]
<1>1. turn.phase = "answered" /\ Checkpoint("final_response", replies, Snapshot(t))
  BY DEF AfterAnswer
<1>2. /\ turn \in Turns /\ turn.full \in Seq(Rows) /\ replies \in 1..LastReply
      /\ turn.boundary \in 0..Len(turn.full) /\ turn.iteration < MaxIterations
  BY <1>1, RunnerState DEF Asking, Handling
<1>3. full \in Seq(Rows) /\ Len(full) = Len(turn.full) + 1
  BY <1>2, Appended DEF ReplyKinds
<1>4. /\ t \in Turns /\ Like(t, turn) /\ t.full = full
      /\ t.iteration = turn.iteration /\ t.cycles = turn.cycles
  BY <1>2, <1>3 DEF Turns, Like
<1>5. \/ \E ms \in SUBSET waiting : Takes(ms) /\ Save(NextIteration(Drained(t, ms)))
      \/ Goal /\ Save(NextIteration(Injected(t, {}))) /\ UNCHANGED waiting
      \/ Save([t EXCEPT !.phase = "save"]) /\ UNCHANGED waiting
  BY DEF AfterAnswer
<1> HIDE DEF t
<1>6. Snapshot(t) \in SUBSET Rows
  <2>1. t.boundary <= Len(t.full)
    BY <1>2, <1>3, <1>4 DEF Like, Turns
  <2> QED
    BY <2>1, <1>4, RequestedIs
<1>7. disk' \in {disk, mem'}
  BY <1>5, SavingEither
<1>8. Checkpointed("final_response", replies, Snapshot(t))
  BY <1>1, <1>2, <1>6, <1>7, CheckpointIs
<1> HIDE DEF full
<1>9. ASSUME NEW ms \in SUBSET waiting, Takes(ms), Save(NextIteration(Drained(t, ms)))
      PROVE  /\ ms # {} /\ waiting' = waiting \ ms
             /\ Becomes(turn, "ask", Merged(full, turn.sealed, ms))
  <2>1. ms \in SUBSET Msgs /\ ms # {} /\ waiting' = waiting \ ms /\ t.cycles < MaxCycles
    BY <1>4, <1>9, TakesIs
  <2> DEFINE u == NextIteration(Drained(t, ms))
  <2>2. u \in Turns /\ Like(u, t) /\ u.phase = "ask" /\ u.full = Merged(t.full, t.sealed, ms)
    BY <1>2, <1>4, <2>1, DrainedIs
  <2>3. turn' = u \/ turn' = Idle
    BY <1>9, SavingEither
  <2> HIDE DEF u
  <2> QED
    BY <1>4, <2>1, <2>2, <2>3, Limits DEF Becomes, Handling, Like
<1>10. ASSUME Save(NextIteration(Injected(t, {})))
       PROVE  Becomes(turn, "ask", Merged(full, turn.sealed, {}))
  <2> DEFINE i == Injected(t, {})
             u == NextIteration(i)
  <2>1. i \in Turns /\ Like(i, t) /\ i.iteration < MaxIterations /\ i.full = Merged(full, turn.sealed, {})
    BY <1>2, <1>4, InjectedIs DEF Like, Merged
  <2> HIDE DEF i
  <2>2. u \in Turns /\ Like(u, i) /\ u.phase = "ask" /\ u.full = i.full
    BY <2>1, NextIterationIs
  <2>3. turn' = u \/ turn' = Idle
    BY <1>10, SavingEither DEF i
  <2> HIDE DEF u
  <2> QED
    BY <1>4, <2>1, <2>2, <2>3, Limits DEF Becomes, Handling, Like
<1>11. ASSUME Save([t EXCEPT !.phase = "save"])
       PROVE  Becomes(turn, "save", full)
  <2> DEFINE u == [t EXCEPT !.phase = "save"]
  <2>1. u \in Turns /\ Like(u, t) /\ u.phase = "save" /\ u.full = full
    BY <1>4 DEF Turns, TurnPhases, Like
  <2>2. turn' = u \/ turn' = Idle
    BY <1>11, SavingEither
  <2> HIDE DEF u
  <2> QED
    BY <1>4, <2>1, <2>2, Limits DEF Becomes, Handling, Like, Asking
<1> QED
  BY <1>1, <1>2, <1>4, <1>5, <1>8, <1>9, <1>10, <1>11 DEF AfterAnswer, full

LEMMA DrainingTurn ==
  ASSUME Sound, turn.phase \in Handling, NEW ms \in SUBSET waiting,
         Takes(ms), turn' = NextIteration(Drained(turn, ms))
  PROVE  /\ ms # {} /\ waiting' = waiting \ ms
         /\ Becomes(turn, "ask", Merged(turn.full, turn.sealed, ms))
<1>1. ms \in SUBSET Msgs /\ turn.cycles < MaxCycles /\ ms # {} /\ waiting' = waiting \ ms
  BY TakesIs
<1>2. turn \in Turns /\ turn.iteration < MaxIterations
  BY RunnerState DEF Handling
<1>3. turn' \in Turns /\ Like(turn', turn) /\ turn'.phase = "ask"
      /\ turn'.full = Merged(turn.full, turn.sealed, ms)
  BY <1>1, <1>2, DrainedIs
<1> QED
  BY <1>1, <1>3 DEF Becomes, Handling

LEMMA AfterFailureDoes ==
  ASSUME Sound, AfterFailure
  PROVE  /\ turn.phase = "unanswered" /\ replies \in 1..LastReply /\ SameSession
         /\ UNCHANGED <<replies, continue, promised>>
         /\ \/ \E ms \in SUBSET waiting :
                 /\ ms # {} /\ waiting' = waiting \ ms
                 /\ Becomes(turn, "ask", Merged(turn.full, turn.sealed, ms))
            \/ /\ waiting' = waiting
               /\ Becomes(turn, "failed", Append(turn.full, Reply("note", replies)))
<1>1. turn.phase = "unanswered"
  BY DEF AfterFailure
<1>2. /\ turn \in Turns /\ turn.full \in Seq(Rows) /\ replies \in 1..LastReply
      /\ turn.iteration < MaxIterations
  BY <1>1, RunnerState DEF Asking, Handling
<1>3. ASSUME turn' = [turn EXCEPT !.phase = "failed", !.full = Append(@, Reply("note", replies))]
      PROVE  Becomes(turn, "failed", Append(turn.full, Reply("note", replies)))
  <2>1. Append(turn.full, Reply("note", replies)) \in Seq(Rows)
    BY <1>2, Appended DEF ReplyKinds
  <2> QED
    BY <1>2, <1>3, <2>1, Limits DEF Becomes, Turns, Like, TurnPhases, Asking
<1>4. \/ \E ms \in SUBSET waiting : Takes(ms) /\ turn' = NextIteration(Drained(turn, ms))
      \/ /\ turn' = [turn EXCEPT !.phase = "failed", !.full = Append(@, Reply("note", replies))]
         /\ UNCHANGED waiting
  BY DEF AfterFailure
<1> QED
  BY <1>1, <1>2, <1>3, <1>4, DrainingTurn DEF AfterFailure, SameSession, Handling, Asking

(* The session gets the provider state of turn t.                          *)
Returned(t) ==
  /\ mem' \in Sessions /\ disk' = disk
  /\ mem'.rows = mem.rows /\ mem'.pending = mem.pending /\ mem'.checkpoint = mem.checkpoint
  /\ mem'.provider = Snapshot(t)

LEMMA AfterErrorDoes ==
  ASSUME Sound, AfterError
  PROVE  /\ turn.phase = "failed" /\ replies \in 1..LastReply
         /\ UNCHANGED <<replies, continue, promised>>
         /\ \/ /\ SameSession
               /\ \E ms \in SUBSET waiting :
                    /\ ms # {} /\ waiting' = waiting \ ms
                    /\ Becomes(turn, "ask", Merged(turn.full, turn.sealed, ms))
            \/ /\ waiting' = waiting /\ Returned(turn)
               /\ Becomes(turn, "save", turn.full)
<1>1. turn.phase = "failed"
  BY DEF AfterError
<1>2. /\ turn \in Turns /\ turn.full \in Seq(Rows) /\ replies \in 1..LastReply
      /\ turn.iteration < MaxIterations /\ mem \in Sessions /\ turn.boundary <= Len(turn.full)
  BY <1>1, RunnerState DEF Asking, Handling
<1>3. ASSUME Returns(turn), UNCHANGED disk
      PROVE  Returned(turn) /\ Becomes(turn, "save", turn.full)
  <2>1. Becomes(turn, "save", turn.full)
    BY <1>2, <1>3, PhaseIs DEF Returns, TurnPhases
  <2>2. Snapshot(turn) \in SUBSET Rows
    BY <1>2, RequestedIs
  <2> QED
    BY <1>2, <1>3, <2>1, <2>2 DEF Returns, Returned, Sessions
<1>4. ASSUME NEW ms \in SUBSET waiting, Takes(ms), turn' = NextIteration(Drained(turn, ms))
      PROVE  /\ ms # {} /\ waiting' = waiting \ ms
             /\ Becomes(turn, "ask", Merged(turn.full, turn.sealed, ms))
  BY <1>1, <1>4, DrainingTurn DEF Handling, Asking
<1> QED
  BY <1>1, <1>2, <1>3, <1>4 DEF AfterError, SameSession

LEMMA OutOfIterationsDoes ==
  ASSUME Sound, OutOfIterations
  PROVE  /\ turn.phase = "ask" /\ replies' = replies + 1 /\ replies' \in 1..LastReply
         /\ UNCHANGED promised
         /\ \E ms \in SUBSET waiting, u \in Turns :
              LET full == IF ms = {} THEN turn.full ELSE Merged(turn.full, turn.sealed, ms) IN
              /\ waiting' = waiting \ ms
              /\ Like(u, turn) /\ u.full = Append(full, Reply("note", replies'))
              /\ Returned(u)
              /\ \/ Becomes(turn, "save", u.full)
                 \/ Goal /\ Becomes(turn, "save", full)
<1>1. /\ turn.phase = "ask" /\ turn.iteration = MaxIterations /\ UNCHANGED <<disk, promised>>
      /\ replies' = replies + 1 /\ replies' \in 1..LastReply
  <2>1. /\ turn.phase = "ask" /\ turn.iteration = MaxIterations /\ UNCHANGED <<disk, promised, faults>>
        /\ replies' = replies + 1 /\ replies < LastReply
    BY DEF OutOfIterations
  <2>2. replies \in 0..LastReply /\ LastReply \in Nat
    BY Limits DEF Sound, TypeOK
  <2> QED
    BY <2>1, <2>2
<1>2. /\ turn \in Turns /\ turn.full \in Seq(Rows) /\ mem \in Sessions
      /\ turn.boundary \in 0..Len(turn.full)
  BY <1>1, RunnerState DEF Asking
<1> DEFINE closing(t) == [t EXCEPT !.full = Append(@, Reply("note", replies'))]
           Finish(t) == /\ mem' = [mem EXCEPT !.provider = Snapshot(closing(t))]
                        /\ \/ turn' = [closing(t) EXCEPT !.phase = "save"]
                           \/ Goal /\ \E text \in {t, closing(t)} : turn' = [text EXCEPT !.phase = "save"]
<1>3. \/ \E ms \in SUBSET waiting : Takes(ms) /\ Finish(Drained(turn, ms))
      \/ Finish(turn) /\ UNCHANGED waiting
  BY DEF OutOfIterations
<1>4. ASSUME NEW t \in Turns, Like(t, turn), Len(t.full) >= Len(turn.full), Finish(t)
      PROVE  LET u == closing(t) IN
             /\ u \in Turns /\ Like(u, turn) /\ u.full = Append(t.full, Reply("note", replies'))
             /\ Returned(u)
             /\ Becomes(turn, "save", u.full) \/ (Goal /\ Becomes(turn, "save", t.full))
  <2> DEFINE u == closing(t)
  <2>1. t.full \in Seq(Rows)
    BY DEF Turns
  <2>2. /\ Append(t.full, Reply("note", replies')) \in Seq(Rows)
        /\ Len(Append(t.full, Reply("note", replies'))) = Len(t.full) + 1
    BY <2>1, <1>1, Appended DEF ReplyKinds
  <2>3. u \in Turns /\ Like(u, t) /\ u.full = Append(t.full, Reply("note", replies'))
    BY <2>2 DEF Turns, Like
  <2> HIDE DEF u
  <2>4. u.boundary <= Len(u.full)
    BY <1>2, <1>4, <2>1, <2>2, <2>3 DEF Like
  <2>5. Snapshot(u) \in SUBSET Rows
    BY <2>3, <2>4, RequestedIs
  <2>6. mem' = [mem EXCEPT !.provider = Snapshot(u)]
    BY <1>4 DEF u
  <2>7. Returned(u)
    BY <1>1, <1>2, <2>5, <2>6 DEF Returned, Sessions
  <2>8. \/ turn' = [u EXCEPT !.phase = "save"]
        \/ Goal /\ turn' = [t EXCEPT !.phase = "save"]
    BY <1>4 DEF u
  <2>9. ASSUME NEW w \in Turns, Like(w, turn), turn' = [w EXCEPT !.phase = "save"]
        PROVE  Becomes(turn, "save", w.full)
    BY <2>9, Limits DEF Becomes, Turns, Like, TurnPhases, Handling, Asking
  <2>10. Like(u, turn)
    BY <2>3, <1>4 DEF Like
  <2>11. Becomes(turn, "save", u.full) \/ (Goal /\ Becomes(turn, "save", t.full))
    BY <2>3, <2>8, <2>9, <2>10, <1>4
  <2> QED
    BY <2>3, <2>7, <2>10, <2>11 DEF u
<1> HIDE DEF Finish, closing
<1>5. ASSUME NEW ms \in SUBSET waiting, Takes(ms), Finish(Drained(turn, ms))
      PROVE  \E u \in Turns :
               LET full == Merged(turn.full, turn.sealed, ms) IN
               /\ waiting' = waiting \ ms /\ ms # {}
               /\ Like(u, turn) /\ u.full = Append(full, Reply("note", replies'))
               /\ Returned(u)
               /\ Becomes(turn, "save", u.full) \/ (Goal /\ Becomes(turn, "save", full))
  <2> DEFINE i == Injected(turn, ms)
             t == Drained(turn, ms)
  <2>1. ms \in SUBSET Msgs /\ ms # {} /\ waiting' = waiting \ ms /\ turn.cycles < MaxCycles
    BY <1>5, TakesIs
  <2>2. /\ i \in Turns /\ Like(i, turn) /\ i.cycles = turn.cycles
        /\ i.full = Merged(turn.full, turn.sealed, ms) /\ Len(i.full) >= Len(turn.full)
    BY <2>1, <1>2, InjectedIs DEF Like, Merged
  <2>3. t = [i EXCEPT !.cycles = @ + 1]
    BY DEF Drained
  <2> HIDE DEF i, t
  <2>4. i.cycles + 1 \in 0..MaxCycles
    <3>1. turn.cycles \in 0..MaxCycles /\ MaxCycles \in Nat
      BY <1>2, Limits DEF Turns
    <3> QED
      BY <3>1, <2>1, <2>2
  <2>5. t \in Turns /\ Like(t, turn) /\ t.full = Merged(turn.full, turn.sealed, ms)
        /\ Len(t.full) >= Len(turn.full)
    BY <2>2, <2>3, <2>4 DEF Turns, Like
  <2>6. Finish(t)
    BY <1>5 DEF t
  <2> QED
    BY <2>1, <2>5, <2>6, <1>4
<1>6. ASSUME Finish(turn), UNCHANGED waiting
      PROVE  \E u \in Turns :
               /\ Like(u, turn) /\ u.full = Append(turn.full, Reply("note", replies'))
               /\ Returned(u)
               /\ Becomes(turn, "save", u.full) \/ (Goal /\ Becomes(turn, "save", turn.full))
  <2>1. Like(turn, turn) /\ Len(turn.full) >= Len(turn.full)
    BY <1>2 DEF Like
  <2> QED
    BY <2>1, <1>2, <1>4, <1>6
<1>7. CASE \E ms \in SUBSET waiting : Takes(ms) /\ Finish(Drained(turn, ms))
  BY <1>1, <1>5, <1>7
<1>8. CASE Finish(turn) /\ UNCHANGED waiting
  <2>1. {} \in SUBSET waiting /\ waiting' = waiting \ {}
    BY <1>8
  <2> QED
    BY <1>1, <1>6, <1>8, <2>1
<1> QED
  BY <1>3, <1>7, <1>8
-----------------------------------------------------------------------------
(* What the other actions do.                                              *)

LEMMA StartTurnDoes ==
  ASSUME Sound, NEW m \in Msgs \cup {None}, StartTurn(m)
  PROVE  /\ SameSession /\ UNCHANGED <<replies, promised, faults>>
         /\ turn = Idle /\ turn' \in Turns /\ turn'.phase = "restore" /\ turn'.msg = m
         /\ turn'.full = <<>>
         /\ waiting' = waiting \ {m} /\ m \in waiting \cup {None}
         /\ continue' \in BOOLEAN
<1>1. turn' = [Idle EXCEPT !.phase = "restore", !.msg = m] /\ Idle \in Turns
  BY Limits DEF StartTurn
<1>2. turn' \in Turns /\ turn'.phase = "restore" /\ turn'.msg = m /\ turn'.full = <<>>
  <2>1. Idle.full = <<>>
    BY DEF Idle
  <2> HIDE DEF Idle
  <2> QED
    BY <1>1, <2>1 DEF Turns, TurnPhases
<1> QED
  BY <1>2 DEF StartTurn, SameSession, Sound, TypeOK

LEMMA RestoreTurnDoes ==
  ASSUME Sound, RestoreTurn
  PROVE  /\ turn.phase = "restore"
         /\ mem' = RestoreCheckpoint(mem) /\ disk' \in {disk, mem'}
         /\ turn' \in Turns
         /\ turn' = Idle \/ (turn'.phase = "close" /\ turn'.msg = turn.msg /\ turn'.full = turn.full)
         /\ UNCHANGED <<replies, waiting, continue, promised>>
<1> DEFINE next == [turn EXCEPT !.phase = "close"]
<1>1. turn \in Turns /\ mem \in Sessions
  BY DEF Sound, TypeOK
<1>2. next \in Turns /\ next.phase = "close" /\ next.msg = turn.msg /\ next.full = turn.full
  BY <1>1 DEF Turns, TurnPhases
<1>3. (turn' = next /\ disk' = disk) \/ Save(next)
  BY DEF RestoreTurn
<1> HIDE DEF next
<1>4. disk' \in {disk, mem'} /\ turn' \in {next, Idle}
  BY <1>3, SavingEither
<1> QED
  BY <1>2, <1>4, Limits DEF RestoreTurn

LEMMA CloseTurnDoes ==
  ASSUME Sound, CloseTurn
  PROVE  /\ turn.phase = "close"
         /\ mem' = RestorePending(mem) /\ disk' \in {disk, mem'}
         /\ turn' \in Turns
         /\ turn' = Idle \/ (turn'.phase = "build" /\ turn'.msg = turn.msg /\ turn'.full = turn.full)
         /\ UNCHANGED <<replies, waiting, continue, promised>>
<1> DEFINE next == [turn EXCEPT !.phase = "build"]
<1>1. turn \in Turns /\ mem \in Sessions
  BY DEF Sound, TypeOK
<1>2. next \in Turns /\ next.phase = "build" /\ next.msg = turn.msg /\ next.full = turn.full
  BY <1>1 DEF Turns, TurnPhases
<1>3. (turn' = next /\ disk' = disk) \/ Save(next)
  BY DEF CloseTurn
<1> HIDE DEF next
<1>4. disk' \in {disk, mem'} /\ turn' \in {next, Idle}
  BY <1>3, SavingEither
<1> QED
  BY <1>2, <1>4, Limits DEF CloseTurn

(* The turn is ready to ask: all of its rows are history or the prompt.    *)
Asks(full, thread) ==
  /\ turn'.phase = "ask" /\ turn'.msg = turn.msg /\ turn'.full = full
  /\ turn'.start = Len(full) /\ turn'.boundary = Len(full)
  /\ turn'.thread = thread

LEMMA BuildTurnDoes ==
  ASSUME Sound, BuildTurn
  PROVE  LET ms == {turn.msg} \ {None} IN
         /\ turn.phase = "build" /\ turn' \in Turns /\ mem' \in Sessions
         /\ ms \in SUBSET Msgs
         /\ \E thread \in SUBSET Rows :
              /\ thread # {} => mem.provider # {} /\ thread = mem.provider \cup {Prompt(ms)}
              /\ \/ Asks(Joined(mem.rows, ms), thread)
                 \/ turn' = Idle /\ disk' = disk /\ turn.msg # None
              /\ \/ /\ turn.msg = None /\ disk' = disk
                    /\ mem'.rows = mem.rows
                    /\ mem'.provider = IF thread = {} THEN {} ELSE mem.provider
                    /\ mem'.pending = mem.pending /\ mem'.checkpoint = mem.checkpoint
                 \/ /\ turn.msg \in Msgs
                    /\ mem'.rows = Append(mem.rows, Prompt({turn.msg}))
                    /\ mem'.pending /\ mem'.checkpoint = mem.checkpoint
                    /\ mem'.provider = thread
                    /\ disk' = mem' \/ (disk' = disk /\ turn' = Idle)
         /\ UNCHANGED <<replies, waiting, continue, promised>>
<1> DEFINE ms == {turn.msg} \ {None}
           full == Joined(mem.rows, ms)
           next(thread) == [turn EXCEPT !.phase = "ask", !.full = full, !.start = Len(full),
                                        !.boundary = Len(full), !.thread = thread]
<1>1. turn \in Turns /\ mem \in Sessions /\ turn.phase = "build" /\ turn.msg \in Msgs \cup {None}
  BY DEF BuildTurn, Sound, TypeOK, Turns
<1>2. ms \in SUBSET Msgs /\ mem.rows \in Seq(Rows) /\ mem.provider \in SUBSET Rows
      /\ mem.pending \in BOOLEAN /\ mem.checkpoint \in Checkpoints
  BY <1>1 DEF Sessions
<1>3. PICK resumes \in BOOLEAN :
        LET thread == IF resumes /\ mem.provider # {} THEN mem.provider \cup {Prompt(ms)} ELSE {} IN
        IF turn.msg = None
        THEN /\ mem' = [mem EXCEPT !.provider = IF thread = {} THEN {} ELSE @]
             /\ turn' = next(thread)
             /\ UNCHANGED <<disk, faults>>
        ELSE /\ mem' = Accepted([mem EXCEPT !.provider = thread], turn.msg)
             /\ Save(next(thread))
  BY DEF BuildTurn
<1> DEFINE thread == IF resumes /\ mem.provider # {} THEN mem.provider \cup {Prompt(ms)} ELSE {}
<1>4. thread \in SUBSET Rows
      /\ (thread # {} => mem.provider # {} /\ thread = mem.provider \cup {Prompt(ms)})
  BY <1>2, SmallRows
<1>5. full \in Seq(Rows) /\ Len(full) \in Nat
  <2> HIDE DEF ms
  <2>1. Joined(mem.rows, ms) \in Seq(Rows)
    BY <1>2, JoinedIs
  <2> QED
    BY <2>1
<1>6. /\ turn.msg = None => /\ mem' = [mem EXCEPT !.provider = IF thread = {} THEN {} ELSE @]
                           /\ turn' = next(thread) /\ disk' = disk
      /\ turn.msg # None => /\ mem' = Accepted([mem EXCEPT !.provider = thread], turn.msg)
                            /\ Save(next(thread))
  BY <1>3
<1> HIDE DEF thread, full, ms
<1>7. next(thread) \in Turns
  BY <1>1, <1>4, <1>5 DEF Turns, TurnPhases, Asking
<1>8. ASSUME turn' = next(thread)
      PROVE  Asks(full, thread)
  BY <1>1, <1>8 DEF Asks, Turns
<1> HIDE DEF next
<1>9. ASSUME turn.msg = None
      PROVE  /\ disk' = disk /\ mem' \in Sessions /\ mem'.rows = mem.rows
             /\ mem'.provider = IF thread = {} THEN {} ELSE mem.provider
             /\ mem'.pending = mem.pending /\ mem'.checkpoint = mem.checkpoint
             /\ turn' \in Turns /\ Asks(full, thread)
  <2>1. mem' = [mem EXCEPT !.provider = IF thread = {} THEN {} ELSE @] /\ turn' = next(thread) /\ disk' = disk
    BY <1>6, <1>9
  <2>2. (IF thread = {} THEN {} ELSE mem.provider) \in SUBSET Rows
    BY <1>2
  <2> QED
    BY <2>1, <2>2, <1>1, <1>7, <1>8 DEF Sessions
<1>10. ASSUME turn.msg # None
       PROVE  /\ turn.msg \in Msgs
              /\ mem' \in Sessions
              /\ mem'.rows = Append(mem.rows, Prompt({turn.msg}))
              /\ mem'.pending /\ mem'.checkpoint = mem.checkpoint
              /\ mem'.provider = thread
              /\ turn' \in Turns
              /\ \/ disk' = mem' /\ Asks(full, thread)
                 \/ disk' = disk /\ turn' = Idle
  <2>1. turn.msg \in Msgs /\ mem' = Accepted([mem EXCEPT !.provider = thread], turn.msg) /\ Save(next(thread))
    BY <1>1, <1>6, <1>10
  <2>2. Append(mem.rows, Prompt({turn.msg})) \in Seq(Rows)
    <3>1. Prompt({turn.msg}) \in Rows
      BY <2>1, SmallRows
    <3> QED
      BY <3>1, <1>2, AppendProperties
  <2>3. \/ disk' = mem' /\ turn' = next(thread)
        \/ disk' = disk /\ turn' = Idle
    BY <2>1, SavingEither
  <2>4. /\ mem' \in Sessions
        /\ mem'.rows = Append(mem.rows, Prompt({turn.msg}))
        /\ mem'.pending /\ mem'.checkpoint = mem.checkpoint
        /\ mem'.provider = thread
    BY <2>1, <2>2, <1>1, <1>4 DEF Accepted, Sessions
  <2> QED
    BY <2>1, <2>3, <2>4, <1>7, <1>8, Limits
<1>11. UNCHANGED <<replies, waiting, continue, promised>>
  BY DEF BuildTurn
<1> QED
  <2>1. CASE turn.msg = None
    BY <2>1, <1>1, <1>2, <1>4, <1>9, <1>11 DEF ms, full
  <2>2. CASE turn.msg # None
    BY <2>2, <1>1, <1>2, <1>4, <1>10, <1>11 DEF ms, full
  <2> QED
    BY <2>1, <2>2

LEMMA PersistTurnDoes ==
  ASSUME Sound, PersistTurn
  PROVE  /\ turn.phase = "save" /\ turn' = Idle
         /\ NewRows(turn) \in Seq(Rows)
         /\ mem' \in Sessions /\ mem'.rows = mem.rows \o NewRows(turn)
         /\ mem'.provider = mem.provider
         /\ \/ mem'.checkpoint = NoCheckpoint /\ ~ mem'.pending
            \/ ArchiveFails /\ mem'.checkpoint = mem.checkpoint /\ mem'.pending = mem.pending
         /\ disk' \in {disk, mem'}
         /\ promised' \subseteq promised \cup turn.injected
         /\ UNCHANGED <<replies, waiting, continue>>
<1>1. turn.phase = "save" /\ turn \in Turns /\ mem \in Sessions
  BY DEF PersistTurn, Sound, TypeOK
<1>2. turn.start \in 0..Len(turn.full) /\ turn.full \in Seq(Rows)
  <2>1. turn.full \in Seq(Rows) /\ turn.start \in Nat /\ turn.boundary \in Nat
    BY <1>1 DEF Turns
  <2>2. turn.start <= turn.boundary /\ turn.boundary <= Len(turn.full)
    BY <1>1 DEF Sound, Placed, Writing
  <2>3. Len(turn.full) \in Nat
    BY <2>1
  <2> QED
    BY <2>1, <2>2, <2>3
<1>3. NewRows(turn) \in Seq(Rows)
  BY <1>2, AfterType DEF NewRows
<1>4. mem.rows \o NewRows(turn) \in Seq(Rows)
  BY <1>1, <1>3, ConcatProperties DEF Sessions
<1>5. NoCheckpoint \in Checkpoints
  BY DEF Checkpoints
<1>6. /\ Persisted(mem, turn) \in Sessions
      /\ Persisted(mem, turn).rows = mem.rows \o NewRows(turn)
      /\ Persisted(mem, turn).provider = mem.provider
      /\ Persisted(mem, turn).checkpoint = NoCheckpoint /\ ~ Persisted(mem, turn).pending
  BY <1>1, <1>4, <1>5 DEF Persisted, Sessions
<1>7. CASE mem' = Persisted(mem, turn) /\ Save(Idle)
  <2>1. disk' \in {disk, mem'} /\ turn' = Idle
    BY <1>7, SavingEither
  <2> QED
    BY <2>1, <1>1, <1>3, <1>6, <1>7 DEF PersistTurn
<1>8. CASE /\ ArchiveFails /\ mem' = [mem EXCEPT !.rows = Persisted(mem, turn).rows]
           /\ turn' = Idle /\ disk' = disk
  <2>1. /\ mem' \in Sessions /\ mem'.rows = mem.rows \o NewRows(turn)
        /\ mem'.provider = mem.provider
        /\ mem'.checkpoint = mem.checkpoint /\ mem'.pending = mem.pending
    BY <1>1, <1>4, <1>6, <1>8 DEF Sessions
  <2> QED
    BY <2>1, <1>1, <1>3, <1>8 DEF PersistTurn
<1> QED
  BY <1>7, <1>8 DEF PersistTurn

LEMMA StopDoes ==
  ASSUME Sound, Stop
  PROVE  /\ turn' = Idle /\ mem' = RestoreCheckpoint(mem) /\ disk' \in {disk, mem'}
         /\ UNCHANGED <<replies, waiting, continue, promised>>
<1>1. (turn' = Idle /\ disk' = disk) \/ Save(Idle)
  BY DEF Stop
<1>2. turn' = Idle /\ disk' \in {disk, mem'}
  BY <1>1, SavingEither
<1> QED
  BY <1>2 DEF Stop

LEMMA NewSessionDoes ==
  ASSUME Sound, NewSession
  PROVE  /\ turn' = Idle /\ disk' \in {disk, mem'}
         /\ mem' \in Sessions /\ mem'.rows = <<>> /\ mem'.provider = {}
         /\ mem'.checkpoint = NoCheckpoint
         /\ promised' = {} /\ UNCHANGED <<replies, waiting, continue>>
<1> DEFINE s == IF turn = Idle THEN Recover(mem) ELSE RestoreCheckpoint(mem)
<1>1. mem' = [s EXCEPT !.rows = <<>>, !.provider = {}] /\ Save(Idle)
      /\ promised' = {} /\ UNCHANGED <<replies, waiting, continue>>
  BY DEF NewSession
<1>2. mem \in Sessions
  BY DEF Sound, TypeOK
<1>3. RestoreCheckpoint(mem) \in Sessions /\ RestoreCheckpoint(mem).checkpoint = NoCheckpoint
  BY <1>2, RestoreIs
<1>4. Recover(mem) \in Sessions /\ Recover(mem).checkpoint = NoCheckpoint
  BY <1>3, PendingIs DEF Recover
<1>5. s \in Sessions /\ s.checkpoint = NoCheckpoint
  BY <1>3, <1>4
<1> HIDE DEF s
<1>6. <<>> \in Seq(Rows)
  OBVIOUS
<1>7. turn' = Idle /\ disk' \in {disk, mem'}
  BY <1>1, SavingEither
<1> QED
  BY <1>1, <1>5, <1>6, <1>7 DEF Sessions
-----------------------------------------------------------------------------
(* The rows of the turn grow: rows are appended, and the messages ms may   *)
(* be merged into the last one.                                            *)

Fresh(row, ms) ==
  \/ row.kind \in ReplyKinds /\ \A k \in row.of : k > Saved
  \/ IsUser(row) /\ row.of \cap ms # {}

Grows(new, ms) ==
  LET old == turn.full
      opening(rows) == After(rows, turn.start)
  IN
  /\ new \in Seq(Rows) /\ Len(old) <= Len(new)
  /\ \A row \in ToSet(new) : IsUser(row) => \A m \in row.of : m \in ms \/ Mentions(old, {m})
  /\ \A k \in 0..Len(old) : \A row \in ToSet(After(old, k)) : Knows(ToSet(After(new, k)), row)
  /\ \A i \in 1..Len(old) : new[i] = old[i] \/ (i = Len(old) /\ turn.sealed # Len(old) /\ ms # {})
  /\ opening(new) # <<>> =>
       \/ opening(old) # <<>> /\ Head(opening(new)) = Head(opening(old))
       \/ Fresh(Head(opening(new)), ms)

LEMMA HeadOfAppend ==
  ASSUME NEW S, NEW rows \in Seq(S), NEW row \in S
  PROVE  /\ Head(Append(rows, row)) = IF rows = <<>> THEN row ELSE Head(rows)
         /\ rows # <<>> => Head(rows) = rows[1] /\ Head(rows) \in S
<1>1. /\ Len(Append(rows, row)) = Len(rows) + 1 /\ Append(rows, row)[Len(rows) + 1] = row
      /\ \A i \in 1..Len(rows) : Append(rows, row)[i] = rows[i]
  BY AppendProperties
<1>2. Head(Append(rows, row)) = Append(rows, row)[1]
  BY DEF Head
<1>3. CASE rows = <<>>
  BY <1>1, <1>2, <1>3
<1>4. CASE rows # <<>>
  <2>1. 1 \in 1..Len(rows)
    BY <1>4, EmptySeq
  <2>2. Head(rows) = rows[1] /\ rows[1] \in S
    BY <2>1, <1>4 DEF Head
  <2> QED
    BY <1>1, <1>2, <1>4, <2>1, <2>2
<1> QED
  BY <1>3, <1>4

LEMMA GrowsNot ==
  ASSUME turn.full \in Seq(Rows), turn.start \in 0..Len(turn.full), NEW ms
  PROVE  Grows(turn.full, ms)
<1>1. \A k \in 0..Len(turn.full) : \A row \in ToSet(After(turn.full, k)) :
        Knows(ToSet(After(turn.full, k)), row)
  BY DEF Knows
<1>2. \A row \in ToSet(turn.full) : IsUser(row) => \A m \in row.of : Mentions(turn.full, {m})
  BY DEF Mentions
<1>3. Len(turn.full) <= Len(turn.full)
  OBVIOUS
<1> QED
  BY <1>1, <1>2, <1>3, Zenon DEF Grows

(* A row is appended to what has grown.                                    *)
LEMMA GrowsMore ==
  ASSUME turn.full \in Seq(Rows), turn.start \in 0..Len(turn.full), NEW ms,
         NEW new, Grows(new, ms), NEW row \in Rows,
         IsUser(row) => row.of \subseteq ms,
         After(new, turn.start) = <<>> => Fresh(row, ms)
  PROVE  Grows(Append(new, row), ms)
<1> DEFINE old == turn.full
           longer == Append(new, row)
<1>1. /\ new \in Seq(Rows) /\ Len(old) <= Len(new)
      /\ \A r \in ToSet(new) : IsUser(r) => \A m \in r.of : m \in ms \/ Mentions(old, {m})
      /\ \A k \in 0..Len(old) : \A r \in ToSet(After(old, k)) : Knows(ToSet(After(new, k)), r)
      /\ \A i \in 1..Len(old) : new[i] = old[i] \/ (i = Len(old) /\ turn.sealed # Len(old) /\ ms # {})
      /\ After(new, turn.start) # <<>> =>
           \/ /\ After(old, turn.start) # <<>>
              /\ Head(After(new, turn.start)) = Head(After(old, turn.start))
           \/ Fresh(Head(After(new, turn.start)), ms)
  BY DEF Grows
<1>2. /\ longer \in Seq(Rows) /\ Len(longer) = Len(new) + 1
      /\ \A i \in 1..Len(new) : longer[i] = new[i]
      /\ ToSet(longer) = ToSet(new) \cup {row}
  BY <1>1, AppendProperties, RangeOfAppend
<1>3. ASSUME NEW k \in 0..Len(old)
      PROVE  /\ After(new, k) \in Seq(Rows) /\ After(longer, k) = Append(After(new, k), row)
             /\ ToSet(After(longer, k)) = ToSet(After(new, k)) \cup {row}
  <2>1. k \in 0..Len(new)
    BY <1>1
  <2>2. After(new, k) \in Seq(Rows) /\ After(longer, k) = Append(After(new, k), row)
    BY <1>1, <2>1, AfterType, AfterAppend
  <2> QED
    BY <2>2, RangeOfAppend
<1>4. \A r \in ToSet(longer) : IsUser(r) => \A m \in r.of : m \in ms \/ Mentions(old, {m})
  BY <1>1, <1>2
<1>5. \A k \in 0..Len(old) : \A r \in ToSet(After(old, k)) : Knows(ToSet(After(longer, k)), r)
  BY <1>1, <1>3 DEF Knows
<1>6. \A i \in 1..Len(old) : longer[i] = old[i] \/ (i = Len(old) /\ turn.sealed # Len(old) /\ ms # {})
  <2>1. \A i \in 1..Len(old) : i \in 1..Len(new)
    BY <1>1
  <2> QED
    BY <2>1, <1>1, <1>2
<1>7. /\ After(new, turn.start) \in Seq(Rows)
      /\ After(longer, turn.start) = Append(After(new, turn.start), row)
  BY <1>3
<1>8. Head(After(longer, turn.start)) =
        IF After(new, turn.start) = <<>> THEN row ELSE Head(After(new, turn.start))
  BY <1>7, HeadOfAppend
<1>9. Len(old) <= Len(longer)
  BY <1>1, <1>2
<1> HIDE DEF longer
<1> QED
  BY <1>1, <1>2, <1>4, <1>5, <1>6, <1>8, <1>9 DEF Grows, longer

LEMMA GrowsByReply ==
  ASSUME turn.full \in Seq(Rows), turn.start \in 0..Len(turn.full), NEW ms,
         NEW new, Grows(new, ms), NEW k \in ReplyKinds, NEW n \in 1..LastReply, n > Saved
  PROVE  /\ Grows(Append(new, Reply(k, n)), ms)
         /\ Append(new, Reply(k, n)) \in Seq(Rows)
         /\ After(Append(new, Reply(k, n)), turn.start) # <<>>
         /\ ~ EndsWithUser(Append(new, Reply(k, n)))
<1>1. /\ Reply(k, n) \in Rows /\ Fresh(Reply(k, n), ms) /\ ~ IsUser(Reply(k, n))
  BY SmallRows DEF Reply, Fresh, IsUser, ReplyKinds
<1>2. /\ new \in Seq(Rows) /\ turn.start \in 0..Len(new)
  BY DEF Grows
<1>3. After(new, turn.start) \in Seq(Rows)
      /\ After(Append(new, Reply(k, n)), turn.start) = Append(After(new, turn.start), Reply(k, n))
  BY <1>1, <1>2, AfterType, AfterAppend
<1>4. After(Append(new, Reply(k, n)), turn.start) # <<>>
  BY <1>1, <1>3, LastOfAppend
<1>5. ~ EndsWithUser(Append(new, Reply(k, n))) /\ Append(new, Reply(k, n)) \in Seq(Rows)
  BY <1>1, <1>2, LastOfAppend, AppendProperties DEF EndsWithUser
<1> QED
  BY <1>1, <1>4, <1>5, GrowsMore

LEMMA GrowsByMerge ==
  ASSUME turn.full \in Seq(Rows), turn.start \in 0..Len(turn.full),
         NEW ms \in SUBSET Msgs, ms # {}
  PROVE  Grows(Merged(turn.full, turn.sealed, ms), ms)
<1> DEFINE old == turn.full
           new == Merged(old, turn.sealed, ms)
<1>1. CASE turn.sealed = Len(old) \/ ~ EndsWithUser(old)
  <2>1. new = Append(old, Prompt(ms))
    BY <1>1 DEF Merged, Joined
  <2>2. Prompt(ms) \in Rows /\ Prompt(ms).of \subseteq ms /\ Fresh(Prompt(ms), ms)
    BY SmallRows DEF Prompt, Fresh, IsUser
  <2>3. Grows(old, ms)
    BY GrowsNot
  <2> QED
    BY <2>1, <2>2, <2>3, GrowsMore
<1>2. CASE turn.sealed # Len(old) /\ EndsWithUser(old)
  <2> DEFINE row == Prompt(Last(old).of \cup ms)
  <2>1. new = Append(Front(old), row)
    BY <1>2 DEF Merged, Joined
  <2>2. old \in Seq(Rows) /\ old # <<>> /\ IsUser(Last(old)) /\ Last(old) \in Rows
    BY <1>2, LastAndFront DEF EndsWithUser
  <2>3. /\ Last(old).of \in SUBSET Msgs /\ row \in Rows
    BY <1>2, JoinedIs
  <2>4. IsUser(row) /\ row.of = Last(old).of \cup ms /\ Fresh(row, ms)
    BY DEF Prompt, IsUser, Fresh
  <2>5. /\ Len(old) \in Nat \ {0} /\ Front(old) \in Seq(Rows) /\ Len(Front(old)) = Len(old) - 1
        /\ \A i \in 1..Len(old) - 1 : Front(old)[i] = old[i]
        /\ ToSet(Front(old)) \subseteq ToSet(old) /\ Last(old) \in ToSet(old)
    BY <2>2, LastAndFront
  <2> HIDE DEF row, old, new
  <2>6. /\ new \in Seq(Rows) /\ Len(new) = Len(old)
        /\ \A i \in 1..Len(old) - 1 : new[i] = old[i]
        /\ ToSet(new) = ToSet(Front(old)) \cup {row}
    BY <2>1, <2>3, <2>5, AppendProperties, RangeOfAppend
  <2>7. \A r \in ToSet(new) : IsUser(r) => \A m \in r.of : m \in ms \/ Mentions(old, {m})
    BY <2>2, <2>4, <2>5, <2>6 DEF Mentions
  <2>8. ASSUME NEW k \in 0..Len(old)
        PROVE  /\ k = Len(old) => After(new, k) = <<>> /\ After(old, k) = <<>>
               /\ k < Len(old) =>
                    /\ After(old, k) # <<>> /\ Last(After(old, k)) = Last(old)
                    /\ After(new, k) = Append(Front(After(old, k)), row)
    BY <2>1, <2>2, <2>3, AfterReplace
  <2>9. ASSUME NEW k \in 0..Len(old), NEW r \in ToSet(After(old, k))
        PROVE  Knows(ToSet(After(new, k)), r)
    <3>1. k < Len(old)
      <4>1. ToSet(<<>>) = {}
        BY DEF ToSet
      <4>2. Len(old) \in Nat /\ (k = Len(old) \/ k < Len(old))
        BY <2>5
      <4> QED
        BY <2>8, <4>1, <4>2
    <3>2. After(old, k) \in Seq(Rows)
      BY <2>2, AfterType
    <3>3. /\ ToSet(After(old, k)) = ToSet(Front(After(old, k))) \cup {Last(old)}
          /\ Front(After(old, k)) \in Seq(Rows)
      BY <2>8, <3>1, <3>2, LastAndFront
    <3>4. ToSet(After(new, k)) = ToSet(Front(After(old, k))) \cup {row}
      <4> DEFINE front == Front(After(old, k))
      <4>1. After(new, k) = Append(front, row)
        BY <2>8, <3>1
      <4>2. front \in Seq(Rows)
        BY <3>3
      <4> HIDE DEF front
      <4>3. ToSet(Append(front, row)) = ToSet(front) \cup {row}
        BY <2>3, <4>2, RangeOfAppend
      <4> QED
        BY <4>1, <4>3 DEF front
    <3> QED
      BY <2>2, <2>4, <3>3, <3>4 DEF Knows
  <2>10. \A i \in 1..Len(old) : new[i] = old[i] \/ i = Len(old)
    BY <2>5, <2>6
  <2>11. ASSUME After(new, turn.start) # <<>>
         PROVE  \/ /\ After(old, turn.start) # <<>>
                   /\ Head(After(new, turn.start)) = Head(After(old, turn.start))
                \/ Fresh(Head(After(new, turn.start)), ms)
    <3>1. turn.start \in 0..Len(old) /\ (turn.start = Len(old) \/ turn.start < Len(old))
      BY <2>5 DEF old
    <3>2. /\ After(old, turn.start) # <<>>
          /\ After(new, turn.start) = Append(Front(After(old, turn.start)), row)
      BY <2>8, <2>11, <3>1
    <3>3. After(old, turn.start) \in Seq(Rows)
      BY <2>2, <3>1, AfterType
    <3> DEFINE tail == After(old, turn.start)
    <3>4. /\ Front(tail) \in Seq(Rows) /\ Len(tail) \in Nat \ {0}
          /\ Len(Front(tail)) = Len(tail) - 1
          /\ \A i \in 1..Len(tail) - 1 : Front(tail)[i] = tail[i]
      BY <3>2, <3>3, LastAndFront
    <3>5. Head(After(new, turn.start)) = IF Front(tail) = <<>> THEN row ELSE Head(Front(tail))
      BY <2>3, <3>2, <3>4, HeadOfAppend
    <3>6. ASSUME Front(tail) # <<>>
          PROVE  Head(Front(tail)) = Head(tail)
      <4> HIDE DEF tail
      <4>1. 1 \in 1..Len(tail) - 1
        BY <3>4, <3>6, EmptySeq
      <4>2. Head(Front(tail)) = Front(tail)[1] /\ Head(tail) = tail[1]
        BY DEF Head
      <4> QED
        BY <3>4, <4>1, <4>2
    <3> QED
      BY <2>4, <3>2, <3>5, <3>6
  <2>12. Len(old) <= Len(new)
    BY <2>5, <2>6
  <2>13. \A i \in 1..Len(old) : new[i] = old[i] \/ (i = Len(old) /\ turn.sealed # Len(old) /\ ms # {})
    BY <2>10, <1>2 DEF old
  <2>14. Grows(new, ms)
    BY <2>6, <2>7, <2>9, <2>11, <2>12, <2>13 DEF Grows, old
  <2> QED
    BY <2>14 DEF new, old
<1> QED
  BY <1>1, <1>2
-----------------------------------------------------------------------------
(* What every step of the runner has in common.                            *)

Carries ==
  /\ turn'.phase \in Writing
  /\ turn'.msg = turn.msg /\ turn'.start = turn.start
  /\ turn.boundary <= turn'.boundary /\ turn'.boundary <= Len(turn'.full)
  /\ turn'.phase \in Handling => turn'.iteration < MaxIterations /\ replies' > 0
  /\ Grows(turn'.full, waiting \ waiting')

RunnerKeeps ==
  /\ turn.phase \in Asking
  /\ mem' \in Sessions /\ disk' \in {disk, mem'}
  /\ mem'.rows = mem.rows /\ mem'.pending = mem.pending
  /\ mem'.checkpoint = mem.checkpoint \/ mem'.checkpoint # NoCheckpoint
  /\ replies' \in 0..LastReply /\ replies <= replies'
  /\ waiting' \subseteq waiting /\ promised' = promised
  /\ turn' \in Turns /\ (turn' = Idle \/ Carries)

LEMMA RunnerTurn ==
  ASSUME Sound, turn.phase \in Asking
  PROVE  /\ turn.full \in Seq(Rows) /\ turn.start \in 0..Len(turn.full)
         /\ \A ms : Grows(turn.full, ms)
         /\ turn.phase \in Handling => replies \in 1..LastReply /\ replies > Saved
         /\ turn.phase = "ask" => Saved = replies
<1>1. turn.full \in Seq(Rows) /\ turn.start \in 0..Len(turn.full)
  <2>1. /\ turn.full \in Seq(Rows) /\ Len(turn.full) \in Nat
        /\ turn.start \in 0..turn.boundary /\ turn.boundary \in 0..Len(turn.full)
    BY RunnerState
  <2> QED
    BY <2>1
<1>2. turn.phase \in Handling => replies \in 1..LastReply /\ replies > Saved
  <2>1. turn.phase \in Handling => replies \in 1..LastReply
    BY RunnerState
  <2> QED
    BY <2>1, Limits DEF Saved
<1> QED
  BY <1>1, <1>2, GrowsNot DEF Saved, Handling

LEMMA CarriesIf ==
  ASSUME Sound, turn.phase \in Asking, NEW o, Heard(o) \/ o = turn,
         NEW phase \in Writing, NEW full, Becomes(o, phase, full),
         Grows(full, waiting \ waiting'),
         phase \in Handling => replies' > 0
  PROVE  turn' \in Turns /\ (turn' = Idle \/ Carries)
<1>1. turn' \in Turns
  BY DEF Becomes
<1>2. CASE turn' = Idle
  BY <1>1, <1>2
<1>3. CASE /\ Like(turn', o) /\ turn'.phase = phase /\ turn'.full = full
           /\ phase \in Handling => turn'.iteration < MaxIterations
  <2>1. /\ Len(turn.full) \in Nat /\ turn.boundary \in 0..Len(turn.full)
        /\ full \in Seq(Rows) /\ Len(turn.full) <= Len(full) /\ Len(full) \in Nat
    BY RunnerState DEF Grows
  <2>2. /\ o.msg = turn.msg /\ o.start = turn.start
        /\ o.boundary = turn.boundary \/ o.boundary = Len(turn.full)
    BY DEF Heard
  <2>3. turn'.msg = turn.msg /\ turn'.start = turn.start
        /\ turn'.boundary = o.boundary
    BY <1>3, <2>2 DEF Like
  <2>4. turn.boundary <= turn'.boundary /\ turn'.boundary <= Len(turn'.full)
    BY <1>3, <2>1, <2>2, <2>3
  <2> QED
    BY <1>1, <1>3, <2>3, <2>4 DEF Carries
<1> QED
  BY <1>1, <1>2, <1>3 DEF Becomes

LEMMA CheckpointedKeeps ==
  ASSUME NEW phase, phase # "none", NEW n, NEW provider, Checkpointed(phase, n, provider)
  PROVE  /\ mem' \in Sessions /\ disk' \in {disk, mem'}
         /\ mem'.rows = mem.rows /\ mem'.pending = mem.pending
         /\ mem'.checkpoint # NoCheckpoint
BY DEF Checkpointed, NoCheckpoint

LEMMA AnswerMerged ==
  ASSUME NEW full \in Seq(Rows), NEW n \in 1..LastReply, NEW sealed, NEW ms
  PROVE  LET answered == Append(full, Reply("answer", n)) IN
         Merged(answered, sealed, ms) = Append(answered, Prompt(ms))
<1>1. Reply("answer", n) \in Rows /\ ~ IsUser(Reply("answer", n))
  BY SmallRows DEF ReplyKinds, Reply, IsUser
<1>2. ~ EndsWithUser(Append(full, Reply("answer", n)))
  BY <1>1, LastOfAppend DEF EndsWithUser
<1> QED
  BY <1>2 DEF Merged, Joined

(* The rows that a step of the runner may leave the turn with.             *)
LEMMA RunnerGrows ==
  ASSUME Sound, turn.phase \in Asking, NEW ms \in SUBSET Msgs, NEW n \in 1..LastReply, n > Saved
  PROVE  LET full == turn.full
             answered == Append(full, Reply("answer", n))
         IN
         /\ \A k \in ReplyKinds : Grows(Append(full, Reply(k, n)), ms)
         /\ Grows(Append(Append(full, Reply("result", n)), Reply("note", n)), ms)
         /\ Grows(Append(answered, Prompt({})), ms)
         /\ \A sealed : Grows(Merged(answered, sealed, ms), ms)
         /\ ms # {} => /\ Grows(Merged(full, turn.sealed, ms), ms)
                       /\ Grows(Append(Merged(full, turn.sealed, ms), Reply("note", n)), ms)
<1> DEFINE full == turn.full
           answered == Append(full, Reply("answer", n))
<1>1. full \in Seq(Rows) /\ turn.start \in 0..Len(full) /\ Grows(full, ms)
  BY RunnerTurn
<1>2. \A k \in ReplyKinds : Grows(Append(full, Reply(k, n)), ms)
  BY <1>1, GrowsByReply
<1>3. "result" \in ReplyKinds /\ "note" \in ReplyKinds /\ "answer" \in ReplyKinds
  BY DEF ReplyKinds
<1>4. Grows(Append(Append(full, Reply("result", n)), Reply("note", n)), ms)
  BY <1>1, <1>2, <1>3, GrowsByReply
<1>5. Grows(answered, ms) /\ answered \in Seq(Rows) /\ After(answered, turn.start) # <<>>
  BY <1>1, <1>3, GrowsByReply
<1>6. ASSUME NEW taken, taken \subseteq ms
      PROVE  Grows(Append(answered, Prompt(taken)), ms)
  <2>1. Prompt(taken) \in Rows /\ Prompt(taken).of \subseteq ms
    BY <1>6, SmallRows DEF Prompt
  <2> HIDE DEF answered, full
  <2> QED
    BY <2>1, <1>1, <1>5, GrowsMore DEF full
<1>7. \A sealed : Merged(answered, sealed, ms) = Append(answered, Prompt(ms))
  BY <1>1, AnswerMerged
<1>8. \A sealed : Grows(Merged(answered, sealed, ms), ms)
  BY <1>6, <1>7
<1>9. ASSUME ms # {}
      PROVE  /\ Grows(Merged(full, turn.sealed, ms), ms)
             /\ Grows(Append(Merged(full, turn.sealed, ms), Reply("note", n)), ms)
  <2>1. Grows(Merged(full, turn.sealed, ms), ms)
    BY <1>1, <1>9, GrowsByMerge
  <2> QED
    BY <2>1, <1>1, <1>3, GrowsByReply
<1>10. Grows(Append(answered, Prompt({})), ms)
  BY <1>6
<1> QED
  BY <1>2, <1>4, <1>8, <1>9, <1>10

LEMMA TakenIs ==
  ASSUME Sound, NEW ms \in SUBSET waiting, waiting' = waiting \ ms
  PROVE  waiting \ waiting' = ms /\ ms \in SUBSET Msgs /\ waiting' \subseteq waiting
BY DEF Sound, TypeOK

LEMMA RunnerStepKeeps ==
  ASSUME Sound, RunnerStep
  PROVE  RunnerKeeps
<1> DEFINE taken == waiting \ waiting'
<1>0. /\ mem \in Sessions /\ replies \in 0..LastReply /\ LastReply \in Nat
      /\ \A n \in Nat : n <= n + 1 /\ n <= n
  BY Limits DEF Sound, TypeOK
<1>1. ASSUME UNCHANGED waiting
      PROVE  taken \in SUBSET Msgs /\ taken = {} /\ waiting' \subseteq waiting
  BY <1>1
<1>2. ASSUME NEW o, Heard(o)
      PROVE  o.full = turn.full
  BY <1>2 DEF Heard
<1>3. ASSUME SameSession
      PROVE  /\ mem' \in Sessions /\ disk' \in {disk, mem'}
             /\ mem'.rows = mem.rows /\ mem'.pending = mem.pending
             /\ mem'.checkpoint = mem.checkpoint
  BY <1>0, <1>3 DEF SameSession
<1>4. ASSUME replies' = replies + 1, replies' \in 1..LastReply
      PROVE  replies' \in 0..LastReply /\ replies <= replies' /\ replies' > 0
  BY <1>0, <1>4
<1>5. ASSUME replies' = replies
      PROVE  replies' \in 0..LastReply /\ replies <= replies'
  BY <1>0, <1>5
<1>6. ASSUME turn.phase = "ask", replies' = replies + 1, replies' \in 1..LastReply, UNCHANGED waiting
      PROVE  /\ turn.phase \in Asking
             /\ Grows(turn.full, taken) /\ Grows(CutOffRows(turn.full), taken)
             /\ \A k \in ReplyKinds : Grows(Append(turn.full, Reply(k, replies')), taken)
  <2>1. turn.phase \in Asking
    BY <1>6 DEF Asking
  <2>2. replies' > Saved /\ taken \in SUBSET Msgs
    BY <1>0, <1>1, <1>6, <2>1, RunnerTurn
  <2> HIDE DEF taken
  <2> QED
    BY <1>6, <2>1, <2>2, RunnerTurn, RunnerGrows DEF CutOffRows
<1> HIDE DEF taken
<1>7. CASE ModelCallsTools
  <2>1. /\ turn.phase = "ask" /\ replies' = replies + 1 /\ replies' \in 1..LastReply
        /\ Checkpointed("awaiting_tools", replies', mem.provider)
        /\ UNCHANGED <<waiting, continue, promised>>
    BY <1>7, ModelCallsToolsDoes
  <2>2. PICK o : Heard(o) /\ Becomes(o, "tools", Append(o.full, Reply("calls", replies')))
    BY <1>7, ModelCallsToolsDoes
  <2>3. /\ turn.phase \in Asking /\ Grows(Append(o.full, Reply("calls", replies')), taken)
        /\ waiting' \subseteq waiting /\ replies' \in 0..LastReply /\ replies <= replies' /\ replies' > 0
    BY <2>1, <2>2, <1>1, <1>2, <1>4, <1>6 DEF ReplyKinds
  <2>4. turn' \in Turns /\ (turn' = Idle \/ Carries)
    BY <2>2, <2>3, CarriesIf DEF Writing, Asking, taken
  <2> QED
    BY <2>1, <2>3, <2>4, CheckpointedKeeps DEF RunnerKeeps
<1>8. CASE ToolsReturn
  <2>1. /\ turn.phase = "tools" /\ replies \in 1..LastReply
        /\ Becomes(turn, "afterTools", Append(turn.full, Reply("result", replies)))
        /\ \E provider : Checkpointed("tools_completed", replies, provider)
        /\ UNCHANGED <<replies, waiting, continue, promised>>
    BY <1>8, ToolsReturnDoes
  <2>2. turn.phase \in Asking /\ turn.phase \in Handling
    BY <2>1 DEF Asking, Handling
  <2>3. Grows(Append(turn.full, Reply("result", replies)), taken)
    BY <2>1, <2>2, <1>1, RunnerTurn, RunnerGrows DEF ReplyKinds
  <2>4. turn' \in Turns /\ (turn' = Idle \/ Carries)
    BY <2>1, <2>2, <2>3, CarriesIf DEF Writing, Asking, taken
  <2> QED
    BY <2>1, <2>2, <2>4, <1>1, <1>5, CheckpointedKeeps DEF RunnerKeeps
<1>9. CASE ToolsFail
  <2>1. /\ turn.phase = "tools" /\ replies \in 1..LastReply
        /\ Becomes(turn, "failed",
                   Append(Append(turn.full, Reply("result", replies)), Reply("note", replies)))
        /\ SameSession /\ UNCHANGED <<replies, waiting, continue, promised>>
    BY <1>9, ToolsFailDoes
  <2>2. turn.phase \in Asking /\ turn.phase \in Handling
    BY <2>1 DEF Asking, Handling
  <2>3. Grows(Append(Append(turn.full, Reply("result", replies)), Reply("note", replies)), taken)
    BY <2>1, <2>2, <1>1, RunnerTurn, RunnerGrows
  <2>4. turn' \in Turns /\ (turn' = Idle \/ Carries)
    BY <2>1, <2>2, <2>3, CarriesIf DEF Writing, Asking, taken
  <2> QED
    BY <2>1, <2>2, <2>4, <1>1, <1>3, <1>5 DEF RunnerKeeps
<1>10. CASE AfterTools
  <2>1. /\ turn.phase = "afterTools" /\ SameSession
        /\ UNCHANGED <<replies, continue, promised>>
        /\ \/ Becomes(turn, "ask", turn.full) /\ UNCHANGED waiting
           \/ \E ms \in SUBSET waiting :
                /\ ms # {} /\ waiting' = waiting \ ms
                /\ Becomes(turn, "ask", Merged(turn.full, turn.sealed, ms))
    BY <1>10, AfterToolsDoes
  <2>2. turn.phase \in Asking /\ turn.phase \in Handling
    BY <2>1 DEF Asking, Handling
  <2>3. CASE Becomes(turn, "ask", turn.full) /\ UNCHANGED waiting
    <3>1. turn' \in Turns /\ (turn' = Idle \/ Carries)
      BY <2>2, <2>3, RunnerTurn, CarriesIf DEF Writing, Asking, Handling
    <3> QED
      BY <2>1, <2>2, <2>3, <3>1, <1>1, <1>3, <1>5 DEF RunnerKeeps
  <2>4. ASSUME NEW ms \in SUBSET waiting, ms # {}, waiting' = waiting \ ms,
               Becomes(turn, "ask", Merged(turn.full, turn.sealed, ms))
        PROVE  RunnerKeeps
    <3>1. waiting \ waiting' = ms /\ ms \in SUBSET Msgs /\ waiting' \subseteq waiting
      BY <2>4, TakenIs
    <3>2. Grows(Merged(turn.full, turn.sealed, ms), ms)
      BY <2>2, <2>4, <3>1, RunnerTurn, RunnerGrows
    <3>3. turn' \in Turns /\ (turn' = Idle \/ Carries)
      BY <2>2, <2>4, <3>1, <3>2, CarriesIf DEF Writing, Asking, Handling
    <3> QED
      BY <2>1, <2>2, <3>1, <3>3, <1>3, <1>5 DEF RunnerKeeps
  <2> QED
    BY <2>1, <2>3, <2>4
<1>11. ASSUME /\ turn.phase = "ask" /\ replies' = replies + 1 /\ replies' \in 1..LastReply
              /\ SameSession /\ UNCHANGED <<waiting, continue, promised>>,
              NEW o, Heard(o),
              NEW phase \in Writing, NEW full \in {turn.full, CutOffRows(turn.full)},
              Becomes(o, phase, full)
       PROVE  RunnerKeeps
  <2>1. turn.phase \in Asking /\ Grows(full, taken)
    BY <1>6, <1>11
  <2>2. replies' \in 0..LastReply /\ replies <= replies' /\ replies' > 0
    BY <1>4, <1>11
  <2>3. turn' \in Turns /\ (turn' = Idle \/ Carries)
    BY <2>1, <2>2, <1>11, CarriesIf DEF taken
  <2> QED
    BY <2>1, <2>2, <2>3, <1>1, <1>3, <1>11 DEF RunnerKeeps
<1>12. "ask" \in Writing /\ "answered" \in Writing /\ "unanswered" \in Writing
       /\ "save" \in Writing /\ "failed" \in Writing
  BY DEF Writing, Asking
<1>13. CASE ModelGivesNothing
  BY <1>2, <1>11, <1>12, <1>13, ModelGivesNothingDoes
<1>14. CASE ModelFinalizes
  BY <1>2, <1>11, <1>12, <1>14, ModelFinalizesDoes
<1>15. CASE ModelIsCutOff
  BY <1>2, <1>11, <1>12, <1>15, ModelIsCutOffDoes
<1>16. CASE ModelAnswers
  BY <1>2, <1>11, <1>12, <1>16, ModelAnswersDoes
<1>17. CASE ModelFails
  BY <1>2, <1>11, <1>12, <1>17, ModelFailsDoes
<1>18. CASE AfterAnswer
  <2> DEFINE full == Append(turn.full, Reply("answer", replies))
  <2>1. /\ turn.phase = "answered" /\ replies \in 1..LastReply
        /\ \E provider : Checkpointed("final_response", replies, provider)
        /\ \/ \E ms \in SUBSET waiting :
                /\ ms # {} /\ waiting' = waiting \ ms
                /\ Becomes(turn, "ask", Merged(full, turn.sealed, ms))
           \/ /\ Goal /\ waiting' = waiting
              /\ Becomes(turn, "ask", Merged(full, turn.sealed, {}))
           \/ waiting' = waiting /\ Becomes(turn, "save", full)
        /\ UNCHANGED <<replies, continue, promised>>
    BY <1>18, AfterAnswerDoes
  <2>2. turn.phase \in Asking /\ turn.phase \in Handling
    BY <2>1 DEF Asking, Handling
  <2>3. \/ \E ms \in SUBSET waiting :
             waiting' = waiting \ ms /\ Becomes(turn, "ask", Merged(full, turn.sealed, ms))
        \/ waiting' = waiting /\ Becomes(turn, "save", full)
    <3>1. {} \in SUBSET waiting /\ waiting \ {} = waiting
      OBVIOUS
    <3> QED
      BY <2>1, <3>1
  <2>4. ASSUME NEW ms \in SUBSET waiting, waiting' = waiting \ ms,
               Becomes(turn, "ask", Merged(full, turn.sealed, ms))
        PROVE  /\ turn' \in Turns /\ (turn' = Idle \/ Carries)
               /\ waiting' \subseteq waiting
    <3>1. waiting \ waiting' = ms /\ ms \in SUBSET Msgs /\ waiting' \subseteq waiting
      BY <2>4, TakenIs
    <3>2. Grows(Merged(full, turn.sealed, ms), ms)
      BY <2>1, <2>2, <3>1, RunnerTurn, RunnerGrows
    <3> QED
      BY <2>2, <2>4, <3>1, <3>2, <1>12, CarriesIf DEF Handling
  <2>5. ASSUME waiting' = waiting, Becomes(turn, "save", full)
        PROVE  turn' \in Turns /\ (turn' = Idle \/ Carries)
    <3>1. Grows(full, taken)
      BY <2>1, <2>2, <2>5, <1>1, RunnerTurn, RunnerGrows DEF ReplyKinds
    <3> QED
      BY <2>2, <2>5, <3>1, <1>12, CarriesIf DEF taken, Handling, Asking
  <2>6. turn' \in Turns /\ (turn' = Idle \/ Carries) /\ waiting' \subseteq waiting
    BY <2>3, <2>4, <2>5
  <2> QED
    BY <2>1, <2>2, <2>6, <1>5, CheckpointedKeeps DEF RunnerKeeps
<1>19. CASE AfterFailure
  <2>1. /\ turn.phase = "unanswered" /\ replies \in 1..LastReply /\ SameSession
        /\ UNCHANGED <<replies, continue, promised>>
        /\ \/ \E ms \in SUBSET waiting :
                /\ ms # {} /\ waiting' = waiting \ ms
                /\ Becomes(turn, "ask", Merged(turn.full, turn.sealed, ms))
           \/ /\ waiting' = waiting
              /\ Becomes(turn, "failed", Append(turn.full, Reply("note", replies)))
    BY <1>19, AfterFailureDoes
  <2>2. turn.phase \in Asking /\ turn.phase \in Handling
    BY <2>1 DEF Asking, Handling
  <2>3. ASSUME NEW ms \in SUBSET waiting, ms # {}, waiting' = waiting \ ms,
               Becomes(turn, "ask", Merged(turn.full, turn.sealed, ms))
        PROVE  RunnerKeeps
    <3>1. waiting \ waiting' = ms /\ ms \in SUBSET Msgs /\ waiting' \subseteq waiting
      BY <2>3, TakenIs
    <3>2. Grows(Merged(turn.full, turn.sealed, ms), ms)
      BY <2>1, <2>2, <2>3, <3>1, RunnerTurn, RunnerGrows
    <3>3. turn' \in Turns /\ (turn' = Idle \/ Carries)
      BY <2>2, <2>3, <3>1, <3>2, <1>12, CarriesIf DEF Handling
    <3> QED
      BY <2>1, <2>2, <3>1, <3>3, <1>3, <1>5 DEF RunnerKeeps
  <2>4. ASSUME waiting' = waiting, Becomes(turn, "failed", Append(turn.full, Reply("note", replies)))
        PROVE  RunnerKeeps
    <3>1. Grows(Append(turn.full, Reply("note", replies)), taken)
      BY <2>1, <2>2, <2>4, <1>1, RunnerTurn, RunnerGrows DEF ReplyKinds
    <3>2. turn' \in Turns /\ (turn' = Idle \/ Carries)
      BY <2>1, <2>2, <2>4, <3>1, <1>12, CarriesIf DEF taken
    <3> QED
      BY <2>1, <2>2, <2>4, <3>2, <1>1, <1>3, <1>5 DEF RunnerKeeps
  <2> QED
    BY <2>1, <2>3, <2>4
<1>20. CASE AfterError
  <2>1. /\ turn.phase = "failed" /\ replies \in 1..LastReply
        /\ UNCHANGED <<replies, continue, promised>>
        /\ \/ /\ SameSession
              /\ \E ms \in SUBSET waiting :
                   /\ ms # {} /\ waiting' = waiting \ ms
                   /\ Becomes(turn, "ask", Merged(turn.full, turn.sealed, ms))
           \/ /\ waiting' = waiting /\ Returned(turn)
              /\ Becomes(turn, "save", turn.full)
    BY <1>20, AfterErrorDoes
  <2>2. turn.phase \in Asking /\ turn.phase \in Handling
    BY <2>1 DEF Asking, Handling
  <2>3. ASSUME SameSession, NEW ms \in SUBSET waiting, ms # {}, waiting' = waiting \ ms,
               Becomes(turn, "ask", Merged(turn.full, turn.sealed, ms))
        PROVE  RunnerKeeps
    <3>1. waiting \ waiting' = ms /\ ms \in SUBSET Msgs /\ waiting' \subseteq waiting
      BY <2>3, TakenIs
    <3>2. Grows(Merged(turn.full, turn.sealed, ms), ms)
      BY <2>1, <2>2, <2>3, <3>1, RunnerTurn, RunnerGrows
    <3>3. turn' \in Turns /\ (turn' = Idle \/ Carries)
      BY <2>2, <2>3, <3>1, <3>2, <1>12, CarriesIf DEF Handling
    <3> QED
      BY <2>1, <2>2, <2>3, <3>1, <3>3, <1>3, <1>5 DEF RunnerKeeps
  <2>4. ASSUME waiting' = waiting, Returned(turn), Becomes(turn, "save", turn.full)
        PROVE  RunnerKeeps
    <3>1. turn' \in Turns /\ (turn' = Idle \/ Carries)
      BY <2>2, <2>4, <1>12, RunnerTurn, CarriesIf DEF Handling, Asking
    <3> QED
      BY <2>1, <2>2, <2>4, <3>1, <1>1, <1>5 DEF RunnerKeeps, Returned
  <2> QED
    BY <2>1, <2>3, <2>4
<1>21. CASE OutOfIterations
  <2>1. /\ turn.phase = "ask" /\ replies' = replies + 1 /\ replies' \in 1..LastReply
        /\ UNCHANGED promised
    BY <1>21, OutOfIterationsDoes
  <2>2. turn.phase \in Asking /\ Saved = replies /\ replies' > Saved
    BY <2>1, <1>0, RunnerTurn DEF Asking
  <2>3. PICK ms \in SUBSET waiting, u \in Turns :
          LET full == IF ms = {} THEN turn.full ELSE Merged(turn.full, turn.sealed, ms) IN
          /\ waiting' = waiting \ ms
          /\ u.full = Append(full, Reply("note", replies'))
          /\ Returned(u)
          /\ Becomes(turn, "save", u.full) \/ Becomes(turn, "save", full)
    BY <1>21, OutOfIterationsDoes
  <2>4. waiting \ waiting' = ms /\ ms \in SUBSET Msgs /\ waiting' \subseteq waiting
    BY <2>3, TakenIs
  <2> DEFINE full == IF ms = {} THEN turn.full ELSE Merged(turn.full, turn.sealed, ms)
  <2>5. Grows(full, ms) /\ Grows(Append(full, Reply("note", replies')), ms)
    <3>1. CASE ms = {}
      BY <3>1, <2>1, <2>2, <2>4, RunnerTurn, RunnerGrows DEF ReplyKinds
    <3>2. CASE ms # {}
      BY <3>2, <2>1, <2>2, <2>4, RunnerGrows
    <3> QED
      BY <3>1, <3>2
  <2>6. turn' \in Turns /\ (turn' = Idle \/ Carries)
    <3>1. Becomes(turn, "save", Append(full, Reply("note", replies'))) \/ Becomes(turn, "save", full)
      BY <2>3
    <3> HIDE DEF full
    <3> QED
      BY <3>1, <2>2, <2>4, <2>5, <1>12, CarriesIf DEF Handling, Asking
  <2> QED
    BY <2>1, <2>2, <2>3, <2>4, <2>6, <1>4 DEF RunnerKeeps, Returned
<1> QED
  BY <1>7, <1>8, <1>9, <1>10, <1>13, <1>14, <1>15, <1>16, <1>17, <1>18, <1>19, <1>20, <1>21
     DEF RunnerStep

-----------------------------------------------------------------------------
(* Types.                                                                  *)

Step ==
  \/ \E m \in Msgs \cup {None} : StartTurn(m)
  \/ RestoreTurn \/ CloseTurn \/ BuildTurn
  \/ RunnerStep
  \/ PersistTurn \/ TurnFails \/ Stop
  \/ NewSession \/ SavedElsewhere \/ Crash

LEMMA NextIs ==
  ASSUME TypeOK, Counted, Placed, Next
  PROVE  Sound /\ Step
<1>1. UNCHANGED setting /\ Follows /\ Step
  BY DEF Next, Step, Follows
<1>2. renewed' \in BOOLEAN
  BY <1>1 DEF Follows, NewSession, Crash, RowsFollow, TypeOK
<1> QED
  BY <1>1, <1>2, HistoryAssumption DEF Sound

LEMMA SmallState ==
  ASSUME Sound, Step
  PROVE  /\ faults' \in 0..MaxFaults /\ continue' \in BOOLEAN
         /\ disk' \in {disk, mem', mem}
<1> DEFINE Counts == faults' = faults \/ (faults < MaxFaults /\ faults' = faults + 1)
           OnFile == disk' \in {disk, mem'}
<1>1. /\ faults \in 0..MaxFaults /\ MaxFaults \in Nat /\ continue \in BOOLEAN
  BY Limits DEF Sound, TypeOK
<1>2. ASSUME NEW next, Save(next)
      PROVE  Counts /\ OnFile
  BY <1>2 DEF Save
<1>3. CASE \E m \in Msgs \cup {None} : StartTurn(m)
  BY <1>1, <1>3 DEF StartTurn
<1>4. CASE RestoreTurn
  BY <1>1, <1>2, <1>4 DEF RestoreTurn
<1>5. CASE CloseTurn
  BY <1>1, <1>2, <1>5 DEF CloseTurn
<1>6. CASE BuildTurn
  <2>1. (UNCHANGED <<disk, faults>> \/ \E next : Save(next)) /\ UNCHANGED continue
    BY <1>6 DEF BuildTurn
  <2> QED
    BY <1>1, <1>2, <2>1
<1>7. CASE RunnerStep
  <2>1. disk' \in {disk, mem'}
    BY <1>7, RunnerStepKeeps DEF RunnerKeeps
  <2>2. CASE ModelCallsTools
    BY <1>1, <1>2, <2>2 DEF ModelCallsTools
  <2>3. CASE ToolsReturn
    BY <1>1, <1>2, <2>3 DEF ToolsReturn
  <2>4. CASE ToolsFail \/ AfterTools \/ ModelGivesNothing \/ ModelFinalizes \/ ModelIsCutOff
             \/ ModelAnswers \/ ModelFails \/ AfterFailure \/ AfterError
    <3>1. UNCHANGED <<continue, faults>>
      BY <2>4 DEF ToolsFail, AfterTools, ModelGivesNothing, ModelFinalizes, ModelIsCutOff,
                  ModelAnswers, ModelFails, AfterFailure, AfterError
    <3> QED
      BY <3>1, <2>1, <1>1
  <2>5. CASE AfterAnswer
    <3>1. (\E next : Save(next)) /\ UNCHANGED continue
      BY <2>5 DEF AfterAnswer
    <3> QED
      BY <1>1, <1>2, <3>1
  <2>6. CASE OutOfIterations
    <3>1. UNCHANGED faults /\ (UNCHANGED continue \/ continue' = TRUE)
      BY <2>6 DEF OutOfIterations
    <3> QED
      BY <3>1, <2>1, <1>1
  <2> QED
    BY <1>7, <2>1, <2>2, <2>3, <2>4, <2>5, <2>6 DEF RunnerStep
<1>8. CASE PersistTurn
  BY <1>1, <1>2, <1>8 DEF PersistTurn
<1>9. CASE TurnFails
  BY <1>1, <1>9 DEF TurnFails
<1>10. CASE Stop
  BY <1>1, <1>2, <1>10 DEF Stop
<1>11. CASE NewSession
  BY <1>1, <1>2, <1>11 DEF NewSession
<1>12. CASE SavedElsewhere
  BY <1>1, <1>12 DEF SavedElsewhere
<1>13. CASE Crash
  BY <1>1, <1>13 DEF Crash
<1> QED
  BY <1>3, <1>4, <1>5, <1>6, <1>7, <1>8, <1>9, <1>10, <1>11, <1>12, <1>13 DEF Step

(* A turn outside the runner.                                              *)
Outside == turn'.phase \in {"idle", "restore", "close", "build"}

LEMMA IdleOutside ==
  /\ Idle.phase = "idle" /\ Idle.full = <<>> /\ Idle.msg = None /\ Idle.injected = {}
  /\ turn' = Idle => Outside
BY DEF Outside, Idle

LEMMA BasicsOutside ==
  ASSUME Sound, mem' \in Sessions, disk' \in Sessions, turn' \in Turns, Outside,
         replies' \in 0..LastReply, waiting' \subseteq waiting,
         promised' \subseteq promised \cup turn.injected, Step
  PROVE  (TypeOK /\ Counted /\ Placed)'
<1>1. /\ faults' \in (0..MaxFaults)' /\ continue' \in BOOLEAN /\ turn' \in Turns'
  BY SmallState, Limits
<1>2. setting' \in Settings /\ waiting' \subseteq Msgs /\ promised' \subseteq Msgs
  BY DEF Sound, TypeOK, Turns
<1>3. TypeOK'
  BY <1>1, <1>2 DEF Sound, TypeOK
<1>4. Counted' /\ Placed'
  BY DEF Counted, Placed, Outside, Writing, Handling, Asking
<1> QED
  BY <1>3, <1>4

LEMMA BasicsStep ==
  ASSUME Sound, Step
  PROVE  (TypeOK /\ Counted /\ Placed)'
<1>1. /\ mem \in Sessions /\ disk \in Sessions /\ turn \in Turns
      /\ replies \in 0..LastReply /\ waiting \subseteq Msgs /\ promised \subseteq Msgs
      /\ Idle \in Turns
  BY Limits DEF Sound, TypeOK
<1>2. RestoreCheckpoint(mem) \in Sessions /\ RestorePending(mem) \in Sessions
  BY <1>1, RestoreIs, PendingIs
<1>3. ASSUME NEW m \in Msgs \cup {None}, StartTurn(m) PROVE (TypeOK /\ Counted /\ Placed)'
  BY <1>1, <1>3, StartTurnDoes, BasicsOutside DEF SameSession, Outside
<1>4. CASE RestoreTurn
  BY <1>1, <1>2, <1>4, RestoreTurnDoes, IdleOutside, BasicsOutside DEF Outside
<1>5. CASE CloseTurn
  BY <1>1, <1>2, <1>5, CloseTurnDoes, IdleOutside, BasicsOutside DEF Outside
<1>6. CASE BuildTurn
  <2>1. /\ turn' \in Turns /\ mem' \in Sessions
        /\ disk' \in {disk, mem'}
        /\ UNCHANGED <<replies, waiting, continue, promised>>
    BY <1>6, BuildTurnDoes
  <2>2. turn' = Idle \/ \E full, thread : Asks(full, thread)
    BY <1>6, BuildTurnDoes
  <2>3. CASE turn' = Idle
    BY <1>1, <2>1, <2>3, IdleOutside, BasicsOutside
  <2>4. ASSUME NEW full, NEW thread, Asks(full, thread)
        PROVE  (TypeOK /\ Counted /\ Placed)'
    <3>1. /\ turn'.phase = "ask" /\ turn'.full = full
          /\ turn'.start = Len(full) /\ turn'.boundary = Len(full)
      BY <2>4 DEF Asks
    <3>2. Len(full) \in Nat
      BY <2>1, <3>1 DEF Turns
    <3>3. Counted' /\ Placed'
      BY <3>1, <3>2 DEF Counted, Placed, Handling, Asking
    <3>4. /\ faults' \in (0..MaxFaults)' /\ continue' \in BOOLEAN /\ turn' \in Turns'
      BY <2>1, SmallState, Limits
    <3>5. TypeOK'
      BY <1>1, <2>1, <3>4 DEF TypeOK, Sound
    <3> QED
      BY <3>3, <3>5
  <2> QED
    BY <2>2, <2>3, <2>4
<1>7. CASE RunnerStep
  <2>1. RunnerKeeps
    BY <1>7, RunnerStepKeeps
  <2>2. /\ faults' \in (0..MaxFaults)' /\ continue' \in BOOLEAN /\ turn' \in Turns'
    BY <2>1, SmallState, Limits DEF RunnerKeeps
  <2>3. TypeOK'
    BY <1>1, <2>1, <2>2 DEF TypeOK, Sound, RunnerKeeps
  <2>4. CASE turn' = Idle
    BY <2>3, <2>4, IdleOutside DEF Counted, Placed, Outside, Writing, Handling, Asking
  <2>5. CASE Carries
    <3>1. Counted'
      BY <2>5, Limits DEF Carries, Counted, Handling, Asking
    <3>2. /\ turn.start \in 0..turn.boundary /\ turn.boundary \in Nat
          /\ turn'.boundary \in Nat /\ turn'.start = turn.start /\ turn'.full \in Seq(Rows)
          /\ turn.boundary <= turn'.boundary /\ turn'.boundary <= Len(turn'.full)
      BY <2>1, <2>5, RunnerState DEF Carries, RunnerKeeps, Turns
    <3>3. Placed'
      BY <3>2 DEF Placed
    <3> QED
      BY <2>3, <3>1, <3>3
  <2> QED
    BY <2>1, <2>4, <2>5 DEF RunnerKeeps
<1>8. CASE PersistTurn
  BY <1>1, <1>8, PersistTurnDoes, IdleOutside, BasicsOutside
<1>9. CASE TurnFails
  BY <1>1, <1>9, IdleOutside, BasicsOutside DEF TurnFails
<1>10. CASE Stop
  BY <1>1, <1>2, <1>10, StopDoes, IdleOutside, BasicsOutside
<1>11. CASE NewSession
  BY <1>1, <1>11, NewSessionDoes, IdleOutside, BasicsOutside
<1>12. CASE SavedElsewhere
  <2>1. /\ mem' \in Sessions /\ disk' \in Sessions
        /\ UNCHANGED <<turn, replies, waiting, continue, promised, faults>>
    BY <1>1, <1>12 DEF SavedElsewhere
  <2>2. TypeOK'
    BY <2>1, Limits DEF Sound, TypeOK
  <2>3. Counted' /\ Placed'
    BY <2>1, Limits DEF Sound, Counted, Placed
  <2> QED
    BY <2>2, <2>3
<1>13. CASE Crash
  BY <1>1, <1>13, IdleOutside, BasicsOutside DEF Crash
<1> QED
  BY <1>3, <1>4, <1>5, <1>6, <1>7, <1>8, <1>9, <1>10, <1>11, <1>12, <1>13 DEF Step

LEMMA BasicsInit == Init => TypeOK /\ Counted /\ Placed
<1> USE HistoryAssumption
<1> SUFFICES ASSUME Init PROVE TypeOK /\ Counted /\ Placed
  OBVIOUS
<1>1. setting \in Settings /\ setting.msgs \subseteq Msgs
      /\ MaxIterations \in Nat /\ MaxCycles \in Nat /\ MaxFaults \in Nat /\ LastReply \in Nat
  BY DEF Init, HistoryAssumption, MaxIterations, MaxCycles, MaxFaults
<1>2. Empty \in Sessions
  BY DEF Empty, Sessions, Checkpoints, NoCheckpoint
<1>3. Idle \in Turns
  BY <1>1 DEF Idle, Turns, TurnPhases, Asking
<1>4. TypeOK
  <2>1. 0 \in 0..LastReply /\ 0 \in 0..MaxFaults
    BY <1>1
  <2>2. setting \in Settings /\ mem = Empty /\ disk = Empty /\ turn = Idle /\ replies = 0
        /\ waiting = setting.msgs /\ continue = FALSE /\ promised = {} /\ faults = 0
        /\ renewed = FALSE
    BY DEF Init
  <2> QED
    BY <1>1, <1>2, <1>3, <2>1, <2>2 DEF TypeOK
<1>5. turn.phase = "idle"
  BY DEF Init, Idle
<1> QED
  BY <1>4, <1>5 DEF Counted, Placed, Writing, Handling, Asking

(* Types are kept, whatever the rest of the invariant says.                *)
THEOREM HistoryTypeCorrect == Spec => []TypeOK
<1> DEFINE Inv == TypeOK /\ Counted /\ Placed
<1>1. Init => Inv
  BY BasicsInit
<1>2. Inv /\ [Next]_vars => Inv'
  <2> SUFFICES ASSUME Inv, [Next]_vars PROVE Inv'
    OBVIOUS
  <2>1. CASE Next
    <3>1. Sound /\ Step
      BY <2>1, NextIs
    <3> QED
      BY <3>1, BasicsStep
  <2>2. CASE UNCHANGED vars
    BY <2>2 DEF vars, TypeOK, Counted, Placed, Turns, MaxIterations, MaxCycles, MaxFaults
  <2> QED
    BY <2>1, <2>2
<1>3. Inv => TypeOK
  OBVIOUS
<1> QED
  BY <1>1, <1>2, <1>3, PTL DEF Spec

-----------------------------------------------------------------------------
(* How a step changes the turn, and how it changes the session.            *)

LEMMA TurnKinds ==
  ASSUME Sound, Step
  PROVE  \/ Outside
         \/ BuildTurn
         \/ RunnerStep /\ Carries
         \/ SavedElsewhere
<1>1. ASSUME NEW m \in Msgs \cup {None}, StartTurn(m) PROVE Outside
  BY <1>1, StartTurnDoes DEF Outside
<1>2. CASE RestoreTurn
  BY <1>2, RestoreTurnDoes, IdleOutside DEF Outside
<1>3. CASE CloseTurn
  BY <1>3, CloseTurnDoes, IdleOutside DEF Outside
<1>4. CASE RunnerStep
  BY <1>4, RunnerStepKeeps, IdleOutside DEF RunnerKeeps
<1>5. CASE PersistTurn
  BY <1>5, PersistTurnDoes, IdleOutside
<1>6. CASE TurnFails \/ Crash
  BY <1>6, IdleOutside DEF TurnFails, Crash
<1>7. CASE Stop
  BY <1>7, StopDoes, IdleOutside
<1>8. CASE NewSession
  BY <1>8, NewSessionDoes, IdleOutside
<1> QED
  BY <1>1, <1>2, <1>3, <1>4, <1>5, <1>6, <1>7, <1>8 DEF Step

LEMMA SessionKinds ==
  ASSUME Sound, Step
  PROVE  /\ disk' \in {disk, mem'} /\ mem \in Sessions /\ disk \in Sessions
         /\ \/ mem' = mem
            \/ Crash /\ mem' = disk /\ disk' = disk /\ turn' = Idle
            \/ Outside /\ replies' = replies /\ mem' = RestoreCheckpoint(mem)
            \/ Outside /\ turn.phase = "close" /\ mem' = RestorePending(mem)
            \/ BuildTurn
            \/ RunnerStep /\ RunnerKeeps
            \/ PersistTurn
            \/ NewSession
<1>0. mem \in Sessions /\ disk \in Sessions
  BY DEF Sound, TypeOK
<1>1. ASSUME NEW m \in Msgs \cup {None}, StartTurn(m) PROVE mem' = mem /\ disk' = disk
  BY <1>1, StartTurnDoes DEF SameSession
<1>2. CASE RestoreTurn
  BY <1>0, <1>2, RestoreTurnDoes, IdleOutside DEF Outside
<1>3. CASE CloseTurn
  BY <1>0, <1>3, CloseTurnDoes, IdleOutside DEF Outside
<1>4. CASE BuildTurn
  BY <1>0, <1>4, BuildTurnDoes
<1>5. CASE RunnerStep
  BY <1>0, <1>5, RunnerStepKeeps DEF RunnerKeeps
<1>6. CASE PersistTurn
  BY <1>0, <1>6, PersistTurnDoes
<1>7. CASE TurnFails
  BY <1>0, <1>7 DEF TurnFails
<1>8. CASE Stop
  BY <1>0, <1>8, StopDoes, IdleOutside
<1>9. CASE NewSession
  BY <1>0, <1>9, NewSessionDoes
<1>10. CASE SavedElsewhere
  BY <1>0, <1>10 DEF SavedElsewhere
<1>11. CASE Crash
  BY <1>0, <1>11 DEF Crash
<1> QED
  BY <1>0, <1>1, <1>2, <1>3, <1>4, <1>5, <1>6, <1>7, <1>8, <1>9, <1>10, <1>11 DEF Step

-----------------------------------------------------------------------------
(* The prompt of a turn.                                                   *)

LEMMA PromptKeptStep ==
  ASSUME Sound, Step, PromptKept
  PROVE  PromptKept'
<1>1. CASE Outside
  BY <1>1 DEF Outside, PromptKept, Asking
<1>2. CASE BuildTurn
  <2>1. \/ turn' = Idle
        \/ /\ turn'.msg = turn.msg
           /\ turn.msg = None \/ (disk' = mem' /\ mem'.rows = Append(mem.rows, Prompt({turn.msg})))
    BY <1>2, BuildTurnDoes DEF Asks
  <2>2. CASE turn' = Idle
    BY <2>2, IdleOutside DEF PromptKept
  <2>3. ASSUME turn'.msg = turn.msg, turn.msg # None, disk' = mem',
               mem'.rows = Append(mem.rows, Prompt({turn.msg}))
        PROVE  PromptKept'
    <3>1. mem.rows \in Seq(Rows) /\ turn.msg \in Msgs
      BY <2>3 DEF Sound, TypeOK, Sessions, Turns
    <3>2. Prompt({turn.msg}) \in Rows /\ IsUser(Prompt({turn.msg}))
          /\ turn.msg \in Prompt({turn.msg}).of
      BY <3>1, SmallRows DEF Prompt, IsUser
    <3>3. Prompt({turn.msg}) \in ToSet(mem'.rows)
      BY <2>3, <3>1, <3>2, RangeOfAppend
    <3> QED
      BY <2>3, <3>2, <3>3 DEF PromptKept
  <2> QED
    BY <2>1, <2>2, <2>3 DEF PromptKept
<1>3. CASE RunnerStep /\ Carries
  <2>1. /\ turn.phase \in Asking /\ mem'.rows = mem.rows /\ disk' \in {disk, mem'}
        /\ turn'.msg = turn.msg
    BY <1>3, RunnerStepKeeps DEF RunnerKeeps, Carries
  <2> QED
    BY <2>1 DEF PromptKept
<1>4. CASE SavedElsewhere
  BY <1>4 DEF SavedElsewhere, PromptKept
<1> QED
  BY <1>1, <1>2, <1>3, <1>4, TurnKinds

LEMMA LastOfConcat ==
  ASSUME NEW S, NEW s \in Seq(S), NEW t \in Seq(S), t # <<>>
  PROVE  s \o t # <<>> /\ Last(s \o t) = Last(t)
<1>1. PICK n \in Nat, k \in Nat : n = Len(s) /\ Len(t) = k + 1
  BY EmptySeq
<1>2. /\ Len(s \o t) = n + (k + 1)
      /\ \A i \in 1..n + (k + 1) : (s \o t)[i] = IF i <= n THEN s[i] ELSE t[i - n]
  BY <1>1, ConcatProperties
<1>3. n + (k + 1) \in 1..n + (k + 1) /\ ~ (n + (k + 1) <= n) /\ (n + (k + 1)) - n = k + 1
  BY <1>1
<1>4. (s \o t)[n + (k + 1)] = t[k + 1]
  BY <1>2, <1>3
<1>5. s \o t # <<>>
  BY <1>1, <1>2
<1> QED
  BY <1>1, <1>2, <1>4, <1>5 DEF Last

LEMMA LastOfAfter ==
  ASSUME NEW S, NEW rows \in Seq(S), NEW k \in 0..Len(rows), After(rows, k) # <<>>
  PROVE  rows # <<>> /\ Last(After(rows, k)) = Last(rows)
<1>1. /\ After(rows, k) \in Seq(S) /\ Len(After(rows, k)) = Len(rows) - k
      /\ \A i \in 1..Len(rows) - k : After(rows, k)[i] = rows[k + i]
  BY AfterType
<1>2. Len(rows) \in Nat /\ Len(After(rows, k)) \in Nat \ {0}
  BY <1>1, EmptySeq
<1>3. /\ Len(rows) - k \in 1..Len(rows) - k /\ k + (Len(rows) - k) = Len(rows)
      /\ Len(rows) # 0
  BY <1>1, <1>2
<1>4. After(rows, k)[Len(rows) - k] = rows[Len(rows)]
  BY <1>1, <1>3
<1> QED
  BY <1>1, <1>3, <1>4 DEF Last

(* The runner ends a turn of a session without a goal with rows of its     *)
(* own.                                                                    *)
LEMMA EndsWithReply ==
  ASSUME Sound, RunnerStep, Carries, PromptGuarded, ~ Goal, turn'.phase \in {"failed", "save"}
  PROVE  After(turn'.full, turn.start) # <<>> /\ ~ EndsWithUser(turn'.full)
<1> DEFINE Done(rows) == After(rows, turn.start) # <<>> /\ ~ EndsWithUser(rows)
<1>0. turn.phase \in Asking /\ turn.full \in Seq(Rows) /\ turn.start \in 0..Len(turn.full)
  BY RunnerStepKeeps, RunnerTurn DEF RunnerKeeps
<1>1. ASSUME NEW ms, NEW new, Grows(new, ms), NEW k \in ReplyKinds, NEW n \in 1..LastReply, n > Saved
      PROVE  Done(Append(new, Reply(k, n))) /\ Grows(Append(new, Reply(k, n)), ms)
  BY <1>0, <1>1, GrowsByReply
<1>2. \A ms : Grows(turn.full, ms)
  BY <1>0, RunnerTurn
<1>3. "result" \in ReplyKinds /\ "note" \in ReplyKinds /\ "answer" \in ReplyKinds
  BY DEF ReplyKinds
<1>4. turn' # Idle
  BY IdleOutside DEF Carries, Writing, Asking, Outside
<1>5. ASSUME NEW o, NEW phase, NEW full, Becomes(o, phase, full)
      PROVE  turn'.phase = phase /\ turn'.full = full
  BY <1>4, <1>5 DEF Becomes
<1>6. turn.phase \in Handling => replies \in 1..LastReply /\ replies > Saved
  BY <1>0, RunnerTurn
<1>7. CASE ModelCallsTools
  BY <1>5, <1>7, ModelCallsToolsDoes
<1>8. CASE ToolsReturn
  BY <1>5, <1>8, ToolsReturnDoes
<1>9. CASE ToolsFail
  <2>1. turn'.full = Append(Append(turn.full, Reply("result", replies)), Reply("note", replies))
        /\ turn.phase \in Handling
    BY <1>5, <1>9, ToolsFailDoes DEF Handling, Asking
  <2>2. Grows(Append(turn.full, Reply("result", replies)), {})
    BY <1>1, <1>2, <1>3, <1>6, <2>1
  <2>3. Done(Append(Append(turn.full, Reply("result", replies)), Reply("note", replies)))
    BY <1>1, <1>3, <1>6, <2>1, <2>2
  <2> QED
    BY <2>1, <2>3
<1>10. CASE AfterTools
  BY <1>5, <1>10, AfterToolsDoes
<1>11. CASE ModelGivesNothing
  BY <1>5, <1>11, ModelGivesNothingDoes
<1>12. CASE ModelFinalizes
  BY <1>5, <1>12, ModelFinalizesDoes
<1>13. CASE ModelIsCutOff
  BY <1>5, <1>13, ModelIsCutOffDoes
<1>14. CASE ModelAnswers
  BY <1>5, <1>14, ModelAnswersDoes
<1>15. CASE ModelFails
  BY <1>5, <1>15, ModelFailsDoes
<1>16. CASE AfterAnswer
  <2>1. turn'.full = Append(turn.full, Reply("answer", replies)) /\ turn.phase \in Handling
    <3>1. turn.phase = "answered"
          /\ \/ \E full : Becomes(turn, "ask", full)
             \/ Becomes(turn, "save", Append(turn.full, Reply("answer", replies)))
      BY <1>16, AfterAnswerDoes
    <3>2. ~ \E full : Becomes(turn, "ask", full)
      BY <1>5
    <3> QED
      BY <3>1, <3>2, <1>5 DEF Handling, Asking
  <2> QED
    BY <2>1, <1>1, <1>2, <1>3, <1>6
<1>17. CASE AfterFailure
  <2>1. turn'.full = Append(turn.full, Reply("note", replies)) /\ turn.phase \in Handling
    <3>1. turn.phase = "unanswered"
          /\ \/ \E full : Becomes(turn, "ask", full)
             \/ Becomes(turn, "failed", Append(turn.full, Reply("note", replies)))
      BY <1>17, AfterFailureDoes
    <3>2. ~ \E full : Becomes(turn, "ask", full)
      BY <1>5
    <3> QED
      BY <3>1, <3>2, <1>5 DEF Handling, Asking
  <2> QED
    BY <2>1, <1>1, <1>2, <1>3, <1>6
<1>18. CASE AfterError
  <2>1. turn'.full = turn.full /\ turn.phase = "failed"
    BY <1>5, <1>18, AfterErrorDoes
  <2> QED
    BY <2>1 DEF PromptGuarded, NewRows
<1>19. CASE OutOfIterations
  <2>1. PICK ms \in SUBSET waiting, u \in Turns :
          LET full == IF ms = {} THEN turn.full ELSE Merged(turn.full, turn.sealed, ms) IN
          /\ waiting' = waiting \ ms
          /\ u.full = Append(full, Reply("note", replies'))
          /\ Becomes(turn, "save", u.full) \/ (Goal /\ Becomes(turn, "save", full))
    BY <1>19, OutOfIterationsDoes
  <2> DEFINE full == IF ms = {} THEN turn.full ELSE Merged(turn.full, turn.sealed, ms)
  <2>2. turn'.full = Append(full, Reply("note", replies'))
    <3>1. u.full = Append(full, Reply("note", replies')) /\ Becomes(turn, "save", u.full)
      BY <2>1
    <3> QED
      BY <3>1, <1>5
  <2>3. turn.phase = "ask" /\ replies' = replies + 1 /\ replies' \in 1..LastReply /\ replies' > Saved
    <3>1. turn.phase = "ask" /\ replies' = replies + 1 /\ replies' \in 1..LastReply
      BY <1>19, OutOfIterationsDoes
    <3>2. Saved = replies /\ replies \in Nat
      BY <1>0, <3>1, RunnerTurn DEF Sound, TypeOK
    <3> QED
      BY <3>1, <3>2
  <2>4. Grows(full, ms)
    <3>1. ms \in SUBSET Msgs
      BY DEF Sound, TypeOK
    <3> QED
      BY <1>0, <1>2, <2>3, <3>1, RunnerGrows
  <2> HIDE DEF full
  <2> QED
    BY <2>2, <2>3, <2>4, <1>1, <1>3
<1> QED
  BY <1>7, <1>8, <1>9, <1>10, <1>11, <1>12, <1>13, <1>14, <1>15, <1>16, <1>17, <1>18, <1>19
     DEF RunnerStep

LEMMA ClosedEnds ==
  ASSUME NEW rows \in Seq(Rows)
  PROVE  ~ EndsWithUser(Append(rows, Closed)) /\ Append(rows, Closed) # <<>>
<1>1. Closed \in Rows /\ ~ IsUser(Closed)
  BY SmallRows DEF Closed, IsUser
<1> QED
  BY <1>1, LastOfAppend DEF EndsWithUser

LEMMA GuardedMem ==
  ASSUME Sound, Step, PromptGuarded, ~ Goal
  PROVE  Guarded(mem')
<1>1. Guarded(mem) /\ Guarded(disk) /\ mem \in Sessions
  BY DEF PromptGuarded, Sound, TypeOK
<1>2. CASE mem' \in {mem, disk}
  BY <1>1, <1>2
<1>3. CASE mem' = RestoreCheckpoint(mem)
  <2>1. CASE mem.checkpoint = NoCheckpoint
    BY <1>1, <1>3, <2>1, RestoreIs
  <2>2. CASE mem.checkpoint # NoCheckpoint
    BY <1>1, <1>3, <2>2, RestoringAdds DEF Guarded
  <2> QED
    BY <2>1, <2>2
<1>4. CASE mem' = RestorePending(mem)
  <2>1. CASE mem.pending /\ EndsWithUser(mem.rows)
    BY <1>1, <1>4, <2>1, PendingIs, ClosedEnds DEF Guarded, Sessions
  <2>2. CASE ~ (mem.pending /\ EndsWithUser(mem.rows))
    BY <1>1, <1>4, <2>2, PendingIs DEF Guarded
  <2> QED
    BY <2>1, <2>2
<1>5. CASE BuildTurn
  <2>1. \/ mem'.rows = mem.rows /\ mem'.pending = mem.pending /\ mem'.checkpoint = mem.checkpoint
        \/ mem'.pending
    BY <1>5, BuildTurnDoes
  <2> QED
    BY <1>1, <2>1 DEF Guarded
<1>6. CASE RunnerKeeps
  BY <1>1, <1>6 DEF RunnerKeeps, Guarded
<1>7. CASE PersistTurn
  <2>1. /\ turn.phase = "save" /\ mem'.rows = mem.rows \o NewRows(turn)
        /\ NewRows(turn) \in Seq(Rows)
    BY <1>7, PersistTurnDoes
  <2>2. NewRows(turn) # <<>> /\ ~ EndsWithUser(turn.full)
    BY <2>1 DEF PromptGuarded
  <2>3. turn.full \in Seq(Rows) /\ turn.start \in 0..Len(turn.full)
    <3>1. /\ turn.full \in Seq(Rows) /\ turn.start \in Nat /\ turn.boundary \in Nat
          /\ turn.start <= turn.boundary /\ turn.boundary <= Len(turn.full) /\ Len(turn.full) \in Nat
      BY <2>1 DEF Sound, TypeOK, Turns, Placed, Writing
    <3> QED
      BY <3>1
  <2>4. Last(NewRows(turn)) = Last(turn.full) /\ turn.full # <<>>
    BY <2>2, <2>3, LastOfAfter DEF NewRows
  <2>5. Last(mem.rows \o NewRows(turn)) = Last(NewRows(turn))
    BY <1>1, <2>1, <2>2, LastOfConcat DEF Sessions
  <2>6. ~ EndsWithUser(mem'.rows)
    BY <2>1, <2>2, <2>4, <2>5 DEF EndsWithUser
  <2> QED
    BY <2>6 DEF Guarded
<1>8. CASE NewSession
  BY <1>8, NewSessionDoes DEF Guarded, EndsWithUser
<1> QED
  BY <1>2, <1>3, <1>4, <1>5, <1>6, <1>7, <1>8, SessionKinds

LEMMA PromptGuardedStep ==
  ASSUME Sound, Step, PromptGuarded
  PROVE  PromptGuarded'
<1>1. Goal' = Goal
  BY DEF Sound, Goal
<1> SUFFICES ASSUME ~ Goal
             PROVE  /\ Guarded(mem') /\ Guarded(disk')
                    /\ turn'.phase \in {"failed", "save"} =>
                         NewRows(turn') # <<>> /\ ~ EndsWithUser(turn'.full)
  BY <1>1 DEF PromptGuarded
<1>2. Guarded(mem') /\ Guarded(disk) /\ disk' \in {disk, mem'}
  BY GuardedMem, SessionKinds DEF PromptGuarded
<1>3. ASSUME turn'.phase \in {"failed", "save"}
      PROVE  NewRows(turn') # <<>> /\ ~ EndsWithUser(turn'.full)
  <2>1. CASE Outside
    BY <1>3, <2>1 DEF Outside
  <2>2. CASE BuildTurn
    BY <1>3, <2>2, BuildTurnDoes, IdleOutside DEF Asks
  <2>3. CASE RunnerStep /\ Carries
    BY <1>3, <2>3, EndsWithReply DEF NewRows, Carries
  <2>4. CASE SavedElsewhere
    BY <1>3, <2>4 DEF SavedElsewhere, PromptGuarded
  <2> QED
    BY <2>1, <2>2, <2>3, <2>4, TurnKinds
<1> QED
  BY <1>2, <1>3

-----------------------------------------------------------------------------
(* The numbers of the replies.                                             *)

LEMMA UptoMore ==
  ASSUME NEW rows \in Seq(Rows), NEW n \in Nat, NEW m \in Nat, n <= m, Upto(rows, n)
  PROVE  Upto(rows, m)
<1> SUFFICES ASSUME NEW row \in ToSet(rows), row.kind \in ReplyKinds, NEW k \in row.of
             PROVE  k <= m
  BY DEF Upto
<1>1. row \in Rows
  BY RangeIs
<1>2. k \in Nat
  BY <1>1, RowShape, Limits DEF Rows
<1>3. k <= n
  BY DEF Upto
<1> QED
  BY <1>2, <1>3

LEMMA UptoAppend ==
  ASSUME NEW rows \in Seq(Rows), NEW row \in Rows, NEW n, Upto(rows, n),
         row.kind \in ReplyKinds => \A k \in row.of : k <= n
  PROVE  Upto(Append(rows, row), n)
<1>1. ToSet(Append(rows, row)) = ToSet(rows) \cup {row}
  BY RangeOfAppend
<1> QED
  BY <1>1 DEF Upto

LEMMA UptoConcat ==
  ASSUME NEW s \in Seq(Rows), NEW t \in Seq(Rows), NEW n, Upto(s, n), Upto(t, n)
  PROVE  Upto(s \o t, n)
<1>1. ToSet(s \o t) = ToSet(s) \cup ToSet(t)
  BY RangeOfConcat
<1> QED
  BY <1>1 DEF Upto

LEMMA AskingCounts ==
  ASSUME Sound, RunnerStep, turn.phase = "ask"
  PROVE  replies' = replies + 1
<1>1. CASE Request
  BY <1>1 DEF Request
<1>2. CASE OutOfIterations
  BY <1>2 DEF OutOfIterations
<1> QED
  BY <1>1, <1>2 DEF RunnerStep, ModelCallsTools, ToolsReturn, ToolsFail, AfterTools,
                    ModelGivesNothing, ModelFinalizes, ModelIsCutOff, ModelAnswers,
                    AfterAnswer, ModelFails, AfterFailure, AfterError

LEMMA OneLess ==
  /\ \A a \in Nat : a > 0 => a - 1 \in Nat
  /\ \A a, b \in Nat : a <= b => a - 1 <= b - 1 /\ a - 1 <= b
  /\ \A n \in Nat : \A a \in 0..n : a \in Nat
OBVIOUS

LEMMA SavedGrows ==
  ASSUME Sound, Step
  PROVE  /\ Saved \in Nat /\ Saved' \in Nat /\ Saved <= Saved' /\ Saved <= replies
         /\ replies \in Nat /\ replies' \in Nat /\ replies <= replies'
         /\ Outside => Saved' = replies'
<1>1. replies \in 0..LastReply /\ LastReply \in Nat /\ replies' \in 0..LastReply
  BY Limits, BasicsStep DEF Sound, TypeOK
<1>2. replies <= replies'
  <2>1. CASE RunnerStep
    BY <2>1, RunnerStepKeeps DEF RunnerKeeps
  <2>2. CASE ~ RunnerStep
    <3>1. replies' = replies
      BY <2>2, StartTurnDoes, RestoreTurnDoes, CloseTurnDoes, BuildTurnDoes, PersistTurnDoes,
         StopDoes, NewSessionDoes DEF Step, TurnFails, SavedElsewhere, Crash
    <3> QED
      BY <3>1, <1>1
  <2> QED
    BY <2>1, <2>2
<1>3. Saved \in Nat /\ Saved <= replies
  BY <1>1 DEF Saved, Sound, Counted
<1>4. /\ Saved' \in Nat /\ Saved' \in {replies' - 1, replies'}
      /\ Saved \in {replies - 1, replies}
  <2>1. turn'.phase \in Handling => replies' > 0
    BY BasicsStep DEF Counted
  <2>2. /\ turn'.phase \in Handling => Saved' = replies' - 1
        /\ turn'.phase \notin Handling => Saved' = replies'
    BY DEF Saved
  <2>3. Saved \in {replies - 1, replies}
    BY DEF Saved
  <2>4. replies' \in Nat /\ (replies' > 0 => replies' - 1 \in Nat)
    BY <1>1, OneLess, Zenon
  <2>5. CASE turn'.phase \in Handling
    BY <2>1, <2>2, <2>3, <2>4, <2>5
  <2>6. CASE turn'.phase \notin Handling
    BY <2>2, <2>3, <2>4, <2>6
  <2> QED
    BY <2>5, <2>6
<1>5. Outside => Saved' = replies'
  BY DEF Outside, Saved, Handling, Asking
<1>6. Saved <= Saved'
  <2>1. CASE Outside
    BY <2>1, <1>1, <1>2, <1>3, <1>5
  <2>2. CASE BuildTurn
    <3>1. turn'.phase = "ask" \/ turn' = Idle
      BY <2>2, BuildTurnDoes DEF Asks
    <3>2. Saved' = replies'
      BY <3>1, <1>5, IdleOutside DEF Saved, Handling
    <3> QED
      BY <3>2, <1>1, <1>2, <1>3
  <2>3. CASE RunnerStep
    <3>1. turn.phase \in Asking
      BY <2>3, RunnerStepKeeps DEF RunnerKeeps
    <3>2. CASE turn.phase = "ask"
      <4>1. replies' = replies + 1 /\ Saved = replies
        BY <2>3, <3>2, AskingCounts DEF Saved, Handling
      <4> QED
        BY <4>1, <1>1, <1>4 DEF Saved
    <3>3. CASE turn.phase \in Handling
      <4>1. Saved = replies - 1
        BY <3>3 DEF Saved
      <4>2. replies - 1 <= replies' - 1 /\ replies - 1 <= replies'
        BY <1>1, <1>2, OneLess, Zenon
      <4>3. Saved' = replies' - 1 \/ Saved' = replies'
        BY <1>4
      <4> QED
        BY <4>1, <4>2, <4>3, Zenon
    <3> QED
      BY <3>1, <3>2, <3>3 DEF Handling
  <2>4. CASE SavedElsewhere
    <3>1. Saved' = Saved
      BY <2>4 DEF SavedElsewhere, Saved
    <3> QED
      BY <3>1, <1>3
  <2> QED
    BY <2>1, <2>2, <2>3, <2>4, TurnKinds
<1> QED
  BY <1>1, <1>2, <1>3, <1>4, <1>5, <1>6

(* A checkpoint that a step of the runner makes is of the latest reply.    *)
LEMMA RunnerCheckpoints ==
  ASSUME Sound, RunnerStep
  PROVE  \/ mem'.checkpoint = mem.checkpoint
         \/ /\ mem'.checkpoint.of \in Nat /\ mem'.checkpoint.of <= replies'
            /\ Saved <= mem'.checkpoint.of - 1
<1>1. /\ replies \in Nat /\ replies' \in Nat /\ Saved \in Nat
      /\ turn.phase \in Handling => replies > Saved
      /\ turn.phase = "ask" => Saved = replies
  <2>1. turn.phase \in Asking
    BY RunnerStepKeeps DEF RunnerKeeps
  <2>2. Step
    BY DEF Step
  <2> QED
    BY <2>1, <2>2, SavedGrows, RunnerTurn
<1>2. ASSUME NEW phase, NEW n \in Nat, NEW provider, Checkpointed(phase, n, provider), n <= replies', n > Saved
      PROVE  /\ mem'.checkpoint.of \in Nat /\ mem'.checkpoint.of <= replies'
             /\ Saved <= mem'.checkpoint.of - 1
  BY <1>1, <1>2 DEF Checkpointed
<1>3. CASE ModelCallsTools
  <2>1. turn.phase = "ask" /\ replies' = replies + 1 /\ Checkpointed("awaiting_tools", replies', mem.provider)
    BY <1>3, ModelCallsToolsDoes
  <2>2. replies' > Saved /\ replies' <= replies'
    BY <2>1, <1>1
  <2> QED
    BY <2>1, <2>2, <1>1, <1>2
<1>4. CASE ToolsReturn
  <2>1. /\ turn.phase \in Handling /\ replies' = replies
        /\ \E provider : Checkpointed("tools_completed", replies, provider)
    BY <1>4, ToolsReturnDoes DEF Handling, Asking
  <2>2. replies > Saved /\ replies <= replies'
    BY <2>1, <1>1
  <2> QED
    BY <2>1, <2>2, <1>1, <1>2
<1>5. CASE AfterAnswer
  <2>1. /\ turn.phase \in Handling /\ replies' = replies
        /\ \E provider : Checkpointed("final_response", replies, provider)
    BY <1>5, AfterAnswerDoes DEF Handling, Asking
  <2>2. replies > Saved /\ replies <= replies'
    BY <2>1, <1>1
  <2> QED
    BY <2>1, <2>2, <1>1, <1>2
<1>6. CASE AfterError
  BY <1>6, AfterErrorDoes DEF SameSession, Returned
<1>7. CASE OutOfIterations
  BY <1>7, OutOfIterationsDoes DEF Returned
<1>8. CASE ToolsFail \/ AfterTools \/ ModelGivesNothing \/ ModelFinalizes \/ ModelIsCutOff
           \/ ModelAnswers \/ ModelFails \/ AfterFailure
  BY <1>8 DEF ToolsFail, AfterTools, ModelGivesNothing, ModelFinalizes, ModelIsCutOff,
              ModelAnswers, ModelFails, AfterFailure
<1> QED
  BY <1>3, <1>4, <1>5, <1>6, <1>7, <1>8 DEF RunnerStep

-----------------------------------------------------------------------------
(* Prompts.                                                                *)

Prompts == TypeOK /\ Counted /\ Placed /\ PromptKept /\ PromptGuarded

LEMMA PromptsInit == Init => Prompts
<1> SUFFICES ASSUME Init PROVE Prompts
  OBVIOUS
<1>1. TypeOK /\ Counted /\ Placed
  BY BasicsInit
<1>2. turn.phase = "idle" /\ mem.rows = <<>> /\ disk.rows = <<>>
  BY DEF Init, Idle, Empty
<1> QED
  BY <1>1, <1>2 DEF Prompts, PromptKept, PromptGuarded, Guarded, EndsWithUser, Asking

LEMMA PromptsStep == Prompts /\ [Next]_vars => Prompts'
<1> SUFFICES ASSUME Prompts, [Next]_vars PROVE Prompts'
  OBVIOUS
<1>1. CASE Next
  <2>1. Sound /\ Step
    BY <1>1, NextIs DEF Prompts
  <2> QED
    BY <2>1, BasicsStep, PromptKeptStep, PromptGuardedStep DEF Prompts
<1>2. CASE UNCHANGED vars
  BY <1>2 DEF vars, Prompts, TypeOK, Counted, Placed, PromptKept, PromptGuarded, Guarded, NewRows,
              Turns, MaxIterations, MaxCycles, MaxFaults, Goal
<1> QED
  BY <1>1, <1>2 DEF Prompts

(* The prompt of a turn whose model is running is on file.                 *)
THEOREM HistoryPromptDurable == Spec => []PromptDurable
<1>1. Prompts => PromptDurable
  BY DEF Prompts, PromptKept, PromptDurable
<1> QED
  BY <1>1, PromptsInit, PromptsStep, PTL DEF Spec

(* A guarded session is closed by the turn that finds it.                  *)
LEMMA GuardedCloses ==
  ASSUME NEW s \in Sessions, Guarded(s)
  PROVE  ~ EndsWithUser(Recover(s).rows)
<1> DEFINE r == RestoreCheckpoint(s)
<1>1. r \in Sessions /\ r.rows \in Seq(Rows)
  BY RestoreIs DEF Sessions
<1>2. EndsWithUser(r.rows) => r.pending
  <2>1. CASE s.checkpoint = NoCheckpoint
    BY <2>1, RestoreIs DEF Guarded
  <2>2. CASE s.checkpoint # NoCheckpoint
    BY <2>2, RestoringAdds
  <2> QED
    BY <2>1, <2>2
<1>3. Recover(s) = RestorePending(r)
  BY DEF Recover
<1> HIDE DEF r
<1> QED
  BY <1>1, <1>2, <1>3, PendingIs, ClosedEnds

(* Without a goal no prompt is left open.                                  *)
THEOREM HistoryPromptsClosed == Spec => []PromptsClosed
<1>1. Prompts => PromptsClosed
  BY GuardedCloses DEF Prompts, TypeOK, PromptGuarded, PromptsClosed
<1> QED
  BY <1>1, PromptsInit, PromptsStep, PTL DEF Spec

LEMMA UptoNothing ==
  ASSUME NEW n
  PROVE  Upto(<<>>, n)
BY DEF Upto, ToSet

(* The replies in memory are numbered up to the latest that is handled.    *)
LEMMA RowsNumbered ==
  ASSUME Sound, Step, Numbered, InForm, ~ ArchiveFails
  PROVE  Upto(mem'.rows, Saved')
<1>1. /\ mem \in Sessions /\ disk \in Sessions
      /\ mem.rows \in Seq(Rows) /\ disk.rows \in Seq(Rows)
  BY SessionKinds DEF Sessions
<1>2. /\ Saved \in Nat /\ Saved' \in Nat /\ Saved <= Saved' /\ (Outside => Saved' = replies')
  BY SavedGrows
<1>3. Upto(mem.rows, Saved') /\ Upto(disk.rows, Saved')
  <2>1. Upto(mem.rows, Saved) /\ Upto(disk.rows, Saved)
    BY DEF Numbered
  <2> QED
    BY <2>1, <1>1, <1>2, UptoMore
<1>4. CASE Outside /\ replies' = replies /\ mem' = RestoreCheckpoint(mem)
  <2>1. CASE mem.checkpoint = NoCheckpoint
    BY <1>1, <1>3, <1>4, <2>1, RestoreIs
  <2>2. CASE mem.checkpoint # NoCheckpoint
    <3> DEFINE added == Missing(mem.rows, Restored(mem.checkpoint))
    <3>1. /\ added \in Seq(Rows) /\ ToSet(added) \subseteq ToSet(Restored(mem.checkpoint))
          /\ mem'.rows = mem.rows \o added
      BY <1>1, <1>4, <2>2, RestoringAdds
    <3>2. \A row \in ToSet(Restored(mem.checkpoint)) : row.of = {mem.checkpoint.of}
      BY <1>1, <2>2, RestoredRows DEF Sessions
    <3>3. mem.checkpoint.of <= Saved'
      BY <1>2, <1>4, <2>2 DEF Numbered
    <3> HIDE DEF added
    <3>4. Upto(added, Saved')
      BY <3>1, <3>2, <3>3 DEF Upto
    <3> QED
      BY <1>1, <1>3, <3>1, <3>4, UptoConcat
  <2> QED
    BY <2>1, <2>2
<1>5. CASE mem' = RestorePending(mem)
  <2>1. mem'.rows = mem.rows \/ mem'.rows = Append(mem.rows, Closed)
    BY <1>1, <1>5, PendingIs
  <2>2. Closed \in Rows /\ Closed.kind \notin ReplyKinds
    BY SmallRows DEF Closed, ReplyKinds
  <2> QED
    BY <1>1, <1>3, <2>1, <2>2, UptoAppend
<1>6. CASE BuildTurn
  <2>1. \/ mem'.rows = mem.rows
        \/ turn.msg \in Msgs /\ mem'.rows = Append(mem.rows, Prompt({turn.msg}))
    BY <1>6, BuildTurnDoes
  <2>2. turn.msg \in Msgs => Prompt({turn.msg}) \in Rows /\ Prompt({turn.msg}).kind \notin ReplyKinds
    BY SmallRows DEF Prompt, ReplyKinds
  <2> QED
    BY <1>1, <1>3, <2>1, <2>2, UptoAppend
<1>7. CASE PersistTurn
  <2>1. /\ turn.phase = "save" /\ turn' = Idle /\ replies' = replies
        /\ NewRows(turn) \in Seq(Rows) /\ mem'.rows = mem.rows \o NewRows(turn)
    BY <1>7, PersistTurnDoes
  <2>2. Saved' = replies
    BY <1>2, <2>1, IdleOutside
  <2>3. Upto(NewRows(turn), replies)
    BY <2>1 DEF InForm, Finished, Writing
  <2> QED
    BY <1>1, <1>3, <2>1, <2>2, <2>3, UptoConcat
<1>8. CASE NewSession
  BY <1>8, NewSessionDoes, UptoNothing
<1>9. CASE RunnerKeeps
  BY <1>3, <1>9 DEF RunnerKeeps
<1> QED
  BY <1>3, <1>4, <1>5, <1>6, <1>7, <1>8, <1>9, SessionKinds

(* The reply of a checkpoint is later than those before it.                *)
LEMMA CheckpointNumbered ==
  ASSUME Sound, Step, Numbered, ~ ArchiveFails, mem'.checkpoint # NoCheckpoint
  PROVE  LET n == mem'.checkpoint.of IN
         n <= replies' /\ Upto(mem'.rows, n - 1) /\ Upto(disk.rows, n - 1)
<1> DEFINE n == mem'.checkpoint.of
           Good(rows) == n <= replies' /\ Upto(rows, n - 1) /\ Upto(disk.rows, n - 1)
<1> SUFFICES Good(mem'.rows)
  OBVIOUS
<1>1. /\ mem \in Sessions /\ disk \in Sessions /\ mem' \in Sessions
      /\ mem.rows \in Seq(Rows) /\ disk.rows \in Seq(Rows)
  BY SessionKinds, BasicsStep DEF Sessions, TypeOK
<1>2. /\ Saved \in Nat /\ replies \in Nat /\ replies' \in Nat /\ replies <= replies' /\ n \in Nat
      /\ Upto(mem.rows, Saved) /\ Upto(disk.rows, Saved)
  <2>1. n \in 1..LastReply
    BY <1>1, RestoredRows DEF Sessions
  <2> QED
    BY <2>1, SavedGrows DEF Numbered
<1>3. ASSUME NEW s \in {mem, disk}, mem'.checkpoint = s.checkpoint PROVE Good(s.rows)
  <2>1. s.checkpoint.of <= replies /\ Upto(s.rows, n - 1) /\ Upto(disk.rows, n - 1)
    BY <1>3 DEF Numbered
  <2> QED
    BY <1>2, <1>3, <2>1
<1> HIDE DEF n
<1>4. CASE mem' = mem \/ mem' = disk
  BY <1>3, <1>4
<1>5. CASE mem' = RestoreCheckpoint(mem)
  BY <1>1, <1>5, RestoreIs
<1>6. CASE mem' = RestorePending(mem)
  <2>1. /\ mem'.checkpoint = mem.checkpoint
        /\ mem'.rows = mem.rows \/ mem'.rows = Append(mem.rows, Closed)
    BY <1>1, <1>6, PendingIs
  <2>2. Closed \in Rows /\ Closed.kind \notin ReplyKinds
    BY SmallRows DEF Closed, ReplyKinds
  <2>3. Good(mem.rows)
    BY <1>3, <2>1
  <2> QED
    BY <1>1, <2>1, <2>2, <2>3, UptoAppend
<1>7. CASE BuildTurn
  <2>1. /\ mem'.checkpoint = mem.checkpoint
        /\ \/ mem'.rows = mem.rows
           \/ turn.msg \in Msgs /\ mem'.rows = Append(mem.rows, Prompt({turn.msg}))
    BY <1>7, BuildTurnDoes
  <2>2. turn.msg \in Msgs => Prompt({turn.msg}) \in Rows /\ Prompt({turn.msg}).kind \notin ReplyKinds
    BY SmallRows DEF Prompt, ReplyKinds
  <2>3. Good(mem.rows)
    BY <1>3, <2>1
  <2> QED
    BY <1>1, <2>1, <2>2, <2>3, UptoAppend
<1>8. CASE RunnerStep /\ RunnerKeeps
  <2>1. mem'.rows = mem.rows
    BY <1>8 DEF RunnerKeeps
  <2>2. CASE mem'.checkpoint = mem.checkpoint
    BY <1>3, <2>1, <2>2
  <2>3. CASE /\ mem'.checkpoint.of \in Nat /\ mem'.checkpoint.of <= replies'
             /\ Saved <= mem'.checkpoint.of - 1
    <3>1. n <= replies' /\ Saved <= n - 1
      BY <2>3 DEF n
    <3>2. n - 1 \in Nat
      BY <3>1, <1>2
    <3> QED
      BY <1>1, <1>2, <2>1, <3>1, <3>2, UptoMore DEF n
  <2> QED
    BY <1>8, <2>2, <2>3, RunnerCheckpoints
<1>9. CASE PersistTurn
  BY <1>9, PersistTurnDoes
<1>10. CASE NewSession
  BY <1>10, NewSessionDoes
<1> QED
  BY <1>4, <1>5, <1>6, <1>7, <1>8, <1>9, <1>10, SessionKinds

LEMMA NumberedStep ==
  ASSUME Sound, Step, Numbered, InForm
  PROVE  Numbered'
<1>1. ArchiveFails' = ArchiveFails
  BY DEF Sound, ArchiveFails
<1> SUFFICES ASSUME ~ ArchiveFails
             PROVE  /\ \A s \in {mem', disk'} : Upto(s.rows, Saved')
                    /\ \A s \in {mem', disk'} :
                         s.checkpoint # NoCheckpoint =>
                           /\ s.checkpoint.of <= replies'
                           /\ Upto(s.rows, s.checkpoint.of - 1)
                           /\ Upto(disk'.rows, s.checkpoint.of - 1)
  BY <1>1 DEF Numbered
<1>2. /\ disk \in Sessions /\ disk.rows \in Seq(Rows) /\ disk' \in {disk, mem'}
      /\ Saved \in Nat /\ Saved' \in Nat /\ Saved <= Saved'
      /\ replies \in Nat /\ replies' \in Nat /\ replies <= replies'
  BY SessionKinds, SavedGrows DEF Sessions
<1>3. Upto(mem'.rows, Saved') /\ Upto(disk.rows, Saved')
  BY <1>2, RowsNumbered, UptoMore DEF Numbered
<1>4. disk.checkpoint # NoCheckpoint =>
        disk.checkpoint.of <= replies' /\ Upto(disk.rows, disk.checkpoint.of - 1)
  <2>1. ASSUME disk.checkpoint # NoCheckpoint
        PROVE  disk.checkpoint.of \in Nat /\ disk.checkpoint.of <= replies
               /\ Upto(disk.rows, disk.checkpoint.of - 1)
    <3>1. disk.checkpoint.of \in 1..LastReply
      BY <1>2, <2>1, RestoredRows DEF Sessions
    <3> QED
      BY <2>1, <3>1, Limits DEF Numbered
  <2> QED
    BY <1>2, <2>1
<1> QED
  BY <1>2, <1>3, <1>4, CheckpointNumbered

-----------------------------------------------------------------------------
(* Rows in form.                                                           *)

WF(rows) == Journal!WellFormed(rows)

LEMMA KindsAre ==
  /\ Journal!ReplyKinds = ReplyKinds
  /\ ReplyKinds = {"calls", "result", "interrupted", "answer", "note"}
  /\ Journal!ResultKinds = {"result", "interrupted"}
BY DEF Journal!ReplyKinds, ReplyKinds, Journal!ResultKinds

(* The two conditions, with their indices.                                 *)
Pairs(rows) ==
  /\ \A i \in 1..Len(rows) : rows[i].kind \in {"result", "interrupted"} =>
       i > 1 /\ rows[i - 1] = [rows[i] EXCEPT !.kind = "calls"]
  /\ \A i \in 1..Len(rows) : rows[i].kind = "calls" =>
       /\ i < Len(rows)
       /\ rows[i + 1].kind \in {"result", "interrupted"}
       /\ rows[i + 1].of = rows[i].of
Orders(rows) ==
  \A i, j \in 1..Len(rows) :
    /\ i < j
    /\ rows[i].kind \in ReplyKinds /\ rows[j].kind \in ReplyKinds
    => /\ rows[i] # rows[j]
       /\ \A m \in rows[i].of, n \in rows[j].of : m <= n

LEMMA WFIs ==
  ASSUME NEW rows \in Seq(Rows)
  PROVE  WF(rows) <=> Pairs(rows) /\ Orders(rows)
<1>1. DOMAIN rows = 1..Len(rows)
  OBVIOUS
<1> QED
  BY <1>1, KindsAre DEF WF, Journal!WellFormed, Journal!ToolCallsPaired,
                        Journal!RepliesInOrder, Pairs, Orders

(* Later rows in form after rows in form.                                  *)
LEMMA WFConcat ==
  ASSUME NEW a \in Seq(Rows), NEW b \in Seq(Rows), WF(a), WF(b), Before(a, b)
  PROVE  WF(a \o b)
<1> DEFINE ab == a \o b
<1>1. /\ ab \in Seq(Rows) /\ Len(a) \in Nat /\ Len(b) \in Nat /\ Len(ab) = Len(a) + Len(b)
      /\ \A i \in 1..Len(a) : ab[i] = a[i] /\ a[i] \in Rows /\ a[i] \in ToSet(a)
      /\ \A i \in 1..Len(b) : ab[Len(a) + i] = b[i] /\ b[i] \in Rows /\ b[i] \in ToSet(b)
  BY RangeIs, ConcatProperties
<1>2. Pairs(a) /\ Orders(a) /\ Pairs(b) /\ Orders(b)
  BY WFIs
<1> HIDE DEF ab
<1>3. \A i \in 1..Len(ab) : i \in 1..Len(a) \/ \E k \in 1..Len(b) : i = Len(a) + k
  <2>1. ASSUME NEW i \in 1..Len(ab), i > Len(a) PROVE \E k \in 1..Len(b) : i = Len(a) + k
    <3>1. i - Len(a) \in 1..Len(b) /\ i = Len(a) + (i - Len(a))
      BY <1>1, <2>1
    <3> QED
      BY <3>1
  <2>2. \A i \in 1..Len(ab) : i > Len(a) \/ i \in 1..Len(a)
    BY <1>1
  <2> QED
    BY <2>1, <2>2
<1>4. ASSUME NEW i \in 1..Len(ab), ab[i].kind \in {"result", "interrupted"}
      PROVE  i > 1 /\ ab[i - 1] = [ab[i] EXCEPT !.kind = "calls"]
  <2>1. CASE i \in 1..Len(a)
    <3>1. i > 1 /\ a[i - 1] = [a[i] EXCEPT !.kind = "calls"] /\ ab[i] = a[i]
      BY <1>1, <1>2, <1>4, <2>1 DEF Pairs
    <3>2. i - 1 \in 1..Len(a)
      BY <1>1, <2>1, <3>1
    <3> QED
      BY <1>1, <3>1, <3>2
  <2>2. ASSUME NEW k \in 1..Len(b), i = Len(a) + k
        PROVE  i > 1 /\ ab[i - 1] = [ab[i] EXCEPT !.kind = "calls"]
    <3>1. k > 1 /\ b[k - 1] = [b[k] EXCEPT !.kind = "calls"] /\ ab[i] = b[k]
      BY <1>1, <1>2, <1>4, <2>2 DEF Pairs
    <3>2. k - 1 \in 1..Len(b) /\ i - 1 = Len(a) + (k - 1) /\ i > 1
      BY <1>1, <2>2, <3>1
    <3>3. ab[i - 1] = b[k - 1]
      BY <1>1, <3>2
    <3> QED
      BY <3>1, <3>2, <3>3
  <2> QED
    BY <1>3, <2>1, <2>2
<1>5. ASSUME NEW i \in 1..Len(ab), ab[i].kind = "calls"
      PROVE  /\ i < Len(ab)
             /\ ab[i + 1].kind \in {"result", "interrupted"} /\ ab[i + 1].of = ab[i].of
  <2>1. CASE i \in 1..Len(a)
    <3>1. /\ ab[i] = a[i] /\ i < Len(a)
          /\ a[i + 1].kind \in {"result", "interrupted"} /\ a[i + 1].of = a[i].of
      BY <1>1, <1>2, <1>5, <2>1 DEF Pairs
    <3>2. i + 1 \in 1..Len(a) /\ i < Len(ab)
      BY <1>1, <2>1, <3>1
    <3> QED
      BY <1>1, <3>1, <3>2
  <2>2. ASSUME NEW k \in 1..Len(b), i = Len(a) + k
        PROVE  /\ i < Len(ab)
               /\ ab[i + 1].kind \in {"result", "interrupted"} /\ ab[i + 1].of = ab[i].of
    <3>1. /\ ab[i] = b[k] /\ k < Len(b)
          /\ b[k + 1].kind \in {"result", "interrupted"} /\ b[k + 1].of = b[k].of
      BY <1>1, <1>2, <1>5, <2>2 DEF Pairs
    <3>2. k + 1 \in 1..Len(b) /\ i + 1 = Len(a) + (k + 1) /\ i < Len(ab)
      BY <1>1, <2>2, <3>1
    <3>3. ab[i + 1] = b[k + 1]
      BY <1>1, <3>2
    <3> QED
      BY <3>1, <3>2, <3>3
  <2> QED
    BY <1>3, <2>1, <2>2
<1>6. ASSUME NEW i \in 1..Len(ab), NEW j \in 1..Len(ab), i < j,
             ab[i].kind \in ReplyKinds, ab[j].kind \in ReplyKinds
      PROVE  ab[i] # ab[j] /\ \A m \in ab[i].of, n \in ab[j].of : m <= n
  <2>1. CASE i \in 1..Len(a) /\ j \in 1..Len(a)
    BY <1>1, <1>2, <1>6, <2>1 DEF Orders
  <2>2. CASE i \in 1..Len(a) /\ \E k \in 1..Len(b) : j = Len(a) + k
    <3>1. /\ ab[i] \in ToSet(a) /\ ab[j] \in ToSet(b) /\ ab[i] \in Rows /\ ab[j] \in Rows
      BY <1>1, <2>2
    <3>2. \A m \in ab[i].of, n \in ab[j].of : m < n
      BY <1>6, <3>1 DEF Before
    <3>3. PICK m \in 1..LastReply : ab[i].of = {m}
      BY <1>6, <3>1, RowShape
    <3>4. PICK n \in 1..LastReply : ab[j].of = {n}
      BY <1>6, <3>1, RowShape
    <3>5. m < n /\ m <= n /\ m # n
      BY <3>2, <3>3, <3>4, HistoryAssumption DEF HistoryAssumption
    <3>6. ab[i].of # ab[j].of
      BY <3>3, <3>4, <3>5
    <3>7. \A a1 \in ab[i].of, b1 \in ab[j].of : a1 = m /\ b1 = n
      BY <3>3, <3>4
    <3> QED
      BY <3>5, <3>6, <3>7
  <2>3. ASSUME NEW k \in 1..Len(b), i = Len(a) + k
        PROVE  ab[i] # ab[j] /\ \A m \in ab[i].of, n \in ab[j].of : m <= n
    <3>1. j - Len(a) \in 1..Len(b) /\ j = Len(a) + (j - Len(a)) /\ k < j - Len(a)
      BY <1>1, <1>6, <2>3
    <3>2. ab[i] = b[k] /\ ab[j] = b[j - Len(a)]
      BY <1>1, <2>3, <3>1
    <3> QED
      BY <1>2, <1>6, <3>1, <3>2 DEF Orders
  <2> QED
    BY <1>3, <2>1, <2>2, <2>3
<1>7. Pairs(ab) /\ Orders(ab)
  BY <1>4, <1>5, <1>6 DEF Pairs, Orders
<1> QED
  BY <1>1, <1>7, WFIs DEF ab

(* A last row that is no reply does not matter.                            *)
LEMMA WFLast ==
  ASSUME NEW rows \in Seq(Rows), NEW row \in Rows, row.kind \notin ReplyKinds
  PROVE  WF(Append(rows, row)) <=> WF(rows)
<1> DEFINE more == Append(rows, row)
<1>1. /\ more \in Seq(Rows) /\ Len(rows) \in Nat /\ Len(more) = Len(rows) + 1
      /\ \A i \in 1..Len(rows) : more[i] = rows[i]
      /\ more[Len(rows) + 1] = row
  BY AppendProperties
<1>2. row.kind \notin {"result", "interrupted", "calls"}
  BY DEF ReplyKinds
<1> HIDE DEF more
<1>3. ASSUME Pairs(rows) PROVE Pairs(more)
  <2>1. ASSUME NEW i \in 1..Len(more), more[i].kind \in {"result", "interrupted"}
        PROVE  i > 1 /\ more[i - 1] = [more[i] EXCEPT !.kind = "calls"]
    <3>1. i \in 1..Len(rows)
      BY <1>1, <1>2, <2>1
    <3>2. more[i] = rows[i] /\ i > 1 /\ rows[i - 1] = [rows[i] EXCEPT !.kind = "calls"]
      BY <1>1, <1>3, <2>1, <3>1 DEF Pairs
    <3>3. i - 1 \in 1..Len(rows)
      BY <1>1, <3>1, <3>2
    <3> QED
      BY <1>1, <3>2, <3>3
  <2>2. ASSUME NEW i \in 1..Len(more), more[i].kind = "calls"
        PROVE  /\ i < Len(more) /\ more[i + 1].kind \in {"result", "interrupted"}
               /\ more[i + 1].of = more[i].of
    <3>1. i \in 1..Len(rows)
      BY <1>1, <1>2, <2>2
    <3>2. /\ more[i] = rows[i] /\ i < Len(rows)
          /\ rows[i + 1].kind \in {"result", "interrupted"} /\ rows[i + 1].of = rows[i].of
      BY <1>1, <1>3, <2>2, <3>1 DEF Pairs
    <3>3. i + 1 \in 1..Len(rows) /\ i < Len(more)
      BY <1>1, <3>1, <3>2
    <3> QED
      BY <1>1, <3>2, <3>3
  <2> QED
    BY <2>1, <2>2 DEF Pairs
<1>4. ASSUME Pairs(more) PROVE Pairs(rows)
  <2>1. ASSUME NEW i \in 1..Len(rows), rows[i].kind \in {"result", "interrupted"}
        PROVE  i > 1 /\ rows[i - 1] = [rows[i] EXCEPT !.kind = "calls"]
    <3>1. i \in 1..Len(more) /\ more[i] = rows[i]
      BY <1>1
    <3>2. i > 1 /\ more[i - 1] = [more[i] EXCEPT !.kind = "calls"]
      BY <1>4, <2>1, <3>1 DEF Pairs
    <3>3. i - 1 \in 1..Len(rows)
      BY <1>1, <3>2
    <3> QED
      BY <1>1, <3>1, <3>2, <3>3
  <2>2. ASSUME NEW i \in 1..Len(rows), rows[i].kind = "calls"
        PROVE  /\ i < Len(rows) /\ rows[i + 1].kind \in {"result", "interrupted"}
               /\ rows[i + 1].of = rows[i].of
    <3>1. i \in 1..Len(more) /\ more[i] = rows[i]
      BY <1>1
    <3>2. more[i + 1].kind \in {"result", "interrupted"} /\ more[i + 1].of = more[i].of
      BY <1>4, <2>2, <3>1 DEF Pairs
    <3>3. i # Len(rows)
      BY <1>1, <1>2, <3>2
    <3>4. i < Len(rows) /\ i + 1 \in 1..Len(rows)
      BY <1>1, <3>3
    <3> QED
      BY <1>1, <3>1, <3>2, <3>4
  <2> QED
    BY <2>1, <2>2 DEF Pairs
<1>5. Orders(rows) => Orders(more)
  <2> SUFFICES ASSUME Orders(rows), NEW i \in 1..Len(more), NEW j \in 1..Len(more), i < j,
                      more[i].kind \in ReplyKinds, more[j].kind \in ReplyKinds
               PROVE  more[i] # more[j] /\ \A m \in more[i].of, n \in more[j].of : m <= n
    BY DEF Orders
  <2>1. i \in 1..Len(rows) /\ j \in 1..Len(rows)
    BY <1>1
  <2> QED
    BY <1>1, <2>1 DEF Orders
<1>6. Orders(more) => Orders(rows)
  <2> SUFFICES ASSUME Orders(more), NEW i \in 1..Len(rows), NEW j \in 1..Len(rows), i < j,
                      rows[i].kind \in ReplyKinds, rows[j].kind \in ReplyKinds
               PROVE  rows[i] # rows[j] /\ \A m \in rows[i].of, n \in rows[j].of : m <= n
    BY DEF Orders
  <2>1. i \in 1..Len(more) /\ j \in 1..Len(more) /\ more[i] = rows[i] /\ more[j] = rows[j]
    BY <1>1
  <2> QED
    BY <2>1 DEF Orders
<1> QED
  BY <1>1, <1>3, <1>4, <1>5, <1>6, WFIs DEF more

LEMMA WFNothing == WF(<<>>)
<1>1. <<>> \in Seq(Rows) /\ Len(<<>>) = 0 /\ 1..0 = {}
  OBVIOUS
<1>2. Pairs(<<>>) /\ Orders(<<>>)
  BY <1>1 DEF Pairs, Orders
<1> QED
  BY <1>1, <1>2, WFIs

(* The rows of one reply.                                                  *)
Blocks(n) ==
  {<<Reply("answer", n)>>, <<Reply("note", n)>>,
   <<Reply("calls", n), Reply("result", n)>>,
   <<Reply("calls", n), Reply("interrupted", n)>>,
   <<Reply("calls", n), Reply("result", n), Reply("note", n)>>}

LEMMA WFBlock ==
  ASSUME NEW n \in 1..LastReply, NEW block \in Blocks(n)
  PROVE  /\ block \in Seq(Rows) /\ WF(block)
         /\ \A row \in ToSet(block) : row.of = {n}
<1>1. /\ \A k \in ReplyKinds : Reply(k, n) \in Rows /\ Reply(k, n).kind = k /\ Reply(k, n).of = {n}
      /\ [Reply("result", n) EXCEPT !.kind = "calls"] = Reply("calls", n)
      /\ [Reply("interrupted", n) EXCEPT !.kind = "calls"] = Reply("calls", n)
  BY SmallRows DEF Reply
<1>2. n \in Nat /\ n <= n
  BY HistoryAssumption DEF HistoryAssumption
<1>3. ASSUME NEW k \in {"answer", "note"}, block = <<Reply(k, n)>>
      PROVE  block \in Seq(Rows) /\ WF(block) /\ \A row \in ToSet(block) : row.of = {n}
  <2>1. /\ block \in Seq(Rows) /\ Len(block) = 1 /\ block[1] = Reply(k, n)
        /\ 1..1 = {1} /\ block[1].kind = k /\ block[1].of = {n}
    BY <1>1, <1>3 DEF ReplyKinds
  <2>2. Pairs(block) /\ Orders(block)
    BY <2>1 DEF Pairs, Orders
  <2>3. \A row \in ToSet(block) : row.of = {n}
    BY <2>1, RangeIs
  <2> QED
    BY <2>1, <2>2, <2>3, WFIs
<1>4. ASSUME NEW k \in {"result", "interrupted"}, block = <<Reply("calls", n), Reply(k, n)>>
      PROVE  block \in Seq(Rows) /\ WF(block) /\ \A row \in ToSet(block) : row.of = {n}
  <2>1. /\ block \in Seq(Rows) /\ Len(block) = 2
        /\ block[1] = Reply("calls", n) /\ block[2] = Reply(k, n)
        /\ block[1].kind = "calls" /\ block[2].kind = k
        /\ block[1].of = {n} /\ block[2].of = {n}
        /\ [block[2] EXCEPT !.kind = "calls"] = block[1]
        /\ \A i \in 1..2 : i = 1 \/ i = 2
    BY <1>1, <1>4 DEF ReplyKinds
  <2>2. Pairs(block)
    <3>1. \A i \in 1..2 : block[i].kind \in {"result", "interrupted"} =>
            i > 1 /\ block[i - 1] = [block[i] EXCEPT !.kind = "calls"]
      <4>1. \A i \in 1..2 : block[i].kind \in {"result", "interrupted"} => i = 2
        BY <2>1
      <4> QED
        BY <2>1, <4>1
    <3>2. \A i \in 1..2 : block[i].kind = "calls" =>
            /\ i < 2
            /\ block[i + 1].kind \in {"result", "interrupted"}
            /\ block[i + 1].of = block[i].of
      <4>1. \A i \in 1..2 : block[i].kind = "calls" => i = 1
        BY <2>1
      <4>2. block[2].kind \in {"result", "interrupted"} /\ block[2].of = block[1].of
        BY <2>1
      <4>3. 1 + 1 = 2
        OBVIOUS
      <4>4. block[1 + 1].kind \in {"result", "interrupted"} /\ block[1 + 1].of = block[1].of
        BY <4>2, <4>3, Zenon
      <4> QED
        BY <4>1, <4>4
    <3> QED
      BY <2>1, <3>1, <3>2 DEF Pairs
  <2>3. Orders(block)
    BY <1>2, <2>1 DEF Orders
  <2>4. \A row \in ToSet(block) : row.of = {n}
    BY <2>1, RangeIs
  <2> QED
    BY <2>1, <2>2, <2>3, <2>4, WFIs
<1>5. ASSUME block = <<Reply("calls", n), Reply("result", n), Reply("note", n)>>
      PROVE  block \in Seq(Rows) /\ WF(block) /\ \A row \in ToSet(block) : row.of = {n}
  <2>1. /\ block \in Seq(Rows) /\ Len(block) = 3
        /\ block[1] = Reply("calls", n) /\ block[2] = Reply("result", n)
        /\ block[3] = Reply("note", n)
        /\ block[1].kind = "calls" /\ block[2].kind = "result" /\ block[3].kind = "note"
        /\ block[1].of = {n} /\ block[2].of = {n} /\ block[3].of = {n}
        /\ [block[2] EXCEPT !.kind = "calls"] = block[1]
        /\ \A i \in 1..3 : i = 1 \/ i = 2 \/ i = 3
    BY <1>1, <1>5 DEF ReplyKinds
  <2>2. Pairs(block)
    <3>1. \A i \in 1..3 : block[i].kind \in {"result", "interrupted"} =>
            i > 1 /\ block[i - 1] = [block[i] EXCEPT !.kind = "calls"]
      <4>1. \A i \in 1..3 : block[i].kind \in {"result", "interrupted"} => i = 2
        BY <2>1
      <4> QED
        BY <2>1, <4>1
    <3>2. \A i \in 1..3 : block[i].kind = "calls" =>
            /\ i < 3
            /\ block[i + 1].kind \in {"result", "interrupted"}
            /\ block[i + 1].of = block[i].of
      <4>1. \A i \in 1..3 : block[i].kind = "calls" => i = 1
        BY <2>1
      <4>2. block[2].kind \in {"result", "interrupted"} /\ block[2].of = block[1].of
        BY <2>1
      <4>3. 1 + 1 = 2
        OBVIOUS
      <4>4. block[1 + 1].kind \in {"result", "interrupted"} /\ block[1 + 1].of = block[1].of
        BY <4>2, <4>3, Zenon
      <4> QED
        BY <4>1, <4>4
    <3> QED
      BY <2>1, <3>1, <3>2 DEF Pairs
  <2>3. Orders(block)
    BY <1>2, <2>1 DEF Orders
  <2>4. \A row \in ToSet(block) : row.of = {n}
    BY <2>1, RangeIs
  <2> QED
    BY <2>1, <2>2, <2>3, <2>4, WFIs
<1> QED
  BY <1>3, <1>4, <1>5 DEF Blocks

(* They come after the rows of earlier replies.                            *)
LEMMA BlockAfter ==
  ASSUME NEW rows \in Seq(Rows), NEW m \in Nat, Upto(rows, m),
         NEW n \in 1..LastReply, m < n, NEW block \in Blocks(n)
  PROVE  /\ Before(rows, block)
         /\ WF(rows) => WF(rows \o block) /\ Upto(rows \o block, n) /\ rows \o block \in Seq(Rows)
<1>1. block \in Seq(Rows) /\ WF(block) /\ (\A row \in ToSet(block) : row.of = {n}) /\ n \in Nat
  BY WFBlock, HistoryAssumption DEF HistoryAssumption
<1>2. Before(rows, block)
  <2> SUFFICES ASSUME NEW r \in ToSet(rows), NEW q \in ToSet(block), r.kind \in ReplyKinds,
                      NEW k \in r.of, NEW l \in q.of
               PROVE  k < l
    BY DEF Before
  <2>1. r \in Rows
    BY RangeIs
  <2>2. k \in Nat /\ k <= m /\ l = n
    BY <1>1, <2>1, RowShape, HistoryAssumption DEF Upto, HistoryAssumption
  <2> QED
    BY <1>1, <2>2
<1>3. Upto(rows, n) /\ Upto(block, n)
  BY <1>1, UptoMore DEF Upto
<1> QED
  BY <1>1, <1>2, <1>3, WFConcat, UptoConcat, RangeOfConcat

(* A checkpoint of a later reply restores all of its rows.                 *)
LEMMA AllMissing ==
  ASSUME NEW rows \in Seq(Rows), NEW c \in Checkpoints, c # NoCheckpoint, Upto(rows, c.of - 1)
  PROVE  Missing(rows, Restored(c)) = Restored(c) /\ Restored(c) \in Blocks(c.of)
<1>1. /\ Restored(c) \in Seq(Rows) /\ Len(Restored(c)) \in 0..2 /\ c.of \in 1..LastReply
      /\ c.phase \in {"awaiting_tools", "tools_completed", "final_response"}
      /\ \A row \in ToSet(Restored(c)) : row.kind \in ReplyKinds /\ row.of = {c.of}
  BY RestoredRows
<1>2. PICK size \in 0..Len(Restored(c)) :
        /\ Overlap(rows, Restored(c), size)
        /\ Missing(rows, Restored(c)) = After(Restored(c), size)
  BY <1>1, MissingIs
<1>3. size = 0
  <2> SUFFICES ASSUME size # 0 PROVE FALSE
    OBVIOUS
  <2> DEFINE new == Restored(c)
  <2> HIDE DEF new
  <2>1. /\ new \in Seq(Rows) /\ Len(rows) \in Nat /\ Len(new) \in Nat /\ size \in 1..Len(new)
        /\ size <= Len(rows) /\ SubSeq(rows, Len(rows) - size + 1, Len(rows)) = SubSeq(new, 1, size)
        /\ \A row \in ToSet(new) : row.kind \in ReplyKinds /\ row.of = {c.of}
    BY <1>1, <1>2 DEF new, Overlap
  <2>2. SubSeq(new, 1, size)[size] = new[size]
    BY <2>1, SubSeqProperties
  <2>3. SubSeq(rows, Len(rows) - size + 1, Len(rows))[size] = rows[Len(rows)]
    <3>1. /\ Len(rows) - size + 1 \in 1..Len(rows) + 1 /\ Len(rows) \in Len(rows) - size + 1 - 1..Len(rows)
          /\ size \in 1..(Len(rows) - (Len(rows) - size + 1) + 1)
          /\ (Len(rows) - size + 1) + size - 1 = Len(rows)
      BY <2>1
    <3> QED
      BY <2>1, <3>1, SubSeqProperties
  <2>4. rows[Len(rows)] \in ToSet(rows) /\ new[size] \in ToSet(new)
    <3>1. Len(rows) \in 1..Len(rows)
      BY <2>1
    <3> QED
      BY <2>1, <3>1, RangeIs
  <2>5. rows[Len(rows)].kind \in ReplyKinds /\ rows[Len(rows)].of = {c.of}
    BY <2>1, <2>2, <2>3, <2>4
  <2>6. c.of <= c.of - 1
    BY <2>4, <2>5 DEF Upto
  <2> QED
    BY <1>1, <2>6, HistoryAssumption DEF HistoryAssumption
<1>4. Restored(c) \in Blocks(c.of)
  BY <1>1 DEF Restored, Blocks
<1> QED
  BY <1>1, <1>2, <1>3, <1>4, NothingAfterAll

(* The rows of a turn in form, for replies up to n.                        *)
Form(full, n) ==
  LET rows == After(full, turn.start) IN
  WF(rows) /\ Upto(rows, n) /\ Before(mem.rows, rows)

FormBasis ==
  /\ turn.full \in Seq(Rows) /\ turn.start \in 0..Len(turn.full) /\ mem.rows \in Seq(Rows)
  /\ Saved \in Nat /\ Upto(mem.rows, Saved)

LEMMA BeforeAppend ==
  ASSUME NEW old \in Seq(Rows), NEW new \in Seq(Rows), NEW row \in Rows, Before(old, new),
         NEW n \in Nat, Upto(old, n), row.kind \in ReplyKinds => \A k \in row.of : k > n
  PROVE  Before(old, Append(new, row))
<1>1. ToSet(Append(new, row)) = ToSet(new) \cup {row}
  BY RangeOfAppend
<1>2. ASSUME NEW r \in ToSet(old), r.kind \in ReplyKinds, row.kind \in ReplyKinds,
             NEW m \in r.of, NEW k \in row.of
      PROVE  m < k
  <2>1. r \in Rows
    BY RangeIs
  <2>2. m \in Nat /\ k \in Nat /\ m <= n /\ k > n
    BY <1>2, <2>1, RowShape, HistoryAssumption DEF Upto, HistoryAssumption
  <2> QED
    BY <2>2
<1> QED
  BY <1>1, <1>2 DEF Before

LEMMA FormMore ==
  ASSUME FormBasis, NEW full \in Seq(Rows), turn.start <= Len(full),
         NEW m \in Nat, NEW n \in Nat, m <= n, Form(full, m)
  PROVE  Form(full, n)
<1>1. After(full, turn.start) \in Seq(Rows)
  BY AfterType DEF FormBasis
<1> QED
  BY <1>1, UptoMore DEF Form

LEMMA FormAppend ==
  ASSUME FormBasis, NEW full \in Seq(Rows), turn.start <= Len(full),
         NEW n \in Nat, Form(full, n), NEW ms \in SUBSET Msgs
  PROVE  /\ Form(Append(full, Prompt(ms)), n)
         /\ Append(full, Prompt(ms)) \in Seq(Rows) /\ turn.start <= Len(Append(full, Prompt(ms)))
<1> DEFINE rows == After(full, turn.start)
           row == Prompt(ms)
<1>1. row \in Rows /\ row.kind \notin ReplyKinds
  BY SmallRows DEF Prompt, ReplyKinds
<1>2. rows \in Seq(Rows) /\ turn.start \in 0..Len(full)
  BY AfterType DEF FormBasis
<1>3. After(Append(full, row), turn.start) = Append(rows, row)
  BY <1>1, <1>2, AfterAppend
<1>4. Append(full, row) \in Seq(Rows) /\ Len(Append(full, row)) = Len(full) + 1
  BY <1>1
<1>5. WF(rows) /\ Upto(rows, n) /\ Before(mem.rows, rows)
  BY DEF Form
<1> HIDE DEF rows, row
<1>6. WF(Append(rows, row)) /\ Upto(Append(rows, row), n) /\ Before(mem.rows, Append(rows, row))
  BY <1>1, <1>2, <1>5, WFLast, UptoAppend, BeforeAppend DEF FormBasis
<1>7. Form(Append(full, row), n)
  BY <1>3, <1>6 DEF Form
<1> QED
  BY <1>2, <1>4, <1>7 DEF row

LEMMA FrontAndLast ==
  ASSUME NEW S, NEW rows \in Seq(S), rows # <<>>
  PROVE  rows = Append(Front(rows), Last(rows))
<1> DEFINE f == Front(rows)
           x == Last(rows)
           g == Append(f, x)
<1>1. /\ f \in Seq(S) /\ x \in S /\ Len(rows) \in Nat \ {0} /\ Len(f) = Len(rows) - 1
      /\ x = rows[Len(rows)] /\ \A i \in 1..Len(rows) - 1 : f[i] = rows[i]
  BY LastAndFront
<1> HIDE DEF f, x
<1>2. /\ g \in Seq(S) /\ Len(g) = Len(rows) /\ g[Len(rows)] = x
      /\ \A i \in 1..Len(rows) - 1 : g[i] = f[i]
  BY <1>1, AppendProperties
<1> HIDE DEF g
<1>3. \A i \in 1..Len(rows) : g[i] = rows[i]
  <2> SUFFICES ASSUME NEW i \in 1..Len(rows) PROVE g[i] = rows[i]
    OBVIOUS
  <2>1. i = Len(rows) \/ i \in 1..Len(rows) - 1
    BY <1>1
  <2> QED
    BY <1>1, <1>2, <2>1
<1>4. rows = g
  BY <1>2, <1>3, SeqEqual
<1> QED
  BY <1>4 DEF f, x, g

LEMMA FormMerged ==
  ASSUME FormBasis, NEW full \in Seq(Rows), turn.start <= Len(full),
         NEW n \in Nat, Form(full, n), NEW sealed, NEW ms \in SUBSET Msgs
  PROVE  /\ Form(Merged(full, sealed, ms), n)
         /\ Merged(full, sealed, ms) \in Seq(Rows) /\ turn.start <= Len(Merged(full, sealed, ms))
<1>1. CASE ~ EndsWithUser(full) \/ sealed = Len(full)
  <2>1. Merged(full, sealed, ms) = Append(full, Prompt(ms))
    BY <1>1, JoinedIs DEF Merged
  <2> QED
    BY <2>1, FormAppend
<1>2. CASE EndsWithUser(full) /\ sealed # Len(full)
  <2> DEFINE rows == After(full, turn.start)
             all == Last(full).of \cup ms
             row == Prompt(all)
             other == Append(Front(full), row)
  <2>1. /\ Merged(full, sealed, ms) = other /\ all \in SUBSET Msgs
        /\ Last(full) = Prompt(Last(full).of) /\ Last(full) \in Rows /\ full # <<>>
    BY <1>2, JoinedIs, LastAndFront DEF Merged, EndsWithUser
  <2>2. /\ row \in Rows /\ row.kind \notin ReplyKinds
        /\ Last(full).kind \notin ReplyKinds
    BY <1>2, <2>1, SmallRows DEF Prompt, ReplyKinds, EndsWithUser, IsUser
  <2> HIDE DEF row
  <2>3. /\ rows \in Seq(Rows) /\ turn.start \in 0..Len(full)
        /\ other \in Seq(Rows) /\ Len(other) = Len(full)
        /\ turn.start = Len(full) => After(other, turn.start) = <<>>
        /\ turn.start < Len(full) =>
             /\ rows # <<>> /\ Last(rows) = Last(full)
             /\ After(other, turn.start) = Append(Front(rows), row)
    <3>1. rows \in Seq(Rows) /\ turn.start \in 0..Len(full) /\ Len(full) \in Nat
      BY AfterType DEF FormBasis
    <3> QED
      BY <2>1, <2>2, <3>1, AfterReplace
  <2>4. WF(rows) /\ Upto(rows, n) /\ Before(mem.rows, rows)
    BY DEF Form
  <2>5. CASE turn.start = Len(full)
    <3>1. Before(mem.rows, <<>>)
      BY DEF Before, ToSet
    <3>2. Form(other, n)
      BY <2>3, <2>5, <3>1, WFNothing, UptoNothing DEF Form
    <3> QED
      BY <2>1, <2>3, <3>2
  <2>6. CASE turn.start < Len(full)
    <3> HIDE DEF rows
    <3>1. /\ Front(rows) \in Seq(Rows) /\ ToSet(Front(rows)) \subseteq ToSet(rows)
          /\ Last(rows) \in Rows /\ rows = Append(Front(rows), Last(rows))
      <4>1. rows # <<>> /\ rows \in Seq(Rows)
        BY <2>3, <2>6
      <4>2. rows = Append(Front(rows), Last(rows))
        BY <4>1, LastAndFront, FrontAndLast
      <4> QED
        BY <4>1, <4>2, LastAndFront
    <3>2. WF(Front(rows))
      BY <2>2, <2>3, <2>4, <2>6, <3>1, WFLast
    <3>3. Upto(Front(rows), n) /\ Before(mem.rows, Front(rows))
      BY <2>4, <3>1 DEF Upto, Before
    <3>4. /\ WF(Append(Front(rows), row)) /\ Upto(Append(Front(rows), row), n)
          /\ Before(mem.rows, Append(Front(rows), row))
      BY <2>2, <3>1, <3>2, <3>3, WFLast, UptoAppend, BeforeAppend DEF FormBasis
    <3>5. Form(other, n)
      BY <2>3, <2>6, <3>4 DEF Form
    <3> QED
      BY <2>1, <2>3, <3>5
  <2> QED
    BY <2>3, <2>5, <2>6
<1> QED
  BY <1>1, <1>2

(* The rows of a later reply.                                              *)
LEMMA FormReply ==
  ASSUME FormBasis, NEW full \in Seq(Rows), turn.start <= Len(full),
         NEW m \in Nat, NEW n \in 1..LastReply, m < n, Saved < n, Form(full, m),
         NEW k \in {"answer", "note"}
  PROVE  /\ Form(Append(full, Reply(k, n)), n)
         /\ Append(full, Reply(k, n)) \in Seq(Rows)
         /\ turn.start <= Len(Append(full, Reply(k, n)))
<1> DEFINE rows == After(full, turn.start)
           row == Reply(k, n)
<1>1. row \in Rows /\ (\A l \in row.of : l > Saved) /\ n \in Nat /\ <<row>> \in Blocks(n)
  <2>1. row \in Rows /\ row.of = {n}
    BY SmallRows DEF Reply, ReplyKinds
  <2>2. n \in Nat /\ n > Saved
    BY HistoryAssumption DEF HistoryAssumption, FormBasis
  <2>3. <<row>> \in Blocks(n)
    BY DEF Blocks
  <2> QED
    BY <2>1, <2>2, <2>3
<1>2. rows \in Seq(Rows) /\ turn.start \in 0..Len(full)
  BY AfterType DEF FormBasis
<1>3. After(Append(full, row), turn.start) = Append(rows, row)
  BY <1>1, <1>2, AfterAppend
<1>4. Append(full, row) \in Seq(Rows) /\ Len(Append(full, row)) = Len(full) + 1
  BY <1>1
<1>5. WF(rows) /\ Upto(rows, m) /\ Before(mem.rows, rows)
  BY DEF Form
<1> HIDE DEF rows, row
<1>6. Append(rows, row) = rows \o <<row>>
  BY <1>1, <1>2, AppendIsConcat
<1>7. WF(Append(rows, row)) /\ Upto(Append(rows, row), n)
  BY <1>1, <1>2, <1>5, <1>6, BlockAfter
<1>8. Before(mem.rows, Append(rows, row))
  BY <1>1, <1>2, <1>5, BeforeAppend DEF FormBasis
<1>9. Form(Append(full, row), n)
  BY <1>3, <1>7, <1>8 DEF Form
<1> QED
  BY <1>2, <1>4, <1>9 DEF row

LEMMA ThreeAppended ==
  ASSUME NEW rows \in Seq(Rows), NEW a \in Rows, NEW b \in Rows, NEW c \in Rows
  PROVE  Append(rows \o <<a, b>>, c) = rows \o <<a, b, c>>
<1> DEFINE two == <<a, b>>
           three == <<a, b, c>>
<1>1. two \in Seq(Rows) /\ Len(two) = 2 /\ two[1] = a /\ two[2] = b
  OBVIOUS
<1>2. three \in Seq(Rows) /\ Len(three) = 3 /\ three[1] = a /\ three[2] = b /\ three[3] = c
  OBVIOUS
<1> HIDE DEF two, three
<1>3. Append(two, c) = three
  <2> DEFINE more == Append(two, c)
  <2>1. more \in Seq(Rows) /\ Len(more) = 3 /\ more[1] = a /\ more[2] = b /\ more[3] = c
    <3>1. /\ more \in Seq(Rows) /\ Len(more) = Len(two) + 1 /\ more[Len(two) + 1] = c
          /\ \A i \in 1..Len(two) : more[i] = two[i]
      <4>1. two \in Seq(Rows) /\ Len(two) \in Nat
        BY <1>1
      <4> QED
        BY <4>1, AppendProperties
    <3> HIDE DEF more
    <3>2. 2 + 1 = 3 /\ 1 \in 1..2 /\ 2 \in 1..2
      OBVIOUS
    <3> QED
      BY <1>1, <3>1, <3>2
  <2> HIDE DEF more
  <2>2. \A i \in 1..3 : i = 1 \/ i = 2 \/ i = 3
    OBVIOUS
  <2>3. \A i \in 1..Len(more) : more[i] = three[i]
    BY <1>2, <2>1, <2>2
  <2>4. more = three
    BY <1>2, <2>1, <2>3, SeqEqual
  <2> QED
    BY <2>4 DEF more
<1>4. Append(two, c) = two \o <<c>> /\ <<c>> \in Seq(Rows) /\ rows \o two \in Seq(Rows)
  BY <1>1, AppendIsConcat, RangeOfConcat
<1>5. Append(rows \o two, c) = (rows \o two) \o <<c>>
  BY <1>4, AppendIsConcat
<1>6. (rows \o two) \o <<c>> = rows \o (two \o <<c>>)
  BY <1>1, <1>4, ConcatAssociative
<1>7. Append(rows \o two, c) = rows \o three
  BY <1>3, <1>4, <1>5, <1>6
<1> QED
  BY <1>7 DEF two, three

(* The results of calls that run.                                          *)
LEMMA FormTools ==
  ASSUME FormBasis, NEW n \in 1..LastReply, Saved < n,
         NEW rows \in Seq(Rows), NewRows(turn) = Append(rows, Reply("calls", n)),
         WF(rows), Upto(rows, Saved), Before(mem.rows, NewRows(turn))
  PROVE  LET full == Append(turn.full, Reply("result", n)) IN
         Form(full, n) /\ Form(Append(full, Reply("note", n)), n)
<1> DEFINE calls == Reply("calls", n)
           result == Reply("result", n)
           note == Reply("note", n)
           full == Append(turn.full, result)
<1>1. /\ calls \in Rows /\ result \in Rows /\ note \in Rows
      /\ calls.of = {n} /\ result.of = {n} /\ note.of = {n}
  BY SmallRows DEF Reply, ReplyKinds
<1>2. n \in Nat /\ n > Saved /\ <<calls, result>> \in Blocks(n) /\ <<calls, result, note>> \in Blocks(n)
  BY HistoryAssumption DEF HistoryAssumption, FormBasis, Blocks
<1> HIDE DEF calls, result, note
<1>3. /\ turn.full \in Seq(Rows) /\ turn.start \in 0..Len(turn.full) /\ Len(turn.full) \in Nat
      /\ mem.rows \in Seq(Rows) /\ Saved \in Nat /\ Upto(mem.rows, Saved)
  BY DEF FormBasis
<1>4. After(turn.full, turn.start) = Append(rows, calls) /\ Append(rows, calls) \in Seq(Rows)
  BY <1>1 DEF NewRows, calls
<1>5. /\ full \in Seq(Rows) /\ Len(full) = Len(turn.full) + 1 /\ turn.start \in 0..Len(full)
  BY <1>1, <1>3
<1>6. After(full, turn.start) = Append(Append(rows, calls), result)
  <2>1. After(Append(turn.full, result), turn.start) = Append(After(turn.full, turn.start), result)
    BY <1>1, <1>3, AfterAppend
  <2> QED
    BY <2>1, <1>4
<1> HIDE DEF full
<1>7. Append(Append(rows, calls), result) = rows \o <<calls, result>>
  BY <1>1, TwoAppended
<1>8. After(Append(full, note), turn.start) = Append(rows \o <<calls, result>>, note)
  <2>1. After(Append(full, note), turn.start) = Append(After(full, turn.start), note)
    BY <1>1, <1>5, AfterAppend
  <2> QED
    BY <2>1, <1>6, <1>7
<1>9. Append(rows \o <<calls, result>>, note) = rows \o <<calls, result, note>>
  BY <1>1, ThreeAppended
<1>10. /\ WF(rows \o <<calls, result>>) /\ Upto(rows \o <<calls, result>>, n)
       /\ WF(rows \o <<calls, result, note>>) /\ Upto(rows \o <<calls, result, note>>, n)
  BY <1>2, <1>3, BlockAfter
<1>11. /\ Before(mem.rows, rows \o <<calls, result>>)
       /\ Before(mem.rows, rows \o <<calls, result, note>>)
  <2>1. Before(mem.rows, Append(rows, calls))
    BY DEF calls
  <2>2. Before(mem.rows, rows \o <<calls, result>>)
    BY <1>1, <1>2, <1>3, <1>4, <1>7, <2>1, BeforeAppend
  <2>3. rows \o <<calls, result>> \in Seq(Rows)
    BY <1>1
  <2> QED
    BY <1>1, <1>2, <1>3, <1>9, <2>2, <2>3, BeforeAppend
<1>12. Form(full, n) /\ Form(Append(full, note), n)
  BY <1>6, <1>7, <1>8, <1>9, <1>10, <1>11 DEF Form
<1> QED
  BY <1>12 DEF result, note, full

(* What the invariant says of the rows of the turn.                        *)
TurnForm ==
  /\ turn.phase \in Writing =>
       /\ Journal!WellFormed(Finished)
       /\ Upto(Finished,
               IF turn.phase \in {"tools", "answered", "unanswered"} THEN Saved ELSE replies)
       /\ Before(mem.rows, NewRows(turn))
  /\ turn.phase = "tools" => NewRows(turn) = Append(Finished, Reply("calls", replies))

LEMMA TurnFormIs ==
  ASSUME Sound, TurnForm, turn.phase \in Writing
  PROVE  /\ turn.phase \in {"ask", "afterTools", "failed", "save"} => Form(turn.full, replies)
         /\ turn.phase \in {"answered", "unanswered"} => Form(turn.full, Saved)
         /\ turn.phase = "tools" =>
              /\ Finished \in Seq(Rows) /\ NewRows(turn) = Append(Finished, Reply("calls", replies))
              /\ WF(Finished) /\ Upto(Finished, Saved) /\ Before(mem.rows, NewRows(turn))
<1>1. turn.phase # "tools" => Finished = After(turn.full, turn.start)
  BY DEF Finished, NewRows
<1>2. CASE turn.phase # "tools"
  BY <1>1, <1>2 DEF TurnForm, Form, WF, NewRows
<1>3. CASE turn.phase = "tools"
  <2>1. turn.full \in Seq(Rows) /\ turn.start \in 0..Len(turn.full)
    BY <1>3, RunnerTurn DEF Asking
  <2>2. NewRows(turn) \in Seq(Rows)
    BY <2>1, AfterType DEF NewRows
  <2>3. NewRows(turn) = Append(Finished, Reply("calls", replies)) /\ Finished = Front(NewRows(turn))
    BY <1>3 DEF TurnForm, Finished
  <2>4. NewRows(turn) # <<>>
    <3>1. CASE NewRows(turn) = <<>>
      <4>1. Front(NewRows(turn)) = <<>>
        BY <3>1 DEF Front
      <4>2. Append(<<>>, Reply("calls", replies)) # <<>>
        OBVIOUS
      <4> QED
        BY <2>3, <3>1, <4>1, <4>2
    <3> QED
      BY <3>1
  <2>5. Finished \in Seq(Rows)
    BY <2>2, <2>3, <2>4, LastAndFront
  <2> QED
    BY <1>3, <2>3, <2>5 DEF TurnForm, WF
<1> QED
  BY <1>2, <1>3

LEMMA BasisIs ==
  ASSUME Sound, Step, Numbered, ~ ArchiveFails, turn.phase \in Asking
  PROVE  /\ FormBasis /\ replies \in Nat
         /\ turn.phase \in Handling => Saved < replies /\ replies \in 1..LastReply
         /\ turn.phase = "ask" => Saved = replies
<1>1. turn.full \in Seq(Rows) /\ turn.start \in 0..Len(turn.full) /\ mem.rows \in Seq(Rows)
  BY RunnerTurn DEF Sound, TypeOK, Sessions
<1>2. Saved \in Nat /\ replies \in Nat
  BY SavedGrows
<1>3. Upto(mem.rows, Saved)
  BY DEF Numbered
<1> QED
  BY <1>1, <1>2, <1>3, RunnerTurn DEF FormBasis

(* It says so of the next state, when the rows are in form.                *)
LEMMA TurnFormNext ==
  ASSUME turn'.phase \in Writing \ {"tools"}, turn'.start = turn.start, mem'.rows = mem.rows,
         Form(turn'.full, IF turn'.phase \in {"answered", "unanswered"} THEN Saved' ELSE replies')
  PROVE  TurnForm'
<1>1. turn'.phase # "tools"
  OBVIOUS
<1>2. NewRows(turn') = After(turn'.full, turn.start) /\ Finished' = After(turn'.full, turn.start)
  BY <1>1 DEF NewRows, Finished
<1> QED
  BY <1>1, <1>2 DEF TurnForm, Form, WF

(* What the next turn is, when the step does not end it.                   *)
LEMMA Became ==
  ASSUME Carries, NEW o, NEW phase, NEW full, Becomes(o, phase, full)
  PROVE  turn'.phase = phase /\ turn'.full = full
<1>1. turn' # Idle
  BY IdleOutside DEF Carries, Writing, Asking, Outside
<1> QED
  BY <1>1 DEF Becomes

(* The steps that hear a reply.                                            *)
LEMMA TurnFormHeard ==
  ASSUME Sound, RunnerStep, Carries, Numbered, TurnForm, ~ ArchiveFails,
         turn.phase = "ask", replies' = replies + 1, replies' \in 1..LastReply,
         mem'.rows = mem.rows,
         \/ turn'.phase \in {"ask", "answered", "unanswered"} /\ turn'.full = turn.full
         \/ turn'.phase = "ask" /\ turn'.full = CutOffRows(turn.full)
  PROVE  TurnForm'
<1>1. FormBasis /\ replies \in Nat /\ Saved = replies /\ turn.start <= Len(turn.full)
      /\ turn.full \in Seq(Rows) /\ replies' \in Nat
  <2>1. Step /\ turn.phase \in Asking
    BY DEF Step, Asking
  <2>2. FormBasis /\ replies \in Nat /\ Saved = replies
    BY <2>1, BasisIs
  <2> QED
    BY <2>2 DEF FormBasis
<1>2. Form(turn.full, replies)
  BY TurnFormIs DEF Writing, Asking
<1>3. Form(turn.full, replies')
  BY <1>1, <1>2, FormMore
<1>4. turn'.phase \in Writing \ {"tools"} /\ turn'.start = turn.start
  BY DEF Carries, Writing, Asking
<1>5. CASE turn'.phase \in {"answered", "unanswered"}
  <2>1. Saved' = replies' - 1
    BY <1>5 DEF Saved, Handling, Asking
  <2>2. replies' - 1 = replies
    BY <1>1
  <2>3. Form(turn'.full, Saved')
    BY <1>2, <1>5, <2>1, <2>2
  <2> QED
    BY <1>4, <1>5, <2>3, TurnFormNext
<1>6. CASE turn'.phase = "ask"
  <2>1. Form(CutOffRows(turn.full), replies')
    <3> DEFINE answered == Append(turn.full, Reply("answer", replies'))
    <3>1. Form(answered, replies') /\ answered \in Seq(Rows) /\ turn.start <= Len(answered)
      BY <1>1, <1>2, FormReply
    <3>2. {} \in SUBSET Msgs
      OBVIOUS
    <3> HIDE DEF answered
    <3>3. Form(Append(answered, Prompt({})), replies')
      BY <1>1, <3>1, <3>2, FormAppend
    <3> QED
      BY <3>3 DEF answered, CutOffRows
  <2>2. Form(turn'.full, replies')
    BY <1>3, <1>6, <2>1
  <2> QED
    BY <1>4, <1>6, <2>2, TurnFormNext
<1> QED
  BY <1>5, <1>6

(* The steps that handle one.                                              *)
LEMMA TurnFormHandled ==
  ASSUME Sound, RunnerStep, Carries, Numbered, TurnForm, ~ ArchiveFails, mem'.rows = mem.rows,
         turn.phase \in Handling, replies' = replies,
         NEW full \in Seq(Rows), turn.start <= Len(full), Form(full, replies),
         NEW sealed, NEW ms \in SUBSET Msgs,
         turn'.phase \in {"ask", "afterTools", "failed", "save"},
         turn'.full = full \/ turn'.full = Merged(full, sealed, ms)
  PROVE  TurnForm'
<1>1. FormBasis /\ replies \in Nat
  <2>1. Step /\ turn.phase \in Asking
    BY DEF Step, Handling
  <2> QED
    BY <2>1, BasisIs
<1>2. Form(turn'.full, replies')
  BY <1>1, FormMerged
<1>3. turn'.phase \in Writing \ {"tools"} /\ turn'.start = turn.start
      /\ turn'.phase \notin {"answered", "unanswered"}
  BY DEF Carries, Writing, Asking
<1> QED
  BY <1>2, <1>3, TurnFormNext

LEMMA TurnFormStep ==
  ASSUME Sound, RunnerStep, Carries, Numbered, TurnForm, ~ ArchiveFails
  PROVE  TurnForm'
<1>1. /\ turn.phase \in Asking /\ mem'.rows = mem.rows /\ Step
      /\ turn.full \in Seq(Rows) /\ turn.start \in 0..Len(turn.full) /\ Len(turn.full) \in Nat
  BY RunnerStepKeeps, RunnerTurn DEF RunnerKeeps, Step
<1>2. /\ FormBasis /\ replies \in Nat
      /\ turn.phase \in Handling => Saved < replies /\ replies \in 1..LastReply
      /\ turn.phase = "ask" => Saved = replies
  BY <1>1, BasisIs
<1>3. turn.start <= Len(turn.full) /\ Saved \in Nat
  BY <1>1, <1>2 DEF FormBasis
<1>4. {"tools", "afterTools", "answered", "unanswered", "failed"} = Handling
  BY DEF Handling, Asking
<1>5. waiting \subseteq Msgs
  BY DEF Sound, TypeOK
<1>6. ASSUME NEW o, Heard(o) PROVE o.full = turn.full
  BY <1>6 DEF Heard
<1>7. CASE ModelCallsTools
  <2>1. turn.phase = "ask" /\ replies' = replies + 1 /\ replies' \in 1..LastReply
        /\ turn'.phase = "tools" /\ turn'.full = Append(turn.full, Reply("calls", replies'))
    BY <1>6, <1>7, ModelCallsToolsDoes, Became
  <2> DEFINE rows == After(turn.full, turn.start)
  <2>2. WF(rows) /\ Upto(rows, replies) /\ Before(mem.rows, rows)
    BY <2>1, TurnFormIs DEF Form, Writing, Asking
  <2>3. rows \in Seq(Rows) /\ Reply("calls", replies') \in Rows
    BY <1>1, <2>1, AfterType, SmallRows DEF ReplyKinds
  <2> HIDE DEF rows
  <2>4. NewRows(turn') = Append(rows, Reply("calls", replies'))
    <3>1. After(Append(turn.full, Reply("calls", replies')), turn.start) = Append(rows, Reply("calls", replies'))
      BY <1>1, <2>3, AfterAppend DEF rows
    <3> QED
      BY <2>1, <3>1 DEF NewRows, Carries
  <2>5. Finished' = rows
    BY <2>1, <2>3, <2>4, LastOfAppend DEF Finished
  <2>6. Saved' = replies
    <3>1. Saved' = replies' - 1
      BY <2>1 DEF Saved, Handling, Asking
    <3>2. replies' - 1 = replies
      BY <1>2, <2>1
    <3> QED
      BY <3>1, <3>2
  <2>7. Before(mem.rows, Append(rows, Reply("calls", replies')))
    <3>1. \A k \in Reply("calls", replies').of : k > replies
      BY <1>2, <2>1 DEF Reply
    <3>2. mem.rows \in Seq(Rows) /\ Upto(mem.rows, replies)
      BY <1>2, <2>1 DEF FormBasis
    <3> QED
      BY <1>2, <2>2, <2>3, <3>1, <3>2, BeforeAppend
  <2> QED
    BY <1>1, <2>1, <2>2, <2>4, <2>5, <2>6, <2>7 DEF TurnForm, WF
<1>8. CASE ToolsReturn \/ ToolsFail
  <2> DEFINE full == Append(turn.full, Reply("result", replies))
             noted == Append(full, Reply("note", replies))
  <2>1. /\ turn.phase = "tools" /\ replies' = replies
        /\ \/ turn'.phase = "afterTools" /\ turn'.full = full
           \/ turn'.phase = "failed" /\ turn'.full = noted
    BY <1>8, ToolsReturnDoes, ToolsFailDoes, Became
  <2>2. Form(full, replies) /\ Form(noted, replies)
    BY <1>2, <1>4, <2>1, TurnFormIs, FormTools DEF Writing, Asking
  <2>3. full \in Seq(Rows) /\ noted \in Seq(Rows)
        /\ turn.start <= Len(full) /\ turn.start <= Len(noted)
    <3>1. Reply("result", replies) \in Rows /\ Reply("note", replies) \in Rows
      BY <1>2, <1>4, <2>1, SmallRows DEF ReplyKinds
    <3> QED
      BY <1>1, <3>1
  <2>4. {} \in SUBSET Msgs /\ turn.phase \in Handling
    BY <1>4, <2>1
  <2> HIDE DEF full, noted
  <2> QED
    BY <1>1, <2>1, <2>2, <2>3, <2>4, TurnFormHandled
<1>9. CASE AfterTools \/ AfterError
  <2>1. /\ turn.phase \in {"afterTools", "failed"} /\ replies' = replies
        /\ turn'.phase \in {"ask", "save"}
        /\ \/ turn'.full = turn.full
           \/ \E ms \in SUBSET waiting : turn'.full = Merged(turn.full, turn.sealed, ms)
    BY <1>9, AfterToolsDoes, AfterErrorDoes, Became
  <2>2. Form(turn.full, replies) /\ turn.phase \in Handling
    BY <1>4, <2>1, TurnFormIs DEF Writing, Asking
  <2>3. \E ms \in SUBSET Msgs : turn'.full = turn.full \/ turn'.full = Merged(turn.full, turn.sealed, ms)
    BY <1>5, <2>1
  <2> QED
    BY <1>1, <1>3, <2>1, <2>2, <2>3, TurnFormHandled
<1>10. CASE ModelGivesNothing \/ ModelFinalizes \/ ModelIsCutOff \/ ModelAnswers \/ ModelFails
  <2>1. turn.phase = "ask" /\ replies' = replies + 1 /\ replies' \in 1..LastReply
    BY <1>10, ModelGivesNothingDoes, ModelFinalizesDoes, ModelIsCutOffDoes, ModelAnswersDoes,
       ModelFailsDoes
  <2>2. \E o : /\ Heard(o)
               /\ \/ Becomes(o, "ask", o.full) \/ Becomes(o, "answered", o.full)
                  \/ Becomes(o, "unanswered", o.full) \/ Becomes(o, "ask", CutOffRows(o.full))
    BY <1>10, ModelGivesNothingDoes, ModelFinalizesDoes, ModelIsCutOffDoes, ModelAnswersDoes,
       ModelFailsDoes
  <2>3. \/ turn'.phase \in {"ask", "answered", "unanswered"} /\ turn'.full = turn.full
        \/ turn'.phase = "ask" /\ turn'.full = CutOffRows(turn.full)
    BY <1>6, <2>2, Became
  <2> QED
    BY <1>1, <2>1, <2>3, TurnFormHeard
<1>11. CASE AfterAnswer
  <2> DEFINE full == Append(turn.full, Reply("answer", replies))
  <2>1. /\ turn.phase = "answered" /\ replies' = replies
        /\ \/ \E ms \in SUBSET waiting : Becomes(turn, "ask", Merged(full, turn.sealed, ms))
           \/ Becomes(turn, "save", full)
    BY <1>11, AfterAnswerDoes
  <2>2. turn.phase \in Handling /\ Form(turn.full, Saved)
    BY <1>4, <2>1, TurnFormIs DEF Writing, Asking
  <2>3. Form(full, replies) /\ full \in Seq(Rows) /\ turn.start <= Len(full)
    BY <1>1, <1>2, <1>3, <2>2, FormReply
  <2> HIDE DEF full
  <2>4. \E ms \in SUBSET Msgs : turn'.full = full \/ turn'.full = Merged(full, turn.sealed, ms)
    BY <1>5, <2>1, Became
  <2>5. turn'.phase \in {"ask", "save"}
    BY <2>1, Became
  <2> QED
    BY <1>1, <2>1, <2>2, <2>3, <2>4, <2>5, TurnFormHandled
<1>12. CASE AfterFailure
  <2> DEFINE noted == Append(turn.full, Reply("note", replies))
  <2>1. /\ turn.phase = "unanswered" /\ replies' = replies
        /\ \/ \E ms \in SUBSET waiting : Becomes(turn, "ask", Merged(turn.full, turn.sealed, ms))
           \/ Becomes(turn, "failed", noted)
    BY <1>12, AfterFailureDoes
  <2>2. turn.phase \in Handling /\ Form(turn.full, Saved) /\ Saved < replies
    BY <1>2, <1>4, <2>1, TurnFormIs DEF Writing, Asking
  <2>3. Form(noted, replies) /\ noted \in Seq(Rows) /\ turn.start <= Len(noted)
    BY <1>1, <1>2, <1>3, <1>4, <2>2, FormReply
  <2>4. Form(turn.full, replies)
    <3>1. Saved <= replies
      BY <1>2, <1>3, <2>2
    <3> QED
      BY <1>1, <1>2, <1>3, <2>2, <3>1, FormMore
  <2> HIDE DEF noted
  <2>5. CASE \E ms \in SUBSET waiting : Becomes(turn, "ask", Merged(turn.full, turn.sealed, ms))
    <3>1. PICK ms \in SUBSET waiting : Becomes(turn, "ask", Merged(turn.full, turn.sealed, ms))
      BY <2>5
    <3>2. turn'.phase = "ask" /\ turn'.full = Merged(turn.full, turn.sealed, ms) /\ ms \in SUBSET Msgs
      BY <1>5, <3>1, Became
    <3> QED
      BY <1>1, <1>3, <2>1, <2>2, <2>4, <3>2, TurnFormHandled
  <2>6. CASE Becomes(turn, "failed", noted)
    <3>1. turn'.phase = "failed" /\ turn'.full = noted /\ {} \in SUBSET Msgs
      BY <2>6, Became
    <3> QED
      BY <1>1, <2>1, <2>2, <2>3, <3>1, TurnFormHandled
  <2> QED
    BY <2>1, <2>5, <2>6
<1>13. CASE OutOfIterations
  <2>1. turn.phase = "ask" /\ replies' = replies + 1 /\ replies' \in 1..LastReply
    BY <1>13, OutOfIterationsDoes
  <2>2. PICK ms \in SUBSET waiting, u \in Turns :
          LET full == IF ms = {} THEN turn.full ELSE Merged(turn.full, turn.sealed, ms) IN
          /\ u.full = Append(full, Reply("note", replies'))
          /\ Becomes(turn, "save", u.full) \/ Becomes(turn, "save", full)
    BY <1>13, OutOfIterationsDoes
  <2> DEFINE full == IF ms = {} THEN turn.full ELSE Merged(turn.full, turn.sealed, ms)
             noted == Append(full, Reply("note", replies'))
  <2>3. turn'.phase = "save" /\ turn'.full \in {full, noted}
    <3>1. Becomes(turn, "save", noted) \/ Becomes(turn, "save", full)
      BY <2>2
    <3> HIDE DEF full, noted
    <3> QED
      BY <3>1, Became
  <2>4. Form(turn.full, replies) /\ Saved = replies /\ replies < replies' /\ replies' \in Nat
    BY <1>2, <2>1, TurnFormIs DEF Writing, Asking
  <2>5. Form(full, replies) /\ full \in Seq(Rows) /\ turn.start <= Len(full)
    BY <1>1, <1>2, <1>3, <1>5, <2>4, FormMerged
  <2> HIDE DEF full
  <2>6. Form(noted, replies') /\ Form(full, replies')
    <3>1. replies <= replies'
      BY <1>2, <2>4
    <3> QED
      BY <1>2, <2>1, <2>4, <2>5, <3>1, FormReply, FormMore
  <2> HIDE DEF noted
  <2>7. turn'.phase \in Writing \ {"tools"} /\ turn'.start = turn.start
    BY <2>3 DEF Carries, Writing, Asking
  <2> QED
    BY <1>1, <2>3, <2>6, <2>7, TurnFormNext
<1> QED
  BY <1>7, <1>8, <1>9, <1>10, <1>11, <1>12, <1>13 DEF RunnerStep

(* The session stays in form, and so does what a restore would make of it. *)
LEMMA RestoredForm ==
  ASSUME NEW s \in Sessions, WF(s.rows),
         s.checkpoint # NoCheckpoint => Upto(s.rows, s.checkpoint.of - 1)
  PROVE  WF(RestoreCheckpoint(s).rows)
<1>1. CASE s.checkpoint = NoCheckpoint
  BY <1>1, RestoreIs
<1>2. CASE s.checkpoint # NoCheckpoint
  <2> DEFINE n == s.checkpoint.of
             block == Restored(s.checkpoint)
  <2>1. s.rows \in Seq(Rows) /\ s.checkpoint \in Checkpoints /\ Upto(s.rows, n - 1)
    BY <1>2 DEF Sessions
  <2>2. Missing(s.rows, block) = block /\ block \in Blocks(n)
    BY <1>2, <2>1, AllMissing
  <2>3. n \in 1..LastReply /\ n - 1 \in Nat /\ n - 1 < n
    <3>1. n \in 1..LastReply /\ LastReply \in Nat
      BY <1>2, <2>1, RestoredRows, HistoryAssumption DEF HistoryAssumption
    <3> QED
      BY <3>1
  <2>4. RestoreCheckpoint(s).rows = s.rows \o block
    BY <1>2, <2>2, RestoringAdds
  <2> HIDE DEF n, block
  <2> QED
    BY <2>1, <2>2, <2>3, <2>4, BlockAfter
<1> QED
  BY <1>1, <1>2

LEMMA PendingForm ==
  ASSUME NEW s \in Sessions, WF(s.rows)
  PROVE  WF(RestorePending(s).rows)
<1>1. Closed \in Rows /\ Closed.kind \notin ReplyKinds /\ s.rows \in Seq(Rows)
  BY SmallRows DEF Closed, ReplyKinds, Sessions
<1>2. RestorePending(s).rows \in {s.rows, Append(s.rows, Closed)}
  BY PendingIs
<1> QED
  BY <1>1, <1>2, WFLast

LEMMA InFormIs ==
  ASSUME ~ ArchiveFails
  PROVE  InForm <=> WF(mem.rows) /\ WF(disk.rows) /\ TurnForm
BY DEF InForm, WF, TurnForm

LEMMA FormOfMem ==
  ASSUME Sound, Step, Numbered, InForm, ~ ArchiveFails
  PROVE  WF(mem'.rows)
<1>1. /\ mem \in Sessions /\ disk \in Sessions /\ mem.rows \in Seq(Rows)
      /\ WF(mem.rows) /\ WF(disk.rows) /\ TurnForm
  BY InFormIs, SessionKinds DEF Sessions
<1>2. CASE mem' = RestoreCheckpoint(mem)
  BY <1>1, <1>2, RestoredForm DEF Numbered
<1>3. CASE mem' = RestorePending(mem)
  BY <1>1, <1>3, PendingForm
<1>4. CASE BuildTurn
  <2>1. \/ mem'.rows = mem.rows
        \/ turn.msg \in Msgs /\ mem'.rows = Append(mem.rows, Prompt({turn.msg}))
    BY <1>4, BuildTurnDoes
  <2>2. turn.msg \in Msgs => Prompt({turn.msg}) \in Rows /\ Prompt({turn.msg}).kind \notin ReplyKinds
    BY SmallRows DEF Prompt, ReplyKinds
  <2> QED
    BY <1>1, <2>1, <2>2, WFLast
<1>5. CASE PersistTurn
  <2>1. /\ turn.phase = "save" /\ mem'.rows = mem.rows \o NewRows(turn)
        /\ NewRows(turn) \in Seq(Rows)
    BY <1>5, PersistTurnDoes
  <2>2. WF(NewRows(turn)) /\ Before(mem.rows, NewRows(turn))
    BY <1>1, <2>1 DEF TurnForm, Finished, Writing, WF
  <2> QED
    BY <1>1, <2>1, <2>2, WFConcat
<1>6. CASE NewSession
  BY <1>6, NewSessionDoes, WFNothing
<1>7. CASE RunnerKeeps
  BY <1>1, <1>7 DEF RunnerKeeps
<1> QED
  BY <1>1, <1>2, <1>3, <1>4, <1>5, <1>6, <1>7, SessionKinds

LEMMA InFormStep ==
  ASSUME Sound, Step, Numbered, InForm
  PROVE  InForm'
<1>1. ArchiveFails' = ArchiveFails
  BY DEF Sound, ArchiveFails
<1> SUFFICES ASSUME ~ ArchiveFails PROVE WF(mem'.rows) /\ WF(disk'.rows) /\ TurnForm'
  BY <1>1 DEF InForm, TurnForm, WF
<1>2. WF(disk.rows) /\ TurnForm /\ disk' \in {disk, mem'}
  BY InFormIs, SessionKinds
<1>3. CASE Outside
  <2>1. turn'.phase \notin Writing /\ turn'.phase # "tools"
    BY <1>3 DEF Outside, Writing, Asking
  <2>2. TurnForm'
    BY <2>1 DEF TurnForm
  <2> QED
    BY <1>2, <2>2, FormOfMem
<1>4. CASE BuildTurn /\ ~ Outside
  <2>1. turn'.phase = "ask" /\ turn'.start = Len(turn'.full) /\ turn' \in Turns
    BY <1>4, BuildTurnDoes, IdleOutside DEF Asks
  <2>2. NewRows(turn') = <<>>
    BY <2>1, NothingAfterAll DEF NewRows, Turns
  <2>3. Finished' = <<>>
    BY <2>1, <2>2 DEF Finished
  <2>4. TurnForm'
    BY <2>1, <2>2, <2>3, WFNothing DEF TurnForm, WF, Upto, Before, ToSet
  <2> QED
    BY <1>2, <2>4, FormOfMem
<1>5. CASE RunnerStep /\ Carries
  BY <1>2, <1>5, FormOfMem, TurnFormStep
<1>6. CASE SavedElsewhere
  <2>1. turn' = turn /\ mem' = mem /\ replies' = replies
    BY <1>6 DEF SavedElsewhere
  <2>2. TurnForm'
    BY <1>2, <2>1 DEF TurnForm, Finished, Saved
  <2> QED
    BY <1>2, <2>2, FormOfMem
<1> QED
  BY <1>3, <1>4, <1>5, <1>6, TurnKinds

(* Every view of the session is in form.                                   *)
THEOREM HistoryInForm == Spec => []HistoryWellFormed
<1> DEFINE Inv == TypeOK /\ Counted /\ Placed /\ Numbered /\ InForm
<1>1. Init => Inv
  <2> SUFFICES ASSUME Init PROVE Inv
    OBVIOUS
  <2>1. /\ turn.phase = "idle" /\ mem.rows = <<>> /\ disk.rows = <<>>
        /\ mem.checkpoint = NoCheckpoint /\ disk.checkpoint = NoCheckpoint
    BY DEF Init, Idle, Empty
  <2>2. Numbered
    BY <2>1, UptoNothing DEF Numbered
  <2>3. WF(mem.rows) /\ WF(disk.rows)
    BY <2>1, WFNothing
  <2>4. InForm
    BY <2>1, <2>3 DEF InForm, WF, Writing, Asking
  <2> QED
    BY <2>2, <2>4, BasicsInit
<1>2. Inv /\ [Next]_vars => Inv'
  <2> SUFFICES ASSUME Inv, [Next]_vars PROVE Inv'
    OBVIOUS
  <2>1. CASE Next
    <3>1. Sound /\ Step
      BY <2>1, NextIs
    <3> QED
      BY <3>1, BasicsStep, NumberedStep, InFormStep
  <2>2. CASE UNCHANGED vars
    BY <2>2 DEF vars, TypeOK, Counted, Placed, Turns, MaxIterations, MaxCycles, MaxFaults,
                ArchiveFails, Numbered, Saved, InForm, Finished, NewRows
  <2> QED
    BY <2>1, <2>2
<1>3. Inv => HistoryWellFormed
  <2> SUFFICES ASSUME Inv, ~ ArchiveFails, NEW s \in Views PROVE WF(s.rows)
    BY DEF HistoryWellFormed, WF
  <2>1. ASSUME NEW r \in {mem, disk} PROVE WF(r.rows) /\ WF(Recover(r).rows)
    <3>1. /\ r \in Sessions /\ WF(r.rows)
          /\ r.checkpoint # NoCheckpoint => Upto(r.rows, r.checkpoint.of - 1)
      BY DEF InForm, WF, Numbered, TypeOK
    <3>2. RestoreCheckpoint(r) \in Sessions /\ WF(RestoreCheckpoint(r).rows)
      BY <3>1, RestoreIs, RestoredForm
    <3> QED
      BY <3>1, <3>2, PendingForm DEF Recover
  <2> QED
    BY <2>1 DEF Views
<1> QED
  BY <1>1, <1>2, <1>3, PTL DEF Spec

-----------------------------------------------------------------------------
(* Messages are taken once.                                                *)

LEMMA MentionsAppend ==
  ASSUME NEW rows \in Seq(Rows), NEW row \in Rows, NEW ms, ~ Mentions(rows, ms),
         IsUser(row) => row.of \cap ms = {}
  PROVE  ~ Mentions(Append(rows, row), ms)
<1>1. ToSet(Append(rows, row)) = ToSet(rows) \cup {row}
  BY RangeOfAppend
<1> QED
  BY <1>1 DEF Mentions

LEMMA MentionsConcat ==
  ASSUME NEW a \in Seq(Rows), NEW b \in Seq(Rows), NEW ms, ~ Mentions(a, ms), ~ Mentions(b, ms)
  PROVE  ~ Mentions(a \o b, ms)
<1>1. ToSet(a \o b) = ToSet(a) \cup ToSet(b)
  BY RangeOfConcat
<1> QED
  BY <1>1 DEF Mentions

LEMMA MentionsNothing ==
  ASSUME NEW ms
  PROVE  ~ Mentions(<<>>, ms)
BY DEF Mentions, ToSet

(* Only the prompt and the rows of a turn bring messages to the session.   *)
LEMMA SessionMentions ==
  ASSUME Sound, Step, NEW ms, ~ Mentions(mem.rows, ms), ~ Mentions(disk.rows, ms),
         BuildTurn => turn.msg \notin ms,
         PersistTurn => ~ Mentions(turn.full, ms)
  PROVE  ~ Mentions(mem'.rows, ms) /\ ~ Mentions(disk'.rows, ms)
<1>1. /\ mem \in Sessions /\ disk \in Sessions /\ mem.rows \in Seq(Rows)
      /\ disk' \in {disk, mem'}
  BY SessionKinds DEF Sessions
<1>2. CASE mem' = RestoreCheckpoint(mem)
  <2>1. CASE mem.checkpoint = NoCheckpoint
    BY <1>1, <1>2, <2>1, RestoreIs
  <2>2. CASE mem.checkpoint # NoCheckpoint
    <3> DEFINE added == Missing(mem.rows, Restored(mem.checkpoint))
    <3>1. /\ added \in Seq(Rows) /\ ToSet(added) \subseteq ToSet(Restored(mem.checkpoint))
          /\ mem'.rows = mem.rows \o added
      BY <1>1, <1>2, <2>2, RestoringAdds
    <3>2. \A row \in ToSet(Restored(mem.checkpoint)) : row.kind \in ReplyKinds
      BY <1>1, <2>2, RestoredRows DEF Sessions
    <3> HIDE DEF added
    <3>3. ~ Mentions(added, ms)
      BY <3>1, <3>2 DEF Mentions, IsUser, ReplyKinds
    <3> QED
      BY <1>1, <3>1, <3>3, MentionsConcat
  <2> QED
    BY <2>1, <2>2
<1>3. CASE mem' = RestorePending(mem)
  <2>1. mem'.rows = mem.rows \/ mem'.rows = Append(mem.rows, Closed)
    BY <1>1, <1>3, PendingIs
  <2>2. Closed \in Rows /\ ~ IsUser(Closed)
    BY SmallRows DEF Closed, IsUser
  <2> QED
    BY <1>1, <2>1, <2>2, MentionsAppend
<1>4. CASE BuildTurn
  <2>1. \/ mem'.rows = mem.rows
        \/ turn.msg \in Msgs /\ mem'.rows = Append(mem.rows, Prompt({turn.msg}))
    BY <1>4, BuildTurnDoes
  <2>2. turn.msg \in Msgs =>
          Prompt({turn.msg}) \in Rows /\ Prompt({turn.msg}).of \cap ms = {}
    BY <1>4, SmallRows DEF Prompt
  <2> QED
    BY <1>1, <1>4, <2>1, <2>2, MentionsAppend
<1>5. CASE PersistTurn
  <2>1. /\ turn.phase = "save" /\ mem'.rows = mem.rows \o NewRows(turn)
        /\ NewRows(turn) \in Seq(Rows)
    BY <1>5, PersistTurnDoes
  <2>2. turn.full \in Seq(Rows) /\ turn.start \in 0..Len(turn.full)
    <3>1. /\ turn.full \in Seq(Rows) /\ turn.start \in Nat /\ turn.boundary \in Nat
          /\ turn.start <= turn.boundary /\ turn.boundary <= Len(turn.full) /\ Len(turn.full) \in Nat
      BY <2>1 DEF Sound, TypeOK, Turns, Placed, Writing
    <3> QED
      BY <3>1
  <2>3. ToSet(NewRows(turn)) \subseteq ToSet(turn.full)
    BY <2>2, AfterType DEF NewRows
  <2>4. ~ Mentions(NewRows(turn), ms)
    BY <1>5, <2>3 DEF Mentions
  <2> QED
    BY <1>1, <2>1, <2>4, MentionsConcat
<1>6. CASE NewSession
  BY <1>1, <1>6, NewSessionDoes, MentionsNothing
<1>7. CASE RunnerKeeps
  BY <1>1, <1>7 DEF RunnerKeeps
<1> QED
  BY <1>1, <1>2, <1>3, <1>4, <1>5, <1>6, <1>7, SessionKinds

(* A turn outside the runner has no new rows, and its message was waiting. *)
LEMMA OutsideTurn ==
  ASSUME Sound, Step, Outside
  PROVE  /\ turn'.full \in {<<>>, turn.full} /\ waiting' \subseteq waiting
         /\ \/ turn'.phase = "idle" /\ turn'.msg = None
            \/ /\ turn'.msg \notin waiting' /\ turn'.msg \in waiting \cup {None}
               /\ SameSession
            \/ /\ turn'.phase = "idle" \/ turn.phase \in {"restore", "close", "build"}
               /\ turn'.msg = turn.msg
               /\ ~ BuildTurn /\ ~ PersistTurn
<1>1. ASSUME turn' = Idle PROVE turn'.full = <<>> /\ turn'.phase = "idle" /\ turn'.msg = None
  BY <1>1, IdleOutside
<1>2. ASSUME NEW m \in Msgs \cup {None}, StartTurn(m)
      PROVE  /\ turn'.full = <<>> /\ waiting' \subseteq waiting /\ SameSession
             /\ turn'.msg \notin waiting' /\ turn'.msg \in waiting \cup {None}
  <2>1. turn'.msg = m /\ waiting' = waiting \ {m} /\ m \in waiting \cup {None} /\ turn'.full = <<>>
        /\ SameSession
    BY <1>2, StartTurnDoes
  <2> QED
    BY <2>1
<1>3. CASE RestoreTurn
  BY <1>1, <1>3, RestoreTurnDoes DEF BuildTurn, PersistTurn
<1>4. CASE CloseTurn
  BY <1>1, <1>4, CloseTurnDoes DEF BuildTurn, PersistTurn
<1>5. CASE BuildTurn
  BY <1>1, <1>5, BuildTurnDoes DEF Asks, Outside
<1>6. CASE RunnerStep
  BY <1>1, <1>6, RunnerStepKeeps DEF RunnerKeeps, Carries, Outside, Writing, Asking
<1>7. CASE SavedElsewhere
  <2>1. turn' = turn /\ waiting' = waiting
    BY <1>7 DEF SavedElsewhere
  <2>2. ~ BuildTurn /\ ~ PersistTurn
    BY <2>1, BuildTurnDoes, PersistTurnDoes, IdleOutside DEF Asks
  <2>3. turn'.phase = "idle" \/ turn.phase = "idle" \/ turn.phase \in {"restore", "close", "build"}
    BY <2>1 DEF Outside
  <2> QED
    BY <1>1, <2>1, <2>2, <2>3
<1>8. CASE PersistTurn
  BY <1>1, <1>8, PersistTurnDoes
<1>9. CASE TurnFails
  BY <1>1, <1>9 DEF TurnFails
<1>10. CASE Stop
  BY <1>1, <1>10, StopDoes
<1>11. CASE NewSession
  BY <1>1, <1>11, NewSessionDoes
<1>12. CASE Crash
  BY <1>1, <1>12 DEF Crash
<1> QED
  BY <1>2, <1>3, <1>4, <1>5, <1>6, <1>7, <1>8, <1>9, <1>10, <1>11, <1>12 DEF Step

LEMMA UntakenStep ==
  ASSUME Sound, Step, Untaken
  PROVE  Untaken'
<1>1. /\ mem \in Sessions /\ disk \in Sessions /\ mem.rows \in Seq(Rows) /\ disk.rows \in Seq(Rows)
      /\ waiting \subseteq Msgs /\ None \notin Msgs
  BY SessionKinds, Limits DEF Sound, TypeOK, Sessions
<1>2. waiting' \subseteq waiting
  <2>1. CASE RunnerStep
    BY <2>1, RunnerStepKeeps DEF RunnerKeeps
  <2>2. CASE ~ RunnerStep
    BY <2>2, StartTurnDoes, RestoreTurnDoes, CloseTurnDoes, BuildTurnDoes, PersistTurnDoes,
       StopDoes, NewSessionDoes DEF Step, TurnFails, SavedElsewhere, Crash
  <2> QED
    BY <2>1, <2>2
<1>3. ~ Mentions(mem'.rows, waiting') /\ ~ Mentions(disk'.rows, waiting')
  <2>1. ~ Mentions(mem'.rows, waiting) /\ ~ Mentions(disk'.rows, waiting)
    BY SessionMentions DEF Untaken
  <2> QED
    BY <1>2, <2>1 DEF Mentions
<1>4. ~ Mentions(turn'.full, waiting') /\ turn'.msg \notin waiting'
  <2>1. CASE Outside
    <3>1. turn'.full \in {<<>>, turn.full}
      BY <2>1, OutsideTurn
    <3>2. ~ Mentions(turn'.full, waiting)
      BY <3>1, MentionsNothing DEF Untaken
    <3>3. turn'.msg \notin waiting'
      BY <1>1, <1>2, <2>1, OutsideTurn DEF Untaken
    <3> QED
      BY <1>2, <3>2, <3>3 DEF Mentions
  <2>2. CASE BuildTurn /\ ~ Outside
    <3> DEFINE ms == {turn.msg} \ {None}
    <3>1. turn'.msg = turn.msg /\ turn'.full = Joined(mem.rows, ms) /\ ms \in SUBSET Msgs
          /\ waiting' = waiting
      BY <2>2, BuildTurnDoes, IdleOutside DEF Asks
    <3>2. ms \cap waiting = {} /\ ~ Mentions(mem.rows, waiting)
      BY DEF Untaken
    <3> HIDE DEF ms
    <3>3. ~ Mentions(Joined(mem.rows, ms), waiting)
      <4>1. CASE EndsWithUser(mem.rows)
        <5> DEFINE row == Prompt(Last(mem.rows).of \cup ms)
        <5>1. /\ row \in Rows /\ row.of = Last(mem.rows).of \cup ms
              /\ Joined(mem.rows, ms) = Append(Front(mem.rows), row)
          BY <1>1, <3>1, <4>1, JoinedIs DEF Prompt
        <5>2. /\ Front(mem.rows) \in Seq(Rows) /\ ToSet(Front(mem.rows)) \subseteq ToSet(mem.rows)
              /\ Last(mem.rows) \in ToSet(mem.rows) /\ IsUser(Last(mem.rows))
          BY <1>1, <4>1, LastAndFront DEF EndsWithUser
        <5>3. Last(mem.rows).of \cap waiting = {} /\ ~ Mentions(Front(mem.rows), waiting)
          BY <3>2, <5>2 DEF Mentions
        <5>4. row.of \cap waiting = {}
          BY <3>2, <5>1, <5>3
        <5> HIDE DEF row
        <5> QED
          BY <5>1, <5>2, <5>3, <5>4, MentionsAppend
      <4>2. CASE ~ EndsWithUser(mem.rows)
        <5>1. Joined(mem.rows, ms) = Append(mem.rows, Prompt(ms))
              /\ Prompt(ms) \in Rows /\ Prompt(ms).of = ms
          BY <1>1, <3>1, <4>2, JoinedIs, SmallRows DEF Prompt
        <5> QED
          BY <1>1, <3>2, <5>1, MentionsAppend
      <4> QED
        BY <4>1, <4>2
    <3> QED
      BY <3>1, <3>3 DEF Untaken
  <2>3. CASE RunnerStep /\ Carries
    <3>1. /\ turn'.msg = turn.msg
          /\ \A row \in ToSet(turn'.full) : IsUser(row) =>
               \A m \in row.of : m \in waiting \ waiting' \/ Mentions(turn.full, {m})
      BY <2>3 DEF Carries, Grows
    <3>2. \A m \in waiting' : ~ Mentions(turn.full, {m})
      BY <1>2 DEF Untaken, Mentions
    <3>3. ~ Mentions(turn'.full, waiting')
      BY <3>1, <3>2 DEF Mentions
    <3> QED
      BY <1>2, <3>1, <3>3 DEF Untaken
  <2>4. CASE SavedElsewhere
    BY <2>4 DEF SavedElsewhere, Untaken
  <2> QED
    BY <2>1, <2>2, <2>3, <2>4, TurnKinds
<1>5. ASSUME turn'.phase \in {"restore", "close", "build"}
      PROVE  ~ Mentions(mem'.rows, {turn'.msg}) /\ ~ Mentions(disk'.rows, {turn'.msg})
  <2>1. Outside
    BY <1>5 DEF Outside
  <2>2. CASE turn'.msg \in waiting \cup {None} /\ SameSession
    <3>1. ASSUME NEW rows \in Seq(Rows), ~ Mentions(rows, waiting)
          PROVE  ~ Mentions(rows, {turn'.msg})
      <4>1. \A row \in ToSet(rows) : IsUser(row) => row.of \subseteq Msgs
        BY RangeIs, RowShape
      <4> QED
        BY <1>1, <2>2, <3>1, <4>1 DEF Mentions
    <3>2. ~ Mentions(mem.rows, {turn'.msg}) /\ ~ Mentions(disk.rows, {turn'.msg})
      BY <1>1, <3>1 DEF Untaken
    <3> QED
      BY <2>2, <3>2 DEF SameSession
  <2>3. CASE /\ turn'.phase = "idle" \/ turn.phase \in {"restore", "close", "build"}
             /\ turn'.msg = turn.msg
             /\ ~ BuildTurn /\ ~ PersistTurn
    BY <1>5, <2>3, SessionMentions DEF Untaken
  <2> QED
    BY <1>5, <2>1, <2>2, <2>3, OutsideTurn
<1> QED
  BY <1>3, <1>4, <1>5 DEF Untaken

-----------------------------------------------------------------------------
(* The file is continued or started afresh.                                *)

LEMMA PrefixIs ==
  ASSUME NEW a \in Seq(Rows), NEW b \in Seq(Rows)
  PROVE  /\ IsPrefix(a, a) /\ IsPrefix(<<>>, a)
         /\ \A old \in Seq(Rows) : IsPrefix(old, a) => IsPrefix(old, a \o b)
<1>1. Len(a) \in Nat /\ SubSeq(a, 1, Len(a)) = SubSeq(a, 1, Len(a))
  OBVIOUS
<1>2. IsPrefix(a, a)
  BY <1>1 DEF IsPrefix
<1>3. IsPrefix(<<>>, a)
  <2>1. Len(<<>>) = 0 /\ SubSeq(<<>>, 1, 0) = <<>> /\ SubSeq(a, 1, 0) = <<>>
    BY SubSeqProperties
  <2> QED
    BY <1>1, <2>1 DEF IsPrefix
<1>4. ASSUME NEW old \in Seq(Rows), IsPrefix(old, a)
      PROVE  IsPrefix(old, a \o b)
  <2>1. /\ Len(old) \in Nat /\ Len(b) \in Nat /\ Len(old) <= Len(a)
        /\ a \o b \in Seq(Rows) /\ Len(a \o b) = Len(a) + Len(b)
        /\ \A i \in 1..Len(a) : (a \o b)[i] = a[i]
    BY <1>1, <1>4, ConcatProperties DEF IsPrefix
  <2> DEFINE ab == a \o b
             x == SubSeq(ab, 1, Len(old))
             y == SubSeq(a, 1, Len(old))
  <2> HIDE DEF ab
  <2>2. /\ Len(old) \in 0..Len(a) /\ Len(old) \in 0..Len(ab) /\ ab \in Seq(Rows)
        /\ \A i \in 1..Len(a) : ab[i] = a[i]
    BY <1>1, <2>1 DEF ab
  <2>3. /\ x \in Seq(Rows) /\ Len(x) = Len(old)
        /\ \A i \in 1..Len(old) : x[i] = ab[i]
    BY <2>2, SubSeqProperties
  <2>4. /\ y \in Seq(Rows) /\ Len(y) = Len(old)
        /\ \A i \in 1..Len(old) : y[i] = a[i]
    BY <2>2, SubSeqProperties
  <2> HIDE DEF x, y
  <2>5. \A i \in 1..Len(x) : x[i] = y[i]
    BY <2>1, <2>2, <2>3, <2>4
  <2>6. x = y
    BY <2>3, <2>4, <2>5, SeqEqual
  <2>7. Len(old) <= Len(ab)
    BY <1>1, <2>1 DEF ab
  <2> QED
    BY <1>4, <2>6, <2>7 DEF IsPrefix, x, y, ab
<1> QED
  BY <1>2, <1>3, <1>4

LEMMA HeadOfConcat ==
  ASSUME NEW a \in Seq(Rows), NEW b \in Seq(Rows)
  PROVE  /\ a # <<>> => a \o b # <<>> /\ Head(a \o b) = Head(a)
         /\ a = <<>> => a \o b = b
<1>1. ASSUME a # <<>> PROVE a \o b # <<>> /\ Head(a \o b) = Head(a)
  <2>1. /\ Len(a) \in Nat \ {0} /\ Len(b) \in Nat /\ Len(a \o b) = Len(a) + Len(b)
        /\ (a \o b)[1] = a[1] /\ a \o b \in Seq(Rows)
    BY <1>1, ConcatProperties, EmptySeq
  <2>2. a \o b # <<>>
    BY <2>1
  <2> QED
    BY <1>1, <2>1, <2>2
<1> QED
  BY <1>1

LEMMA OnwardConcat ==
  ASSUME NEW old \in Seq(Rows), NEW a \in Seq(Rows), NEW b \in Seq(Rows),
         Onward(old, a), a = <<>> => Apart(old, b)
  PROVE  Onward(old, a \o b)
<1>1. CASE IsPrefix(old, a)
  BY <1>1, PrefixIs DEF Onward
<1>2. CASE old = <<>>
  BY <1>2 DEF Onward, Apart
<1>3. CASE a = <<>>
  BY <1>3, HeadOfConcat DEF Onward
<1>4. CASE a # <<>> /\ Head(a) # Head(old)
  BY <1>4, HeadOfConcat DEF Onward, Apart
<1> QED
  BY <1>1, <1>2, <1>3, <1>4 DEF Onward, Apart

(* Rows that begin with one that is not in the file are apart from it.     *)
LEMMA ApartIs ==
  ASSUME NEW old \in Seq(Rows), NEW new, new # <<>> => Head(new) \notin ToSet(old)
  PROVE  Apart(old, new)
<1>1. old # <<>> => Head(old) \in ToSet(old)
  <2> SUFFICES ASSUME old # <<>> PROVE Head(old) \in ToSet(old)
    OBVIOUS
  <2>1. 1 \in 1..Len(old) /\ Head(old) = old[1]
    BY EmptySeq
  <2> QED
    BY <2>1, RangeIs
<1> QED
  BY <1>1 DEF Apart

LEMMA ApartReply ==
  ASSUME NEW old \in Seq(Rows), NEW row \in Rows, NEW n \in Nat, Upto(old, n),
         row.kind \in ReplyKinds, \A k \in row.of : k > n
  PROVE  row \notin ToSet(old)
<1> SUFFICES ASSUME row \in ToSet(old) PROVE FALSE
  OBVIOUS
<1>1. PICK k \in 1..LastReply : row.of = {k}
  BY RowShape
<1>2. k \in row.of
  BY <1>1
<1>3. k <= n
  BY <1>2 DEF Upto
<1>4. k > n
  BY <1>2
<1>5. k \in Int /\ n \in Int
  BY <1>1, HistoryAssumption DEF HistoryAssumption
<1> QED
  BY <1>3, <1>4, <1>5

LEMMA OnwardMem ==
  ASSUME Sound, Step, Numbered, Untaken, Continues, ~ ArchiveFails
  PROVE  Onward(disk.rows, mem'.rows)
<1>1. /\ mem \in Sessions /\ disk \in Sessions /\ mem.rows \in Seq(Rows) /\ disk.rows \in Seq(Rows)
      /\ Onward(disk.rows, mem.rows)
  BY SessionKinds DEF Sessions, Continues
<1>2. CASE mem' = mem \/ RunnerKeeps
  BY <1>1, <1>2 DEF RunnerKeeps
<1>3. CASE mem' = disk
  BY <1>1, <1>3, PrefixIs DEF Onward
<1>4. CASE mem' = RestoreCheckpoint(mem)
  <2>1. CASE mem.checkpoint = NoCheckpoint
    BY <1>1, <1>4, <2>1, RestoreIs
  <2>2. CASE mem.checkpoint # NoCheckpoint
    <3> DEFINE added == Missing(mem.rows, Restored(mem.checkpoint))
               n == mem.checkpoint.of
    <3>1. /\ added \in Seq(Rows) /\ ToSet(added) \subseteq ToSet(Restored(mem.checkpoint))
          /\ mem'.rows = mem.rows \o added
      BY <1>1, <1>4, <2>2, RestoringAdds
    <3>2. /\ \A row \in ToSet(Restored(mem.checkpoint)) : row.kind \in ReplyKinds /\ row.of = {n}
          /\ n \in 1..LastReply
      BY <1>1, <2>2, RestoredRows DEF Sessions
    <3>3. Upto(disk.rows, n - 1)
      BY <2>2 DEF Numbered
    <3> HIDE DEF added, n
    <3>4. n - 1 \in Nat /\ n > n - 1
      BY <3>2, HistoryAssumption DEF HistoryAssumption
    <3>5. \A row \in ToSet(added) : row \notin ToSet(disk.rows)
      <4> SUFFICES ASSUME NEW row \in ToSet(added) PROVE row \notin ToSet(disk.rows)
        OBVIOUS
      <4>1. row \in Rows /\ row.kind \in ReplyKinds /\ \A k \in row.of : k > n - 1
        BY <3>1, <3>2, <3>4, RangeIs
      <4> QED
        BY <1>1, <3>3, <3>4, <4>1, ApartReply
    <3>6. added # <<>> => Head(added) \in ToSet(added)
      <4> SUFFICES ASSUME added # <<>> PROVE Head(added) \in ToSet(added)
        OBVIOUS
      <4>1. 1 \in 1..Len(added) /\ Head(added) = added[1]
        BY <3>1, EmptySeq
      <4> QED
        BY <3>1, <4>1, RangeIs
    <3>7. Apart(disk.rows, added)
      BY <1>1, <3>5, <3>6, ApartIs
    <3> QED
      BY <1>1, <3>1, <3>7, OnwardConcat
  <2> QED
    BY <2>1, <2>2
<1>5. CASE mem' = RestorePending(mem)
  <2>1. CASE mem.pending /\ EndsWithUser(mem.rows)
    <3>1. mem'.rows = Append(mem.rows, Closed) /\ mem.rows # <<>>
      BY <1>1, <1>5, <2>1, PendingIs DEF EndsWithUser
    <3>2. <<Closed>> \in Seq(Rows) /\ Append(mem.rows, Closed) = mem.rows \o <<Closed>>
      BY <1>1, SmallRows, AppendIsConcat
    <3> QED
      BY <1>1, <3>1, <3>2, OnwardConcat
  <2>2. CASE ~ (mem.pending /\ EndsWithUser(mem.rows))
    BY <1>1, <1>5, <2>2, PendingIs
  <2> QED
    BY <2>1, <2>2
<1>6. CASE BuildTurn
  <2>1. \/ mem'.rows = mem.rows
        \/ turn.msg \in Msgs /\ mem'.rows = Append(mem.rows, Prompt({turn.msg}))
    BY <1>6, BuildTurnDoes
  <2>2. CASE mem'.rows = mem.rows
    BY <1>1, <2>2
  <2>3. CASE turn.msg \in Msgs /\ mem'.rows = Append(mem.rows, Prompt({turn.msg}))
    <3> DEFINE row == Prompt({turn.msg})
    <3>1. row \in Rows /\ IsUser(row) /\ row.of = {turn.msg}
      BY <2>3, SmallRows DEF Prompt, IsUser
    <3>2. ~ Mentions(disk.rows, {turn.msg})
      BY <1>6, BuildTurnDoes DEF Untaken
    <3>3. row \notin ToSet(disk.rows)
      BY <3>1, <3>2 DEF Mentions
    <3> HIDE DEF row
    <3>4. <<row>> \in Seq(Rows) /\ Append(mem.rows, row) = mem.rows \o <<row>> /\ Head(<<row>>) = row
      BY <1>1, <3>1, AppendIsConcat
    <3>5. Apart(disk.rows, <<row>>)
      BY <1>1, <3>3, <3>4, ApartIs
    <3>6. Onward(disk.rows, mem.rows \o <<row>>)
      BY <1>1, <3>4, <3>5, OnwardConcat
    <3> QED
      BY <2>3, <3>4, <3>6 DEF row
  <2> QED
    BY <2>1, <2>2, <2>3
<1>7. CASE PersistTurn
  <2>1. /\ turn.phase = "save" /\ mem'.rows = mem.rows \o NewRows(turn)
        /\ NewRows(turn) \in Seq(Rows)
    BY <1>7, PersistTurnDoes
  <2>2. mem.rows = <<>> => Apart(disk.rows, NewRows(turn))
    BY <2>1 DEF Continues, Writing
  <2> QED
    BY <1>1, <2>1, <2>2, OnwardConcat
<1>8. CASE NewSession
  BY <1>8, NewSessionDoes DEF Onward, Apart
<1> QED
  BY <1>2, <1>3, <1>4, <1>5, <1>6, <1>7, <1>8, SessionKinds

(* In memory the rows only grow, except by /new and a restart.             *)
LEMMA MemGrows ==
  ASSUME Sound, Step, ~ NewSession, ~ Crash
  PROVE  \E added \in Seq(Rows) : mem'.rows = mem.rows \o added
<1>1. mem \in Sessions /\ disk \in Sessions /\ mem.rows \in Seq(Rows)
  BY SessionKinds DEF Sessions
<1>2. ASSUME mem'.rows = mem.rows
      PROVE  \E added \in Seq(Rows) : mem'.rows = mem.rows \o added
  <2>1. <<>> \in Seq(Rows) /\ mem.rows \o <<>> = mem.rows
    BY <1>1, ConcatEmptySeq
  <2> QED
    BY <1>2, <2>1
<1>3. ASSUME NEW row \in Rows, mem'.rows = Append(mem.rows, row)
      PROVE  \E added \in Seq(Rows) : mem'.rows = mem.rows \o added
  <2>1. <<row>> \in Seq(Rows) /\ Append(mem.rows, row) = mem.rows \o <<row>>
    BY <1>1, AppendIsConcat
  <2> QED
    BY <1>3, <2>1
<1>4. CASE mem' = mem \/ RunnerKeeps
  BY <1>2, <1>4 DEF RunnerKeeps
<1>5. CASE mem' = RestoreCheckpoint(mem)
  <2>1. CASE mem.checkpoint = NoCheckpoint
    BY <1>1, <1>2, <1>5, <2>1, RestoreIs
  <2>2. CASE mem.checkpoint # NoCheckpoint
    BY <1>1, <1>5, <2>2, RestoringAdds
  <2> QED
    BY <2>1, <2>2
<1>6. CASE mem' = RestorePending(mem)
  <2>1. mem'.rows = mem.rows \/ mem'.rows = Append(mem.rows, Closed)
    BY <1>1, <1>6, PendingIs
  <2> QED
    BY <1>2, <1>3, <2>1, SmallRows
<1>7. CASE BuildTurn
  <2>1. \/ mem'.rows = mem.rows
        \/ turn.msg \in Msgs /\ mem'.rows = Append(mem.rows, Prompt({turn.msg}))
    BY <1>7, BuildTurnDoes
  <2>2. turn.msg \in Msgs => Prompt({turn.msg}) \in Rows
    BY SmallRows
  <2> QED
    BY <1>2, <1>3, <2>1, <2>2
<1>8. CASE PersistTurn
  BY <1>8, PersistTurnDoes
<1> QED
  BY <1>4, <1>5, <1>6, <1>7, <1>8, SessionKinds

(* Until /new is asked for, the session in memory continues its file.      *)
Ties == ~ renewed => IsPrefix(disk.rows, mem.rows)

LEMMA TiesStep ==
  ASSUME Sound, Step, Ties
  PROVE  Ties'
<1>1. /\ disk' \in {disk, mem'} /\ disk.rows \in Seq(Rows) /\ mem.rows \in Seq(Rows)
      /\ mem'.rows \in Seq(Rows)
  BY SessionKinds, BasicsStep DEF Sessions, TypeOK
<1>2. CASE disk' = mem'
  BY <1>1, <1>2, PrefixIs DEF Ties
<1>3. CASE NewSession
  BY <1>3 DEF NewSession, Ties
<1>4. CASE Crash
  BY <1>1, <1>4, PrefixIs DEF Crash, Ties
<1>5. CASE disk' = disk /\ ~ NewSession /\ ~ Crash
  <2>1. renewed' = renewed
    BY <1>5 DEF Sound, Follows, RowsFollow, TypeOK
  <2>2. PICK added \in Seq(Rows) : mem'.rows = mem.rows \o added
    BY <1>5, MemGrows
  <2>3. ~ renewed => IsPrefix(disk.rows, mem'.rows)
    BY <1>1, <2>2, PrefixIs DEF Ties
  <2> QED
    BY <1>5, <2>1, <2>3 DEF Ties
<1> QED
  BY <1>1, <1>2, <1>3, <1>4, <1>5

LEMMA ContinuesStep ==
  ASSUME Sound, Step, Numbered, Untaken, Continues
  PROVE  Continues'
<1>1. ArchiveFails' = ArchiveFails
  BY DEF Sound, ArchiveFails
<1> SUFFICES ASSUME ~ ArchiveFails
             PROVE  /\ Onward(disk'.rows, mem'.rows) /\ Ties'
                    /\ turn'.phase \in Writing /\ mem'.rows = <<>> =>
                         Apart(disk'.rows, NewRows(turn'))
  BY <1>1 DEF Continues, Ties
<1>2. /\ disk' \in {disk, mem'} /\ disk \in Sessions /\ disk.rows \in Seq(Rows)
      /\ mem' \in Sessions /\ mem'.rows \in Seq(Rows)
  BY SessionKinds, BasicsStep DEF Sessions, TypeOK
<1>3. Onward(disk'.rows, mem'.rows) /\ Ties'
  <2>1. Onward(disk'.rows, mem'.rows)
    BY <1>2, OnwardMem, PrefixIs DEF Onward
  <2>2. Ties
    BY DEF Continues, Ties
  <2> QED
    BY <2>1, <2>2, TiesStep
<1>4. ASSUME turn'.phase \in Writing, mem'.rows = <<>>
      PROVE  Apart(disk'.rows, NewRows(turn'))
  <2>1. CASE disk' = mem'
    BY <1>4, <2>1 DEF Apart
  <2>2. CASE Outside
    BY <1>4, <2>2 DEF Outside, Writing, Asking
  <2>3. CASE BuildTurn
    <3>1. turn'.phase = "ask" /\ turn'.start = Len(turn'.full) /\ turn' \in Turns
      BY <1>4, <2>3, BuildTurnDoes, IdleOutside DEF Asks, Outside, Writing, Asking
    <3>2. NewRows(turn') = <<>>
      BY <3>1, NothingAfterAll DEF NewRows, Turns
    <3> QED
      BY <3>2 DEF Apart
  <2>4. CASE SavedElsewhere
    <3>1. disk' = mem'
      BY <2>4 DEF SavedElsewhere
    <3> QED
      BY <2>1, <3>1
  <2>5. CASE RunnerStep /\ Carries /\ disk' = disk
    <3>1. mem.rows = <<>> /\ turn.phase \in Writing /\ turn' \in Turns
      BY <1>4, <2>5, RunnerStepKeeps DEF RunnerKeeps, Writing
    <3>2. Apart(disk.rows, NewRows(turn))
      BY <3>1 DEF Continues
    <3> DEFINE new == After(turn'.full, turn.start)
    <3>3. NewRows(turn') = new
      BY <2>5 DEF NewRows, Carries
    <3>4. new # <<>> =>
            \/ NewRows(turn) # <<>> /\ Head(new) = Head(NewRows(turn))
            \/ Fresh(Head(new), waiting \ waiting')
      BY <2>5 DEF Carries, Grows, NewRows
    <3>5. new # <<>> => Head(new) \in Rows
      <4>1. turn'.full \in Seq(Rows) /\ turn.start \in 0..Len(turn'.full)
        <5>1. /\ turn'.full \in Seq(Rows) /\ Len(turn'.full) \in Nat /\ Len(turn.full) <= Len(turn'.full)
              /\ turn.start \in Nat /\ turn.start <= Len(turn.full) /\ Len(turn.full) \in Nat
          BY <2>5, RunnerStepKeeps, RunnerTurn DEF Carries, Grows, RunnerKeeps
        <5> QED
          BY <5>1
      <4>2. new \in Seq(Rows)
        BY <4>1, AfterType
      <4> QED
        BY <4>2, HeadTailProperties
    <3> HIDE DEF new
    <3>6. ASSUME new # <<>>, Fresh(Head(new), waiting \ waiting')
          PROVE  Head(new) \notin ToSet(disk.rows)
      <4>1. CASE Head(new).kind \in ReplyKinds /\ \A k \in Head(new).of : k > Saved
        <5>1. Upto(disk.rows, Saved) /\ Saved \in Nat
          BY SavedGrows DEF Numbered
        <5> QED
          BY <1>2, <3>5, <3>6, <4>1, <5>1, ApartReply
      <4>2. CASE IsUser(Head(new)) /\ Head(new).of \cap (waiting \ waiting') # {}
        BY <4>2 DEF Untaken, Mentions
      <4> QED
        BY <3>6, <4>1, <4>2 DEF Fresh
    <3>7. Apart(disk.rows, new)
      <4>1. CASE new # <<>> /\ Fresh(Head(new), waiting \ waiting')
        BY <1>2, <3>6, <4>1, ApartIs
      <4>2. CASE new # <<>> /\ NewRows(turn) # <<>> /\ Head(new) = Head(NewRows(turn))
        BY <3>2, <4>2 DEF Apart
      <4>3. CASE new = <<>>
        BY <4>3 DEF Apart
      <4> QED
        BY <3>4, <4>1, <4>2, <4>3
    <3> QED
      BY <2>5, <3>3, <3>7
  <2> QED
    BY <1>2, <2>1, <2>2, <2>3, <2>4, <2>5, TurnKinds
<1> QED
  BY <1>3, <1>4

(* The file implements SessionJournal.                                     *)
JournalIInv ==
  TypeOK /\ Counted /\ Placed /\ Numbered /\ InForm /\ Untaken /\ Continues

LEMMA JournalInit == Init => JournalIInv /\ Journal!Init
<1> SUFFICES ASSUME Init PROVE JournalIInv /\ Journal!Init
  OBVIOUS
<1>1. /\ turn.phase = "idle" /\ mem.rows = <<>> /\ disk.rows = <<>>
      /\ mem.checkpoint = NoCheckpoint /\ disk.checkpoint = NoCheckpoint
      /\ turn.full = <<>> /\ turn.msg = None /\ waiting \subseteq Msgs
  BY BasicsInit DEF Init, Idle, Empty, TypeOK
<1>2. Numbered
  BY <1>1, UptoNothing DEF Numbered
<1>3. WF(mem.rows) /\ WF(disk.rows)
  BY <1>1, WFNothing
<1>4. InForm
  BY <1>1, <1>3 DEF InForm, WF, Writing, Asking
<1>5. Untaken
  BY <1>1, MentionsNothing, HistoryAssumption DEF Untaken, HistoryAssumption
<1>6. Continues
  <2>1. <<>> \in Seq(Rows)
    OBVIOUS
  <2>2. IsPrefix(disk.rows, mem.rows)
    BY <1>1, <2>1, PrefixIs
  <2> QED
    BY <1>1, <2>2 DEF Continues, Onward, Apart
<1>7. Journal!Init
  BY <1>1 DEF Init, Journal!Init
<1> QED
  BY <1>2, <1>4, <1>5, <1>6, <1>7, BasicsInit DEF JournalIInv

LEMMA JournalStep == JournalIInv /\ [Next]_vars => JournalIInv'
<1> SUFFICES ASSUME JournalIInv, [Next]_vars PROVE JournalIInv'
  OBVIOUS
<1>1. CASE Next
  <2>1. Sound /\ Step
    BY <1>1, NextIs DEF JournalIInv
  <2> QED
    BY <2>1, BasicsStep, NumberedStep, InFormStep, UntakenStep, ContinuesStep DEF JournalIInv
<1>2. CASE UNCHANGED vars
  BY <1>2 DEF vars, JournalIInv, TypeOK, Counted, Placed, Turns, MaxIterations, MaxCycles, MaxFaults,
              ArchiveFails, Numbered, Saved, InForm, Finished, NewRows, Untaken, Continues
<1> QED
  BY <1>1, <1>2

(* A save extends the journal, or starts it afresh if /new was asked for.  *)
Log == IF ArchiveFails THEN <<>> ELSE disk.rows
Renewed == ~ArchiveFails /\ renewed

LEMMA JournalSaves ==
  JournalIInv /\ [Next]_vars => [Journal!Next]_<<Log, Renewed>>
<1> SUFFICES ASSUME JournalIInv, [Next]_vars
             PROVE  [Journal!Next]_<<Log, Renewed>>
  OBVIOUS
<1>1. CASE UNCHANGED vars
  BY <1>1 DEF vars, ArchiveFails, Log, Renewed
<1>2. CASE Next
  <2>1. Sound /\ Step /\ ArchiveFails' = ArchiveFails
    BY <1>2, NextIs DEF Sound, JournalIInv, ArchiveFails
  <2>2. CASE ArchiveFails
    BY <2>1, <2>2 DEF Log, Renewed
  <2>3. CASE ~ ArchiveFails /\ NewSession
    <3>1. Log' \in {<<>>, Log} /\ Renewed'
      BY <2>1, <2>3, SessionKinds, NewSessionDoes DEF NewSession, Log, Renewed
    <3> QED
      BY <3>1 DEF Journal!New, Journal!Next, Log, Renewed
  <2>4. CASE ~ ArchiveFails /\ ~ NewSession /\ disk'.rows = disk.rows
    <3>1. Log' = Log /\ (Renewed' = Renewed \/ ~ Renewed')
      BY <2>1, <2>4 DEF Sound, Follows, RowsFollow, Crash, TypeOK, Log, Renewed
    <3> QED
      BY <3>1 DEF Journal!Restart, Journal!Next, Log, Renewed
  <2>5. CASE ~ ArchiveFails /\ ~ NewSession /\ disk' = mem' /\ disk'.rows # disk.rows
    <3>1. /\ Onward(disk.rows, mem'.rows) /\ WF(mem'.rows)
          /\ disk.rows \in Seq(Rows) /\ mem.rows \in Seq(Rows) /\ mem'.rows \in Seq(Rows)
      BY <2>1, <2>5, OnwardMem, FormOfMem, SessionKinds, BasicsStep
         DEF JournalIInv, Sessions, TypeOK
    <3>2. Log = disk.rows /\ Log' = mem'.rows /\ ~ Renewed' /\ Renewed = renewed
      BY <2>1, <2>5 DEF Sound, Follows, RowsFollow, Crash, TypeOK, Log, Renewed
    <3>3. ~ renewed => IsPrefix(disk.rows, mem'.rows)
      <4>1. ~ Crash
        BY <2>5 DEF Crash
      <4>2. PICK added \in Seq(Rows) : mem'.rows = mem.rows \o added
        BY <2>1, <2>5, <4>1, MemGrows
      <4> QED
        BY <2>5, <3>1, <4>2, PrefixIs DEF JournalIInv, Continues
    <3>4. CASE IsPrefix(disk.rows, mem'.rows) \/ disk.rows = <<>>
      <4>1. IsPrefix(disk.rows, mem'.rows)
        BY <3>1, <3>4, PrefixIs
      <4>2. Journal!IsPrefix(disk.rows, mem'.rows)
        BY <4>1 DEF IsPrefix, Journal!IsPrefix
      <4> QED
        BY <3>1, <3>2, <4>2 DEF Journal!Extend, Journal!Next, WF, Log, Renewed
    <3>5. CASE renewed /\ (mem'.rows = <<>> \/ Head(mem'.rows) # Head(disk.rows))
      BY <3>1, <3>2, <3>5 DEF Journal!StartAfresh, Journal!Next, WF, Log, Renewed
    <3> QED
      BY <3>1, <3>3, <3>4, <3>5 DEF Onward, Apart
  <2> QED
    BY <2>1, <2>2, <2>3, <2>4, <2>5, SessionKinds
<1> QED
  BY <1>1, <1>2

(* Through failing saves, crashes and saves by other code, the record of a *)
(* session grows at its end by whole exchanges, and no row leaves it       *)
(* unless /new was asked for (SessionManager.save, cmd_new, _save_turn).   *)
THEOREM HistoryKeepsJournal == Spec => JournalKept
<1>1. Init => JournalIInv /\ Journal!Init
  BY JournalInit
<1>2. JournalIInv /\ [Next]_vars => JournalIInv'
  BY JournalStep
<1>3. JournalIInv /\ [Next]_vars => [Journal!Next]_<<Log, Renewed>>
  BY JournalSaves
<1> QED
  BY <1>1, <1>2, <1>3, PTL DEF Spec, JournalKept, Journal!Spec, Log, Renewed

-----------------------------------------------------------------------------
(* What the provider's thread accounts for.                                *)

LEMMA KnowsBy ==
  ASSUME NEW old, NEW new, \A r \in old : Knows(new, r), NEW row, Knows(old, row)
  PROVE  Knows(new, row)
<1>1. CASE row \in old
  BY <1>1
<1>2. ASSUME NEW r \in old, IsUser(r), IsUser(row), row.of \subseteq r.of
      PROVE  Knows(new, row)
  <2>1. Knows(new, r)
    OBVIOUS
  <2> QED
    BY <1>2, <2>1 DEF Knows
<1> QED
  BY <1>1, <1>2 DEF Knows

LEMMA KnowsMore ==
  ASSUME NEW old, NEW new, old \subseteq new
  PROVE  \A row : Knows(old, row) => Knows(new, row)
BY DEF Knows

LEMMA AccountedMore ==
  ASSUME NEW old, NEW new, \A r \in old : Knows(new, r), NEW rows, Accounted(old, rows)
  PROVE  Accounted(new, rows)
BY KnowsBy DEF Accounted

LEMMA AccountedSubset ==
  ASSUME NEW old, NEW new, old \subseteq new, NEW rows, Accounted(old, rows)
  PROVE  Accounted(new, rows)
BY KnowsMore DEF Accounted

LEMMA AccountedConcat ==
  ASSUME NEW a \in Seq(Rows), NEW b \in Seq(Rows), NEW thread,
         Accounted(thread, a), Accounted(thread, b)
  PROVE  Accounted(thread, a \o b)
<1>1. ToSet(a \o b) = ToSet(a) \cup ToSet(b)
  BY RangeOfConcat
<1> QED
  BY <1>1 DEF Accounted

LEMMA AccountedAppend ==
  ASSUME NEW a \in Seq(Rows), NEW row \in Rows, NEW thread, Accounted(thread, a), Knows(thread, row)
  PROVE  Accounted(thread, Append(a, row))
<1>1. ToSet(Append(a, row)) = ToSet(a) \cup {row}
  BY RangeOfAppend
<1> QED
  BY <1>1 DEF Accounted

LEMMA AccountedNothing ==
  ASSUME NEW thread
  PROVE  Accounted(thread, <<>>)
BY DEF Accounted, ToSet

(* Messages are injected only if a cycle is left for them.                 *)
LEMMA DrainsNeedCycles ==
  ASSUME Sound, RunnerStep, waiting' # waiting
  PROVE  MaxCycles # 0
<1>1. turn.cycles \in 0..MaxCycles /\ MaxCycles \in Nat
  BY Limits DEF Sound, TypeOK, Turns
<1>2. \E ms : Takes(ms) 
  BY DEF RunnerStep, ModelCallsTools, ToolsReturn, ToolsFail, AfterTools, ModelGivesNothing,
         ModelFinalizes, ModelIsCutOff, ModelAnswers, AfterAnswer, ModelFails, AfterFailure,
         AfterError, OutOfIterations
<1> QED
  BY <1>1, <1>2 DEF Takes

(* The rows after the start lie after the boundary or before it.           *)
LEMMA AfterSplit ==
  ASSUME NEW rows \in Seq(Rows), NEW b \in 0..Len(rows), NEW start \in 0..b,
         NEW row \in ToSet(After(rows, start))
  PROVE  row \in ToSet(After(rows, b)) \/ \E i \in start + 1..b : row = rows[i]
<1>1. /\ start \in 0..Len(rows) /\ Len(rows) \in Nat /\ b \in Nat /\ start \in Nat
  OBVIOUS
<1>2. /\ After(rows, start) \in Seq(Rows) /\ Len(After(rows, start)) = Len(rows) - start
      /\ \A i \in 1..Len(rows) - start : After(rows, start)[i] = rows[start + i]
  BY <1>1, AfterType
<1>3. /\ After(rows, b) \in Seq(Rows) /\ Len(After(rows, b)) = Len(rows) - b
      /\ \A i \in 1..Len(rows) - b : After(rows, b)[i] = rows[b + i]
  BY AfterType
<1>4. PICK i \in 1..Len(rows) - start : row = rows[start + i]
  BY <1>2, RangeIs
<1>5. CASE start + i <= b
  <2>1. start + i \in start + 1..b
    BY <1>1, <1>5
  <2> QED
    BY <1>4, <2>1
<1>6. CASE start + i > b
  <2>1. (start + i) - b \in 1..Len(rows) - b /\ b + ((start + i) - b) = start + i
    BY <1>1, <1>6
  <2>2. After(rows, b)[(start + i) - b] = row
    BY <1>3, <1>4, <2>1
  <2> QED
    BY <1>3, <2>1, <2>2, RangeIs
<1> QED
  BY <1>1, <1>5, <1>6

LEMMA WithinAfter ==
  ASSUME NEW rows \in Seq(Rows), NEW b \in 0..Len(rows), NEW start \in 0..b, NEW i \in start + 1..b
  PROVE  rows[i] \in ToSet(After(rows, start))
<1>0. start \in 0..Len(rows) /\ Len(rows) \in Nat /\ b \in Nat /\ start \in Nat
  OBVIOUS
<1>1. /\ After(rows, start) \in Seq(Rows) /\ Len(After(rows, start)) = Len(rows) - start
      /\ \A k \in 1..Len(rows) - start : After(rows, start)[k] = rows[start + k]
  BY <1>0, AfterType
<1>2. i - start \in 1..Len(rows) - start /\ start + (i - start) = i
  OBVIOUS
<1>3. After(rows, start)[i - start] = rows[i]
  BY <1>1, <1>2
<1> QED
  BY <1>1, <1>2, <1>3, RangeIs

(* What the rows of the turn stood for, they stand for when they have      *)
(* grown.                                                                  *)
LEMMA GrowsKnows ==
  ASSUME turn.full \in Seq(Rows), NEW new, NEW ms, Grows(new, ms), NEW k \in 0..Len(turn.full),
         NEW row, Knows(ToSet(After(turn.full, k)), row)
  PROVE  Knows(ToSet(After(new, k)), row)
<1>1. \A r \in ToSet(After(turn.full, k)) : Knows(ToSet(After(new, k)), r)
  BY DEF Grows
<1> QED
  BY <1>1, KnowsBy

(* A turn that goes on with the thread it has.                             *)
LEMMA ThreadGrows ==
  ASSUME Sound, turn.phase \in Asking, Asked, ~ MergesAcross,
         NEW u, Like(u, turn), NEW ms, Grows(u.full, ms), ms # {} => MaxCycles # 0
  PROVE  \A rows \in {mem.rows, After(u.full, turn.start)} : Accounted(Requested(u), rows)
<1> DEFINE old == turn.full
           new == u.full
           b == turn.boundary
           start == turn.start
<1>1. /\ old \in Seq(Rows) /\ new \in Seq(Rows) /\ Len(old) \in Nat /\ Len(new) \in Nat
      /\ Len(old) <= Len(new)
      /\ start \in 0..b /\ b \in 0..Len(old) /\ b \in 0..Len(new)
      /\ u.start = start /\ u.boundary = b /\ u.thread = turn.thread
  <2>1. /\ old \in Seq(Rows) /\ Len(old) \in Nat /\ start \in 0..b /\ b \in 0..Len(old)
    BY RunnerState
  <2>2. new \in Seq(Rows) /\ Len(new) \in Nat /\ Len(old) <= Len(new)
    BY DEF Grows
  <2> QED
    BY <2>1, <2>2 DEF Like
<1>2. \A rows \in {mem.rows, After(old, start)} : Accounted(Requested(turn), rows)
  BY DEF Asked, NewRows
<1>3. \A i \in 1..Len(old) : new[i] = old[i] \/ (i = Len(old) /\ turn.sealed # Len(old) /\ ms # {})
  BY DEF Grows
<1>4. \A r \in Requested(turn) : Knows(Requested(u), r)
  <2>1. CASE turn.thread = {}
    <3>1. Requested(turn) = ToSet(old) /\ Requested(u) = ToSet(new)
      BY <1>1, <2>1 DEF Requested
    <3>2. After(old, 0) = old /\ After(new, 0) = new /\ 0 \in 0..Len(old)
      BY <1>1, NothingAfterAll
    <3>3. \A r \in ToSet(old) : Knows(ToSet(new), r)
      BY <3>2 DEF Grows
    <3> QED
      BY <3>1, <3>3
  <2>2. CASE turn.thread # {}
    <3>1. /\ Requested(turn) = turn.thread \cup ToSet(After(old, b))
          /\ Requested(u) = turn.thread \cup ToSet(After(new, b))
      BY <1>1, <2>2 DEF Requested
    <3>2. \A r \in ToSet(After(old, b)) : Knows(ToSet(After(new, b)), r)
      BY <1>1 DEF Grows
    <3> QED
      BY <3>1, <3>2 DEF Knows
  <2> QED
    BY <2>1, <2>2
<1>5. Accounted(Requested(u), mem.rows) /\ Accounted(Requested(u), After(old, start))
  BY <1>2, <1>4, AccountedMore
<1>6. ToSet(After(new, b)) \subseteq Requested(u)
  <2>1. ToSet(After(new, b)) \subseteq ToSet(new)
    BY <1>1, AfterType
  <2> QED
    BY <1>1, <2>1 DEF Requested
<1> HIDE DEF old, new, b, start
<1>7. ASSUME NEW row \in ToSet(After(new, start)) PROVE Knows(Requested(u), row)
  <2>1. CASE row \in ToSet(After(new, b))
    BY <1>6, <2>1 DEF Knows
  <2>2. ASSUME NEW i \in start + 1..b, row = new[i] PROVE Knows(Requested(u), row)
    <3>1. i \in 1..Len(old) /\ start < i /\ i <= b /\ b <= Len(old)
      BY <1>1, <2>2
    <3>2. CASE new[i] = old[i]
      <4>1. old[i] \in ToSet(After(old, start))
        BY <1>1, WithinAfter
      <4> QED
        BY <1>5, <2>2, <3>2, <4>1 DEF Accounted
    <3>3. CASE i = Len(old) /\ turn.sealed # Len(old) /\ ms # {}
      <4>1. b = Len(old) /\ b # start
        BY <1>1, <3>1, <3>3
      <4>2. ~ Transient
        <5>1. MaxCycles \in Nat /\ MaxCycles # 0 /\ Transient \in BOOLEAN
          BY <3>3, Limits
        <5>2. MaxCycles > 0
          BY <5>1
        <5> QED
          BY <5>2 DEF MergesAcross
      <4>3. CASE turn.thread = {}
        <5>1. new[i] \in ToSet(new) /\ Requested(u) = ToSet(new)
          <6>1. i \in 1..Len(new)
            BY <1>1, <3>1
          <6> QED
            BY <1>1, <4>3, <6>1, RangeIs DEF Requested, new
        <5> QED
          BY <2>2, <5>1 DEF Knows
      <4>4. CASE turn.thread # {}
        <5>1. b \in {turn.sealed, start}
          BY <4>2, <4>4 DEF Asked, b, start
        <5> QED
          BY <3>3, <4>1, <5>1
      <4> QED
        BY <4>3, <4>4
    <3> QED
      BY <1>3, <3>1, <3>2, <3>3 DEF old, new
  <2> QED
    BY <1>1, <2>1, <2>2, AfterSplit
<1>8. Accounted(Requested(u), After(new, start))
  BY <1>7 DEF Accounted
<1> QED
  BY <1>5, <1>8 DEF new, start

(* A turn that heard a reply.                                              *)
LEMMA ThreadHeard ==
  ASSUME Sound, turn.phase \in Asking, Asked, ~ MergesAcross,
         NEW o, Heard(o), NEW u, Like(u, o), Grows(u.full, {})
  PROVE  \A rows \in {mem.rows, After(u.full, turn.start)} : Accounted(Requested(u), rows)
<1> DEFINE old == turn.full
           new == u.full
           start == turn.start
<1>1. /\ old \in Seq(Rows) /\ new \in Seq(Rows) /\ Len(old) \in Nat /\ Len(new) \in Nat
      /\ Len(old) <= Len(new)
      /\ start \in 0..Len(old) /\ Len(old) \in 0..Len(new)
      /\ u.start = start /\ u.boundary = Len(old) /\ u.thread = o.thread
  <2>1. /\ old \in Seq(Rows) /\ Len(old) \in Nat /\ start \in 0..Len(old)
    BY RunnerTurn
  <2>2. new \in Seq(Rows) /\ Len(new) \in Nat /\ Len(old) <= Len(new)
    BY DEF Grows
  <2> QED
    BY <2>1, <2>2 DEF Like, Heard
<1>2. \A rows \in {mem.rows, After(old, start)} : Accounted(Requested(turn), rows)
  BY DEF Asked, NewRows
<1>3. \A i \in 1..Len(old) : new[i] = old[i]
  BY DEF Grows
<1>4. \A r \in ToSet(old) : r \in ToSet(new)
  <2> HIDE DEF old, new
  <2>1. \A i \in 1..Len(old) : i \in 1..Len(new) /\ new[i] = old[i]
    BY <1>1, <1>3
  <2>2. \A r : r \in ToSet(old) => \E i \in 1..Len(old) : r = old[i]
    BY <1>1, RangeIs
  <2>3. \A i \in 1..Len(new) : new[i] \in ToSet(new)
    BY <1>1, RangeIs
  <2> QED
    BY <2>1, <2>2, <2>3
<1>5. CASE u.thread = {}
  <2>1. Requested(u) = ToSet(new)
    BY <1>5 DEF Requested
  <2>2. Accounted(ToSet(old), mem.rows)
    BY DEF Asked
  <2>3. Accounted(ToSet(new), mem.rows)
    BY <1>4, <2>2, AccountedSubset
  <2>4. ToSet(After(new, start)) \subseteq ToSet(new)
    <3>1. start \in 0..Len(new)
      BY <1>1
    <3> QED
      BY <1>1, <3>1, AfterType
  <2>5. Accounted(ToSet(new), After(new, start))
    BY <2>4 DEF Accounted, Knows
  <2> QED
    BY <2>1, <2>3, <2>5
<1>6. CASE u.thread # {}
  <2>1. u.thread = Requested(turn)
    BY <1>1, <1>6 DEF Heard, Snapshot
  <2>2. Requested(u) = Requested(turn) \cup ToSet(After(new, Len(old)))
    BY <1>1, <1>6, <2>1 DEF Requested
  <2>3. Accounted(Requested(u), mem.rows) /\ Accounted(Requested(u), After(old, start))
    BY <1>2, <2>2, AccountedSubset
  <2>4. ASSUME NEW row \in ToSet(After(new, start)) PROVE Knows(Requested(u), row)
    <3>1. CASE row \in ToSet(After(new, Len(old)))
      BY <2>2, <3>1 DEF Knows
    <3>2. ASSUME NEW i \in start + 1..Len(old), row = new[i] PROVE Knows(Requested(u), row)
      <4>1. i \in 1..Len(old) /\ Len(old) \in 0..Len(old)
        BY <1>1, <3>2
      <4>2. old[i] \in ToSet(After(old, start)) /\ row = old[i]
        BY <1>1, <1>3, <3>2, <4>1, WithinAfter
      <4> QED
        BY <2>3, <4>2 DEF Accounted
    <3> QED
      BY <1>1, <3>1, <3>2, AfterSplit
  <2>5. Accounted(Requested(u), After(new, start))
    BY <2>4 DEF Accounted
  <2> QED
    BY <2>3, <2>5
<1> QED
  BY <1>5, <1>6

(* A turn that goes on has the thread it had, or heard a reply.            *)
LEMMA RunnerThreads ==
  ASSUME Sound, RunnerStep, Carries
  PROVE  \/ Like(turn', turn)
         \/ waiting' = waiting /\ \E o : Heard(o) /\ Like(turn', o)
<1>1. turn' # Idle
  BY IdleOutside DEF Carries, Writing, Asking, Outside
<1>2. \A o, phase, full : Becomes(o, phase, full) => Like(turn', o)
  BY <1>1 DEF Becomes
<1>3. CASE ModelCallsTools
  BY <1>2, <1>3, ModelCallsToolsDoes
<1>4. CASE ModelGivesNothing
  BY <1>2, <1>4, ModelGivesNothingDoes
<1>5. CASE ModelFinalizes
  BY <1>2, <1>5, ModelFinalizesDoes
<1>6. CASE ModelIsCutOff
  BY <1>2, <1>6, ModelIsCutOffDoes
<1>7. CASE ModelAnswers
  BY <1>2, <1>7, ModelAnswersDoes
<1>8. CASE ModelFails
  BY <1>2, <1>8, ModelFailsDoes
<1>9. CASE ToolsReturn
  BY <1>2, <1>9, ToolsReturnDoes
<1>10. CASE ToolsFail
  BY <1>2, <1>10, ToolsFailDoes
<1>11. CASE AfterTools
  BY <1>2, <1>11, AfterToolsDoes
<1>12. CASE AfterAnswer
  BY <1>2, <1>12, AfterAnswerDoes
<1>13. CASE AfterFailure
  BY <1>2, <1>13, AfterFailureDoes
<1>14. CASE AfterError
  BY <1>2, <1>14, AfterErrorDoes
<1>15. CASE OutOfIterations
  BY <1>2, <1>15, OutOfIterationsDoes
<1> QED
  BY <1>3, <1>4, <1>5, <1>6, <1>7, <1>8, <1>9, <1>10, <1>11, <1>12, <1>13, <1>14, <1>15 DEF RunnerStep

(* The next request after a step of the runner.                            *)
LEMMA RunnerAsked ==
  ASSUME Sound, RunnerStep, Asked, turn'.phase \in Asking
  PROVE  Asked'
<1>1. turn.phase \in Asking /\ mem'.rows = mem.rows /\ Carries
  BY RunnerStepKeeps, IdleOutside DEF RunnerKeeps, Asking, Outside
<1>2. /\ turn'.start = turn.start
      /\ Grows(turn'.full, waiting \ waiting')
      /\ turn.full \in Seq(Rows) /\ turn'.full \in Seq(Rows)
  BY <1>1, RunnerTurn DEF Carries, Grows
<1>3. Transient' = Transient /\ MaxCycles' = MaxCycles
  BY DEF Sound, Transient, MaxCycles
<1>4. Accounted(ToSet(turn'.full), mem.rows)
  <2>1. /\ After(turn.full, 0) = turn.full /\ After(turn'.full, 0) = turn'.full
        /\ 0 \in 0..Len(turn.full)
    BY <1>2, NothingAfterAll
  <2>2. \A r \in ToSet(turn.full) : Knows(ToSet(turn'.full), r)
    BY <1>2, <2>1 DEF Grows
  <2>3. Accounted(ToSet(turn.full), mem.rows)
    BY <1>1 DEF Asked
  <2> QED
    BY <2>2, <2>3, AccountedMore
<1>5. waiting \ waiting' # {} => MaxCycles # 0
  BY DrainsNeedCycles
<1>6. ASSUME ~ MergesAcross
      PROVE  \A rows \in {mem.rows, After(turn'.full, turn.start)} : Accounted(Requested(turn'), rows)
  <2>1. CASE Like(turn', turn)
    BY <1>1, <1>2, <1>5, <1>6, <2>1, ThreadGrows
  <2>2. ASSUME NEW o, Heard(o), Like(turn', o), waiting' = waiting
        PROVE  \A rows \in {mem.rows, After(turn'.full, turn.start)} : Accounted(Requested(turn'), rows)
    <3>1. Grows(turn'.full, {})
      BY <1>2, <2>2
    <3> QED
      BY <1>1, <1>6, <2>2, <3>1, ThreadHeard
  <2> QED
    BY <1>1, <2>1, <2>2, RunnerThreads
<1>7. ~ Transient /\ turn'.thread # {} => turn'.boundary \in {turn'.sealed, turn'.start}
  <2>1. CASE Like(turn', turn)
    BY <1>1, <2>1 DEF Asked, Like
  <2>2. ASSUME NEW o, Heard(o), Like(turn', o)
        PROVE  ~ Transient /\ turn'.thread # {} => turn'.boundary \in {turn'.sealed, turn'.start}
    BY <2>2 DEF Heard, Like
  <2> QED
    BY <1>1, <2>1, <2>2, RunnerThreads
<1> QED
  BY <1>1, <1>2, <1>3, <1>4, <1>6, <1>7 DEF Asked, NewRows, MergesAcross

(* A provider state that is taken from a turn.                             *)
LEMMA SnapshotKept ==
  ASSUME Sound, turn.phase \in Asking, Asked, ~ MergesAcross,
         NEW u, Like(u, turn), NEW ms, Grows(u.full, ms), ms # {} => MaxCycles # 0,
         mem'.rows = mem.rows, mem'.provider = Snapshot(u),
         Exact(mem'.checkpoint) => ToSet(Restored(mem'.checkpoint)) \subseteq ToSet(After(u.full, turn.start))
  PROVE  /\ ThreadOf(mem)'
         /\ mem'.provider # {} =>
              \A rows \in {mem.rows, After(u.full, turn.start)} : Accounted(mem'.provider, rows)
<1>1. \A rows \in {mem.rows, After(u.full, turn.start)} : Accounted(Requested(u), rows)
  BY ThreadGrows
<1>2. mem'.provider # {} => mem'.provider = Requested(u)
  BY DEF Snapshot
<1>3. mem'.checkpoint = NoCheckpoint => Restored(mem'.checkpoint) = <<>>
  BY DEF Restored, NoCheckpoint
<1>4. \A thread : Accounted(thread, <<>>)
  BY AccountedNothing
<1>5. Exact(mem'.checkpoint) /\ mem'.provider # {} => Accounted(mem'.provider, Restored(mem'.checkpoint))
  BY <1>1, <1>2 DEF Accounted
<1> QED
  BY <1>1, <1>2, <1>3, <1>4, <1>5 DEF ThreadOf

(* A row of the model is still there when the rows have grown.             *)
LEMMA RowsStay ==
  ASSUME Sound, turn.phase \in Asking, NEW new, NEW ms, Grows(new, ms),
         NEW row \in ToSet(NewRows(turn)), row.kind \in ReplyKinds
  PROVE  row \in ToSet(After(new, turn.start))
<1>1. turn.start \in 0..Len(turn.full)
  BY RunnerTurn
<1>2. Knows(ToSet(After(new, turn.start)), row)
  BY <1>1 DEF Grows, NewRows
<1> QED
  BY <1>2 DEF Knows, IsUser, ReplyKinds

LEMMA CheckpointStays ==
  ASSUME Sound, turn.phase \in Asking, NEW new, NEW ms, Grows(new, ms), Restorable,
         Exact(mem.checkpoint)
  PROVE  ToSet(Restored(mem.checkpoint)) \subseteq ToSet(After(new, turn.start))
<1>1. mem.checkpoint \in Checkpoints /\ mem.checkpoint # NoCheckpoint
  BY RunnerState DEF Sessions, Exact, NoCheckpoint
<1>2. \A row \in ToSet(Restored(mem.checkpoint)) : row.kind \in ReplyKinds
  BY <1>1, RestoredRows
<1>3. ToSet(Restored(mem.checkpoint)) \subseteq ToSet(NewRows(turn))
  BY DEF Restorable, Writing
<1> QED
  BY <1>2, <1>3, RowsStay

(* The rows that a checkpoint with the provider's state stands for.        *)
LEMMA ExactRows ==
  ASSUME NEW n
  PROVE  LET results == [phase |-> "tools_completed", of |-> n]
             answer == [phase |-> "final_response", of |-> n]
         IN
         /\ ToSet(Restored(results)) = {Reply("calls", n), Reply("result", n)}
         /\ ToSet(Restored(answer)) = {Reply("answer", n)}
         /\ ~ Exact([phase |-> "awaiting_tools", of |-> n]) /\ ~ Exact(NoCheckpoint)
BY DEF Restored, Exact, NoCheckpoint, ToSet

(* The last of the rows of a turn.                                         *)
LEMMA LastIsNew ==
  ASSUME Sound, turn.phase \in Asking, NEW full \in Seq(Rows), turn.start <= Len(full), NEW row \in Rows
  PROVE  row \in ToSet(After(Append(full, row), turn.start))
<1>1. turn.start \in Nat
  BY RunnerTurn
<1>2. turn.start \in 0..Len(full)
  BY <1>1
<1>3. After(Append(full, row), turn.start) = Append(After(full, turn.start), row)
  BY <1>2, AfterAppend
<1>4. After(full, turn.start) \in Seq(Rows)
  BY <1>2, AfterType
<1> QED
  BY <1>3, <1>4, RangeOfAppend

LEMMA ToolRows ==
  ASSUME Sound, turn.phase = "tools", Restorable, NEW ms \in SUBSET Msgs
  PROVE  LET full == Append(turn.full, Reply("result", replies)) IN
         /\ Grows(full, ms)
         /\ ToSet(Restored([phase |-> "tools_completed", of |-> replies])) \subseteq
              ToSet(After(full, turn.start))
<1> DEFINE full == Append(turn.full, Reply("result", replies))
<1>1. /\ turn.phase \in Asking /\ turn.phase \in Handling
      /\ replies \in 1..LastReply /\ replies > Saved
      /\ turn.full \in Seq(Rows) /\ turn.start <= Len(turn.full)
      /\ "result" \in ReplyKinds /\ "calls" \in ReplyKinds
  BY RunnerTurn DEF Asking, Handling, ReplyKinds
<1>2. Grows(full, ms)
  BY <1>1, RunnerGrows
<1>3. /\ Reply("calls", replies) \in ToSet(NewRows(turn)) /\ Reply("calls", replies).kind \in ReplyKinds
      /\ Reply("result", replies) \in Rows
  BY <1>1, SmallRows DEF Restorable, Reply
<1>4. Reply("result", replies) \in ToSet(After(full, turn.start))
  BY <1>1, <1>3, LastIsNew
<1>5. Reply("calls", replies) \in ToSet(After(full, turn.start))
  BY <1>1, <1>2, <1>3, RowsStay
<1> QED
  BY <1>2, <1>4, <1>5, ExactRows

LEMMA AnswerRows ==
  ASSUME Sound, turn.phase = "answered", NEW ms \in SUBSET Msgs
  PROVE  LET full == Append(turn.full, Reply("answer", replies)) IN
         /\ Grows(full, ms)
         /\ ToSet(Restored([phase |-> "final_response", of |-> replies])) \subseteq
              ToSet(After(full, turn.start))
         /\ \A sealed : ToSet(Restored([phase |-> "final_response", of |-> replies])) \subseteq
                          ToSet(After(Merged(full, sealed, ms), turn.start))
<1> DEFINE row == Reply("answer", replies)
           full == Append(turn.full, row)
<1>1. /\ turn.phase \in Asking /\ turn.phase \in Handling
      /\ replies \in 1..LastReply /\ replies > Saved
      /\ turn.full \in Seq(Rows) /\ turn.start \in 0..Len(turn.full) /\ Len(turn.full) \in Nat
      /\ "answer" \in ReplyKinds
  BY RunnerTurn DEF Asking, Handling, ReplyKinds
<1>2. Grows(full, ms)
  BY <1>1, RunnerGrows
<1>3. row \in Rows /\ Prompt(ms) \in Rows
  BY <1>1, SmallRows
<1>4. row \in ToSet(After(full, turn.start))
  BY <1>1, <1>3, LastIsNew
<1>5. /\ full \in Seq(Rows) /\ Len(full) = Len(turn.full) + 1
      /\ \A sealed : Merged(full, sealed, ms) = Append(full, Prompt(ms))
  BY <1>1, <1>3, AnswerMerged, AppendProperties
<1>6. turn.start \in 0..Len(full)
  BY <1>1, <1>5
<1> HIDE DEF full
<1>7. After(Append(full, Prompt(ms)), turn.start) = Append(After(full, turn.start), Prompt(ms))
  BY <1>3, <1>5, <1>6, AfterAppend
<1>8. After(full, turn.start) \in Seq(Rows)
  BY <1>5, <1>6, AfterType
<1>9. row \in ToSet(After(Append(full, Prompt(ms)), turn.start))
  BY <1>3, <1>4, <1>7, <1>8, RangeOfAppend
<1> QED
  BY <1>2, <1>4, <1>5, <1>9, ExactRows DEF full

(* The provider state of the session after a step of the runner.           *)
LEMMA RunnerKept ==
  ASSUME Sound, RunnerStep, Restorable, Asked, Kept, ~ MergesAcross
  PROVE  /\ ThreadOf(mem)'
         /\ turn'.phase = "save" /\ mem'.provider # {} =>
              \A rows \in {mem.rows, NewRows(turn')} : Accounted(mem'.provider, rows)
<1> DEFINE Saving == turn'.phase = "save" /\ mem'.provider # {} =>
                       \A rows \in {mem.rows, NewRows(turn')} : Accounted(mem'.provider, rows)
<1>1. /\ turn.phase \in Asking /\ mem'.rows = mem.rows
      /\ turn'.phase = "save" => Carries /\ turn'.start = turn.start
  BY RunnerStepKeeps, IdleOutside DEF RunnerKeeps, Carries, Outside
<1>2. ASSUME NEW o, NEW phase, NEW full, Becomes(o, phase, full), phase # "save"
      PROVE  turn'.phase # "save"
  BY <1>2, IdleOutside DEF Becomes, Outside
<1>3. ASSUME SameSession, turn'.phase # "save"
      PROVE  ThreadOf(mem)' /\ Saving
  BY <1>3 DEF SameSession, Kept, ThreadOf
<1>4. Like(turn, turn) /\ Grows(turn.full, {}) /\ turn.full \in Seq(Rows)
  BY <1>1, RunnerTurn DEF Like
<1>5. CASE ModelCallsTools
  <2>1. mem'.checkpoint = [phase |-> "awaiting_tools", of |-> replies']
    BY <1>5, ModelCallsToolsDoes DEF Checkpointed
  <2>2. ~ Exact(mem'.checkpoint) /\ mem'.checkpoint # NoCheckpoint
    BY <2>1 DEF Exact, NoCheckpoint
  <2>3. turn'.phase # "save"
    BY <1>2, <1>5, ModelCallsToolsDoes
  <2> QED
    BY <2>2, <2>3 DEF ThreadOf
<1>6. CASE ModelGivesNothing
  BY <1>2, <1>3, <1>6, ModelGivesNothingDoes
<1>7. CASE ModelFinalizes
  BY <1>2, <1>3, <1>7, ModelFinalizesDoes
<1>8. CASE ModelIsCutOff
  BY <1>2, <1>3, <1>8, ModelIsCutOffDoes
<1>9. CASE ModelAnswers
  BY <1>2, <1>3, <1>9, ModelAnswersDoes
<1>10. CASE ModelFails
  BY <1>2, <1>3, <1>10, ModelFailsDoes
<1>11. CASE ToolsFail
  BY <1>2, <1>3, <1>11, ToolsFailDoes
<1>12. CASE AfterTools
  BY <1>2, <1>3, <1>12, AfterToolsDoes
<1>13. CASE AfterFailure
  BY <1>2, <1>3, <1>13, AfterFailureDoes
<1>14. CASE ToolsReturn
  <2> DEFINE full == Append(turn.full, Reply("result", replies))
  <2>1. PICK t \in Turns : /\ Like(t, turn) /\ t.full = full
                           /\ Checkpointed("tools_completed", replies, Snapshot(t))
    BY <1>14, ToolsReturnDoes
  <2>2. turn.phase = "tools" /\ turn'.phase # "save"
    BY <1>2, <1>14, ToolsReturnDoes
  <2>3. /\ Grows(full, {})
        /\ ToSet(Restored([phase |-> "tools_completed", of |-> replies])) \subseteq
             ToSet(After(full, turn.start))
    BY <2>2, ToolRows
  <2> HIDE DEF full
  <2>4. ThreadOf(mem)'
    BY <1>1, <2>1, <2>3, SnapshotKept DEF Checkpointed
  <2> QED
    BY <2>2, <2>4
<1>15. CASE AfterAnswer
  <2> DEFINE full == Append(turn.full, Reply("answer", replies))
  <2>1. PICK t \in Turns : /\ Like(t, turn) /\ t.full = full
                           /\ Checkpointed("final_response", replies, Snapshot(t))
    BY <1>15, AfterAnswerDoes
  <2>2. turn.phase = "answered" /\ (turn'.phase # "save" \/ Becomes(turn, "save", full))
    BY <1>2, <1>15, AfterAnswerDoes
  <2>3. /\ Grows(full, {})
        /\ ToSet(Restored([phase |-> "final_response", of |-> replies])) \subseteq
             ToSet(After(full, turn.start))
    BY <2>2, AnswerRows
  <2> HIDE DEF full
  <2>4. /\ ThreadOf(mem)'
        /\ mem'.provider # {} =>
             \A rows \in {mem.rows, After(full, turn.start)} : Accounted(mem'.provider, rows)
    BY <1>1, <2>1, <2>3, SnapshotKept DEF Checkpointed
  <2>5. turn'.phase = "save" => NewRows(turn') = After(full, turn.start)
    BY <1>1, <2>2, Became DEF NewRows
  <2> QED
    BY <2>4, <2>5
<1>16. CASE AfterError
  <2>1. \/ SameSession /\ turn'.phase # "save"
        \/ Returned(turn) /\ Becomes(turn, "save", turn.full)
    BY <1>2, <1>16, AfterErrorDoes
  <2>2. CASE Returned(turn) /\ Becomes(turn, "save", turn.full)
    <3>1. Exact(mem'.checkpoint) =>
            ToSet(Restored(mem'.checkpoint)) \subseteq ToSet(After(turn.full, turn.start))
      BY <1>1, <1>4, <2>2, CheckpointStays DEF Returned
    <3>2. /\ ThreadOf(mem)'
          /\ mem'.provider # {} =>
               \A rows \in {mem.rows, After(turn.full, turn.start)} : Accounted(mem'.provider, rows)
      BY <1>1, <1>4, <2>2, <3>1, SnapshotKept DEF Returned
    <3>3. turn'.phase = "save" => NewRows(turn') = After(turn.full, turn.start)
      BY <1>1, <2>2, Became DEF NewRows
    <3> QED
      BY <3>2, <3>3
  <2> QED
    BY <1>3, <2>1, <2>2
<1>17. CASE OutOfIterations
  <2>1. turn.phase = "ask" /\ replies' = replies + 1 /\ replies' \in 1..LastReply
    BY <1>17, OutOfIterationsDoes
  <2>2. PICK ms \in SUBSET waiting, u \in Turns :
          LET full == IF ms = {} THEN turn.full ELSE Merged(turn.full, turn.sealed, ms) IN
          /\ waiting' = waiting \ ms
          /\ Like(u, turn) /\ u.full = Append(full, Reply("note", replies'))
          /\ Returned(u)
          /\ Becomes(turn, "save", u.full) \/ Becomes(turn, "save", full)
    BY <1>17, OutOfIterationsDoes
  <2> DEFINE full == IF ms = {} THEN turn.full ELSE Merged(turn.full, turn.sealed, ms)
  <2>3. /\ Like(u, turn) /\ u.full = Append(full, Reply("note", replies')) /\ Returned(u)
        /\ Becomes(turn, "save", u.full) \/ Becomes(turn, "save", full)
        /\ waiting' = waiting \ ms
    BY <2>2
  <2>4. ms \in SUBSET Msgs /\ (ms # {} => MaxCycles # 0)
    <3>1. ms \in SUBSET Msgs /\ waiting \ waiting' = ms
      BY <2>3, TakenIs
    <3> QED
      BY <3>1, DrainsNeedCycles
  <2>5. Reply("note", replies') \in Rows /\ replies' > Saved /\ "note" \in ReplyKinds
    <3>1. Saved = replies /\ replies \in Nat
      BY <2>1, RunnerTurn, Limits DEF Asking, Sound, TypeOK
    <3> QED
      BY <2>1, <3>1, SmallRows DEF ReplyKinds
  <2>6. Grows(full, ms) /\ Grows(Append(full, Reply("note", replies')), ms)
    <3>1. CASE ms = {}
      BY <3>1, <1>1, <2>1, <2>4, <2>5, RunnerTurn, RunnerGrows
    <3>2. CASE ms # {}
      BY <3>2, <1>1, <2>1, <2>4, <2>5, RunnerGrows
    <3> QED
      BY <3>1, <3>2
  <2> HIDE DEF full
  <2>7. ToSet(After(full, turn.start)) \subseteq ToSet(After(u.full, turn.start))
    <3>1. full \in Seq(Rows) /\ turn.start \in 0..Len(full)
      <4>1. turn.start \in 0..Len(turn.full) /\ Len(turn.full) <= Len(full) /\ full \in Seq(Rows)
        BY <1>1, <2>6, RunnerTurn DEF Grows
      <4>2. Len(full) \in Nat /\ Len(turn.full) \in Nat
        BY <1>4, <4>1
      <4> QED
        BY <4>1, <4>2
    <3>2. After(u.full, turn.start) = Append(After(full, turn.start), Reply("note", replies'))
      BY <2>3, <2>5, <3>1, AfterAppend
    <3>3. After(full, turn.start) \in Seq(Rows)
      BY <3>1, AfterType
    <3> QED
      BY <2>5, <3>2, <3>3, RangeOfAppend
  <2>8. Exact(mem'.checkpoint) =>
          ToSet(Restored(mem'.checkpoint)) \subseteq ToSet(After(u.full, turn.start))
    BY <1>1, <2>3, <2>6, CheckpointStays DEF Returned
  <2>9. /\ ThreadOf(mem)'
        /\ mem'.provider # {} =>
             \A rows \in {mem.rows, After(u.full, turn.start)} : Accounted(mem'.provider, rows)
    BY <1>1, <2>3, <2>4, <2>6, <2>8, SnapshotKept DEF Returned
  <2>10. turn'.phase = "save" =>
           NewRows(turn') \in {After(u.full, turn.start), After(full, turn.start)}
    BY <1>1, <2>3, Became DEF NewRows
  <2>11. mem'.provider # {} => Accounted(mem'.provider, After(full, turn.start))
    BY <2>7, <2>9 DEF Accounted
  <2> QED
    BY <2>9, <2>10, <2>11
<1> QED
  BY <1>5, <1>6, <1>7, <1>8, <1>9, <1>10, <1>11, <1>12, <1>13, <1>14, <1>15, <1>16, <1>17
     DEF RunnerStep

(* A checkpoint saved with the provider's state is of rows of the turn.    *)
LEMMA RunnerRestorable ==
  ASSUME Sound, RunnerStep, Carries, Restorable
  PROVE  Restorable'
<1>1. /\ turn.phase \in Asking /\ turn'.start = turn.start /\ turn'.phase \in Writing
      /\ Grows(turn'.full, waiting \ waiting')
  BY RunnerStepKeeps DEF RunnerKeeps, Carries
<1>2. turn'.phase \notin {"close", "build"}
  BY <1>1 DEF Writing, Asking
<1>3. ASSUME NEW o, NEW phase, NEW full, Becomes(o, phase, full)
      PROVE  turn'.phase = phase /\ turn'.full = full
  BY <1>3, Became
<1>4. ASSUME mem'.checkpoint = mem.checkpoint, turn'.phase # "tools"
      PROVE  Restorable'
  <2>1. Exact(mem.checkpoint) =>
          ToSet(Restored(mem.checkpoint)) \subseteq ToSet(After(turn'.full, turn.start))
    BY <1>1, CheckpointStays
  <2> QED
    BY <1>1, <1>2, <1>4, <2>1 DEF Restorable, NewRows
<1>5. CASE ModelCallsTools
  <2>1. /\ turn.phase = "ask" /\ replies' \in 1..LastReply
        /\ mem'.checkpoint = [phase |-> "awaiting_tools", of |-> replies']
    BY <1>5, ModelCallsToolsDoes DEF Checkpointed
  <2>2. turn'.full = Append(turn.full, Reply("calls", replies'))
    BY <1>3, <1>5, ModelCallsToolsDoes DEF Heard
  <2>3. Reply("calls", replies') \in ToSet(NewRows(turn'))
    <3>1. turn.full \in Seq(Rows) /\ turn.start <= Len(turn.full)
      BY <1>1, RunnerTurn
    <3>2. Reply("calls", replies') \in Rows
      BY <2>1, SmallRows DEF ReplyKinds
    <3> QED
      BY <1>1, <2>2, <3>1, <3>2, LastIsNew DEF NewRows
  <2>4. ~ Exact(mem'.checkpoint)
    BY <2>1 DEF Exact
  <2> QED
    BY <1>2, <2>3, <2>4 DEF Restorable
<1>6. CASE ToolsReturn
  <2> DEFINE full == Append(turn.full, Reply("result", replies))
  <2>1. /\ turn.phase = "tools" /\ turn'.full = full /\ turn'.phase = "afterTools"
        /\ mem'.checkpoint = [phase |-> "tools_completed", of |-> replies]
    BY <1>3, <1>6, ToolsReturnDoes DEF Checkpointed
  <2>2. ToSet(Restored(mem'.checkpoint)) \subseteq ToSet(After(full, turn.start))
    BY <2>1, ToolRows
  <2> HIDE DEF full
  <2> QED
    BY <1>1, <1>2, <2>1, <2>2 DEF Restorable, NewRows
<1>7. CASE AfterAnswer
  <2> DEFINE full == Append(turn.full, Reply("answer", replies))
  <2>1. /\ turn.phase = "answered"
        /\ mem'.checkpoint = [phase |-> "final_response", of |-> replies]
    BY <1>7, AfterAnswerDoes DEF Checkpointed
  <2>2. /\ turn'.phase \in {"ask", "save"}
        /\ \/ turn'.full = full
           \/ \E ms \in SUBSET Msgs : turn'.full = Merged(full, turn.sealed, ms)
    <3>1. \A ms \in SUBSET waiting : ms \in SUBSET Msgs
      BY DEF Sound, TypeOK
    <3> HIDE DEF full
    <3> QED
      BY <1>3, <1>7, <3>1, AfterAnswerDoes DEF full
  <2>3. ToSet(Restored(mem'.checkpoint)) \subseteq ToSet(After(turn'.full, turn.start))
    <3>1. CASE turn'.full = full
      BY <2>1, <3>1, AnswerRows
    <3>2. ASSUME NEW ms \in SUBSET Msgs, turn'.full = Merged(full, turn.sealed, ms)
          PROVE  ToSet(Restored(mem'.checkpoint)) \subseteq ToSet(After(turn'.full, turn.start))
      BY <2>1, <3>2, AnswerRows
    <3> QED
      BY <2>2, <3>1, <3>2
  <2> QED
    BY <1>1, <1>2, <2>2, <2>3 DEF Restorable, NewRows
<1>8. CASE ModelGivesNothing
  BY <1>3, <1>4, <1>8, ModelGivesNothingDoes DEF SameSession
<1>9. CASE ModelFinalizes
  BY <1>3, <1>4, <1>9, ModelFinalizesDoes DEF SameSession
<1>10. CASE ModelIsCutOff
  BY <1>3, <1>4, <1>10, ModelIsCutOffDoes DEF SameSession
<1>11. CASE ModelAnswers
  BY <1>3, <1>4, <1>11, ModelAnswersDoes DEF SameSession
<1>12. CASE ModelFails
  BY <1>3, <1>4, <1>12, ModelFailsDoes DEF SameSession
<1>13. CASE ToolsFail
  BY <1>3, <1>4, <1>13, ToolsFailDoes DEF SameSession
<1>14. CASE AfterTools
  BY <1>3, <1>4, <1>14, AfterToolsDoes DEF SameSession
<1>15. CASE AfterFailure
  BY <1>3, <1>4, <1>15, AfterFailureDoes DEF SameSession
<1>16. CASE AfterError
  BY <1>3, <1>4, <1>16, AfterErrorDoes DEF SameSession, Returned
<1>17. CASE OutOfIterations
  BY <1>3, <1>4, <1>17, OutOfIterationsDoes DEF Returned
<1> QED
  BY <1>5, <1>6, <1>7, <1>8, <1>9, <1>10, <1>11, <1>12, <1>13, <1>14, <1>15, <1>16, <1>17
     DEF RunnerStep

LEMMA RestorableStep ==
  ASSUME Sound, Step, Restorable
  PROVE  Restorable'
<1>1. ASSUME NEW m \in Msgs \cup {None}, StartTurn(m) PROVE Restorable'
  BY <1>1, StartTurnDoes DEF Restorable, Writing, Asking
<1>2. CASE RestoreTurn
  <2>1. mem'.checkpoint = NoCheckpoint
    BY <1>2, RestoreTurnDoes, RestoreIs DEF Sound, TypeOK
  <2>2. Outside /\ turn'.phase # "restore"
    BY <1>2, RestoreTurnDoes, IdleOutside DEF Outside
  <2> QED
    BY <2>1, <2>2 DEF Restorable, Outside, Writing, Asking
<1>3. CASE CloseTurn
  <2>1. mem'.checkpoint = mem.checkpoint /\ turn.phase = "close"
    BY <1>3, CloseTurnDoes, PendingIs DEF Sound, TypeOK
  <2>2. Outside
    BY <1>3, CloseTurnDoes, IdleOutside DEF Outside
  <2> QED
    BY <2>1, <2>2 DEF Restorable, Outside, Writing, Asking
<1>4. CASE BuildTurn
  <2>1. turn.phase = "build" /\ mem'.checkpoint = mem.checkpoint /\ turn'.phase \in {"ask", "idle"}
    BY <1>4, BuildTurnDoes, IdleOutside DEF Asks
  <2>2. ~ Exact(mem'.checkpoint)
    BY <2>1 DEF Restorable, Exact, NoCheckpoint
  <2> QED
    BY <2>1, <2>2 DEF Restorable
<1>5. CASE RunnerStep
  <2>1. CASE Carries
    BY <1>5, <2>1, RunnerRestorable
  <2>2. CASE turn' = Idle
    BY <2>2, IdleOutside DEF Restorable, Writing, Asking
  <2> QED
    BY <1>5, <2>1, <2>2, RunnerStepKeeps DEF RunnerKeeps
<1>6. CASE turn' = Idle
  BY <1>6, IdleOutside DEF Restorable, Writing, Asking
<1>7. CASE SavedElsewhere
  BY <1>7 DEF SavedElsewhere, Restorable, NewRows
<1> QED
  BY <1>1, <1>2, <1>3, <1>4, <1>5, <1>6, <1>7, PersistTurnDoes, StopDoes, NewSessionDoes
     DEF Step, TurnFails, Crash

(* A prompt that is joined to the history leaves nothing out.              *)
LEMMA JoinedAccounts ==
  ASSUME NEW rows \in Seq(Rows), NEW ms \in SUBSET Msgs
  PROVE  /\ Accounted(ToSet(Joined(rows, ms)), rows)
         /\ Knows(ToSet(Joined(rows, ms)), Prompt(ms))
<1>1. Prompt(ms) \in Rows /\ IsUser(Prompt(ms)) /\ Prompt(ms).of = ms
  BY SmallRows DEF Prompt, IsUser
<1>2. CASE EndsWithUser(rows)
  <2> DEFINE last == Last(rows)
             row == Prompt(last.of \cup ms)
  <2>1. /\ Joined(rows, ms) = Append(Front(rows), row) /\ row \in Rows
        /\ last = Prompt(last.of)
    BY <1>2, JoinedIs
  <2>2. IsUser(row) /\ IsUser(last) /\ row.of = last.of \cup ms
    BY <2>1 DEF Prompt, IsUser
  <2>3. Front(rows) \in Seq(Rows) /\ ToSet(rows) = ToSet(Front(rows)) \cup {last}
    BY <1>2, LastAndFront DEF EndsWithUser
  <2> HIDE DEF row, last
  <2>4. ToSet(Joined(rows, ms)) = ToSet(Front(rows)) \cup {row}
    BY <2>1, <2>3, RangeOfAppend
  <2> QED
    BY <1>1, <2>2, <2>3, <2>4 DEF Accounted, Knows
<1>3. CASE ~ EndsWithUser(rows)
  <2>1. Joined(rows, ms) = Append(rows, Prompt(ms))
    BY <1>3, JoinedIs
  <2>2. ToSet(Joined(rows, ms)) = ToSet(rows) \cup {Prompt(ms)}
    BY <1>1, <2>1, RangeOfAppend
  <2> QED
    BY <2>2 DEF Accounted, Knows
<1> QED
  BY <1>2, <1>3

(* The first request of a turn, and the session it leaves behind.          *)
LEMMA BuildAccounts ==
  ASSUME Sound, BuildTurn, Restorable, Kept
  PROVE  /\ turn' = Idle \/ Asked'
         /\ ~ MergesAcross => ThreadOf(mem)'
<1> DEFINE ms == {turn.msg} \ {None}
           full == Joined(mem.rows, ms)
<1>1. turn.phase = "build" /\ ms \in SUBSET Msgs /\ mem.rows \in Seq(Rows) /\ mem.provider \in SUBSET Rows
      /\ mem.checkpoint = NoCheckpoint
  BY BuildTurnDoes DEF Sound, TypeOK, Sessions, Restorable
<1>2. PICK thread \in SUBSET Rows :
        /\ thread # {} => mem.provider # {} /\ thread = mem.provider \cup {Prompt(ms)}
        /\ Asks(full, thread) \/ turn' = Idle
        /\ \/ /\ mem'.rows = mem.rows
              /\ mem'.provider = IF thread = {} THEN {} ELSE mem.provider
              /\ mem'.checkpoint = mem.checkpoint
           \/ /\ turn.msg \in Msgs
              /\ mem'.rows = Append(mem.rows, Prompt({turn.msg}))
              /\ mem'.checkpoint = mem.checkpoint
              /\ mem'.provider = thread
  BY BuildTurnDoes
<1>3. Prompt(ms) \in Rows /\ (turn.msg \in Msgs => ms = {turn.msg})
  BY <1>1, SmallRows, Limits
<1>4. mem'.rows = mem.rows \/ (turn.msg \in Msgs /\ mem'.rows = Append(mem.rows, Prompt(ms)))
  BY <1>2, <1>3
<1>5. full \in Seq(Rows) /\ Accounted(ToSet(full), mem.rows) /\ Knows(ToSet(full), Prompt(ms))
  BY <1>1, JoinedIs, JoinedAccounts
<1>6. Accounted(ToSet(full), mem'.rows)
  BY <1>1, <1>3, <1>4, <1>5, AccountedAppend
<1>7. ASSUME ~ MergesAcross, thread # {}
      PROVE  /\ Accounted(mem.provider, mem.rows)
             /\ Accounted(thread, mem.rows) /\ Accounted(thread, mem'.rows)
  <2>1. Accounted(mem.provider, mem.rows)
    BY <1>1, <1>2, <1>7 DEF Kept, ThreadOf
  <2>2. mem.provider \subseteq thread /\ Knows(thread, Prompt(ms))
    BY <1>2, <1>7 DEF Knows
  <2>3. Accounted(thread, mem.rows)
    BY <2>1, <2>2, AccountedSubset
  <2> QED
    BY <1>1, <1>3, <1>4, <2>1, <2>2, <2>3, AccountedAppend
<1>8. \A t : Accounted(t, <<>>)
  BY AccountedNothing
<1>9. Transient' = Transient /\ MaxCycles' = MaxCycles
  BY DEF Sound, Transient, MaxCycles
<1> HIDE DEF ms, full
<1>10. ASSUME Asks(full, thread) PROVE Asked'
  <2>1. /\ turn'.full = full /\ turn'.start = Len(full) /\ turn'.boundary = Len(full)
        /\ turn'.thread = thread
    BY <1>10 DEF Asks
  <2>2. After(full, Len(full)) = <<>> /\ ToSet(<<>>) = {}
    BY <1>5, NothingAfterAll DEF ToSet
  <2>3. NewRows(turn') = <<>> /\ Requested(turn') = IF thread = {} THEN ToSet(full) ELSE thread
    BY <2>1, <2>2 DEF NewRows, Requested
  <2>4. ~ MergesAcross => Accounted(Requested(turn'), mem'.rows)
    BY <1>6, <1>7, <2>3
  <2> QED
    BY <1>6, <1>8, <1>9, <2>1, <2>3, <2>4 DEF Asked, MergesAcross
<1>11. ~ MergesAcross => ThreadOf(mem)'
  <2>1. Restored(mem'.checkpoint) = <<>>
    BY <1>1, <1>2 DEF Restored, NoCheckpoint
  <2>2. mem'.provider # {} => thread # {} /\ (mem'.provider = thread \/
                                              (mem'.provider = mem.provider /\ mem'.rows = mem.rows))
    BY <1>2
  <2> QED
    BY <1>7, <1>8, <2>1, <2>2 DEF ThreadOf
<1> QED
  BY <1>2, <1>10, <1>11

LEMMA AskedStep ==
  ASSUME Sound, Step, Restorable, Asked, Kept
  PROVE  Asked'
<1>1. CASE Outside
  BY <1>1 DEF Outside, Asked, Asking
<1>2. CASE BuildTurn
  BY <1>2, BuildAccounts, IdleOutside DEF Asked, Asking
<1>3. CASE RunnerStep
  BY <1>3, RunnerAsked DEF Asked
<1>4. CASE SavedElsewhere
  BY <1>4 DEF SavedElsewhere, Sound, Asked, NewRows, MergesAcross, Transient, MaxCycles
<1> QED
  BY <1>1, <1>2, <1>3, <1>4, TurnKinds

(* Restoring a session keeps what its provider state accounts for.         *)
LEMMA RestoredThread ==
  ASSUME NEW s \in Sessions, ThreadOf(s)
  PROVE  ThreadOf(RestoreCheckpoint(s))
<1>1. CASE s.checkpoint = NoCheckpoint
  BY <1>1, RestoreIs
<1>2. CASE s.checkpoint # NoCheckpoint
  <2> DEFINE r == RestoreCheckpoint(s)
             added == Missing(s.rows, Restored(s.checkpoint))
  <2>1. /\ r.checkpoint = NoCheckpoint
        /\ r.provider = IF Exact(s.checkpoint) THEN s.provider ELSE {}
    BY <1>2, RestoreIs
  <2>2. /\ added \in Seq(Rows) /\ ToSet(added) \subseteq ToSet(Restored(s.checkpoint))
        /\ r.rows = s.rows \o added /\ s.rows \in Seq(Rows)
    BY <1>2, RestoringAdds DEF Sessions
  <2> HIDE DEF r, added
  <2>3. Restored(r.checkpoint) = <<>>
    BY <2>1 DEF Restored, NoCheckpoint
  <2>4. ASSUME r.provider # {}
        PROVE  Accounted(r.provider, r.rows) /\ Accounted(r.provider, Restored(r.checkpoint))
    <3>1. Exact(s.checkpoint) /\ r.provider = s.provider /\ s.provider # {}
      BY <2>1, <2>4
    <3>2. Accounted(r.provider, s.rows) /\ Accounted(r.provider, Restored(s.checkpoint))
      BY <3>1 DEF ThreadOf
    <3>3. Accounted(r.provider, added)
      BY <2>2, <3>2 DEF Accounted
    <3> QED
      BY <2>2, <2>3, <3>2, <3>3, AccountedConcat, AccountedNothing
  <2> QED
    BY <2>4 DEF ThreadOf, r
<1> QED
  BY <1>1, <1>2

LEMMA PendingThread ==
  ASSUME NEW s \in Sessions, ThreadOf(s)
  PROVE  ThreadOf(RestorePending(s))
BY PendingIs DEF ThreadOf

LEMMA KeptStep ==
  ASSUME Sound, Step, Restorable, Asked, Kept
  PROVE  Kept'
<1>1. MergesAcross' = MergesAcross
  BY DEF Sound, MergesAcross, Transient, MaxCycles
<1> SUFFICES ASSUME ~ MergesAcross
             PROVE  /\ ThreadOf(mem)' /\ ThreadOf(disk)'
                    /\ turn'.phase = "save" /\ mem'.provider # {} =>
                         \A rows \in {mem'.rows, NewRows(turn')} : Accounted(mem'.provider, rows)
  BY <1>1 DEF Kept
<1>2. disk' \in {disk, mem'} /\ mem \in Sessions /\ ThreadOf(mem) /\ ThreadOf(disk)
  BY SessionKinds DEF Kept
<1>3. ThreadOf(mem)'
  <2>1. CASE mem' = mem \/ mem' = disk
    BY <1>2, <2>1 DEF ThreadOf
  <2>2. CASE mem' = RestoreCheckpoint(mem)
    BY <1>2, <2>2, RestoredThread DEF ThreadOf
  <2>3. CASE mem' = RestorePending(mem)
    BY <1>2, <2>3, PendingThread DEF ThreadOf
  <2>4. CASE BuildTurn
    BY <2>4, BuildAccounts
  <2>5. CASE RunnerStep
    BY <2>5, RunnerKept
  <2>6. CASE PersistTurn
    <3>1. /\ turn.phase = "save" /\ NewRows(turn) \in Seq(Rows) /\ mem.rows \in Seq(Rows)
          /\ mem'.rows = mem.rows \o NewRows(turn) /\ mem'.provider = mem.provider
          /\ mem'.checkpoint = NoCheckpoint \/ mem'.checkpoint = mem.checkpoint
      BY <1>2, <2>6, PersistTurnDoes DEF Sessions
    <3>2. mem.provider # {} => Accounted(mem.provider, mem'.rows)
      BY <3>1, AccountedConcat DEF Kept
    <3>3. Restored(NoCheckpoint) = <<>>
      BY DEF Restored, NoCheckpoint
    <3> QED
      BY <1>2, <3>1, <3>2, <3>3, AccountedNothing DEF ThreadOf
  <2>7. CASE NewSession
    BY <2>7, NewSessionDoes DEF ThreadOf
  <2> QED
    BY <2>1, <2>2, <2>3, <2>4, <2>5, <2>6, <2>7, SessionKinds
<1>4. ThreadOf(disk)'
  BY <1>2, <1>3 DEF ThreadOf
<1>5. ASSUME turn'.phase = "save", mem'.provider # {}
      PROVE  \A rows \in {mem'.rows, NewRows(turn')} : Accounted(mem'.provider, rows)
  <2>1. ~ Outside /\ ~ BuildTurn
    BY <1>5, BuildTurnDoes, IdleOutside DEF Outside, Asks
  <2>2. CASE RunnerStep
    BY <1>5, <2>2, RunnerKept, RunnerStepKeeps DEF RunnerKeeps
  <2>3. CASE SavedElsewhere
    BY <1>5, <2>3 DEF SavedElsewhere, Kept
  <2> QED
    BY <2>1, <2>2, <2>3, TurnKinds
<1> QED
  BY <1>3, <1>4, <1>5

-----------------------------------------------------------------------------
(* The inductive invariant as a whole.                                     *)

LEMMA HistoryInit == Init => HistoryIInv
<1> SUFFICES ASSUME Init PROVE HistoryIInv
  OBVIOUS
<1>1. /\ turn.phase = "idle" /\ mem.provider = {} /\ disk.provider = {}
  BY DEF Init, Idle, Empty
<1>2. Restorable /\ Asked /\ Kept
  BY <1>1 DEF Restorable, Asked, Kept, ThreadOf, Writing, Asking
<1> QED
  BY <1>2, PromptsInit, JournalInit DEF HistoryIInv, Prompts, JournalIInv

LEMMA HistoryStep == HistoryIInv /\ [Next]_vars => HistoryIInv'
<1> SUFFICES ASSUME HistoryIInv, [Next]_vars PROVE HistoryIInv'
  OBVIOUS
<1>1. Prompts' /\ JournalIInv'
  BY PromptsStep, JournalStep DEF HistoryIInv, Prompts, JournalIInv
<1>2. CASE Next
  <2>1. Sound /\ Step
    BY <1>2, NextIs DEF HistoryIInv
  <2>2. Restorable' /\ Asked' /\ Kept'
    BY <2>1, RestorableStep, AskedStep, KeptStep DEF HistoryIInv
  <2> QED
    BY <1>1, <2>2 DEF HistoryIInv, Prompts, JournalIInv
<1>3. CASE UNCHANGED vars
  <2>1. Restorable' /\ Asked' /\ Kept'
    BY <1>3 DEF vars, HistoryIInv, Restorable, Asked, Kept, ThreadOf, NewRows, MergesAcross,
                Transient, MaxCycles
  <2> QED
    BY <1>1, <2>1 DEF HistoryIInv, Prompts, JournalIInv
<1> QED
  BY <1>2, <1>3

(* All parts of the inductive invariant hold.                              *)
THEOREM HistoryInvariant == Spec => []HistoryIInv
BY HistoryInit, HistoryStep, PTL DEF Spec

(* The provider state that the next turn continues with accounts for the   *)
(* history it is continued with, when no message is merged into a row that *)
(* the state stands for already.                                           *)
THEOREM HistoryThreadKnows == Spec => []ProviderKnowsHistory
<1>1. ASSUME HistoryIInv PROVE ProviderKnowsHistory
  <2>1. ASSUME ~ MergesAcross, NEW s \in {mem, disk}, Recover(s).provider # {}
        PROVE  \A row \in ToSet(Recover(s).rows) : Knows(Recover(s).provider, row)
    <3>1. s \in Sessions /\ ThreadOf(s)
      BY <1>1, <2>1 DEF HistoryIInv, TypeOK, Kept
    <3>2. /\ RestoreCheckpoint(s) \in Sessions /\ ThreadOf(RestoreCheckpoint(s))
          /\ RestoreCheckpoint(s).checkpoint = NoCheckpoint
      BY <3>1, RestoreIs, RestoredThread
    <3>3. ThreadOf(Recover(s)) /\ Recover(s).checkpoint = NoCheckpoint
      BY <3>2, PendingIs, PendingThread DEF Recover
    <3> QED
      BY <2>1, <3>3 DEF ThreadOf, Accounted
  <2> QED
    BY <2>1 DEF ProviderKnowsHistory
<1> QED
  BY <1>1, HistoryInvariant, PTL
=============================================================================
