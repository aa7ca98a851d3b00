------------------------ MODULE ConversationsProofs ------------------------
(***************************************************************************)
(* Machine-checked proofs about the rows of a conversation.                *)
(*                                                                         *)
(* SessionMemory, for every number of objects and rows, every cap of the   *)
(* file and every suffix of an idle session: what is hidden from the model *)
(* is archived, archived once, and no row that was saved is forgotten.     *)
(*                                                                         *)
(* ConversationWindow, for every number of rows, every cap, window and     *)
(* suffix: wherever rows are cut away, first ones or last ones, they are   *)
(* in the archive, once; and every request of a turn is valid.             *)
(***************************************************************************)
EXTENDS SessionMemory, ConversationWindow, SequenceTheorems, FiniteSetTheorems,
        WellFoundedInduction, TLAPS

(***************************************************************************)
(* Rows and offsets.                                                       *)
(***************************************************************************)
LEMMA MinMax ==
  ASSUME NEW a \in Int, NEW b \in Int
  PROVE  /\ Min({a, b}) = IF a <= b THEN a ELSE b
         /\ Max({a, b}) = IF a <= b THEN b ELSE a
BY DEF Min, Max

Ascends(rows) == \A i \in 1..Len(rows) : \A k \in i + 1..Len(rows) : rows[i] < rows[k]
Kept(s) == s \in Content /\ Ascends(s.rows)
At(rows, a, b) == {rows[i] : i \in a..b}

LEMMA Bounds == LastRow \in Nat /\ FileCap \in Nat \ {0} /\ IdleSuffix \in Nat \ {0}
BY MemoryAssumption

LEMMA RowTypes ==
  ASSUME NEW s \in Content
  PROVE  /\ s.rows \in Seq(Rows) /\ Len(s.rows) \in Nat /\ DOMAIN s.rows = 1..Len(s.rows)
         /\ s.lc \in Int /\ s.lc >= -IdleSuffix /\ s.lc <= LastRow
         /\ \A i \in 1..Len(s.rows) : s.rows[i] \in Rows /\ s.rows[i] \in Nat
         /\ Range(s.rows) = At(s.rows, 1, Len(s.rows))
<1>1. s.rows \in Seq(Rows) /\ s.lc \in -IdleSuffix..LastRow
  BY DEF Content
<1>2. DOMAIN s.rows = 1..Len(s.rows) /\ Len(s.rows) \in Nat
  BY <1>1, LenProperties
<1>3. \A i \in 1..Len(s.rows) : s.rows[i] \in Rows
  BY <1>1, ElementOfSeq
<1> QED BY <1>1, <1>2, <1>3, Bounds DEF Range, At, Rows

LEMMA Counts ==
  ASSUME NEW s \in Content
  PROVE  /\ HiddenCount(s) \in 0..Len(s.rows)
         /\ s.lc \in 0..Len(s.rows) => HiddenCount(s) = s.lc
         /\ Excess(s) \in 0..Len(s.rows) /\ Len(s.rows) - Excess(s) <= FileCap
         /\ Len(s.rows) <= FileCap => Excess(s) = 0
         /\ Excess(s) > 0 => Len(s.rows) - Excess(s) = FileCap
         /\ Excess(s) < Len(s.rows) \/ Len(s.rows) = 0
<1> DEFINE n == Len(s.rows)
<1>1. n \in Nat /\ s.lc \in Int
  BY RowTypes
<1>2. HiddenCount(s) = IF s.lc >= 0 THEN (IF s.lc <= n THEN s.lc ELSE n)
                       ELSE (IF 0 <= n + s.lc THEN n + s.lc ELSE 0)
  <2>1. Min({s.lc, n}) = IF s.lc <= n THEN s.lc ELSE n
    BY <1>1, MinMax
  <2>2. Max({0, n + s.lc}) = IF 0 <= n + s.lc THEN n + s.lc ELSE 0
    <3> DEFINE b == n + s.lc
    <3>1. b \in Int /\ 0 \in Int
      BY <1>1
    <3> HIDE DEF b
    <3>2. Max({0, b}) = IF 0 <= b THEN b ELSE 0
      BY <3>1, MinMax
    <3> QED BY <3>2 DEF b
  <2> QED BY <2>1, <2>2 DEF HiddenCount
<1>3. Excess(s) = IF 0 <= n - FileCap THEN n - FileCap ELSE 0
  <2> DEFINE b == n - FileCap
  <2>1. b \in Int /\ 0 \in Int
    BY <1>1, Bounds
  <2> HIDE DEF b
  <2>2. Max({0, b}) = IF 0 <= b THEN b ELSE 0
    BY <2>1, MinMax
  <2> QED BY <2>2 DEF b, Excess
<1> HIDE DEF n
<1>4. /\ HiddenCount(s) \in 0..n /\ (s.lc \in 0..n => HiddenCount(s) = s.lc)
  BY <1>1, <1>2
<1>5. /\ Excess(s) \in 0..n /\ n - Excess(s) <= FileCap
      /\ n <= FileCap => Excess(s) = 0
      /\ Excess(s) > 0 => n - Excess(s) = FileCap
      /\ Excess(s) < n \/ n = 0
  BY <1>1, <1>3, Bounds
<1> QED BY <1>4, <1>5 DEF n

LEMMA Distinct ==
  ASSUME NEW s, Kept(s), NEW i \in 1..Len(s.rows), NEW k \in 1..Len(s.rows)
  PROVE  /\ s.rows[i] = s.rows[k] => i = k
         /\ s.rows[i] < s.rows[k] <=> i < k
<1>1. s.rows[i] \in Nat /\ s.rows[k] \in Nat /\ Len(s.rows) \in Nat
  BY RowTypes DEF Kept
<1>2. i < k => s.rows[i] < s.rows[k]
  BY DEF Kept, Ascends
<1>3. k < i => s.rows[k] < s.rows[i]
  BY DEF Kept, Ascends
<1> QED BY <1>1, <1>2, <1>3

LEMMA RowSets ==
  ASSUME NEW s, Kept(s)
  PROVE  /\ Hidden(s) = At(s.rows, 1, HiddenCount(s))
         /\ Unconsolidated(s) = At(s.rows, HiddenCount(s) + 1, Len(s.rows))
         /\ Range(s.rows) = Hidden(s) \cup Unconsolidated(s)
         /\ Range(s.rows) \subseteq Rows
<1> DEFINE n == Len(s.rows)  h == HiddenCount(s)
<1>1. n \in Nat /\ h \in 0..n /\ s \in Content
  BY RowTypes, Counts DEF Kept
<1>2. Hidden(s) = At(s.rows, 1, h)
  BY DEF Hidden, At
<1>3. Range(s.rows) = At(s.rows, 1, n) /\ \A i \in 1..n : s.rows[i] \in Rows
  BY <1>1, RowTypes
<1>4. \A i, k \in 1..n : s.rows[i] = s.rows[k] => i = k
  BY Distinct
<1> HIDE DEF n, h
<1>5. Unconsolidated(s) = At(s.rows, h + 1, n)
  <2>1. ASSUME NEW i \in 1..n, s.rows[i] \notin At(s.rows, 1, h)
        PROVE  i \in h + 1..n
    BY <1>1, <2>1 DEF At
  <2>2. ASSUME NEW i \in h + 1..n
        PROVE  s.rows[i] \notin At(s.rows, 1, h) /\ s.rows[i] \in At(s.rows, 1, n)
    BY <1>1, <1>4 DEF At
  <2>3. \A x : x \in At(s.rows, 1, n) \ At(s.rows, 1, h) => x \in At(s.rows, h + 1, n)
    BY <2>1 DEF At
  <2>4. \A x : x \in At(s.rows, h + 1, n) => x \in At(s.rows, 1, n) \ At(s.rows, 1, h)
    BY <2>2 DEF At
  <2> QED BY <1>2, <1>3, <2>3, <2>4 DEF Unconsolidated
<1>6. At(s.rows, 1, n) = At(s.rows, 1, h) \cup At(s.rows, h + 1, n)
  BY <1>1 DEF At
<1>7. At(s.rows, 1, n) \subseteq Rows
  BY <1>3 DEF At
<1> QED BY <1>2, <1>3, <1>5, <1>6, <1>7 DEF n, h

(* As many as there are numbers from a to b.                               *)
LEMMA HowMany ==
  ASSUME NEW s, Kept(s), NEW a \in 1..Len(s.rows) + 1, NEW b \in 0..Len(s.rows), a <= b + 1
  PROVE  /\ Cardinality(At(s.rows, a, b)) = b - a + 1
         /\ IsFiniteSet(At(s.rows, a, b))
<1> DEFINE f == [i \in a..b |-> s.rows[i]]  T == At(s.rows, a, b)
<1>1. Len(s.rows) \in Nat /\ a \in Int /\ b \in Int /\ a..b \subseteq 1..Len(s.rows)
  BY RowTypes DEF Kept
<1>2. \A i, k \in a..b : f[i] = f[k] => i = k
  BY <1>1, Distinct
<1>3. f \in Bijection(a..b, T)
  <2>1. f \in [a..b -> T]
    BY DEF At
  <2>2. \A t \in T : \E i \in a..b : f[i] = t
    BY DEF At
  <2> HIDE DEF f, T
  <2> QED BY <1>2, <2>1, <2>2 DEF Bijection, Injection, Surjection, IsInjective
<1>4. IsFiniteSet(a..b) /\ Cardinality(a..b) = IF a > b THEN 0 ELSE b - a + 1
  BY <1>1, FS_Interval
<1> HIDE DEF f, T
<1>5. ExistsBijection(a..b, T)
  BY <1>3 DEF ExistsBijection
<1>6. IsFiniteSet(T) /\ Cardinality(T) = Cardinality(a..b)
  BY <1>4, <1>5, FS_Bijection
<1>7. Cardinality(a..b) = b - a + 1
  BY <1>1, <1>4
<1> QED BY <1>6, <1>7 DEF T

LEMMA FewRows ==
  ASSUME NEW s, Kept(s)
  PROVE  Len(s.rows) <= LastRow
<1> DEFINE n == Len(s.rows)
<1>1. n \in Nat /\ \A i \in 1..n : s.rows[i] \in Rows
  BY RowTypes DEF Kept
<1>2. Cardinality(At(s.rows, 1, n)) = n /\ IsFiniteSet(At(s.rows, 1, n))
  <2>1. 1 \in 1..n + 1 /\ n \in 0..n /\ 1 <= n + 1 /\ n - 1 + 1 = n
    BY <1>1
  <2> HIDE DEF n
  <2>2. n = Len(s.rows)
    BY DEF n
  <2> QED BY <2>1, <2>2, HowMany
<1>3. IsFiniteSet(Rows) /\ Cardinality(Rows) = LastRow
  <2>1. IsFiniteSet(1..LastRow) /\ Cardinality(1..LastRow) = IF 1 > LastRow THEN 0 ELSE LastRow - 1 + 1
    BY Bounds, FS_Interval
  <2> QED BY <2>1, Bounds DEF Rows
<1>4. At(s.rows, 1, n) \in SUBSET Rows
  BY <1>1 DEF At
<1> HIDE DEF n
<1>5. Cardinality(At(s.rows, 1, n)) <= Cardinality(Rows)
  BY <1>3, <1>4, FS_Subset
<1> QED BY <1>2, <1>3, <1>5 DEF n

(* A save keeps the last rows, and what it hides was hidden.               *)
LEMMA CappedFacts ==
  ASSUME NEW s, Kept(s)
  PROVE  /\ Kept(Capped(s))
         /\ Len(Capped(s).rows) = Len(s.rows) - Excess(s) /\ Len(Capped(s).rows) <= FileCap
         /\ \A i \in 1..Len(Capped(s).rows) :
              /\ i + Excess(s) \in 1..Len(s.rows)
              /\ Capped(s).rows[i] = s.rows[i + Excess(s)]
         /\ Len(s.rows) <= FileCap => Capped(s) = s
         /\ s.lc \in 0..Len(s.rows) =>
              Capped(s).lc = IF s.lc <= Excess(s) THEN 0 ELSE s.lc - Excess(s)
<1> DEFINE n == Len(s.rows)  e == Excess(s)  c == Capped(s)
<1>1. /\ s \in Content /\ s.rows \in Seq(Rows) /\ n \in Nat /\ e \in 0..n /\ n - e <= FileCap
      /\ s.lc \in Int /\ s.lc >= -IdleSuffix /\ s.lc <= LastRow
      /\ \A i \in 1..n : s.rows[i] \in Rows
      /\ n <= FileCap => e = 0
  BY RowTypes, Counts DEF Kept
<1>2. c.rows = SubSeq(s.rows, e + 1, n)
  BY DEF Capped
<1>3. c.lc = IF s.lc < 0 \/ e = 0 THEN s.lc ELSE (IF 0 <= s.lc - e THEN s.lc - e ELSE 0)
  <2> DEFINE b == s.lc - e
  <2>1. b \in Int /\ 0 \in Int
    BY <1>1
  <2> HIDE DEF b
  <2>2. Max({0, b}) = IF 0 <= b THEN b ELSE 0
    BY <2>1, MinMax
  <2>3. c.lc = IF s.lc < 0 \/ e = 0 THEN s.lc ELSE Max({0, b})
    BY DEF Capped, b
  <2> QED BY <2>2, <2>3 DEF b
<1>4. DOMAIN c = {"rows", "lc"} /\ c = [rows |-> c.rows, lc |-> c.lc]
  BY DEF Capped
<1>5. s = [rows |-> s.rows, lc |-> s.lc]
  BY <1>1 DEF Content
<1> HIDE DEF n, e, c
<1>6. /\ c.rows \in Seq(Rows) /\ Len(c.rows) = n - e
      /\ \A i \in 1..n - e : i + e \in 1..n /\ c.rows[i] = s.rows[i + e]
  <2> DEFINE q == SubSeq(s.rows, e + 1, n)
  <2>1. e + 1 \in Int /\ n \in Int /\ \A i \in e + 1..n : s.rows[i] \in Rows
    BY <1>1
  <2>2. /\ q \in Seq(Rows) /\ Len(q) = IF e + 1 <= n THEN n - (e + 1) + 1 ELSE 0
        /\ \A i \in 1..n - (e + 1) + 1 : q[i] = s.rows[(e + 1) + i - 1]
    BY <2>1, SubSeqProperties
  <2> HIDE DEF q
  <2>3. Len(q) = n - e /\ \A i \in 1..n - e : i + e \in 1..n /\ q[i] = s.rows[i + e]
    BY <1>1, <2>2
  <2> QED BY <1>2, <2>2, <2>3 DEF q
<1>7. c.lc \in -IdleSuffix..LastRow
  BY <1>1, <1>3, Bounds
<1>8. c \in Content
  BY <1>4, <1>6, <1>7 DEF Content
<1>9. Ascends(c.rows)
  <2> SUFFICES ASSUME NEW i \in 1..Len(c.rows), NEW k \in i + 1..Len(c.rows)
               PROVE  c.rows[i] < c.rows[k]
    BY DEF Ascends
  <2>1. i \in 1..n - e /\ k \in 1..n - e /\ i + e \in 1..n /\ k + e \in i + e + 1..n
    BY <1>1, <1>6
  <2>2. s.rows[i + e] < s.rows[k + e]
    BY <2>1 DEF Kept, Ascends, n
  <2> QED BY <1>6, <2>1, <2>2
<1>10. n <= FileCap => c = s
  <2>1. ASSUME n <= FileCap PROVE c.rows = s.rows
    <3>1. e = 0 /\ SubSeq(s.rows, 1, n) = s.rows
      BY <1>1, <2>1 DEF n
    <3> QED BY <1>2, <3>1
  <2>2. n <= FileCap => c.lc = s.lc
    BY <1>1, <1>3
  <2> QED BY <1>4, <1>5, <2>1, <2>2
<1>11. s.lc \in 0..n => c.lc = IF s.lc <= e THEN 0 ELSE s.lc - e
  BY <1>1, <1>3
<1> QED BY <1>1, <1>6, <1>8, <1>9, <1>10, <1>11 DEF Kept, n, e, c

(* The new row is the last one.                                            *)
With(s, row) == [s EXCEPT !.rows = Append(@, row)]

LEMMA WithFacts ==
  ASSUME NEW s, Kept(s), NEW row \in Rows, \A i \in 1..Len(s.rows) : s.rows[i] < row
  PROVE  /\ Kept(With(s, row)) /\ Len(With(s, row).rows) = Len(s.rows) + 1
         /\ With(s, row).lc = s.lc /\ With(s, row).rows[Len(s.rows) + 1] = row
         /\ \A i \in 1..Len(s.rows) : With(s, row).rows[i] = s.rows[i]
<1> DEFINE n == Len(s.rows)  t == With(s, row)
<1>1. s \in Content /\ s.rows \in Seq(Rows) /\ n \in Nat
  BY RowTypes DEF Kept
<1>2. t \in Content /\ t.lc = s.lc /\ t.rows = Append(s.rows, row)
  BY <1>1 DEF With, Content
<1>3. /\ Len(t.rows) = n + 1 /\ t.rows[n + 1] = row
      /\ \A i \in 1..n : t.rows[i] = s.rows[i]
  BY <1>1, <1>2, AppendProperties
<1> HIDE DEF n, t
<1>4. Ascends(t.rows)
  <2> SUFFICES ASSUME NEW i \in 1..Len(t.rows), NEW k \in i + 1..Len(t.rows)
               PROVE  t.rows[i] < t.rows[k]
    BY DEF Ascends
  <2>1. i \in 1..n /\ t.rows[i] = s.rows[i]
    BY <1>1, <1>3
  <2>2. CASE k = n + 1
    BY <1>3, <2>1, <2>2 DEF n
  <2>3. CASE k # n + 1
    <3>1. k \in i + 1..n /\ k \in 1..n
      BY <1>1, <1>3, <2>1, <2>3
    <3>2. s.rows[i] < s.rows[k]
      BY <2>1, <3>1 DEF Kept, Ascends, n
    <3> QED BY <1>3, <2>1, <3>1, <3>2
  <2> QED BY <2>2, <2>3
<1> QED BY <1>2, <1>3, <1>4 DEF Kept, n, t

(* Where the offset is within the rows: what a save of one more row drops  *)
(* was hidden, or is archived.                                             *)
LEMMA SavedRow ==
  ASSUME NEW s, Kept(s), s.lc \in 0..Len(s.rows), NEW row \in Rows,
         \A i \in 1..Len(s.rows) : s.rows[i] < row
  PROVE  LET t == With(s, row)  c == Capped(With(s, row)) IN
         /\ c.lc \in 0..Len(c.rows)
         /\ Hidden(c) \subseteq Hidden(s)
         /\ Range(s.rows) \subseteq Range(c.rows) \cup Hidden(s) \cup Overflow(t)
         /\ row \in Range(c.rows)
         /\ Overflow(t) \subseteq Unconsolidated(s) \cup {row}
         /\ Unconsolidated(c) \subseteq (Unconsolidated(s) \cup {row}) \ Overflow(t)
<1> DEFINE t == With(s, row)  c == Capped(t)  n == Len(s.rows)  e == Excess(t)
           l == s.lc  m == Len(c.rows)
<1>1. /\ Kept(t) /\ Len(t.rows) = n + 1 /\ t.lc = l /\ t.rows[n + 1] = row
      /\ \A i \in 1..n : t.rows[i] = s.rows[i]
  BY WithFacts
<1>2. n \in Nat /\ l \in 0..n
  BY RowTypes DEF Kept
<1>3. l \in 0..Len(t.rows)
  BY <1>1, <1>2
<1>4. /\ Kept(c) /\ m = Len(t.rows) - e /\ m <= FileCap
      /\ \A i \in 1..m : c.rows[i] = t.rows[i + e]
      /\ t.lc \in 0..Len(t.rows) => c.lc = IF t.lc <= e THEN 0 ELSE t.lc - e
  BY <1>1, CappedFacts
<1>5. c.lc = IF l <= e THEN 0 ELSE l - e
  BY <1>1, <1>3, <1>4
<1>6. /\ e \in 0..Len(t.rows) /\ (e < Len(t.rows) \/ Len(t.rows) = 0) /\ HiddenCount(t) = l
  BY <1>1, <1>3, Counts DEF Kept
<1>7. e \in 0..n /\ m = n + 1 - e /\ c.lc \in 0..m
  BY <1>1, <1>2, <1>4, <1>5, <1>6
<1>8. HiddenCount(c) = c.lc /\ HiddenCount(s) = l
  BY <1>4, <1>7, Counts DEF Kept
<1>9. /\ Hidden(c) = At(c.rows, 1, c.lc) /\ Unconsolidated(c) = At(c.rows, c.lc + 1, m)
      /\ Hidden(s) = At(s.rows, 1, l) /\ Unconsolidated(s) = At(s.rows, l + 1, n)
      /\ Range(s.rows) = Hidden(s) \cup Unconsolidated(s)
      /\ Range(c.rows) = Hidden(c) \cup Unconsolidated(c)
  BY <1>4, <1>8, RowSets
<1>10. Overflow(t) = At(t.rows, l + 1, e)
  BY <1>6 DEF Overflow, At
<1>11. \A i, k \in 1..n + 1 : t.rows[i] = t.rows[k] => i = k
  BY <1>1, Distinct
<1> HIDE DEF t, c, n, e, l, m
<1>12. \A i \in 1..m : i + e \in 1..n + 1 /\ c.rows[i] = t.rows[i + e]
  BY <1>2, <1>4, <1>7
<1>13. Hidden(c) \subseteq Hidden(s)
  <2> SUFFICES ASSUME NEW i \in 1..c.lc PROVE c.rows[i] \in At(s.rows, 1, l)
    BY <1>9 DEF At
  <2>1. i \in 1..m /\ i + e \in 1..l /\ i + e \in 1..n
    BY <1>2, <1>5, <1>7
  <2>2. c.rows[i] = s.rows[i + e]
    BY <1>1, <1>12, <2>1
  <2> QED BY <2>1, <2>2 DEF At
<1>14. Unconsolidated(c) \subseteq At(t.rows, (IF l <= e THEN e ELSE l) + 1, n + 1)
  <2> SUFFICES ASSUME NEW i \in c.lc + 1..m
               PROVE  c.rows[i] \in At(t.rows, (IF l <= e THEN e ELSE l) + 1, n + 1)
    BY <1>9 DEF At
  <2>1. i \in 1..m /\ i + e \in (IF l <= e THEN e ELSE l) + 1..n + 1
    BY <1>2, <1>5, <1>7
  <2> QED BY <1>12, <2>1 DEF At
<1>15. ASSUME NEW i \in l + 1..n + 1
       PROVE  t.rows[i] \in Unconsolidated(s) \cup {row}
  <2>1. i \in 1..n + 1 /\ (i = n + 1 \/ (i \in l + 1..n /\ i \in 1..n))
    BY <1>2
  <2> QED BY <1>1, <1>9, <2>1 DEF At
<1>16. Overflow(t) \subseteq Unconsolidated(s) \cup {row}
  <2>1. \A i \in l + 1..e : i \in l + 1..n + 1
    BY <1>2, <1>7
  <2> QED BY <1>10, <1>15, <2>1 DEF At
<1>17. Unconsolidated(c) \subseteq (Unconsolidated(s) \cup {row}) \ Overflow(t)
  <2> SUFFICES ASSUME NEW i \in (IF l <= e THEN e ELSE l) + 1..n + 1
               PROVE  /\ t.rows[i] \in Unconsolidated(s) \cup {row}
                      /\ t.rows[i] \notin At(t.rows, l + 1, e)
    BY <1>10, <1>14 DEF At
  <2>1. i \in l + 1..n + 1 /\ i \in 1..n + 1 /\ i > e
    BY <1>2, <1>7
  <2>2. ASSUME NEW k \in l + 1..e PROVE t.rows[k] # t.rows[i]
    <3>1. k \in 1..n + 1 /\ k # i
      BY <1>2, <1>7, <2>1
    <3> QED BY <1>11, <2>1, <3>1
  <2> QED BY <1>15, <2>1, <2>2 DEF At
<1>18. ASSUME NEW i \in e + 1..n + 1 PROVE t.rows[i] \in Range(c.rows)
  <2>1. i - e \in 1..m /\ (i - e) + e = i
    BY <1>2, <1>7
  <2>2. c.rows[i - e] = t.rows[i]
    BY <1>12, <2>1
  <2>3. Range(c.rows) = At(c.rows, 1, m)
    BY <1>4, RowTypes DEF Kept, m
  <2> QED BY <2>1, <2>2, <2>3 DEF At
<1>19. row \in Range(c.rows)
  <2>1. n + 1 \in e + 1..n + 1
    BY <1>2, <1>7
  <2> QED BY <1>1, <1>18, <2>1
<1>20. Range(s.rows) \subseteq Range(c.rows) \cup Hidden(s) \cup Overflow(t)
  <2> SUFFICES ASSUME NEW i \in l + 1..n
               PROVE  s.rows[i] \in Range(c.rows) \cup Overflow(t)
    BY <1>9 DEF At
  <2>1. i \in 1..n /\ s.rows[i] = t.rows[i]
    BY <1>1, <1>2
  <2>2. CASE i <= e
    <3>1. i \in l + 1..e
      BY <1>2, <1>7, <2>2
    <3> QED BY <1>10, <2>1, <3>1 DEF At
  <2>3. CASE ~(i <= e)
    <3>1. i \in e + 1..n + 1
      BY <1>2, <1>7, <2>3
    <3> QED BY <1>18, <2>1, <3>1
  <2> QED BY <2>2, <2>3
<1> QED BY <1>7, <1>13, <1>16, <1>17, <1>19, <1>20 DEF t, c, m

(* Where the offset is within the rows: it moves on past what is archived. *)
Moved(s, end) == [s EXCEPT !.lc = end]

LEMMA Advanced ==
  ASSUME NEW s, Kept(s), s.lc \in 0..Len(s.rows), Len(s.rows) <= FileCap,
         NEW m \in s.lc..Len(s.rows), NEW end \in m..Len(s.rows),
         NEW t, t = Moved(s, end), NEW chunk, chunk = At(s.rows, s.lc + 1, m)
  PROVE  /\ Kept(t) /\ t.rows = s.rows /\ t.lc = end /\ t.lc \in 0..Len(t.rows)
         /\ Capped(t) = t /\ Overflow(t) = {}
         /\ HiddenCount(t) = end /\ Range(t.rows) = Range(s.rows)
         /\ m = end => Hidden(t) = Hidden(s) \cup chunk
         /\ chunk \subseteq Unconsolidated(s)
         /\ Unconsolidated(t) \subseteq Unconsolidated(s) \ chunk
<1> DEFINE n == Len(s.rows)  l == s.lc
<1>1. /\ n \in Nat /\ l \in 0..n /\ m \in l..n /\ end \in m..n /\ s \in Content
      /\ n <= LastRow
  BY RowTypes, FewRows DEF Kept
<1>2. t.rows = s.rows /\ t.lc = end
  BY <1>1 DEF Content, Moved
<1>3. Kept(t)
  <2>1. end \in -IdleSuffix..LastRow
    BY <1>1, Bounds
  <2>2. t \in Content
    BY <1>1, <2>1 DEF Content, Moved
  <2> QED BY <1>2, <2>2 DEF Kept
<1>4. t.lc \in 0..Len(t.rows)
  BY <1>1, <1>2
<1>5. HiddenCount(t) = end /\ HiddenCount(s) = l /\ Excess(t) = 0
  BY <1>1, <1>2, <1>3, <1>4, Counts DEF Kept
<1>6. Capped(t) = t
  BY <1>2, <1>3, CappedFacts
<1>7. Overflow(t) = {}
  <2>1. end + 1..0 = {}
    BY <1>1
  <2> QED BY <1>5, <2>1 DEF Overflow
<1>8. /\ Hidden(t) = At(s.rows, 1, end) /\ Unconsolidated(t) = At(s.rows, end + 1, n)
      /\ Hidden(s) = At(s.rows, 1, l) /\ Unconsolidated(s) = At(s.rows, l + 1, n)
  BY <1>2, <1>3, <1>5, RowSets
<1>9. \A i, k \in 1..n : s.rows[i] = s.rows[k] => i = k
  BY Distinct
<1> HIDE DEF n, l
<1>10. m = end => Hidden(t) = Hidden(s) \cup chunk
  <2> SUFFICES ASSUME m = end PROVE Hidden(t) = Hidden(s) \cup chunk
    OBVIOUS
  <2>1. 1..end = (1..l) \cup (l + 1..m)
    BY <1>1
  <2> QED BY <1>8, <2>1 DEF At, l
<1>11. chunk \subseteq Unconsolidated(s)
  <2>1. l + 1..m \subseteq l + 1..n
    BY <1>1
  <2> QED BY <1>8, <2>1 DEF At, l
<1>12. Unconsolidated(t) \subseteq Unconsolidated(s) \ chunk
  <2> SUFFICES ASSUME NEW i \in end + 1..n
               PROVE  s.rows[i] \in At(s.rows, l + 1, n) /\ s.rows[i] \notin chunk
    BY <1>8 DEF At
  <2>1. i \in l + 1..n /\ i \in 1..n /\ i > m
    BY <1>1
  <2>2. ASSUME NEW k \in l + 1..m PROVE s.rows[k] # s.rows[i]
    <3>1. k \in 1..n /\ k # i
      BY <1>1, <2>1
    <3> QED BY <1>9, <2>1, <3>1
  <2> QED BY <2>1, <2>2 DEF At, l
<1> QED BY <1>2, <1>3, <1>4, <1>5, <1>6, <1>7, <1>10, <1>11, <1>12

(* A compaction takes all but the last rows of what is not consolidated.   *)
LEMMA IdleChunk ==
  ASSUME NEW s, Kept(s), NEW k \in Nat \ {0},
         Cardinality(Unconsolidated(s)) > k
  PROVE  LET old == Unconsolidated(s)  h == HiddenCount(s)  n == Len(s.rows) IN
         /\ n - k \in h..n
         /\ {r \in old : Cardinality({q \in old : q > r}) >= k} = At(s.rows, h + 1, n - k)
<1> DEFINE old == Unconsolidated(s)  h == HiddenCount(s)  n == Len(s.rows)
<1>1. n \in Nat /\ h \in 0..n
  BY RowTypes, Counts DEF Kept
<1>2. old = At(s.rows, h + 1, n)
  BY RowSets
<1>3. \A a \in 1..n + 1, b \in 0..n : a <= b + 1 => Cardinality(At(s.rows, a, b)) = b - a + 1
  BY HowMany
<1>4. \A i, j \in 1..n : s.rows[i] < s.rows[j] <=> i < j
  BY Distinct
<1>5. \A i \in 1..n : s.rows[i] \in Nat
  BY RowTypes DEF Kept
<1>6. Cardinality(old) > k
  OBVIOUS
<1> HIDE DEF old, h, n
<1>7. n - h > k /\ n - k \in h..n
  <2>1. h + 1 \in 1..n + 1 /\ n \in 0..n /\ h + 1 <= n + 1
    BY <1>1
  <2>2. Cardinality(old) = n - (h + 1) + 1
    BY <1>2, <1>3, <2>1
  <2> QED BY <1>1, <1>6, <2>2
<1>8. ASSUME NEW i \in h + 1..n
      PROVE  Cardinality({q \in old : q > s.rows[i]}) = n - i
  <2>1. i \in 1..n /\ i + 1 \in 1..n + 1 /\ n \in 0..n /\ i + 1 <= n + 1
    BY <1>1
  <2>2. {q \in old : q > s.rows[i]} = At(s.rows, i + 1, n)
    <3>1. ASSUME NEW j \in h + 1..n, s.rows[j] > s.rows[i] PROVE j \in i + 1..n
      <4>1. j \in 1..n /\ s.rows[i] < s.rows[j]
        BY <1>1, <1>5, <2>1, <3>1
      <4>2. i < j
        BY <1>4, <2>1, <4>1
      <4> QED BY <2>1, <4>1, <4>2
    <3>2. ASSUME NEW j \in i + 1..n PROVE j \in h + 1..n /\ s.rows[j] > s.rows[i]
      <4>1. j \in h + 1..n /\ j \in 1..n /\ i < j
        BY <1>1, <2>1
      <4>2. s.rows[i] < s.rows[j]
        BY <1>4, <2>1, <4>1
      <4> QED BY <1>5, <2>1, <4>1, <4>2
    <3> QED BY <1>2, <3>1, <3>2 DEF At
  <2>3. Cardinality(At(s.rows, i + 1, n)) = n - (i + 1) + 1
    BY <1>3, <2>1
  <2> QED BY <1>1, <2>1, <2>2, <2>3
<1>9. {r \in old : Cardinality({q \in old : q > r}) >= k} = At(s.rows, h + 1, n - k)
  <2>1. ASSUME NEW i \in h + 1..n, Cardinality({q \in old : q > s.rows[i]}) >= k
        PROVE  i \in h + 1..n - k
    <3>1. n - i >= k
      BY <1>8, <2>1
    <3> QED BY <1>1, <3>1
  <2>2. ASSUME NEW i \in h + 1..n - k
        PROVE  i \in h + 1..n /\ Cardinality({q \in old : q > s.rows[i]}) >= k
    <3>1. i \in h + 1..n /\ n - i >= k
      BY <1>1
    <3> QED BY <1>8, <3>1
  <2>3. \A r : r \in At(s.rows, h + 1, n - k) =>
               r \in old /\ Cardinality({q \in old : q > r}) >= k
    BY <1>2, <2>2 DEF At
  <2>4. \A r \in old : Cardinality({q \in old : q > r}) >= k => r \in At(s.rows, h + 1, n - k)
    BY <1>2, <2>1 DEF At
  <2> QED BY <2>3, <2>4
<1> QED BY <1>7, <1>9 DEF old, h, n

-----------------------------------------------------------------------------
(***************************************************************************)
(* What the invariant says of the file, the objects and the archive.       *)
(***************************************************************************)
Before(s, n) == Kept(s) /\ \A i \in 1..Len(s.rows) : s.rows[i] < n
Turns == [at : {"waiting", "consolidating", "running", "answering"},
          obj : Objects, bus : BOOLEAN] \cup {NoTurn}
Jobs == [by : {"turn", "background", "idle"}, obj : Objects,
         chunk : SUBSET Rows, end : 0..LastRow] \cup {NoJob}

LEMMA EmptyFacts ==
  /\ Empty \in Content /\ \A n : Before(Empty, n)
  /\ Len(Empty.rows) = 0 /\ Empty.lc = 0 /\ Range(Empty.rows) = {}
  /\ Hidden(Empty) = {} /\ Unconsolidated(Empty) = {}
<1> DEFINE q == Empty.rows
<1>1. q \in Seq(Rows) /\ Len(q) = 0 /\ Empty.lc = 0
  <2>1. q = <<>>
    BY DEF Empty
  <2> QED BY <2>1 DEF Empty
<1>2. 0 \in -IdleSuffix..LastRow
  BY Bounds
<1>3. Empty = [rows |-> q, lc |-> 0]
  BY DEF Empty
<1> HIDE DEF q
<1>4. Empty \in Content
  BY <1>1, <1>2, <1>3 DEF Content
<1>5. 1..Len(q) = {}
  BY <1>1
<1>6. \A n : Before(Empty, n)
  BY <1>4, <1>5 DEF Before, Kept, Ascends, q
<1>7. Range(Empty.rows) = {}
  <2>1. Range(Empty.rows) = At(Empty.rows, 1, Len(Empty.rows))
    BY <1>4, RowTypes
  <2> QED BY <1>5, <2>1 DEF At, q
<1>8. Hidden(Empty) = {} /\ Unconsolidated(Empty) = {}
  <2>1. Kept(Empty)
    BY <1>6 DEF Before
  <2>2. Range(Empty.rows) = Hidden(Empty) \cup Unconsolidated(Empty)
    BY <2>1, RowSets
  <2> QED BY <1>7, <2>2
<1> QED BY <1>1, <1>4, <1>6, <1>7, <1>8 DEF q

(* What a save drops, and what a job archives, are rows of the object.     *)
LEMMA Gone ==
  ASSUME NEW s, NEW n, Before(s, n)
  PROVE  /\ \A row \in Range(s.rows) : row \in Rows /\ row < n
         /\ Overflow(s) \subseteq Range(s.rows)
         /\ Unconsolidated(s) \subseteq Range(s.rows)
         /\ Before(Capped(s), n)
         /\ \A end \in Boundaries(s) :
              /\ Chunk(s, end) \subseteq Range(s.rows)
              /\ Chunk(s, end) = At(s.rows, HiddenCount(s) + 1, end)
              /\ end \in 1..Len(s.rows) /\ end > HiddenCount(s) /\ end \in 0..LastRow
<1> DEFINE l == Len(s.rows)  h == HiddenCount(s)  e == Excess(s)
<1>1. /\ Kept(s) /\ l \in Nat /\ h \in 0..l /\ e \in 0..l /\ l <= LastRow
      /\ \A i \in 1..l : s.rows[i] \in Rows /\ s.rows[i] < n
      /\ Range(s.rows) = At(s.rows, 1, l)
  BY RowTypes, Counts, FewRows DEF Before, Kept
<1>2. Overflow(s) = At(s.rows, h + 1, e) /\ Boundaries(s) = h + 1..l
  BY DEF Overflow, At, Boundaries
<1>3. \A end : Chunk(s, end) = At(s.rows, h + 1, end)
  BY DEF Chunk, At
<1>4. Unconsolidated(s) \subseteq Range(s.rows)
  BY DEF Unconsolidated
<1>5. Before(Capped(s), n)
  <2>1. /\ Kept(Capped(s))
        /\ \A i \in 1..Len(Capped(s).rows) :
             i + e \in 1..l /\ Capped(s).rows[i] = s.rows[i + e]
    BY <1>1, CappedFacts
  <2> HIDE DEF l, e
  <2> QED BY <1>1, <2>1 DEF Before
<1> HIDE DEF l, h, e
<1>6. \A row \in Range(s.rows) : row \in Rows /\ row < n
  BY <1>1 DEF At
<1>7. At(s.rows, h + 1, e) \subseteq Range(s.rows)
  <2>1. h + 1..e \subseteq 1..l
    BY <1>1
  <2> QED BY <1>1, <2>1 DEF At
<1>8. ASSUME NEW end \in h + 1..l
      PROVE  /\ At(s.rows, h + 1, end) \subseteq Range(s.rows)
             /\ end \in 1..l /\ end > h /\ end \in 0..LastRow
  <2>1. h + 1..end \subseteq 1..l
    BY <1>1
  <2>2. end \in 1..l /\ end > h /\ end \in 0..LastRow
    BY <1>1, Bounds
  <2> QED BY <1>1, <2>1, <2>2 DEF At
<1> QED BY <1>2, <1>3, <1>4, <1>5, <1>6, <1>7, <1>8 DEF l, h

LEMMA StoreFacts ==
  ASSUME MemoryIInv
  PROVE  /\ Before(file, nextRow) /\ \A o \in Objects : Before(heap[o], nextRow)
         /\ Len(file.rows) <= FileCap
         /\ Before(Loaded, nextRow) /\ Loaded.rows = file.rows
         /\ Loaded.lc \in 0..Len(file.rows)
         /\ cached # NoObject => cached \in Objects /\ Got = cached
         /\ cached = NoObject \/ job = NoJob => NewObject \in Objects \ InUse
         /\ Got \in Objects
         /\ Before(Contents, nextRow) /\ Contents \in {file, Loaded}
         /\ Contents.rows = file.rows
         /\ Calm => /\ Loaded = file /\ Contents = file
                    /\ cached # NoObject => heap[cached] = file
<1> DEFINE n == Len(file.rows)
<1>1. /\ MemoryTypeOK /\ RowsInv /\ CacheInv /\ CalmInv
      /\ file \in Content /\ \A o \in Objects : heap[o] \in Content
  BY DEF MemoryIInv, MemoryTypeOK
<1>2. \A s \in {file} \cup {heap[o] : o \in Objects} : \A i \in 1..Len(s.rows) :
         s.rows[i] < nextRow /\ \A k \in i + 1..Len(s.rows) : s.rows[i] < s.rows[k]
  BY <1>1 DEF RowsInv
<1>3. Before(file, nextRow) /\ \A o \in Objects : Before(heap[o], nextRow)
  BY <1>1, <1>2 DEF Before, Kept, Ascends
<1>4. n \in Nat /\ n <= LastRow /\ n <= FileCap
  BY <1>1, <1>3, RowTypes, FewRows DEF Before, MemoryTypeOK
<1>5. /\ Loaded.rows = file.rows
      /\ Loaded.lc = IF file.lc \in 0..n THEN file.lc ELSE 0
      /\ Loaded = [rows |-> file.rows, lc |-> Loaded.lc]
      /\ file.lc \in 0..n => Loaded = file
  BY <1>1 DEF Loaded, Content
<1>6. file.rows \in Seq(Rows)
  BY <1>1 DEF Content
<1> HIDE DEF n
<1>7. Loaded.lc \in 0..n
  BY <1>4, <1>5
<1>8. Loaded \in Content
  <2>1. Loaded.lc \in -IdleSuffix..LastRow
    BY <1>4, <1>7, Bounds
  <2> QED BY <1>5, <1>6, <2>1 DEF Content
<1>9. Before(Loaded, nextRow)
  BY <1>3, <1>5, <1>8 DEF Before, Kept
<1>10. cached \in Objects \cup {NoObject} /\ turn.obj \in Objects \cup {NoObject}
       /\ job.obj \in Objects \cup {NoObject} /\ NoObject \notin Objects
  <2>1. cached \in Objects \cup {NoObject} /\ turn \in Turns /\ job \in Jobs
    BY <1>1 DEF MemoryTypeOK, Turns, Jobs
  <2>2. turn.obj \in Objects \cup {NoObject}
    BY <2>1 DEF Turns, NoTurn
  <2>3. job.obj \in Objects \cup {NoObject}
    BY <2>1 DEF Jobs, NoJob
  <2> QED BY <2>1, <2>2, <2>3, MemoryAssumption
<1>11. cached = NoObject \/ job = NoJob => NewObject \in Objects \ InUse
  <2> SUFFICES ASSUME cached = NoObject \/ job = NoJob
               PROVE  NewObject \in Objects \ InUse
    OBVIOUS
  <2>1. \E o \in Objects : o \notin InUse
    <3>1. CASE cached = NoObject
      <4>1. Objects \ {turn.obj, job.obj} # {}
        BY <1>10, MemoryAssumption
      <4> QED BY <1>10, <3>1, <4>1 DEF InUse
    <3>2. CASE job = NoJob
      <4>1. Objects \ {cached, turn.obj} # {}
        BY <1>10, MemoryAssumption
      <4> QED BY <1>10, <3>2, <4>1 DEF InUse, NoJob
    <3> QED BY <3>1, <3>2
  <2> QED BY <2>1 DEF NewObject
<1>12. Got \in Objects /\ (cached # NoObject => cached \in Objects /\ Got = cached)
  BY <1>10, <1>11 DEF Got
<1>13. Contents \in {file, Loaded}
  BY <1>1 DEF Contents, CacheInv
<1>14. Calm => Loaded = file
  BY <1>1, <1>5 DEF CalmInv, n
<1> QED BY <1>1, <1>3, <1>4, <1>5, <1>7, <1>9, <1>11, <1>12, <1>13, <1>14 DEF n, CacheInv

(* Turn and job hold the cached object.                                    *)
LEMMA Holders ==
  ASSUME MemoryIInv
  PROVE  /\ turn \in Turns /\ job \in Jobs
         /\ turn # NoTurn => turn.obj \in Objects
         /\ job # NoJob => /\ job.obj \in Objects /\ job.end \in 0..LastRow
                           /\ job.by \in {"turn", "background", "idle"}
         /\ Calm => /\ turn # NoTurn => turn.obj = cached /\ cached # NoObject
                    /\ job # NoJob => job.obj = cached /\ cached # NoObject
                    /\ cached = NoObject => turn = NoTurn /\ job = NoJob
         /\ job.chunk \subseteq Rows /\ \A row \in job.chunk : row < nextRow
         /\ job.by = "idle" => job.end <= IdleSuffix
         /\ job = NoJob <=> job.by = "none"
<1>1. turn \in Turns /\ job \in Jobs /\ NoObject \notin Objects
  BY MemoryAssumption DEF MemoryIInv, MemoryTypeOK, Turns, Jobs
<1>2. /\ turn # NoTurn => turn.obj \in Objects
      /\ job # NoJob => /\ job.obj \in Objects /\ job.end \in 0..LastRow
                        /\ job.by \in {"turn", "background", "idle"}
      /\ job.chunk \subseteq Rows
      /\ job = NoJob <=> job.by = "none"
  BY <1>1 DEF Turns, Jobs, NoTurn, NoJob
<1>3. Calm => (turn # NoTurn => turn.obj = cached) /\ (job # NoJob => job.obj = cached)
  BY DEF MemoryIInv, CalmInv
<1>4. (\A row \in job.chunk : row < nextRow) /\ (job.by = "idle" => job.end <= IdleSuffix)
  BY DEF MemoryIInv, RowsInv
<1> QED BY <1>1, <1>2, <1>3, <1>4

(* An object is stored: the others are what they were.                     *)
LEMMA Stored ==
  ASSUME MemoryIInv, NEW o \in Objects, NEW s, Before(s, nextRow'),
         nextRow' \in {nextRow, nextRow + 1},
         heap' = [heap EXCEPT ![o] = s]
  PROVE  /\ heap' \in [Objects -> Content] /\ heap'[o] = s
         /\ \A p \in Objects : Before(heap'[p], nextRow')
<1>1. heap \in [Objects -> Content] /\ s \in Content /\ nextRow \in Nat
  BY Bounds DEF MemoryIInv, MemoryTypeOK, Before, Kept
<1>2. heap' \in [Objects -> Content] /\ heap'[o] = s
      /\ \A p \in Objects : heap'[p] \in {s, heap[p]}
  BY <1>1
<1>3. ASSUME NEW p \in Objects PROVE Before(heap[p], nextRow')
  <2>1. Before(heap[p], nextRow) /\ heap[p] \in Content
    BY <1>1, StoreFacts
  <2>2. \A i \in 1..Len(heap[p].rows) : heap[p].rows[i] \in Nat
    BY <2>1, RowTypes
  <2> QED BY <1>1, <2>1, <2>2 DEF Before
<1> QED BY <1>2, <1>3

LEMMA RowsNext ==
  ASSUME Before(file', nextRow'), \A p \in Objects : Before(heap'[p], nextRow'),
         \A row \in archive' \cup snapshots' \cup job'.chunk : row < nextRow',
         job'.by = "idle" => job'.end <= IdleSuffix
  PROVE  RowsInv'
BY DEF RowsInv, Before, Kept, Ascends

-----------------------------------------------------------------------------
(***************************************************************************)
(* The steps of the code.                                                  *)
(***************************************************************************)
(* get_or_create, and what a consolidation may start with it.              *)
Starts(by) ==
  /\ job = NoJob
  /\ \E end \in Boundaries(Contents) :
       job' = [by |-> by, obj |-> Got, chunk |-> Chunk(Contents, end), end |-> end]

LEMMA Loads ==
  ASSUME MemoryIInv, heap' = [heap EXCEPT ![Got] = Contents], cached' = Got,
         UNCHANGED <<file, snapshots, archive, nextRow, interrupts, owed, twice, races>>,
         after' \in BOOLEAN, scanned' \in BOOLEAN, turn' \in Turns,
         turn' # NoTurn => turn'.obj = Got \/ (turn # NoTurn /\ turn'.obj = turn.obj),
         job' = job \/ Starts("turn") \/ Starts("background"),
         job'.by = "turn" => turn'.at = "consolidating"
  PROVE  MemoryIInv'
<1>1. /\ Before(file, nextRow) /\ Got \in Objects /\ Before(Contents, nextRow)
      /\ Contents \in {file, Loaded} /\ Contents.rows = file.rows
      /\ cached # NoObject => Got = cached
      /\ Calm => Contents = file
  BY StoreFacts
<1>2. /\ heap' \in [Objects -> Content] /\ heap'[Got] = Contents
      /\ \A p \in Objects : Before(heap'[p], nextRow')
  BY <1>1, Stored
<1>3. ASSUME NEW by \in {"turn", "background"}, Starts(by)
      PROVE  /\ job' \in Jobs /\ job'.obj = Got /\ job'.by # "idle"
             /\ \A row \in job'.chunk : row < nextRow
             /\ Calm => JobInv'
  <2>1. PICK end \in Boundaries(Contents) :
          job' = [by |-> by, obj |-> Got, chunk |-> Chunk(Contents, end), end |-> end]
    BY <1>3 DEF Starts
  <2>2. /\ \A row \in Chunk(Contents, end) : row \in Rows /\ row < nextRow
        /\ Chunk(Contents, end) = At(file.rows, HiddenCount(Contents) + 1, end)
        /\ end \in 1..Len(file.rows) /\ end > HiddenCount(Contents) /\ end \in 0..LastRow
    BY <1>1, <2>1, Gone
  <2>3. job' \in Jobs
    BY <1>1, <2>1, <2>2 DEF Jobs
  <2>4. ASSUME Calm PROVE JobInv'
    <3>1. file.lc \in 0..Len(file.rows) /\ Contents = file /\ file \in Content
      BY <1>1, <2>4 DEF MemoryIInv, CalmInv, Before, Kept
    <3>2. HiddenCount(file) = file.lc /\ Len(file.rows) \in Nat
      BY <3>1, Counts, RowTypes
    <3>3. end \in file.lc..Len(file.rows)
      BY <2>2, <3>1, <3>2
    <3>4. /\ job'.chunk = {file.rows[i] : i \in file.lc + 1..end}
          /\ job'.end = end /\ job'.by # "idle"
      BY <2>1, <2>2, <3>1, <3>2 DEF At
    <3> QED BY <3>3, <3>4 DEF JobInv
  <2> QED BY <2>1, <2>2, <2>3, <2>4
<1>4. /\ job' \in Jobs /\ \A row \in job'.chunk : row < nextRow
      /\ job'.by = "idle" => job'.end <= IdleSuffix
      /\ Calm => /\ job' # NoJob => job'.obj = Got
                 /\ JobInv'
  <2>1. CASE job' = job
    <3>1. Calm => JobInv'
      BY <2>1 DEF MemoryIInv, CalmInv, JobInv
    <3> QED BY <1>1, <2>1, <3>1, Holders
  <2>2. CASE Starts("turn") \/ Starts("background")
    BY <1>3, <2>2
  <2> QED BY <2>1, <2>2
<1>5. MemoryTypeOK'
  BY <1>1, <1>2, <1>4 DEF MemoryIInv, MemoryTypeOK, Turns, Jobs
<1>6. RowsInv'
  <2>1. \A row \in archive' \cup snapshots' \cup job'.chunk : row < nextRow'
    BY <1>4 DEF MemoryIInv, RowsInv
  <2> QED BY <1>1, <1>2, <1>4, <2>1, RowsNext
<1>7. Loaded' = Loaded
  BY DEF Loaded
<1>8. CacheInv'
  BY <1>1, <1>2, <1>7 DEF CacheInv
<1>9. CalmInv'
  <2> SUFFICES ASSUME Calm PROVE CalmInv'
    BY DEF CalmInv, Calm
  <2>1. turn' # NoTurn => turn'.obj = Got
    BY <1>1, Holders
  <2> QED BY <1>4, <2>1 DEF MemoryIInv, CalmInv
<1>10. ArchiveInv' /\ NothingForgotten'
  BY DEF MemoryIInv, ArchiveInv, NothingForgotten, Calm, Unconsolidated
<1> QED BY <1>5, <1>6, <1>8, <1>9, <1>10 DEF MemoryIInv

(* AppendRow: o is the cached object, or a fresh one, where all is calm.   *)
LEMMA Appends ==
  ASSUME MemoryIInv, NEW o \in Objects, AppendRow(o),
         UNCHANGED <<job, snapshots, interrupts>>,
         after' \in BOOLEAN, scanned' \in BOOLEAN,
         turn' \in Turns, turn' # NoTurn => turn # NoTurn /\ turn'.obj = turn.obj,
         cached = NoObject => o \notin InUse \/ turn # NoTurn,
         Calm /\ cached # NoObject => o = cached,
         job'.by = "turn" => turn'.at = "consolidating"
  PROVE  MemoryIInv'
<1> DEFINE held == o = cached \/ o = turn.obj
           b == IF held THEN heap[o] ELSE Loaded
           t == With(b, nextRow)  c == Capped(t)
<1>1. /\ Before(file, nextRow) /\ Before(b, nextRow) /\ Before(Loaded, nextRow)
      /\ Calm => b = file
  <2>1. Before(b, nextRow) /\ Before(file, nextRow) /\ Before(Loaded, nextRow)
    BY StoreFacts
  <2>2. ASSUME Calm PROVE b = file
    <3>1. CASE cached # NoObject
      BY <2>2, <3>1, StoreFacts
    <3>2. CASE cached = NoObject
      BY <2>2, <3>2, StoreFacts, Holders DEF InUse, NoTurn
    <3> QED BY <3>1, <3>2
  <2> QED BY <2>1, <2>2
<1>2. /\ nextRow \in Rows /\ nextRow \in Nat /\ nextRow' = nextRow + 1
      /\ heap' = [heap EXCEPT ![o] = c] /\ file' = c /\ cached' = o
      /\ archive' = archive \cup Overflow(t)
      /\ twice' = twice \cup (archive \cap Overflow(t))
      /\ owed' = owed \cup {nextRow}
      /\ races' = races \cup (IF job.obj = o /\ Excess(t) > 0 THEN {"trimmed"} ELSE {})
                        \cup (IF job.obj = o /\ job.by = "idle" THEN {"appended"} ELSE {})
  <2>1. heap[o] \in Content /\ Loaded \in Content
    BY StoreFacts DEF Before, Kept
  <2>2. (IF held THEN [heap[o] EXCEPT !.rows = Append(@, nextRow)]
                 ELSE [Loaded EXCEPT !.rows = Append(@, nextRow)]) = t
    BY DEF With
  <2>3. nextRow \in Rows /\ nextRow \in Nat
    BY Bounds DEF MemoryIInv, MemoryTypeOK, AppendRow, Rows
  <2> HIDE DEF t
  <2> QED BY <2>2, <2>3 DEF AppendRow, Save, Archive
<1>3. /\ Kept(t) /\ Len(t.rows) = Len(b.rows) + 1 /\ t.lc = b.lc
      /\ t.rows[Len(b.rows) + 1] = nextRow
      /\ \A i \in 1..Len(b.rows) : t.rows[i] = b.rows[i]
  <2> HIDE DEF b
  <2> QED BY <1>1, <1>2, WithFacts DEF Before
<1>4. Len(b.rows) \in Nat /\ \A i \in 1..Len(b.rows) : b.rows[i] \in Nat
  BY <1>1, RowTypes DEF Before, Kept
<1> HIDE DEF b
<1>5. Before(t, nextRow')
  <2> DEFINE n == Len(b.rows)
  <2>1. ASSUME NEW i \in 1..Len(t.rows) PROVE t.rows[i] < nextRow + 1
    <3>1. i \in 1..n \/ i = n + 1
      BY <1>3, <1>4, <2>1
    <3>2. CASE i \in 1..n
      <4>1. t.rows[i] = b.rows[i] /\ b.rows[i] < nextRow /\ b.rows[i] \in Nat
        BY <1>1, <1>3, <1>4, <3>2 DEF Before
      <4> QED BY <1>2, <4>1
    <3>3. CASE i = n + 1
      BY <1>2, <1>3, <3>3
    <3> QED BY <3>1, <3>2, <3>3
  <2> QED BY <1>2, <1>3, <2>1 DEF Before
<1> HIDE DEF t
<1>6. /\ Before(c, nextRow') /\ Len(c.rows) <= FileCap
      /\ \A row \in Overflow(t) : row \in Rows /\ row < nextRow'
  BY <1>5, Gone, CappedFacts DEF Before
<1> HIDE DEF c
<1>7. /\ heap' \in [Objects -> Content] /\ heap'[o] = c
      /\ \A p \in Objects : Before(heap'[p], nextRow')
  BY <1>2, <1>6, Stored
<1>8. MemoryTypeOK'
  <2>1. nextRow' \in 1..LastRow + 1
    BY <1>2, Bounds DEF Rows
  <2>2. archive' \subseteq Rows /\ twice' \subseteq Rows /\ owed' \subseteq Rows
    BY <1>2, <1>6 DEF MemoryIInv, MemoryTypeOK
  <2>3. races' \subseteq {"trimmed", "appended", "orphaned"}
    BY <1>2 DEF MemoryIInv, MemoryTypeOK
  <2>4. file' \in Content /\ Len(file'.rows) <= FileCap /\ cached' \in Objects
    BY <1>2, <1>6 DEF Before, Kept
  <2> QED BY <1>7, <2>1, <2>2, <2>3, <2>4 DEF MemoryIInv, MemoryTypeOK, Turns
<1>9. RowsInv'
  <2>1. \A row \in archive \cup snapshots \cup job.chunk : row < nextRow /\ row \in Nat
    <3>1. archive \cup snapshots \cup job.chunk \subseteq Rows
      BY Holders DEF MemoryIInv, MemoryTypeOK
    <3> QED BY <3>1, Bounds DEF MemoryIInv, RowsInv, Rows
  <2>2. \A row \in archive' \cup snapshots' \cup job'.chunk : row < nextRow'
    BY <1>2, <1>6, <2>1
  <2> QED BY <1>2, <1>6, <1>7, <2>2, Holders, RowsNext
<1>10. CacheInv'
  BY <1>2, <1>7 DEF CacheInv
<1>11. ASSUME Calm'
       PROVE  /\ Calm /\ b = file /\ file.lc \in 0..Len(file.rows) /\ Kept(file)
              /\ file'.lc \in 0..Len(file'.rows)
              /\ Hidden(file') \subseteq Hidden(file)
              /\ Range(file.rows) \subseteq Range(file'.rows) \cup Hidden(file) \cup Overflow(t)
              /\ nextRow \in Range(file'.rows)
              /\ Overflow(t) \subseteq Unconsolidated(file) \cup {nextRow}
              /\ Unconsolidated(file') \subseteq (Unconsolidated(file) \cup {nextRow}) \ Overflow(t)
  <2>1. Calm
    BY <1>2, <1>11 DEF Calm
  <2>2. b = file /\ file.lc \in 0..Len(file.rows) /\ Kept(file)
    BY <1>1, <2>1 DEF MemoryIInv, CalmInv, Before
  <2>3. \A i \in 1..Len(file.rows) : file.rows[i] < nextRow
    BY <1>1 DEF Before
  <2>4. t = With(file, nextRow) /\ file' = Capped(With(file, nextRow))
    BY <1>2, <2>2 DEF t, c
  <2> QED BY <1>2, <2>1, <2>2, <2>3, <2>4, SavedRow
<1>12. CalmInv'
  <2> SUFFICES ASSUME Calm' PROVE CalmInv'
    BY DEF CalmInv
  <2>1. (turn' # NoTurn => turn'.obj = o) /\ (job' # NoJob => job'.obj = o)
    BY <1>11, Holders
  <2>2. JobInv'
    <3> SUFFICES ASSUME job # NoJob PROVE JobInv'
      BY DEF JobInv
    <3> DEFINE n == Len(file.rows)
    <3>1. job.obj = o
      BY <2>1
    <3>2. /\ ~(Excess(t) > 0)
          /\ job.by = "idle" => races' # {}
      BY <1>2, <3>1 DEF Calm
    <3>3. Len(t.rows) = n + 1 /\ t.lc = file.lc /\ Len(t.rows) \in Nat
          /\ \A i \in 1..n : t.rows[i] = file.rows[i]
      BY <1>3, <1>4, <1>11
    <3>4. Excess(t) = 0 /\ file' = t
      <4>1. t \in Content /\ t.rows \in Seq(Rows)
        BY <1>3, RowTypes DEF Kept
      <4>2. Excess(t) \in 0..Len(t.rows) /\ Len(t.rows) - Excess(t) <= FileCap
        BY <4>1, Counts
      <4>3. Excess(t) = 0 /\ Len(t.rows) <= FileCap
        BY <3>2, <3>3, <4>2
      <4>4. Capped(t) = t
        BY <1>3, <4>3, CappedFacts
      <4> QED BY <1>2, <4>3, <4>4 DEF c
    <3>5. PICK m \in file.lc..n :
            /\ job.chunk = {file.rows[i] : i \in file.lc + 1..m}
            /\ job.by # "idle" => m = job.end
            /\ job.by = "idle" => m <= n - job.end
      BY <1>11 DEF MemoryIInv, CalmInv, JobInv
    <3>6. n \in Nat /\ file.lc \in 0..n /\ job.end \in Nat
      BY <1>4, <1>11, Holders
    <3> HIDE DEF n
    <3>7. m \in file'.lc..Len(file'.rows) /\ (m <= n - job.end => m <= Len(file'.rows) - job.end)
      BY <3>3, <3>4, <3>5, <3>6
    <3>8. {file'.rows[i] : i \in file'.lc + 1..m} = {file.rows[i] : i \in file.lc + 1..m}
      <4>1. \A i \in file.lc + 1..m : file'.rows[i] = file.rows[i]
        <5>1. file.lc + 1..m \subseteq 1..n
          BY <3>5, <3>6
        <5> QED BY <3>3, <3>4, <5>1
      <4> QED BY <3>3, <3>4, <4>1
    <3>9. /\ job'.chunk = {file'.rows[i] : i \in file'.lc + 1..m}
          /\ job'.by # "idle" => m = job'.end
          /\ job'.by = "idle" => m <= Len(file'.rows) - job'.end /\ races' # {}
      BY <3>2, <3>5, <3>7, <3>8
    <3> QED BY <3>7, <3>9 DEF JobInv
  <2> QED BY <1>2, <1>11, <2>1, <2>2 DEF CalmInv
<1>13. ArchiveInv'
  <2>1. ASSUME races' = {} PROVE Hidden(file') \subseteq archive'
    <3>1. Calm' /\ races = {}
      BY <1>2, <2>1 DEF Calm
    <3> QED BY <1>2, <1>11, <3>1 DEF MemoryIInv, ArchiveInv
  <2>2. ASSUME Calm', interrupts = 0
        PROVE  snapshots' = {} /\ twice' = {} /\ archive' \cap Unconsolidated(file') = {}
    <3>1. snapshots = {} /\ twice = {} /\ archive \cap Unconsolidated(file) = {}
      BY <1>11, <2>2 DEF MemoryIInv, ArchiveInv
    <3>2. nextRow \notin archive
      BY <1>2 DEF MemoryIInv, RowsInv
    <3> QED BY <1>2, <1>11, <2>2, <3>1, <3>2
  <2> QED BY <2>1, <2>2 DEF ArchiveInv, Unconsolidated
<1>14. NothingForgotten'
  <2> SUFFICES ASSUME races' = {}
               PROVE  owed' \subseteq Range(file'.rows) \cup archive' \cup snapshots'
    BY DEF NothingForgotten
  <2>1. Calm' /\ races = {}
    BY <1>2 DEF Calm
  <2>2. /\ owed \subseteq Range(file.rows) \cup archive \cup snapshots
        /\ Hidden(file) \subseteq archive
    BY <2>1 DEF MemoryIInv, NothingForgotten, ArchiveInv
  <2> QED BY <1>2, <1>11, <2>1, <2>2
<1> QED BY <1>8, <1>9, <1>10, <1>12, <1>13, <1>14 DEF MemoryIInv

(* A job returns: its object is saved with offset end, and another round   *)
(* may follow.                                                             *)
Again(s) == job' = NoJob \/ \E e \in Boundaries(s) : job.by # "idle" /\
                              job' = [job EXCEPT !.chunk = Chunk(s, e), !.end = e]
Advances(end) == Calm => \E m \in file.lc..Len(file.rows) :
                           /\ job.chunk = At(file.rows, file.lc + 1, m)
                           /\ end \in m..Len(file.rows)
                           /\ races = {} => m = end

LEMMA Returns ==
  ASSUME MemoryIInv, job # NoJob, NEW end \in -IdleSuffix..LastRow,
         NEW s, s = Moved(heap[job.obj], end),
         Save(job.obj, s), Archive(job.chunk \cup Overflow(s)),
         UNCHANGED <<snapshots, nextRow, interrupts, owed, races, after>>,
         scanned' \in BOOLEAN,
         turn' \in Turns, turn' # NoTurn => turn # NoTurn /\ turn'.obj = turn.obj,
         Again(s), Advances(end), job'.by = "turn" => turn'.at = "consolidating"
  PROVE  MemoryIInv'
<1> DEFINE o == job.obj  c == Capped(s)
<1>1. /\ o \in Objects /\ job.chunk \subseteq Rows /\ Before(heap[o], nextRow)
      /\ \A row \in job.chunk : row < nextRow
  BY StoreFacts, Holders
<1>2. Before(s, nextRow) /\ s.rows = heap[o].rows
  <2>1. heap[o] \in Content
    BY <1>1 DEF Before, Kept
  <2>3. s \in Content /\ s.rows = heap[o].rows
    BY <2>1 DEF Content, Moved
  <2> QED BY <1>1, <2>3 DEF Before, Kept
<1>3. /\ heap' = [heap EXCEPT ![o] = c] /\ file' = c /\ cached' = o
      /\ archive' = archive \cup job.chunk \cup Overflow(s)
      /\ twice' = twice \cup (archive \cap (job.chunk \cup Overflow(s)))
  BY DEF Save, Archive
<1>4. /\ Before(c, nextRow) /\ Len(c.rows) <= FileCap
      /\ \A row \in Overflow(s) : row \in Rows /\ row < nextRow
      /\ \A e \in Boundaries(s) :
           /\ \A row \in Chunk(s, e) : row \in Rows /\ row < nextRow
           /\ Chunk(s, e) = At(s.rows, HiddenCount(s) + 1, e)
           /\ e \in 1..Len(s.rows) /\ e > HiddenCount(s) /\ e \in 0..LastRow
  <2>1. Kept(s)
    BY <1>2 DEF Before
  <2>2. Len(c.rows) <= FileCap
    BY <2>1, CappedFacts
  <2>3. /\ \A row \in Range(s.rows) : row \in Rows /\ row < nextRow
        /\ Overflow(s) \subseteq Range(s.rows)
        /\ Before(c, nextRow)
        /\ \A e \in Boundaries(s) :
              /\ Chunk(s, e) \subseteq Range(s.rows)
              /\ Chunk(s, e) = At(s.rows, HiddenCount(s) + 1, e)
              /\ e \in 1..Len(s.rows) /\ e > HiddenCount(s) /\ e \in 0..LastRow
    BY <1>2, Gone
  <2> HIDE DEF c
  <2> QED BY <2>2, <2>3
<1> HIDE DEF c
<1>5. /\ heap' \in [Objects -> Content] /\ heap'[o] = c
      /\ \A p \in Objects : Before(heap'[p], nextRow')
  BY <1>1, <1>3, <1>4, Stored
<1>6. /\ job' \in Jobs /\ job'.chunk \subseteq Rows
      /\ \A row \in job'.chunk : row < nextRow
      /\ job'.by = "idle" => job'.end <= IdleSuffix
      /\ job' # NoJob => job'.obj = o /\ job'.by # "idle"
  <2>1. CASE job' = NoJob
    BY <2>1 DEF Jobs, NoJob
  <2>2. CASE job' # NoJob
    <3>1. PICK e \in Boundaries(s) : job.by # "idle" /\
                           job' = [job EXCEPT !.chunk = Chunk(s, e), !.end = e]
      BY <2>2 DEF Again
    <3>2. /\ job \in [by : {"turn", "background", "idle"}, obj : Objects,
                      chunk : SUBSET Rows, end : 0..LastRow]
          /\ Chunk(s, e) \in SUBSET Rows /\ e \in 0..LastRow
      BY <1>4, Holders DEF Jobs
    <3> QED BY <1>4, <3>1, <3>2 DEF Jobs
  <2> QED BY <2>1, <2>2
<1>7. MemoryTypeOK'
  <2>1. archive' \subseteq Rows /\ twice' \subseteq Rows
    BY <1>1, <1>3, <1>4 DEF MemoryIInv, MemoryTypeOK
  <2>2. file' \in Content /\ Len(file'.rows) <= FileCap /\ cached' \in Objects
    BY <1>1, <1>3, <1>4 DEF Before, Kept
  <2> QED BY <1>5, <1>6, <2>1, <2>2 DEF MemoryIInv, MemoryTypeOK, Turns, Jobs
<1>8. RowsInv'
  <2>1. \A row \in archive' \cup snapshots' \cup job'.chunk : row < nextRow'
    BY <1>1, <1>3, <1>4, <1>6 DEF MemoryIInv, RowsInv
  <2>2. Before(file', nextRow') /\ \A p \in Objects : Before(heap'[p], nextRow')
    BY <1>3, <1>4, <1>5
  <2> QED BY <1>6, <2>1, <2>2, RowsNext
<1>9. CacheInv'
  BY <1>3, <1>5 DEF CacheInv
<1>10. ASSUME Calm
       PROVE  \E m \in file.lc..Len(file.rows) :
                /\ file' = s /\ Overflow(s) = {} /\ HiddenCount(s) = end
                /\ s.rows = file.rows /\ s.lc = end /\ end \in 0..Len(s.rows)
                /\ job.chunk = At(file.rows, file.lc + 1, m)
                /\ races = {} => Hidden(file') = Hidden(file) \cup job.chunk
                /\ Range(file'.rows) = Range(file.rows)
                /\ job.chunk \subseteq Unconsolidated(file)
                /\ Unconsolidated(file') \subseteq Unconsolidated(file) \ job.chunk
  <2>1. heap[o] = file /\ Len(file.rows) <= FileCap /\ Before(file, nextRow)
    BY <1>10, StoreFacts, Holders
  <2>2. file.lc \in 0..Len(file.rows)
    BY <1>10 DEF MemoryIInv, CalmInv
  <2>3. PICK m \in file.lc..Len(file.rows) :
                   /\ job.chunk = At(file.rows, file.lc + 1, m)
                   /\ end \in m..Len(file.rows)
                   /\ races = {} => m = end
    BY <1>10 DEF Advances
  <2>4. s = Moved(file, end) /\ Kept(file)
    BY <2>1 DEF Before
  <2>5. /\ s.rows = file.rows /\ s.lc = end /\ end \in 0..Len(s.rows)
        /\ Capped(s) = s /\ Overflow(s) = {}
        /\ HiddenCount(s) = end /\ Range(s.rows) = Range(file.rows)
        /\ m = end => Hidden(s) = Hidden(file) \cup job.chunk
        /\ job.chunk \subseteq Unconsolidated(file)
        /\ Unconsolidated(s) \subseteq Unconsolidated(file) \ job.chunk
    <3> DEFINE chunk == At(file.rows, file.lc + 1, m)
    <3>1. /\ s.rows = file.rows /\ s.lc = end /\ s.lc \in 0..Len(s.rows)
          /\ Capped(s) = s /\ Overflow(s) = {}
          /\ HiddenCount(s) = end /\ Range(s.rows) = Range(file.rows)
          /\ m = end => Hidden(s) = Hidden(file) \cup chunk
          /\ chunk \subseteq Unconsolidated(file)
          /\ Unconsolidated(s) \subseteq Unconsolidated(file) \ chunk
      <4>1. end \in m..Len(file.rows)
        BY <2>3
      <4> HIDE DEF chunk
      <4> QED BY <2>1, <2>2, <2>4, <4>1, Advanced DEF chunk
    <3> QED BY <2>3, <3>1
  <2>6. file' = s
    BY <1>3, <2>5 DEF c
  <2> QED BY <2>3, <2>5, <2>6
<1>11. CalmInv'
  <2> SUFFICES ASSUME Calm PROVE CalmInv'
    BY DEF CalmInv, Calm
  <2>1. (turn' # NoTurn => turn'.obj = o) /\ (job' # NoJob => job'.obj = o)
    BY <1>6, Holders
  <2>2. file' = s /\ s.lc = end /\ HiddenCount(s) = end /\ end \in 0..Len(s.rows)
    BY <1>10
  <2>3. JobInv'
    <3> SUFFICES ASSUME job' # NoJob PROVE JobInv'
      BY DEF JobInv
    <3>1. PICK e \in Boundaries(s) : job' = [job EXCEPT !.chunk = Chunk(s, e), !.end = e]
      BY DEF Again
    <3>2. job'.chunk = Chunk(s, e) /\ job'.end = e /\ job'.by # "idle"
      BY <1>6, <3>1, Holders DEF Jobs
    <3>3. /\ job'.chunk = {s.rows[i] : i \in end + 1..e}
          /\ e \in 1..Len(s.rows) /\ e > end
      BY <1>4, <2>2, <3>1, <3>2 DEF At
    <3>4. e \in end..Len(s.rows)
      <4>1. Len(s.rows) \in Nat
        BY <1>2, RowTypes DEF Before, Kept
      <4> QED BY <2>2, <3>3, <4>1
    <3> QED BY <1>3, <2>2, <3>2, <3>3, <3>4 DEF JobInv
  <2> QED BY <1>3, <2>1, <2>2, <2>3 DEF CalmInv
<1>12. ArchiveInv'
  <2>1. ASSUME races = {} PROVE Hidden(file') \subseteq archive'
    <3>1. Calm
      BY <2>1 DEF Calm
    <3>2. Hidden(file') = Hidden(file) \cup job.chunk
      BY <1>10, <2>1, <3>1
    <3> QED BY <1>3, <2>1, <3>2 DEF MemoryIInv, ArchiveInv
  <2>2. ASSUME Calm, interrupts = 0
        PROVE  snapshots' = {} /\ twice' = {} /\ archive' \cap Unconsolidated(file') = {}
    <3>1. snapshots = {} /\ twice = {} /\ archive \cap Unconsolidated(file) = {}
      BY <2>2 DEF MemoryIInv, ArchiveInv
    <3>2. /\ Overflow(s) = {} /\ job.chunk \subseteq Unconsolidated(file)
          /\ Unconsolidated(file') \subseteq Unconsolidated(file) \ job.chunk
      BY <1>10, <2>2
    <3> QED BY <1>3, <3>1, <3>2
  <2> QED BY <2>1, <2>2 DEF ArchiveInv, Unconsolidated, Calm
<1>13. NothingForgotten'
  <2> SUFFICES ASSUME races = {}
               PROVE  owed \subseteq Range(file'.rows) \cup archive' \cup snapshots
    BY DEF NothingForgotten
  <2>1. Range(file'.rows) = Range(file.rows)
    BY <1>10 DEF Calm
  <2> QED BY <1>3, <2>1 DEF MemoryIInv, NothingForgotten
<1> QED BY <1>7, <1>8, <1>9, <1>11, <1>12, <1>13 DEF MemoryIInv

LEMMA ConsolidationReturnsKeeps ==
  ASSUME MemoryIInv, ConsolidationReturns
  PROVE  MemoryIInv'
<1> DEFINE s == Moved(heap[job.obj], job.end)
<1>1. /\ job # NoJob /\ job.by # "idle" /\ job.end \in 0..LastRow /\ turn \in Turns
  BY Holders DEF ConsolidationReturns
<1>2. job.end \in -IdleSuffix..LastRow
  BY <1>1, Bounds
<1>3. turn' \in Turns /\ (turn' # NoTurn => turn # NoTurn /\ turn'.obj = turn.obj)
  <2>1. CASE turn' = turn
    BY <1>1, <2>1
  <2>2. CASE turn' = [turn EXCEPT !.at = "running"]
    <3>1. CASE turn # NoTurn
      <4>1. turn \in [at : {"waiting", "consolidating", "running", "answering"},
                      obj : Objects, bus : BOOLEAN]
        BY <1>1, <3>1 DEF Turns
      <4> QED BY <2>2, <3>1, <4>1 DEF Turns
    <3>2. CASE turn' = turn
      BY <1>1, <3>2
    <3>3. turn = NoTurn => turn.at # "consolidating"
      BY DEF NoTurn
    <3>4. job.by = "turn" => turn.at = "consolidating"
      BY DEF MemoryIInv, CacheInv
    <3> QED BY <3>1, <3>2, <3>3, <3>4 DEF ConsolidationReturns
  <2> QED BY <2>1, <2>2 DEF ConsolidationReturns
<1>4. Again(s)
  BY <1>1 DEF ConsolidationReturns, Again, Moved
<1>5. Advances(job.end)
  <2> SUFFICES ASSUME Calm
               PROVE  \E m \in file.lc..Len(file.rows) :
                        /\ job.chunk = At(file.rows, file.lc + 1, m)
                        /\ job.end \in m..Len(file.rows)
                        /\ races = {} => m = job.end
    BY DEF Advances
  <2>1. PICK m \in file.lc..Len(file.rows) :
          job.chunk = {file.rows[i] : i \in file.lc + 1..m} /\ m = job.end
    BY <1>1 DEF MemoryIInv, CalmInv, JobInv
  <2>2. job.end \in m..Len(file.rows)
    BY <1>2, <2>1
  <2> QED BY <2>1, <2>2 DEF At
<1>6. /\ Save(job.obj, s) /\ Archive(job.chunk \cup Overflow(s))
      /\ UNCHANGED <<snapshots, nextRow, interrupts, owed, races, after>>
      /\ scanned' \in BOOLEAN
  BY DEF ConsolidationReturns, MemoryIInv, MemoryTypeOK, Moved
<1>8. job'.by = "turn" => turn'.at = "consolidating"
  <2>1. CASE job' = NoJob
    BY <2>1 DEF NoJob
  <2>2. CASE job' # NoJob
    <3>1. turn' = turn /\ job'.by = job.by
      BY <1>1, <2>2, Holders DEF ConsolidationReturns, Jobs
    <3> QED BY <3>1 DEF MemoryIInv, CacheInv
  <2> QED BY <2>1, <2>2
<1> HIDE DEF s
<1>7. s = Moved(heap[job.obj], job.end)
  BY DEF s
<1> QED BY <1>1, <1>2, <1>3, <1>4, <1>5, <1>6, <1>7, <1>8, Returns

LEMMA IdleReturnsKeeps ==
  ASSUME MemoryIInv, IdleReturns
  PROVE  MemoryIInv'
<1> DEFINE n == Len(heap[job.obj].rows)  end == n - job.end
           s == Moved(heap[job.obj], end)
<1>1. /\ job # NoJob /\ job.by = "idle" /\ job.end \in 0..LastRow /\ turn \in Turns
      /\ job.end <= IdleSuffix /\ job.obj \in Objects
  <2>1. job.by = "idle" /\ "idle" # "none"
    BY DEF IdleReturns
  <2> QED BY <2>1, Holders
<1>2. n \in Nat /\ n <= LastRow
  BY <1>1, StoreFacts, RowTypes, FewRows DEF Before, Kept
<1>3. end \in -IdleSuffix..LastRow
  <2> HIDE DEF n
  <2> QED BY <1>1, <1>2, Bounds
<1>4. Advances(end)
  <2> SUFFICES ASSUME Calm
               PROVE  \E m \in file.lc..Len(file.rows) :
                        /\ job.chunk = At(file.rows, file.lc + 1, m)
                        /\ end \in m..Len(file.rows)
                        /\ races = {} => m = end
    BY DEF Advances
  <2>1. heap[job.obj] = file
    BY <1>1, StoreFacts, Holders
  <2>2. PICK m \in file.lc..Len(file.rows) :
          /\ job.chunk = {file.rows[i] : i \in file.lc + 1..m}
          /\ m <= Len(file.rows) - job.end
          /\ races = {} => m = Len(file.rows) - job.end
    BY <1>1 DEF MemoryIInv, CalmInv, JobInv
  <2>3. n = Len(file.rows)
    BY <2>1
  <2> HIDE DEF n
  <2>4. file.lc \in 0..n
    BY <2>3 DEF MemoryIInv, CalmInv
  <2>5. end \in m..n /\ (races = {} => m = end)
    BY <1>1, <1>2, <2>2, <2>3, <2>4
  <2> QED BY <2>2, <2>3, <2>5 DEF At
<1>5. /\ Save(job.obj, s) /\ Archive(job.chunk \cup Overflow(s)) /\ Again(s)
      /\ UNCHANGED <<turn, snapshots, nextRow, interrupts, owed, races, after>>
      /\ scanned' \in BOOLEAN
  BY DEF IdleReturns, Moved, Again
<1> HIDE DEF s
<1>6. s = Moved(heap[job.obj], end)
  BY DEF s
<1> HIDE DEF end
<1>7. job'.by = "turn" => turn'.at = "consolidating"
  BY DEF IdleReturns, NoJob
<1> QED BY <1>1, <1>3, <1>4, <1>5, <1>6, <1>7, Returns

(* compact_idle_session: the session is loaded anew; where nobody is left  *)
(* with the old object, all stays calm.                                    *)
LEMMA IdleLocksKeeps ==
  ASSUME MemoryIInv, IdleLocks
  PROVE  MemoryIInv'
<1> DEFINE old == Unconsolidated(Loaded)  kept == Min({IdleSuffix, Cardinality(old)})
           chunk == {r \in old : Cardinality({q \in old : q > r}) >= kept}
           o == NewObject
<1>1. /\ Before(file, nextRow) /\ Len(file.rows) <= FileCap
      /\ Before(Loaded, nextRow) /\ Loaded.rows = file.rows
      /\ Loaded.lc \in 0..Len(file.rows) /\ o \in Objects
      /\ Calm => Loaded = file
  BY StoreFacts DEF IdleLocks
<1>2. /\ heap' = [heap EXCEPT ![o] = Loaded] /\ cached' = o /\ turn' = turn
      /\ UNCHANGED <<after, snapshots, archive, nextRow, interrupts, owed, twice>>
      /\ races' = IF turn # NoTurn THEN races \cup {"orphaned"} ELSE races
      /\ \/ /\ Cardinality(old) > IdleSuffix
            /\ job' = [by |-> "idle", obj |-> o, end |-> kept, chunk |-> chunk]
            /\ scanned' = scanned /\ file' = file
         \/ job' = NoJob /\ scanned' = FALSE /\ file' = Loaded
  BY DEF IdleLocks, Race
<1>3. /\ old \subseteq Range(file.rows) /\ \A row \in Range(file.rows) : row \in Rows /\ row < nextRow
      /\ Len(file.rows) <= LastRow /\ Len(file.rows) \in Nat
      /\ HiddenCount(Loaded) = Loaded.lc
  BY <1>1, Gone, FewRows, RowTypes, Counts DEF Before, Kept
<1>4. ASSUME Cardinality(old) > IdleSuffix
      PROVE  /\ kept = IdleSuffix
             /\ Len(file.rows) - kept \in Loaded.lc..Len(file.rows)
             /\ chunk = At(file.rows, Loaded.lc + 1, Len(file.rows) - kept)
             /\ kept \in 0..LastRow
  <2>1. /\ Len(file.rows) - IdleSuffix \in HiddenCount(Loaded)..Len(file.rows)
        /\ {r \in old : Cardinality({q \in old : q > r}) >= IdleSuffix}
             = At(Loaded.rows, HiddenCount(Loaded) + 1, Len(file.rows) - IdleSuffix)
    BY <1>1, <1>4, Bounds, IdleChunk DEF Before
  <2>2. kept = IdleSuffix
    <3> DEFINE k == Cardinality(old)
    <3>1. k \in Nat
      <4>1. old = At(Loaded.rows, HiddenCount(Loaded) + 1, Len(Loaded.rows))
        BY <1>1, RowSets DEF Before
      <4> DEFINE a == HiddenCount(Loaded) + 1  l == Len(Loaded.rows)
      <4>2. a \in 1..l + 1 /\ l \in 0..l /\ a <= l + 1 /\ l - a + 1 \in Nat
        BY <1>1, <1>3
      <4> HIDE DEF a, l
      <4>3. Cardinality(At(Loaded.rows, a, l)) = l - a + 1
        BY <1>1, <4>2, HowMany DEF Before, l
      <4> QED BY <4>1, <4>2, <4>3 DEF a, l
    <3> HIDE DEF k
    <3>2. Min({IdleSuffix, k}) = IF IdleSuffix <= k THEN IdleSuffix ELSE k
      BY <3>1, Bounds, MinMax
    <3>3. k > IdleSuffix
      BY <1>4 DEF k
    <3> QED BY <3>1, <3>2, <3>3, Bounds DEF k
  <2> HIDE DEF kept
  <2>3. kept \in 0..LastRow
    <3>1. Loaded.lc \in Nat
      BY <1>1, <1>3
    <3> QED BY <1>3, <2>1, <2>2, <3>1, Bounds
  <2> QED BY <1>1, <1>3, <2>1, <2>2, <2>3
<1> HIDE DEF old, kept
<1>5. /\ heap' \in [Objects -> Content] /\ heap'[o] = Loaded
      /\ \A p \in Objects : Before(heap'[p], nextRow')
  BY <1>1, <1>2, Stored
<1>6. /\ job' \in Jobs /\ (\A row \in job'.chunk : row \in Rows /\ row < nextRow)
      /\ job'.by = "idle" => job'.end <= IdleSuffix
      /\ job' # NoJob => job'.obj = o
  <2>1. CASE job' = NoJob
    BY <2>1 DEF Jobs, NoJob
  <2>2. CASE job' # NoJob
    <3>1. /\ job' = [by |-> "idle", obj |-> o, end |-> kept, chunk |-> chunk]
          /\ kept = IdleSuffix /\ kept \in 0..LastRow
      BY <1>2, <1>4, <2>2
    <3>2. \A row \in chunk : row \in Rows /\ row < nextRow
      BY <1>3
    <3> HIDE DEF chunk
    <3>3. chunk \in SUBSET Rows /\ kept <= IdleSuffix
      BY <3>1, <3>2, Bounds
    <3> QED BY <1>1, <3>1, <3>2, <3>3 DEF Jobs
  <2> QED BY <2>1, <2>2
<1> HIDE DEF chunk
<1>7. MemoryTypeOK'
  <2>1. file' \in Content /\ Len(file'.rows) <= FileCap
    BY <1>1, <1>2 DEF Before, Kept
  <2>2. races' \subseteq {"trimmed", "appended", "orphaned"} /\ scanned' \in BOOLEAN
    BY <1>2 DEF MemoryIInv, MemoryTypeOK
  <2> QED BY <1>1, <1>2, <1>5, <1>6, <2>1, <2>2 DEF MemoryIInv, MemoryTypeOK, Jobs
<1>8. RowsInv'
  <2>1. \A row \in archive' \cup snapshots' \cup job'.chunk : row < nextRow'
    BY <1>2, <1>6 DEF MemoryIInv, RowsInv
  <2> QED BY <1>1, <1>2, <1>5, <1>6, <2>1, RowsNext
<1>9. CacheInv'
  <2>3. job'.by # "turn"
    BY <1>2 DEF NoJob
  <2>1. CASE file' = file
    <3>1. Loaded' = Loaded
      BY <2>1 DEF Loaded
    <3> QED BY <1>2, <1>5, <2>3, <3>1 DEF CacheInv
  <2>2. CASE file' = Loaded
    BY <1>2, <1>5, <2>2, <2>3 DEF CacheInv
  <2> QED BY <1>2, <2>1, <2>2
<1>10. ASSUME Calm' PROVE Calm /\ turn = NoTurn /\ races' = races
  BY <1>2, <1>10 DEF Calm
<1>11. ASSUME Calm PROVE file' = file /\ Loaded = file /\ file.lc \in 0..Len(file.rows)
  BY <1>1, <1>2, <1>11 DEF MemoryIInv, CalmInv
<1>12. CalmInv'
  <2> SUFFICES ASSUME Calm' PROVE CalmInv'
    BY DEF CalmInv
  <2>1. file' = file /\ Loaded = file /\ turn' = NoTurn /\ file.lc \in 0..Len(file.rows)
    BY <1>2, <1>10, <1>11
  <2>2. JobInv'
    <3> SUFFICES ASSUME job' # NoJob PROVE JobInv'
      BY DEF JobInv
    <3>1. job' = [by |-> "idle", obj |-> o, end |-> kept, chunk |-> chunk]
          /\ Cardinality(old) > IdleSuffix
      BY <1>2
    <3>2. /\ Len(file.rows) - kept \in file.lc..Len(file.rows)
          /\ chunk = At(file.rows, file.lc + 1, Len(file.rows) - kept)
          /\ kept \in 0..LastRow
      BY <1>4, <2>1, <3>1
    <3> DEFINE m == Len(file.rows) - kept
    <3>3. m <= m
      BY <1>3, <3>2
    <3>4. /\ job'.chunk = {file'.rows[i] : i \in file'.lc + 1..m}
          /\ job'.by = "idle" /\ m \in file'.lc..Len(file'.rows)
          /\ m = Len(file'.rows) - job'.end
      BY <2>1, <3>1, <3>2 DEF At
    <3> HIDE DEF m
    <3> QED BY <3>3, <3>4 DEF JobInv
  <2> QED BY <1>2, <1>6, <2>1, <2>2 DEF CalmInv
<1>13. ArchiveInv' /\ NothingForgotten'
  <2>1. ASSUME Calm'
        PROVE  file' = file /\ races' = races /\ Calm
    BY <1>10, <1>11, <2>1
  <2>2. races' = {} => Calm'
    BY DEF Calm
  <2> QED BY <1>2, <2>1, <2>2 DEF MemoryIInv, ArchiveInv, NothingForgotten, Unconsolidated
<1> QED BY <1>7, <1>8, <1>9, <1>12, <1>13 DEF MemoryIInv

(* cmd_new: what is not archived goes to a snapshot.                       *)
LEMMA NewKeeps ==
  ASSUME MemoryIInv, New
  PROVE  MemoryIInv'
<1>1. /\ heap' = [heap EXCEPT ![Got] = Empty] /\ file' = Empty /\ cached' = NoObject
      /\ snapshots' = snapshots \cup Unconsolidated(Contents)
      /\ turn' = NoTurn /\ job' = Freed /\ interrupts' = interrupts + 1
      /\ races' = IF Freed.obj = Got THEN races \cup {"orphaned"} ELSE races
      /\ interrupts < MaxInterrupts
      /\ UNCHANGED <<after, scanned, archive, nextRow, owed, twice>>
  BY DEF New, Interrupt, Race
<1>2. /\ Got \in Objects /\ Before(Contents, nextRow)
      /\ cached # NoObject => Got = cached
      /\ Calm => Contents = file
      /\ Unconsolidated(Contents) \subseteq Range(Contents.rows)
      /\ \A row \in Range(Contents.rows) : row \in Rows /\ row < nextRow
  BY StoreFacts, Gone
<1>3. /\ heap' \in [Objects -> Content]
      /\ \A p \in Objects : Before(heap'[p], nextRow')
  BY <1>1, <1>2, EmptyFacts, Stored
<1>4. /\ Freed \in Jobs /\ Freed.chunk \subseteq job.chunk /\ (Freed # NoJob => Freed = job)
      /\ Freed.by = "idle" => Freed.end <= IdleSuffix
  <2>1. CASE Freed = NoJob
    BY <2>1 DEF Jobs, NoJob
  <2>2. CASE Freed = job
    BY <2>2, Holders
  <2>3. Freed = NoJob \/ Freed = job
    BY DEF Freed
  <2> QED BY <2>1, <2>2, <2>3
<1>5. interrupts \in Nat /\ interrupts' \in 0..MaxInterrupts /\ interrupts' # 0
  <2>1. interrupts \in 0..MaxInterrupts /\ MaxInterrupts \in Nat
    BY MemoryAssumption DEF MemoryIInv, MemoryTypeOK
  <2> QED BY <1>1, <2>1
<1>6. MemoryTypeOK'
  <2>1. snapshots' \subseteq Rows /\ races' \subseteq {"trimmed", "appended", "orphaned"}
    BY <1>1, <1>2 DEF MemoryIInv, MemoryTypeOK
  <2>2. Len(Empty.rows) <= FileCap
    BY EmptyFacts, Bounds
  <2> QED BY <1>1, <1>3, <1>4, <1>5, <2>1, <2>2, EmptyFacts
          DEF MemoryIInv, MemoryTypeOK, Jobs, Turns
<1>7. RowsInv'
  <2>1. \A row \in archive' \cup snapshots' \cup job'.chunk : row < nextRow'
    BY <1>1, <1>2, <1>4 DEF MemoryIInv, RowsInv
  <2> QED BY <1>1, <1>3, <1>4, <2>1, EmptyFacts, RowsNext
<1>8. CacheInv'
  BY <1>1 DEF CacheInv, Freed, NoJob
<1>9. ASSUME Calm' PROVE Calm /\ job' = NoJob
  <2>1. Calm /\ Freed.obj # Got
    BY <1>1, <1>9 DEF Calm
  <2> QED BY <1>1, <1>2, <1>4, <2>1, Holders
<1>10. CalmInv'
  <2>1. Empty.lc \in 0..Len(Empty.rows)
    BY EmptyFacts
  <2> QED BY <1>1, <1>9, <2>1 DEF CalmInv, JobInv
<1>11. ArchiveInv'
  BY <1>1, <1>5, EmptyFacts DEF ArchiveInv
<1>12. NothingForgotten'
  <2> SUFFICES ASSUME races' = {}
               PROVE  owed \subseteq Range(file'.rows) \cup archive \cup snapshots'
    BY <1>1 DEF NothingForgotten
  <2>1. races = {} /\ Contents = file
    BY <1>1, <1>2 DEF Calm
  <2>2. Range(file.rows) = Hidden(file) \cup Unconsolidated(file)
    BY <1>2, <2>1, RowSets DEF Before
  <2>3. Hidden(file) \subseteq archive /\ owed \subseteq Range(file.rows) \cup archive \cup snapshots
    BY <2>1 DEF MemoryIInv, ArchiveInv, NothingForgotten
  <2> QED BY <1>1, <2>1, <2>2, <2>3
<1> QED BY <1>6, <1>7, <1>8, <1>10, <1>11, <1>12 DEF MemoryIInv

LEMMA DeleteKeeps ==
  ASSUME MemoryIInv, Delete
  PROVE  MemoryIInv'
<1>1. /\ owed' = owed \ (Range(file.rows) \cup Range(Contents.rows))
      /\ file' = Empty /\ cached' = NoObject /\ interrupts' = interrupts + 1
      /\ interrupts < MaxInterrupts
      /\ races' = IF cached # NoObject /\ cached \in {turn.obj, job.obj}
                  THEN races \cup {"orphaned"} ELSE races
      /\ UNCHANGED <<heap, turn, job, after, scanned, snapshots, archive, nextRow, twice>>
  BY DEF Delete, Interrupt, Race
<1>2. interrupts \in Nat /\ interrupts' \in 0..MaxInterrupts /\ interrupts' # 0
  BY <1>1, MemoryAssumption DEF MemoryIInv, MemoryTypeOK
<1>3. MemoryTypeOK'
  <2>1. owed' \subseteq Rows /\ races' \subseteq {"trimmed", "appended", "orphaned"}
    BY <1>1 DEF MemoryIInv, MemoryTypeOK
  <2>2. Len(Empty.rows) <= FileCap
    BY EmptyFacts, Bounds
  <2> QED BY <1>1, <1>2, <2>1, <2>2, EmptyFacts DEF MemoryIInv, MemoryTypeOK
<1>4. RowsInv'
  <2>1. \A row \in archive \cup snapshots \cup job.chunk : row < nextRow
    BY DEF MemoryIInv, RowsInv
  <2> QED BY <1>1, <2>1, EmptyFacts, StoreFacts, Holders, RowsNext
<1>5. ASSUME Calm' PROVE turn = NoTurn /\ job = NoJob
  <2>1. Calm /\ ~(cached # NoObject /\ cached \in {turn.obj, job.obj})
    BY <1>1, <1>5 DEF Calm
  <2> QED BY <2>1, Holders
<1>6. CalmInv'
  <2>1. Empty.lc \in 0..Len(Empty.rows)
    BY EmptyFacts
  <2> QED BY <1>1, <1>5, <2>1 DEF CalmInv, JobInv
<1>7. CacheInv' /\ ArchiveInv'
  BY <1>1, <1>2, EmptyFacts DEF MemoryIInv, CacheInv, ArchiveInv
<1>8. NothingForgotten'
  BY <1>1, EmptyFacts DEF MemoryIInv, NothingForgotten
<1> QED BY <1>3, <1>4, <1>6, <1>7, <1>8 DEF MemoryIInv

LEMMA MemoryCrashKeeps ==
  ASSUME MemoryIInv, MemoryCrash
  PROVE  MemoryIInv'
<1>1. /\ cached' = NoObject /\ turn' = NoTurn /\ job' = NoJob
      /\ after' = FALSE /\ scanned' = FALSE /\ interrupts' = interrupts + 1
      /\ snapshots' = {} /\ owed' = owed \ snapshots /\ interrupts < MaxInterrupts
      /\ UNCHANGED <<heap, file, archive, nextRow, twice, races>>
  BY DEF MemoryCrash, Interrupt
<1>2. interrupts \in Nat /\ interrupts' \in 0..MaxInterrupts /\ interrupts' # 0
  BY <1>1, MemoryAssumption DEF MemoryIInv, MemoryTypeOK
<1>3. MemoryTypeOK'
  BY <1>1, <1>2 DEF MemoryIInv, MemoryTypeOK
<1>4. RowsInv'
  <2>1. \A row \in archive \cup {} \cup NoJob.chunk : row < nextRow
    BY DEF MemoryIInv, RowsInv, NoJob
  <2>2. NoJob.by # "idle"
    BY DEF NoJob
  <2> QED BY <1>1, <2>1, <2>2, StoreFacts, RowsNext
<1>5. CacheInv' /\ CalmInv'
  BY <1>1 DEF MemoryIInv, CacheInv, CalmInv, Calm, JobInv, NoJob
<1>6. ArchiveInv' /\ NothingForgotten'
  BY <1>1, <1>2 DEF MemoryIInv, ArchiveInv, NothingForgotten
<1> QED BY <1>3, <1>4, <1>5, <1>6 DEF MemoryIInv

LEMMA SnapshotArchivedKeeps ==
  ASSUME MemoryIInv, SnapshotArchived
  PROVE  MemoryIInv'
<1>1. /\ snapshots # {} /\ snapshots' = {} /\ archive' = archive \cup snapshots
      /\ twice' = twice \cup (archive \cap snapshots)
      /\ UNCHANGED <<heap, cached, file, turn, job, after, scanned, nextRow, interrupts, owed, races>>
  BY DEF SnapshotArchived, Archive
<1>2. MemoryTypeOK'
  BY <1>1 DEF MemoryIInv, MemoryTypeOK
<1>3. RowsInv'
  <2>1. \A row \in archive' \cup snapshots' \cup job.chunk : row < nextRow
    BY <1>1 DEF MemoryIInv, RowsInv
  <2> QED BY <1>1, <2>1, StoreFacts, Holders, RowsNext
<1>4. Loaded' = Loaded
  BY <1>1 DEF Loaded
<1>5. CacheInv' /\ CalmInv'
  BY <1>1, <1>4 DEF MemoryIInv, CacheInv, CalmInv, Calm, JobInv
<1>6. ArchiveInv' /\ NothingForgotten'
  BY <1>1 DEF MemoryIInv, ArchiveInv, NothingForgotten, Calm
<1> QED BY <1>2, <1>3, <1>5, <1>6 DEF MemoryIInv

LEMMA EvictKeeps ==
  ASSUME MemoryIInv, Evict
  PROVE  MemoryIInv'
<1>1. /\ cached # NoObject /\ cached \notin {turn.obj, job.obj} /\ cached' = NoObject
      /\ UNCHANGED <<heap, file, turn, job, after, scanned, snapshots, archive, nextRow,
                     interrupts, owed, twice, races>>
  BY DEF Evict
<1>2. MemoryTypeOK'
  BY <1>1 DEF MemoryIInv, MemoryTypeOK
<1>3. RowsInv'
  <2>1. \A row \in archive \cup snapshots \cup job.chunk : row < nextRow
    BY DEF MemoryIInv, RowsInv
  <2> QED BY <1>1, <2>1, StoreFacts, Holders, RowsNext
<1>4. CacheInv' /\ CalmInv'
  <2>1. Calm => turn = NoTurn /\ job = NoJob
    BY <1>1, Holders
  <2> QED BY <1>1, <2>1 DEF MemoryIInv, CacheInv, CalmInv, Calm, JobInv
<1>5. ArchiveInv' /\ NothingForgotten'
  BY <1>1 DEF MemoryIInv, ArchiveInv, NothingForgotten, Calm, Unconsolidated
<1> QED BY <1>2, <1>3, <1>4, <1>5 DEF MemoryIInv

(* The steps that look a session up.                                       *)
LEMMA LoadingKeeps ==
  ASSUME MemoryIInv,
         (\E bus \in BOOLEAN : TurnBegins(bus)) \/ TurnConsolidates \/ AfterConsolidates \/ ScanIdle
  PROVE  MemoryIInv'
<1>1. /\ turn \in Turns /\ Got \in Objects /\ after \in BOOLEAN /\ scanned \in BOOLEAN
      /\ job.by = "turn" => turn.at = "consolidating"
  BY Holders, StoreFacts DEF MemoryIInv, MemoryTypeOK, CacheInv
<1>2. ASSUME NEW bus \in BOOLEAN, TurnBegins(bus) PROVE MemoryIInv'
  <2>1. turn' \in Turns /\ turn'.obj = Got
    BY <1>1, <1>2 DEF TurnBegins, Turns
  <2>2. turn.at # "consolidating" /\ job' = job
    BY <1>2 DEF TurnBegins, NoTurn
  <2>3. /\ heap' = [heap EXCEPT ![Got] = Contents] /\ cached' = Got
        /\ UNCHANGED <<file, snapshots, archive, nextRow, interrupts, owed, twice, races>>
        /\ after' \in BOOLEAN /\ scanned' \in BOOLEAN
    BY <1>1, <1>2 DEF TurnBegins
  <2> QED BY <1>1, <2>1, <2>2, <2>3, Loads
<1>3. ASSUME TurnConsolidates PROVE MemoryIInv'
  <2>1. /\ heap' = [heap EXCEPT ![Got] = Contents] /\ cached' = Got /\ job = NoJob
        /\ UNCHANGED <<file, snapshots, archive, nextRow, interrupts, owed, twice, races>>
        /\ after' \in BOOLEAN /\ scanned' \in BOOLEAN /\ turn.at = "waiting"
        /\ \/ Starts("turn") /\ turn' = [turn EXCEPT !.at = "consolidating"]
           \/ job' = job /\ turn' = [turn EXCEPT !.at = "running"]
    BY <1>1, <1>3 DEF TurnConsolidates, Consolidates, Starts
  <2>2. /\ turn # NoTurn
        /\ turn \in [at : {"waiting", "consolidating", "running", "answering"},
                     obj : Objects, bus : BOOLEAN]
    BY <1>1, <2>1 DEF NoTurn, Turns
  <2>3. turn' \in Turns /\ turn'.obj = turn.obj
    BY <2>1, <2>2 DEF Turns
  <2>4. job'.by = "turn" => turn'.at = "consolidating"
    BY <2>1, <2>2 DEF NoJob
  <2> QED BY <2>1, <2>2, <2>3, <2>4, Loads
<1>4. ASSUME AfterConsolidates PROVE MemoryIInv'
  <2>1. CASE Consolidates("background")
    <3>1. /\ heap' = [heap EXCEPT ![Got] = Contents] /\ cached' = Got /\ Starts("background")
          /\ UNCHANGED <<file, snapshots, archive, nextRow, interrupts, owed, twice, races>>
          /\ after' \in BOOLEAN /\ scanned' \in BOOLEAN /\ turn' = turn
      BY <1>1, <1>4, <2>1 DEF AfterConsolidates, Consolidates, Starts
    <3>2. job'.by # "turn"
      BY <3>1 DEF Starts
    <3> QED BY <1>1, <3>1, <3>2, Loads
  <2>2. CASE UNCHANGED <<heap, cached, job>>
    <3>1. after' = FALSE
          /\ UNCHANGED <<heap, cached, job, file, turn, scanned, snapshots, archive, nextRow,
                         interrupts, owed, twice, races>>
      BY <1>4, <2>2 DEF AfterConsolidates
    <3>2. MemoryTypeOK' /\ RowsInv' /\ CacheInv'
      <4>1. MemoryTypeOK'
        BY <3>1 DEF MemoryIInv, MemoryTypeOK
      <4>2. RowsInv' /\ CacheInv'
        BY <3>1 DEF MemoryIInv, RowsInv, CacheInv, Loaded
      <4> QED BY <4>1, <4>2
    <3>3. CalmInv' /\ ArchiveInv' /\ NothingForgotten'
      BY <3>1 DEF MemoryIInv, CalmInv, Calm, JobInv, ArchiveInv, NothingForgotten, Unconsolidated
    <3> QED BY <3>2, <3>3 DEF MemoryIInv
  <2> QED BY <1>4, <2>1, <2>2 DEF AfterConsolidates
<1>5. ASSUME ScanIdle PROVE MemoryIInv'
  <2>1. /\ heap' = [heap EXCEPT ![Got] = Contents] /\ cached' = Got
        /\ UNCHANGED <<file, snapshots, archive, nextRow, interrupts, owed, twice, races>>
        /\ after' \in BOOLEAN /\ scanned' \in BOOLEAN /\ turn' = turn /\ job' = job
    BY <1>1, <1>5 DEF ScanIdle
  <2> QED BY <1>1, <2>1, Loads
<1> QED BY <1>2, <1>3, <1>4, <1>5

(* The steps that append a row.                                            *)
LEMMA AppendingKeeps ==
  ASSUME MemoryIInv, PromptSaved \/ TurnEnds \/ OtherAppends
  PROVE  MemoryIInv'
<1>1. /\ turn \in Turns /\ after \in BOOLEAN /\ scanned \in BOOLEAN
      /\ job.by = "turn" => turn.at = "consolidating"
      /\ turn # NoTurn => turn.obj \in Objects
  BY Holders DEF MemoryIInv, MemoryTypeOK, CacheInv
<1>2. ASSUME PromptSaved \/ TurnEnds
      PROVE  /\ turn # NoTurn /\ turn.obj \in Objects /\ job.by # "turn"
             /\ AppendRow(turn.obj) /\ UNCHANGED <<job, snapshots, interrupts>>
             /\ after' \in BOOLEAN /\ scanned' \in BOOLEAN /\ turn' \in Turns
             /\ turn' # NoTurn => turn'.obj = turn.obj
  <2>1. turn # NoTurn /\ job.by # "turn"
    BY <1>1, <1>2 DEF PromptSaved, TurnEnds, NoTurn
  <2>2. turn \in [at : {"waiting", "consolidating", "running", "answering"},
                  obj : Objects, bus : BOOLEAN]
    BY <1>1, <2>1 DEF Turns
  <2>3. turn' \in Turns /\ (turn' # NoTurn => turn'.obj = turn.obj)
    <3>1. turn' = NoTurn \/ turn' = [turn EXCEPT !.at = "answering"]
      BY <1>2 DEF PromptSaved, TurnEnds
    <3> QED BY <2>2, <3>1 DEF Turns
  <2> QED BY <1>1, <1>2, <2>1, <2>3 DEF PromptSaved, TurnEnds
<1>3. ASSUME PromptSaved \/ TurnEnds PROVE MemoryIInv'
  <2>1. Calm => turn.obj = cached
    BY <1>2, <1>3, Holders
  <2> DEFINE o == turn.obj
  <2>2. /\ o \in Objects /\ AppendRow(o) /\ (Calm /\ cached # NoObject => o = cached)
        /\ job'.by # "turn"
    BY <1>2, <1>3, <2>1
  <2> HIDE DEF o
  <2> QED BY <1>2, <1>3, <2>2, Appends
<1>4. ASSUME OtherAppends PROVE MemoryIInv'
  <2> DEFINE o == Got
  <2>1. /\ o \in Objects /\ (cached # NoObject => o = cached)
        /\ cached = NoObject => o \notin InUse
    BY StoreFacts DEF Got
  <2>2. /\ AppendRow(o) /\ UNCHANGED <<turn, job, snapshots, interrupts>>
        /\ after' \in BOOLEAN /\ scanned' \in BOOLEAN
    BY <1>1, <1>4 DEF OtherAppends
  <2> HIDE DEF o
  <2> QED BY <1>1, <2>1, <2>2, Appends
<1> QED BY <1>3, <1>4
-----------------------------------------------------------------------------
(* The invariant holds in every reachable state, for every number of       *)
(* objects, rows and interruptions, every cap of the file and every suffix *)
(* (Session, SessionManager, Consolidator, AutoCompact).                   *)
THEOREM MemoryInvariant == MemorySpec => []MemoryIInv
<1>1. MemoryInit => MemoryIInv
  <2> SUFFICES ASSUME MemoryInit PROVE MemoryIInv
    OBVIOUS
  <2>1. MemoryTypeOK
    <3>1. /\ heap \in [Objects -> Content] /\ file \in Content /\ Len(file.rows) <= FileCap
      BY EmptyFacts, Bounds DEF MemoryInit
    <3>2. 1 \in 1..LastRow + 1 /\ 0 \in 0..MaxInterrupts
      BY MemoryAssumption
    <3> QED BY <3>1, <3>2 DEF MemoryInit, MemoryTypeOK
  <2>2. RowsInv
    <3>1. Before(file, nextRow) /\ \A o \in Objects : Before(heap[o], nextRow)
      BY EmptyFacts DEF MemoryInit
    <3>2. job.chunk = {} /\ job.by # "idle"
      BY DEF MemoryInit, NoJob
    <3> QED BY <3>1, <3>2 DEF MemoryInit, RowsInv, Before, Kept, Ascends
  <2>3. CacheInv /\ CalmInv
    BY EmptyFacts DEF MemoryInit, CacheInv, CalmInv, JobInv, NoJob
  <2>4. ArchiveInv /\ NothingForgotten
    BY EmptyFacts DEF MemoryInit, ArchiveInv, NothingForgotten
  <2> QED BY <2>1, <2>2, <2>3, <2>4 DEF MemoryIInv
<1>2. ASSUME MemoryIInv, [MemoryNext]_memoryVars PROVE MemoryIInv'
  <2>1. CASE UNCHANGED memoryVars
    <3>1. MemoryTypeOK' /\ RowsInv' /\ CacheInv'
      BY <1>2, <2>1 DEF memoryVars, MemoryIInv, MemoryTypeOK, RowsInv, CacheInv, Loaded
    <3>2. CalmInv' /\ ArchiveInv' /\ NothingForgotten'
      BY <1>2, <2>1 DEF memoryVars, MemoryIInv, CalmInv, Calm, JobInv, ArchiveInv,
                        NothingForgotten, Unconsolidated
    <3> QED BY <3>1, <3>2 DEF MemoryIInv
  <2>2. CASE (\E bus \in BOOLEAN : TurnBegins(bus)) \/ TurnConsolidates \/ AfterConsolidates
               \/ ScanIdle
    BY <1>2, <2>2, LoadingKeeps
  <2>3. CASE PromptSaved \/ TurnEnds \/ OtherAppends
    BY <1>2, <2>3, AppendingKeeps
  <2>4. CASE ConsolidationReturns
    BY <1>2, <2>4, ConsolidationReturnsKeeps
  <2>5. CASE IdleReturns
    BY <1>2, <2>5, IdleReturnsKeeps
  <2>6. CASE IdleLocks
    BY <1>2, <2>6, IdleLocksKeeps
  <2>7. CASE New
    BY <1>2, <2>7, NewKeeps
  <2>8. CASE SnapshotArchived
    BY <1>2, <2>8, SnapshotArchivedKeeps
  <2>9. CASE Delete
    BY <1>2, <2>9, DeleteKeeps
  <2>10. CASE MemoryCrash
    BY <1>2, <2>10, MemoryCrashKeeps
  <2>11. CASE Evict
    BY <1>2, <2>11, EvictKeeps
  <2> QED BY <1>2, <2>1, <2>2, <2>3, <2>4, <2>5, <2>6, <2>7, <2>8, <2>9, <2>10, <2>11
          DEF MemoryNext
<1> QED BY <1>1, <1>2, PTL DEF MemorySpec

(* A row that the next turn does not see was archived before, and archived *)
(* once (Consolidator, memory.py; AutoCompact; enforce_file_cap).          *)
THEOREM HiddenRowsAreArchived == MemorySpec => []HiddenIsArchived
<1>1. MemoryIInv => HiddenIsArchived
  <2> SUFFICES ASSUME MemoryIInv PROVE HiddenIsArchived
    OBVIOUS
  <2>1. ASSUME races = {}
        PROVE  Hidden(Loaded) \subseteq archive
               /\ (cached # NoObject => Hidden(heap[cached]) \subseteq archive)
    <3>1. Calm /\ Hidden(file) \subseteq archive
      BY <2>1 DEF MemoryIInv, ArchiveInv, Calm
    <3> QED BY <3>1, StoreFacts
  <2>2. Calm /\ interrupts = 0 => twice = {}
    BY DEF MemoryIInv, ArchiveInv
  <2> QED BY <2>1, <2>2 DEF HiddenIsArchived, Calm
<1> QED BY <1>1, MemoryInvariant, PTL

(* A saved row that the user did not delete is in the file, archived, or   *)
(* on its way there (Session.enforce_file_cap, cmd_new, Consolidator).     *)
THEOREM NoRowIsForgotten == MemorySpec => []NothingForgotten
<1>1. MemoryIInv => NothingForgotten
  BY DEF MemoryIInv
<1> QED BY <1>1, MemoryInvariant, PTL

(***************************************************************************)
(* The window.  First, least and greatest elements.                        *)
(***************************************************************************)
Below == {pair \in Nat \X Nat : pair[1] < pair[2]}
LEMMA BelowIsWellFounded == IsWellFoundedOn(Below, Nat)
BY NatLessThanWellFounded DEF OpToRel, Below

LEMMA LeastNat ==
  ASSUME NEW T, T \subseteq Nat, T # {}
  PROVE  \E x \in T : \A y \in T : x <= y
<1>1. PICK x \in T : \A y \in T : <<y, x>> \notin Below
  BY BelowIsWellFounded, WFMin
<1>2. ASSUME NEW y \in T PROVE x <= y
  <2>1. <<y, x>> \notin Below /\ y \in Nat /\ x \in Nat
    BY <1>1
  <2> QED BY <2>1 DEF Below
<1> QED BY <1>1, <1>2

LEMMA MinOf ==
  ASSUME NEW T, T \subseteq Nat, T # {}
  PROVE  Min(T) \in T /\ \A y \in T : Min(T) <= y
<1>1. \E x \in T : \A y \in T : x <= y
  BY LeastNat
<1> QED BY <1>1 DEF Min

LEMMA MaxOf ==
  ASSUME NEW n \in Nat, NEW T, T \subseteq 0..n, T # {}
  PROVE  Max(T) \in T /\ \A y \in T : Max(T) >= y
<1> DEFINE L == {n - x : x \in T}
<1>1. L \subseteq Nat /\ L # {}
  OBVIOUS
<1>2. PICK l \in L : \A y \in L : l <= y
  BY <1>1, LeastNat
<1>3. PICK x \in T : l = n - x
  OBVIOUS
<1>4. ASSUME NEW y \in T PROVE x >= y
  <2>1. n - y \in L
    OBVIOUS
  <2>2. n - x <= n - y
    BY <1>2, <1>3, <2>1
  <2> QED BY <2>2
<1>5. \E z \in T : \A y \in T : z >= y
  BY <1>4
<1> QED BY <1>5 DEF Max

(***************************************************************************)
(* Cuts: what is left of a conversation is a run of its rows.              *)
(***************************************************************************)
CutAt(t, s, d) ==
  /\ t \in Seq(WindowRow) /\ d \in Nat /\ d + Len(t) <= Len(s)
  /\ \A i \in 1..Len(t) : t[i] = s[d + i]
Cut(t, s) == \E d \in Nat : CutAt(t, s, d)

LEMMA WindowRows ==
  ASSUME NEW s \in Seq(WindowRow)
  PROVE  /\ Len(s) \in Nat /\ DOMAIN s = 1..Len(s)
         /\ \A i \in 1..Len(s) : s[i] \in WindowRow /\ s[i].n \in Nat
         /\ Users(s) \subseteq 1..Len(s)
<1>1. Len(s) \in Nat /\ DOMAIN s = 1..Len(s)
  BY LenProperties
<1>2. \A i \in 1..Len(s) : s[i] \in WindowRow
  BY ElementOfSeq
<1> QED BY <1>1, <1>2 DEF Users, WindowRow

LEMMA CutOf ==
  ASSUME NEW s \in Seq(WindowRow), NEW a \in Nat, NEW b \in Nat, 1 <= a, a <= b + 1, b <= Len(s)
  PROVE  /\ CutAt(SubSeq(s, a, b), s, a - 1)
         /\ Cut(SubSeq(s, a, b), s)
         /\ SubSeq(s, a, b) \in Seq(WindowRow)
         /\ Len(SubSeq(s, a, b)) = b - a + 1
         /\ \A i \in 1..b - a + 1 : SubSeq(s, a, b)[i] = s[a + i - 1]
<1> DEFINE t == SubSeq(s, a, b)
<1>1. Len(s) \in Nat /\ \A i \in a..b : s[i] \in WindowRow
  BY WindowRows
<1>2. /\ t \in Seq(WindowRow)
      /\ Len(t) = IF a <= b THEN b - a + 1 ELSE 0
      /\ \A i \in 1..b - a + 1 : t[i] = s[a + i - 1]
  BY <1>1, SubSeqProperties
<1>3. Len(t) = b - a + 1
  BY <1>2
<1> HIDE DEF t
<1>4. CutAt(t, s, a - 1)
  <2>1. \A i \in 1..Len(t) : t[i] = s[a - 1 + i]
    BY <1>2, <1>3
  <2> QED BY <1>1, <1>2, <1>3, <2>1 DEF CutAt
<1>5. a - 1 \in Nat
  OBVIOUS
<1> QED BY <1>2, <1>3, <1>4, <1>5 DEF Cut, t

LEMMA SelfCut ==
  ASSUME NEW s \in Seq(WindowRow)
  PROVE  Cut(s, s)
<1>1. Len(s) \in Nat
  BY WindowRows
<1>2. CutAt(s, s, 0)
  BY <1>1 DEF CutAt
<1> QED BY <1>2 DEF Cut

LEMMA CutFacts ==
  ASSUME NEW s \in Seq(WindowRow), NEW t, Cut(t, s)
  PROVE  t \in Seq(WindowRow) /\ Len(t) \in 0..Len(s)
<1>1. PICK d \in Nat : CutAt(t, s, d)
  BY DEF Cut
<1>2. t \in Seq(WindowRow) /\ d + Len(t) <= Len(s)
  BY <1>1 DEF CutAt
<1>3. Len(t) \in Nat /\ Len(s) \in Nat
  BY <1>2, WindowRows
<1> QED BY <1>2, <1>3

LEMMA CutOfCut ==
  ASSUME NEW s \in Seq(WindowRow), NEW t, NEW u, Cut(t, s), Cut(u, t)
  PROVE  Cut(u, s)
<1>1. PICK d \in Nat : CutAt(t, s, d)
  BY DEF Cut
<1>2. PICK e \in Nat : CutAt(u, t, e)
  BY DEF Cut
<1>3. /\ t \in Seq(WindowRow) /\ d + Len(t) <= Len(s) /\ \A i \in 1..Len(t) : t[i] = s[d + i]
      /\ u \in Seq(WindowRow) /\ e + Len(u) <= Len(t) /\ \A i \in 1..Len(u) : u[i] = t[e + i]
  BY <1>1, <1>2 DEF CutAt
<1>4. Len(t) \in Nat /\ Len(s) \in Nat /\ Len(u) \in Nat
  BY <1>3, WindowRows
<1>5. ASSUME NEW i \in 1..Len(u) PROVE u[i] = s[d + e + i]
  <2>1. e + i \in 1..Len(t)
    BY <1>3, <1>4
  <2>2. t[e + i] = s[d + (e + i)]
    BY <1>3, <2>1
  <2>3. d + (e + i) = d + e + i
    OBVIOUS
  <2> QED BY <1>3, <2>2, <2>3
<1>6. CutAt(u, s, d + e)
  BY <1>3, <1>4, <1>5 DEF CutAt
<1>7. d + e \in Nat
  OBVIOUS
<1> QED BY <1>6, <1>7 DEF Cut

LEMMA FromCut ==
  ASSUME NEW s \in Seq(WindowRow), NEW i \in 1..Len(s) + 1
  PROVE  /\ Cut(From(s, i), s) /\ From(s, i) \in Seq(WindowRow)
         /\ Len(From(s, i)) = Len(s) - i + 1
         /\ \A k \in 1..Len(s) - i + 1 : From(s, i)[k] = s[i + k - 1]
<1>1. Len(s) \in Nat
  BY WindowRows
<1>2. i \in Nat /\ 1 <= i /\ i <= Len(s) + 1 /\ Len(s) <= Len(s)
  BY <1>1
<1> QED BY <1>1, <1>2, CutOf DEF From

LEMMA LegalCut ==
  ASSUME NEW s \in Seq(WindowRow)
  PROVE  /\ LegalStart(s) \in 0..Len(s) /\ Cut(Legal(s), s)
         /\ Len(Legal(s)) = Len(s) - LegalStart(s)
<1> DEFINE T == {start \in 0..Len(s) : \A i \in start + 1..Len(s) :
                   s[i].role = "tool" => s[i].answers \in Declared(s, start, i)}
<1>1. Len(s) \in Nat
  BY WindowRows
<1>2. Len(s) \in T /\ T \subseteq 0..Len(s)
  BY <1>1
<1>3. Min(T) \in T
  <2>1. T \subseteq Nat /\ T # {}
    BY <1>1, <1>2
  <2> QED BY <2>1, MinOf
<1>4. LegalStart(s) = Min(T)
  BY DEF LegalStart
<1>5. LegalStart(s) \in 0..Len(s)
  BY <1>2, <1>3, <1>4
<1>6. LegalStart(s) + 1 \in 1..Len(s) + 1
  BY <1>1, <1>5
<1>7. Cut(From(s, LegalStart(s) + 1), s) /\ Len(From(s, LegalStart(s) + 1)) = Len(s) - (LegalStart(s) + 1) + 1
  BY <1>6, FromCut
<1> QED BY <1>1, <1>5, <1>7 DEF Legal

(* No result is left without its call.                                     *)
Supported(s) == \A i \in 1..Len(s) : s[i].role = "tool" => s[i].answers \in Declared(s, 0, i)

LEMMA DeclaredIs ==
  ASSUME NEW s, NEW start, NEW i, NEW id
  PROVE  id \in Declared(s, start, i) <=>
           \E k \in start + 1..i - 1 : s[k].role = "assistant" /\ id \in s[k].calls
<1> DEFINE Places == start + 1..i - 1
<1>1. Declared(s, start, i) = UNION {s[k].calls : k \in {j \in Places : s[j].role = "assistant"}}
  BY DEF Declared
<1> HIDE DEF Places
<1>2. id \in Declared(s, start, i) <=> \E k \in Places : s[k].role = "assistant" /\ id \in s[k].calls
  BY <1>1, Zenon
<1> QED BY <1>2 DEF Places

LEMMA LegalIsSupported ==
  ASSUME NEW s \in Seq(WindowRow)
  PROVE  Supported(Legal(s))
<1> DEFINE T == {start \in 0..Len(s) : \A i \in start + 1..Len(s) :
                   s[i].role = "tool" => s[i].answers \in Declared(s, start, i)}
           m == LegalStart(s)
           t == Legal(s)
<1>1. Len(s) \in Nat
  BY WindowRows
<1>2. Len(s) \in T /\ T \subseteq 0..Len(s)
  BY <1>1
<1>3. Min(T) \in T
  <2>1. T \subseteq Nat /\ T # {}
    BY <1>1, <1>2
  <2> QED BY <2>1, MinOf
<1>4. m \in T
  BY <1>3 DEF LegalStart
<1>5. /\ m \in 0..Len(s)
      /\ \A i \in m + 1..Len(s) : s[i].role = "tool" => s[i].answers \in Declared(s, m, i)
  BY <1>4
<1> HIDE DEF m, T
<1>6. m + 1 \in 1..Len(s) + 1 /\ t = From(s, m + 1)
  BY <1>1, <1>5 DEF Legal, m
<1> DEFINE p == m + 1
<1>7. /\ t \in Seq(WindowRow) /\ Len(t) = Len(s) - p + 1
      /\ \A k \in 1..Len(s) - p + 1 : t[k] = s[p + k - 1]
  <2> HIDE DEF p, t
  <2>1. p \in 1..Len(s) + 1 /\ t = From(s, p)
    BY <1>6 DEF p
  <2> QED BY <2>1, FromCut
<1> HIDE DEF t
<1>8. \A k \in 1..Len(t) : t[k] = s[m + k] /\ m + k \in m + 1..Len(s)
  <2>1. ASSUME NEW k \in 1..Len(t) PROVE t[k] = s[m + k] /\ m + k \in m + 1..Len(s)
    <3>1. p + k - 1 = m + k /\ m + k \in m + 1..Len(s) /\ k \in 1..Len(s) - p + 1
      BY <1>1, <1>5, <1>7
    <3>2. t[k] = s[p + k - 1]
      BY <1>7, <3>1
    <3> QED BY <3>1, <3>2
  <2> QED BY <2>1
<1>9. ASSUME NEW i \in 1..Len(t), t[i].role = "tool" PROVE t[i].answers \in Declared(t, 0, i)
  <2>1. t[i].answers \in Declared(s, m, m + i)
    <3>1. t[i] = s[m + i] /\ m + i \in m + 1..Len(s)
      BY <1>8
    <3> QED BY <1>5, <1>9, <3>1
  <2>2. PICK k \in m + 1..(m + i) - 1 : s[k].role = "assistant" /\ t[i].answers \in s[k].calls
    <3> DEFINE id == t[i].answers  e == m + i
    <3> HIDE DEF id, e
    <3>1. id \in Declared(s, m, e)
      BY <2>1 DEF id, e
    <3>2. \E k \in m + 1..e - 1 : s[k].role = "assistant" /\ id \in s[k].calls
      BY <3>1, DeclaredIs
    <3> QED BY <3>2 DEF id, e
  <2>3. k - m \in 0 + 1..i - 1 /\ k - m \in 1..Len(t) /\ m + (k - m) = k
    BY <1>1, <1>5, <1>7, <2>2
  <2>4. t[k - m] = s[k]
    BY <1>8, <2>3
  <2>5. \E j \in 0 + 1..i - 1 : t[j].role = "assistant" /\ t[i].answers \in t[j].calls
    BY <2>2, <2>3, <2>4
  <2> QED BY <2>5, DeclaredIs
<1> QED BY <1>9 DEF Supported, t

LEMMA SupportedIsLegal ==
  ASSUME NEW s \in Seq(WindowRow), Supported(s)
  PROVE  Legal(s) = s
<1> DEFINE T == {start \in 0..Len(s) : \A i \in start + 1..Len(s) :
                   s[i].role = "tool" => s[i].answers \in Declared(s, start, i)}
<1>1. Len(s) \in Nat
  BY WindowRows
<1>2. 0 \in T /\ T \subseteq Nat
  BY <1>1 DEF Supported
<1>3. Min(T) = 0
  <2> HIDE DEF T
  <2>1. Min(T) \in T /\ Min(T) <= 0
    BY <1>2, MinOf
  <2> DEFINE x == Min(T)
  <2>2. x \in Nat /\ x <= 0
    BY <1>2, <2>1
  <2> HIDE DEF x
  <2>3. x = 0
    BY <2>2
  <2> QED BY <2>3 DEF x
<1>4. LegalStart(s) = 0
  BY <1>3 DEF LegalStart
<1>5. Legal(s) = From(s, 1)
  BY <1>4 DEF Legal
<1>6. SubSeq(s, 1, Len(s)) = s
  BY SubSeqFull
<1> QED BY <1>5, <1>6 DEF From

LEMMA OpeningIs ==
  ASSUME NEW s, NEW i \in Nat, i >= 1
  PROVE  Opening(s, i) \in Nat /\ Opening(s, i) >= 1 /\ Opening(s, i) <= i
<1>1. Opening(s, i) = i \/ (i > 1 /\ Opening(s, i) = i - 1)
  BY DEF Opening
<1> QED BY <1>1

LEMMA UserIs ==
  ASSUME NEW s \in Seq(WindowRow), Users(s) # {}
  PROVE  Min(Users(s)) \in 1..Len(s) /\ Max(Users(s)) \in 1..Len(s)
<1>1. Users(s) \subseteq 1..Len(s) /\ Len(s) \in Nat
  BY WindowRows
<1>2. Users(s) \subseteq Nat /\ Users(s) \subseteq 0..Len(s)
  BY <1>1
<1> QED BY <1>1, <1>2, MinOf, MaxOf

LEMMA FirstUserCuts ==
  ASSUME NEW s \in Seq(WindowRow)
  PROVE  Cut(FromFirstUser(s), s) /\ Cut(FromOpening(s), s)
<1>1. Len(s) \in Nat
  BY WindowRows
<1>2. CASE Users(s) = {}
  <2>1. FromFirstUser(s) = s /\ FromOpening(s) = s
    BY <1>2 DEF FromFirstUser, FromOpening
  <2> QED BY <2>1, SelfCut
<1>3. CASE Users(s) # {}
  <2> DEFINE first == Min(Users(s))  open == Opening(s, first)
  <2>1. first \in 1..Len(s)
    BY <1>3, UserIs
  <2>2. FromFirstUser(s) = From(s, first) /\ FromOpening(s) = From(s, open)
    BY <1>3 DEF FromFirstUser, FromOpening
  <2>3. first \in Nat /\ first >= 1
    BY <2>1
  <2> HIDE DEF first
  <2>4. open \in Nat /\ open >= 1 /\ open <= first
    BY <2>3, OpeningIs
  <2> HIDE DEF open
  <2>5. first \in 1..Len(s) + 1 /\ open \in 1..Len(s) + 1
    BY <1>1, <2>1, <2>4
  <2>6. Cut(From(s, first), s) /\ Cut(From(s, open), s)
    BY <2>5, FromCut
  <2> QED BY <2>2, <2>6
<1> QED BY <1>2, <1>3

LEMMA RecentStartIs ==
  ASSUME NEW s \in Seq(WindowRow), NEW max \in Nat \ {0}, NEW extend \in BOOLEAN
  PROVE  RecentStart(s, max, extend) \in 1..Len(s) + 1
<1> DEFINE late == Len(s) - max + 1
           start == Max({1, late})
           before == {i \in Users(s) : i < start}
<1>1. Len(s) \in Nat /\ Users(s) \subseteq 1..Len(s)
  BY WindowRows
<1>2. late \in Int /\ late <= Len(s)
  BY <1>1
<1>3. start = IF 1 <= late THEN late ELSE 1
  <2>1. late \in Int /\ 1 \in Int
    BY <1>2
  <2> HIDE DEF late
  <2>2. Max({1, late}) = IF 1 <= late THEN late ELSE 1
    BY <2>1, MinMax
  <2> QED BY <2>2
<1>4. start \in 1..Len(s) + 1
  BY <1>1, <1>2, <1>3
<1>5. ASSUME before # {} PROVE Opening(s, Max(before)) \in 1..Len(s) + 1
  <2>1. before \subseteq 0..Len(s) /\ before \subseteq 1..Len(s)
    BY <1>1
  <2> HIDE DEF before
  <2>2. Max(before) \in before
    BY <1>1, <1>5, <2>1, MaxOf
  <2>3. Max(before) \in Nat /\ Max(before) >= 1 /\ Max(before) <= Len(s)
    <3>1. Max(before) \in 1..Len(s)
      BY <2>1, <2>2
    <3> QED BY <1>1, <3>1
  <2> DEFINE m == Max(before)
  <2> HIDE DEF m
  <2>4. Opening(s, m) \in Nat /\ Opening(s, m) >= 1 /\ Opening(s, m) <= m
    BY <2>3, OpeningIs DEF m
  <2>5. m \in Nat /\ m <= Len(s)
    BY <2>3 DEF m
  <2>6. Opening(s, m) \in 1..Len(s) + 1
    BY <1>1, <2>4, <2>5
  <2> QED BY <2>6 DEF m
<1>6. \/ RecentStart(s, max, extend) = start
      \/ before # {} /\ RecentStart(s, max, extend) = Opening(s, Max(before))
  BY DEF RecentStart
<1> QED BY <1>4, <1>5, <1>6

LEMMA RetainedCut ==
  ASSUME NEW s \in Seq(WindowRow), NEW max \in Nat \ {0}, NEW extend \in BOOLEAN
  PROVE  /\ Cut(Retained(s, max, extend), s)
         /\ ~extend => Len(Retained(s, max, extend)) <= max
         /\ Retained(s, max, extend) = s \/ Supported(Retained(s, max, extend))
<1> DEFINE late == Len(s) - max + 1
           tail == Max({1, late})
           earlier == {i \in Users(s) : i <= tail}
           start == IF extend /\ earlier # {} THEN Max(earlier) ELSE tail
           recent == From(s, start)
           last == Max(Users(s))
           anchored == IF Users(recent) = {} /\ ~extend /\ Users(s) # {}
                       THEN SubSeq(s, last, last + max - 1)
                       ELSE FromFirstUser(recent)
           legal == Legal(anchored)
<1>1. Len(s) \in Nat /\ Users(s) \subseteq 1..Len(s)
  BY WindowRows
<1>2. late \in Int /\ late <= Len(s)
  BY <1>1
<1>3. tail = IF 1 <= late THEN late ELSE 1
  <2>1. late \in Int /\ 1 \in Int
    BY <1>2
  <2> HIDE DEF late
  <2>2. Max({1, late}) = IF 1 <= late THEN late ELSE 1
    BY <2>1, MinMax
  <2> QED BY <2>2
<1>4. tail \in 1..Len(s) + 1 /\ (tail = late \/ tail = 1)
  BY <1>1, <1>2, <1>3
<1>5. start \in 1..Len(s) + 1 /\ (~extend => start = tail)
  <2>1. CASE extend /\ earlier # {}
    <3>1. earlier \subseteq 0..Len(s) /\ earlier \subseteq 1..Len(s)
      BY <1>1
    <3> HIDE DEF earlier
    <3>2. Max(earlier) \in earlier
      BY <1>1, <2>1, <3>1, MaxOf
    <3>3. Max(earlier) \in 1..Len(s)
      BY <3>1, <3>2
    <3>4. start = Max(earlier)
      BY <2>1
    <3> QED BY <1>1, <2>1, <3>3, <3>4
  <2>2. CASE ~(extend /\ earlier # {})
    BY <1>4, <2>2
  <2> QED BY <2>1, <2>2
<1>6. /\ Cut(recent, s) /\ recent \in Seq(WindowRow) /\ Len(recent) = Len(s) - start + 1
      /\ \A k \in 1..Len(s) - start + 1 : recent[k] = s[start + k - 1]
  <2> HIDE DEF start
  <2> QED BY <1>5, FromCut
<1>7. Cut(anchored, s)
  <2>1. CASE Users(recent) = {} /\ ~extend /\ Users(s) # {}
    <3>1. last \in 1..Len(s) /\ s[last].role = "user"
      <4>1. Users(s) \subseteq 0..Len(s)
        BY <1>1
      <4>2. last \in Users(s)
        BY <1>1, <2>1, <4>1, MaxOf
      <4> QED BY <1>1, <4>2 DEF Users
    <3> HIDE DEF last
    <3>2. start = tail
      BY <1>5, <2>1
    <3> HIDE DEF start
    <3>3. last < tail
      <4>1. SUFFICES ASSUME last >= tail PROVE FALSE
        BY <1>4, <3>1
      <4>2. last - start + 1 \in 1..Len(s) - start + 1
        BY <1>1, <1>5, <3>1, <3>2, <4>1
      <4>3. recent[last - start + 1] = s[start + (last - start + 1) - 1]
        BY <1>6, <4>2
      <4>4. start + (last - start + 1) - 1 = last
        BY <1>5, <3>1
      <4>5. recent[last - start + 1].role = "user" /\ last - start + 1 \in DOMAIN recent
        <5>1. DOMAIN recent = 1..Len(recent)
          BY <1>6, WindowRows
        <5> QED BY <1>6, <3>1, <4>2, <4>3, <4>4, <5>1
      <4> QED BY <2>1, <4>5 DEF Users
    <3>4. tail = late
      BY <1>4, <3>1, <3>3
    <3>5. last + max - 1 \in Nat /\ last + max - 1 <= Len(s) /\ last <= (last + max - 1) + 1
      BY <1>1, <3>1, <3>3, <3>4
    <3>6. Cut(SubSeq(s, last, last + max - 1), s)
      <4> DEFINE b == last + max - 1
      <4> HIDE DEF b
      <4>1. last \in Nat /\ 1 <= last /\ b \in Nat /\ last <= b + 1 /\ b <= Len(s)
        BY <3>1, <3>5 DEF b
      <4>2. Cut(SubSeq(s, last, b), s)
        BY <4>1, CutOf
      <4> QED BY <4>2 DEF b
    <3> QED BY <2>1, <3>6
  <2>2. CASE ~(Users(recent) = {} /\ ~extend /\ Users(s) # {})
    <3>1. Cut(FromFirstUser(recent), recent)
      BY <1>6, FirstUserCuts
    <3>2. Cut(FromFirstUser(recent), s)
      BY <1>6, <3>1, CutOfCut
    <3> QED BY <2>2, <3>2
  <2> QED BY <2>1, <2>2
<1>8. Retained(s, max, extend) =
        IF Len(s) <= max THEN s
        ELSE IF ~extend /\ Len(legal) > max THEN Legal(From(legal, Len(legal) - max + 1))
        ELSE legal
  BY DEF Retained
<1> HIDE DEF anchored
<1>9. anchored \in Seq(WindowRow)
  BY <1>7, CutFacts
<1>10. Cut(legal, s) /\ Supported(legal)
  <2>1. Cut(legal, anchored) /\ Supported(legal)
    BY <1>9, LegalCut, LegalIsSupported
  <2> QED BY <1>7, <2>1, CutOfCut
<1> HIDE DEF legal
<1>11. legal \in Seq(WindowRow) /\ Len(legal) \in Nat
  BY <1>1, <1>10, CutFacts
<1>12. CASE Len(s) <= max
  BY <1>8, <1>12, SelfCut
<1>13. CASE ~(Len(s) <= max) /\ ~extend /\ Len(legal) > max
  <2> DEFINE k == Len(legal) - max + 1  last2 == From(legal, k)
  <2>1. k \in 1..Len(legal) + 1 /\ Len(legal) - k + 1 = max
    BY <1>11, <1>13
  <2> HIDE DEF k
  <2>2. Cut(last2, legal) /\ last2 \in Seq(WindowRow) /\ Len(last2) = max
    BY <1>11, <2>1, FromCut
  <2> HIDE DEF last2
  <2>3. /\ Cut(Legal(last2), last2) /\ Len(Legal(last2)) \in 0..Len(last2)
        /\ Supported(Legal(last2))
    BY <2>2, LegalCut, LegalIsSupported, CutFacts
  <2>4. Cut(last2, s)
    BY <1>10, <2>2, CutOfCut
  <2>5. Cut(Legal(last2), s)
    BY <2>3, <2>4, CutOfCut
  <2>6. Retained(s, max, extend) = Legal(last2)
    BY <1>8, <1>13 DEF last2, k
  <2> QED BY <2>2, <2>3, <2>5, <2>6
<1>14. CASE ~(Len(s) <= max) /\ ~(~extend /\ Len(legal) > max)
  BY <1>8, <1>10, <1>11, <1>14
<1> QED BY <1>12, <1>13, <1>14

(***************************************************************************)
(* Rows in the order in which they were written.                           *)
(***************************************************************************)
NumbersAt(s, a, b) == {s[i].n : i \in a..b}

LEMMA NumberSets ==
  ASSUME NEW s \in Seq(WindowRow)
  PROVE  /\ Numbers(s) = NumbersAt(s, 1, Len(s)) /\ Numbers(s) \subseteq Nat
         /\ \A a, b \in Nat : 1 <= a /\ a <= b + 1 /\ b <= Len(s) =>
              /\ Numbers(SubSeq(s, a, b)) = NumbersAt(s, a, b)
              /\ NumbersAt(s, a, b) \subseteq Numbers(s)
<1>1. /\ Len(s) \in Nat /\ DOMAIN s = 1..Len(s)
      /\ \A i \in 1..Len(s) : s[i].n \in Nat
  BY WindowRows
<1>2. Numbers(s) = NumbersAt(s, 1, Len(s)) /\ Numbers(s) \subseteq Nat
  BY <1>1 DEF Numbers, NumbersAt
<1>3. ASSUME NEW a \in Nat, NEW b \in Nat, 1 <= a, a <= b + 1, b <= Len(s)
      PROVE  Numbers(SubSeq(s, a, b)) = NumbersAt(s, a, b) /\ NumbersAt(s, a, b) \subseteq Numbers(s)
  <2> DEFINE t == SubSeq(s, a, b)
  <2>1. /\ t \in Seq(WindowRow) /\ Len(t) = b - a + 1
        /\ \A i \in 1..b - a + 1 : t[i] = s[a + i - 1]
    BY <1>3, CutOf
  <2> HIDE DEF t
  <2>2. DOMAIN t = 1..b - a + 1
    BY <2>1, WindowRows
  <2>3. \A i \in 1..b - a + 1 : t[i].n \in NumbersAt(s, a, b)
    <3>1. \A i \in 1..b - a + 1 : a + i - 1 \in a..b
      OBVIOUS
    <3> QED BY <2>1, <3>1 DEF NumbersAt
  <2>4. \A i \in a..b : s[i].n \in Numbers(t)
    <3>1. ASSUME NEW i \in a..b PROVE s[i].n \in Numbers(t)
      <4>1. i - a + 1 \in 1..b - a + 1 /\ a + (i - a + 1) - 1 = i
        OBVIOUS
      <4>2. t[i - a + 1] = s[i]
        BY <2>1, <4>1
      <4> QED BY <2>2, <4>1, <4>2 DEF Numbers
    <3> QED BY <3>1
  <2>5. Numbers(t) = NumbersAt(s, a, b)
    BY <2>2, <2>3, <2>4 DEF Numbers, NumbersAt
  <2>6. NumbersAt(s, a, b) \subseteq Numbers(s)
    BY <1>1, <1>3 DEF Numbers, NumbersAt
  <2> QED BY <2>5, <2>6 DEF t
<1> QED BY <1>2, <1>3

LEMMA Different ==
  ASSUME NEW s \in Seq(WindowRow), Rising(s)
  PROVE  \A i, k \in 1..Len(s) : /\ s[i].n = s[k].n => i = k
                                 /\ i < k => s[i].n < s[k].n
<1>1. /\ Len(s) \in Nat /\ DOMAIN s = 1..Len(s)
      /\ \A i \in 1..Len(s) : s[i].n \in Nat
  BY WindowRows
<1>2. \A i, k \in 1..Len(s) : i < k => s[i].n < s[k].n
  BY <1>1 DEF Rising
<1>3. ASSUME NEW i \in 1..Len(s), NEW k \in 1..Len(s), s[i].n = s[k].n PROVE i = k
  <2>1. s[i].n \in Nat /\ i \in Int /\ k \in Int
    BY <1>1
  <2>2. ~(i < k) /\ ~(k < i)
    BY <1>2, <1>3, <2>1
  <2> QED BY <2>1, <2>2
<1> QED BY <1>2, <1>3

LEMMA HowManyNumbers ==
  ASSUME NEW s \in Seq(WindowRow), Rising(s),
         NEW a \in Nat, NEW b \in Nat, 1 <= a, a <= b + 1, b <= Len(s)
  PROVE  Cardinality(NumbersAt(s, a, b)) = b - a + 1
<1> DEFINE f == [i \in a..b |-> s[i].n]  T == NumbersAt(s, a, b)
<1>1. Len(s) \in Nat /\ a..b \subseteq 1..Len(s)
  BY WindowRows
<1>2. \A i, k \in a..b : f[i] = f[k] => i = k
  BY <1>1, Different
<1>3. f \in Bijection(a..b, T)
  <2>1. f \in [a..b -> T]
    BY DEF NumbersAt
  <2>2. \A t \in T : \E i \in a..b : f[i] = t
    BY DEF NumbersAt
  <2> HIDE DEF f, T
  <2> QED BY <1>2, <2>1, <2>2 DEF Bijection, Injection, Surjection, IsInjective
<1>4. IsFiniteSet(a..b) /\ Cardinality(a..b) = IF a > b THEN 0 ELSE b - a + 1
  BY FS_Interval
<1> HIDE DEF f, T
<1>5. ExistsBijection(a..b, T)
  BY <1>3 DEF ExistsBijection
<1>6. IsFiniteSet(T) /\ Cardinality(T) = Cardinality(a..b)
  BY <1>4, <1>5, FS_Bijection
<1>7. Cardinality(a..b) = b - a + 1
  BY <1>4
<1> QED BY <1>6, <1>7 DEF T

LEMMA CutRises ==
  ASSUME NEW s \in Seq(WindowRow), Rising(s), NEW t, Cut(t, s)
  PROVE  Rising(t) /\ Numbers(t) \subseteq Numbers(s)
<1>1. PICK d \in Nat : CutAt(t, s, d)
  BY DEF Cut
<1>2. /\ t \in Seq(WindowRow) /\ d + Len(t) <= Len(s)
      /\ \A i \in 1..Len(t) : t[i] = s[d + i]
  BY <1>1 DEF CutAt
<1>3. Len(s) \in Nat /\ Len(t) \in Nat /\ DOMAIN t = 1..Len(t) /\ DOMAIN s = 1..Len(s)
  BY <1>2, WindowRows
<1>4. \A i \in 1..Len(t) : d + i \in 1..Len(s)
  BY <1>2, <1>3
<1>5. Numbers(t) \subseteq Numbers(s)
  BY <1>2, <1>3, <1>4 DEF Numbers
<1>6. ASSUME NEW i \in 1..Len(t), NEW k \in 1..Len(t), i < k
      PROVE  t[i].n < t[k].n
  <2>1. d + i \in 1..Len(s) /\ d + k \in 1..Len(s) /\ d + i < d + k
    BY <1>4, <1>6
  <2>2. s[d + i].n < s[d + k].n
    BY <2>1, Different
  <2> QED BY <1>2, <2>2
<1> QED BY <1>3, <1>5, <1>6 DEF Rising

(* A cut that leaves no result without its call keeps each result behind   *)
(* the same call.                                                          *)
LEMMA CutInOrder ==
  ASSUME NEW s \in Seq(WindowRow), Ordered(s), NEW t, Cut(t, s), Supported(t)
  PROVE  Ordered(t)
<1>1. PICK d \in Nat : CutAt(t, s, d)
  BY DEF Cut
<1>2. /\ t \in Seq(WindowRow) /\ d + Len(t) <= Len(s)
      /\ \A i \in 1..Len(t) : t[i] = s[d + i]
  BY <1>1 DEF CutAt
<1>3. Len(s) \in Nat /\ Len(t) \in Nat /\ DOMAIN t = 1..Len(t) /\ DOMAIN s = 1..Len(s)
  BY <1>2, WindowRows
<1>4. \A i \in 1..Len(t) : d + i \in 1..Len(s)
  BY <1>2, <1>3
<1>5. Rising(s) /\ Labelled(s) /\ Grouped(s)
  BY DEF Ordered
<1>6. Rising(t)
  BY <1>5, CutRises
<1>7. Labelled(t)
  BY <1>2, <1>3, <1>4, <1>5 DEF Labelled
<1>8. ASSUME NEW i \in 1..Len(t), t[i].role = "tool"
      PROVE  \E k \in 1..i - 1 : /\ t[k].role = "assistant" /\ t[i].answers \in t[k].calls
                                 /\ \A j \in k + 1..i : t[j].role = "tool"
  <2> DEFINE id == t[i].answers  e == d + i
  <2>1. id \in Declared(t, 0, i)
    BY <1>8 DEF Supported
  <2> HIDE DEF id
  <2>2. PICK k \in 0 + 1..i - 1 : t[k].role = "assistant" /\ id \in t[k].calls
    BY <2>1, DeclaredIs
  <2>3. k \in 1..i - 1 /\ k \in 1..Len(t) /\ e \in 1..Len(s) /\ t[i] = s[e] /\ t[k] = s[d + k]
        /\ d + k \in 1..Len(s)
    BY <1>2, <1>3, <1>4
  <2>4. s[e].role = "tool" /\ s[e].answers = id
    BY <1>8, <2>3 DEF id
  <2> HIDE DEF e
  <2>5. PICK c \in 1..e - 1 : /\ s[c].role = "assistant" /\ id \in s[c].calls
                              /\ \A j \in c + 1..e : s[j].role = "tool"
    BY <1>3, <1>5, <2>3, <2>4 DEF Grouped
  <2>6. c \in 1..Len(s)
    BY <1>3, <2>3, <2>5
  <2>7. s[c].n = s[d + k].n
    <3>1. s[c].calls \subseteq {2 * s[c].n, 2 * s[c].n + 1}
          /\ s[d + k].calls \subseteq {2 * s[d + k].n, 2 * s[d + k].n + 1}
      BY <1>3, <1>5, <2>3, <2>6 DEF Labelled, LabelledRow
    <3>2. s[c].n \in Nat /\ s[d + k].n \in Nat
      BY <2>3, <2>6, WindowRows
    <3> DEFINE a == s[c].n  b == s[d + k].n
    <3>3. id \in {2 * a, 2 * a + 1} /\ id \in {2 * b, 2 * b + 1} /\ a \in Nat /\ b \in Nat
      BY <2>2, <2>3, <2>5, <3>1, <3>2
    <3> HIDE DEF a, b
    <3>4. a = b
      BY <3>3
    <3> QED BY <3>4 DEF a, b
  <2>8. c = d + k
    BY <1>5, <2>3, <2>6, <2>7, Different
  <2>9. ASSUME NEW j \in k + 1..i PROVE t[j].role = "tool"
    <3>1. d + j \in c + 1..e /\ j \in 1..Len(t)
      BY <1>3, <2>3, <2>8 DEF e
    <3> QED BY <1>2, <2>5, <3>1
  <2> QED BY <2>2, <2>3, <2>9 DEF id
<1>9. Grouped(t)
  BY <1>3, <1>8 DEF Grouped
<1> QED BY <1>6, <1>7, <1>9 DEF Ordered

(* The rows that were hidden are the first of what is kept.                *)
LEMMA HiddenFirst ==
  ASSUME NEW s \in Seq(WindowRow), Rising(s), NEW t, Cut(t, s), NEW c \in 0..Len(s)
  PROVE  LET hidden == Numbers(SubSeq(s, 1, c)) \cap Numbers(t)
             k == Cardinality(hidden) IN
         k \in 0..Len(t) /\ Numbers(SubSeq(t, 1, k)) = hidden
<1>1. PICK d \in Nat : CutAt(t, s, d)
  BY DEF Cut
<1>2. /\ t \in Seq(WindowRow) /\ d + Len(t) <= Len(s)
      /\ \A i \in 1..Len(t) : t[i] = s[d + i]
  BY <1>1 DEF CutAt
<1> DEFINE n == Len(t)
           m == IF c - d < 0 THEN 0 ELSE IF c - d < n THEN c - d ELSE n
           hidden == Numbers(SubSeq(s, 1, c)) \cap Numbers(t)
<1>3. n \in Nat /\ Len(s) \in Nat /\ d + n <= Len(s) /\ c \in Nat /\ c <= Len(s)
  BY <1>2, WindowRows
<1> HIDE DEF n
<1>4. m \in 0..n /\ m \in Nat /\ \A i \in 1..n : d + i <= c <=> i <= m
  BY <1>3
<1> HIDE DEF m
<1>5. Numbers(t) = NumbersAt(t, 1, n) /\ Numbers(SubSeq(t, 1, m)) = NumbersAt(t, 1, m)
  BY <1>2, <1>3, <1>4, NumberSets DEF n
<1>6. Numbers(SubSeq(s, 1, c)) = NumbersAt(s, 1, c)
  BY <1>3, NumberSets
<1>7. \A i \in 1..n : t[i].n \in NumbersAt(s, 1, c) <=> i <= m
  <2>1. ASSUME NEW i \in 1..n, i <= m PROVE t[i].n \in NumbersAt(s, 1, c)
    <3>1. d + i \in 1..c /\ t[i] = s[d + i]
      BY <1>2, <1>3, <1>4, <2>1 DEF n
    <3> QED BY <3>1 DEF NumbersAt
  <2>2. ASSUME NEW i \in 1..n, t[i].n \in NumbersAt(s, 1, c) PROVE i <= m
    <3>1. PICK j \in 1..c : s[j].n = t[i].n
      BY <2>2 DEF NumbersAt
    <3>2. d + i \in 1..Len(s) /\ j \in 1..Len(s) /\ s[d + i].n = s[j].n
      BY <1>2, <1>3, <3>1 DEF n
    <3>3. d + i = j
      BY <3>2, Different
    <3>4. d + i <= c
      BY <3>3
    <3> QED BY <1>4, <3>4
  <2> QED BY <2>1, <2>2
<1>8. hidden = NumbersAt(t, 1, m)
  <2>1. \A i \in 1..m : i \in 1..n /\ i <= m
    BY <1>3, <1>4
  <2>2. \A i \in 1..n : i <= m => i \in 1..m
    BY <1>3, <1>4
  <2>3. NumbersAt(t, 1, m) \subseteq hidden
    BY <1>5, <1>6, <1>7, <2>1 DEF NumbersAt
  <2>4. hidden \subseteq NumbersAt(t, 1, m)
    <3>1. ASSUME NEW x \in hidden PROVE x \in NumbersAt(t, 1, m)
      <4>1. PICK i \in 1..n : x = t[i].n
        BY <1>5 DEF NumbersAt
      <4>2. i \in 1..m
        BY <1>6, <1>7, <2>2, <4>1
      <4> QED BY <4>1, <4>2 DEF NumbersAt
    <3> QED BY <3>1
  <2> QED BY <2>3, <2>4
<1>9. Rising(t)
  BY CutRises
<1>10. Cardinality(NumbersAt(t, 1, m)) = m
  <2>1. 1 <= 1 /\ 1 <= m + 1 /\ m <= Len(t) /\ 1 \in Nat
    BY <1>3, <1>4 DEF n
  <2>2. Cardinality(NumbersAt(t, 1, m)) = m - 1 + 1
    BY <1>2, <1>4, <1>9, <2>1, HowManyNumbers
  <2> QED BY <1>4, <2>2
<1> QED BY <1>4, <1>5, <1>8, <1>10 DEF n

LEMMA Joined ==
  ASSUME NEW s \in Seq(WindowRow), NEW t \in Seq(WindowRow), Rising(s), Rising(t),
         \A x \in Numbers(s), y \in Numbers(t) : x < y
  PROVE  /\ s \o t \in Seq(WindowRow) /\ Len(s \o t) = Len(s) + Len(t) /\ Rising(s \o t)
         /\ Numbers(s \o t) = Numbers(s) \cup Numbers(t)
         /\ \A c \in 0..Len(s) : Numbers(SubSeq(s \o t, 1, c)) = Numbers(SubSeq(s, 1, c))
<1> DEFINE u == s \o t  m == Len(s)  n == Len(t)
<1>1. /\ u \in Seq(WindowRow) /\ Len(u) = m + n
      /\ \A i \in 1..m + n : u[i] = IF i <= m THEN s[i] ELSE t[i - m]
  BY ConcatProperties
<1> HIDE DEF u
<1>2. /\ m \in Nat /\ n \in Nat /\ DOMAIN s = 1..m /\ DOMAIN t = 1..n
      /\ DOMAIN u = 1..m + n
  BY <1>1, WindowRows
<1> HIDE DEF m, n
<1>3. \A i \in 1..m : i \in 1..m + n /\ u[i] = s[i]
  BY <1>1, <1>2
<1>4. \A i \in 1..n : m + i \in 1..m + n /\ u[m + i] = t[i]
  <2>1. ASSUME NEW i \in 1..n PROVE m + i \in 1..m + n /\ u[m + i] = t[i]
    <3> DEFINE j == m + i
    <3>1. j \in 1..m + n /\ ~(j <= m) /\ j - m = i
      BY <1>2
    <3> HIDE DEF j
    <3>2. u[j] = t[j - m]
      BY <1>1, <3>1
    <3>3. u[j] = t[i]
      BY <3>1, <3>2
    <3> QED BY <3>1, <3>3 DEF j
  <2> QED BY <2>1
<1>5. \A i \in 1..m + n : i \in 1..m \/ \E k \in 1..n : i = m + k
  <2>1. ASSUME NEW i \in 1..m + n, i \notin 1..m PROVE \E k \in 1..n : i = m + k
    <3>1. i - m \in 1..n /\ i = m + (i - m)
      BY <1>2, <2>1
    <3> QED BY <3>1
  <2> QED BY <2>1
<1>6. Numbers(u) = Numbers(s) \cup Numbers(t)
  <2>1. ASSUME NEW i \in 1..m + n PROVE u[i].n \in Numbers(s) \cup Numbers(t)
    <3>1. CASE i \in 1..m
      BY <1>2, <1>3, <3>1 DEF Numbers
    <3>2. CASE \E k \in 1..n : i = m + k
      BY <1>2, <1>4, <3>2 DEF Numbers
    <3> QED BY <1>5, <3>1, <3>2
  <2>2. \A i \in 1..m : s[i].n \in Numbers(u)
    BY <1>2, <1>3 DEF Numbers
  <2>3. \A i \in 1..n : t[i].n \in Numbers(u)
    BY <1>2, <1>4 DEF Numbers
  <2>4. Numbers(u) \subseteq Numbers(s) \cup Numbers(t)
    BY <1>2, <2>1 DEF Numbers
  <2>5. Numbers(s) \subseteq Numbers(u) /\ Numbers(t) \subseteq Numbers(u)
    BY <1>2, <2>2, <2>3 DEF Numbers
  <2> QED BY <2>4, <2>5
<1>7. ASSUME NEW i \in 1..m + n, NEW k \in 1..m + n, i < k
      PROVE  u[i].n < u[k].n
  <2>1. CASE i \in 1..m /\ k \in 1..m
    BY <1>2, <1>3, <1>7, <2>1 DEF Rising
  <2>2. CASE i \in 1..m /\ k \notin 1..m
    <3>0. k \in 1..m \/ \E q \in 1..n : k = m + q
      BY <1>5
    <3>1. PICK q \in 1..n : k = m + q
      BY <3>0, <2>2
    <3>2. u[i].n \in Numbers(s) /\ u[k].n \in Numbers(t)
      BY <1>2, <1>3, <1>4, <2>2, <3>1 DEF Numbers
    <3> QED BY <3>2
  <2>3. CASE i \notin 1..m
    <3>1. PICK p \in 1..n : i = m + p
      BY <1>5, <2>3
    <3>2. k \notin 1..m
      BY <1>2, <1>7, <2>3
    <3>3. PICK q \in 1..n : k = m + q
      BY <1>5, <3>2
    <3>4. p < q
      BY <1>2, <1>7, <3>1, <3>3
    <3>5. t[p].n < t[q].n /\ u[i] = t[p] /\ u[k] = t[q]
      BY <1>2, <1>4, <3>1, <3>3, <3>4 DEF Rising
    <3> QED BY <3>5
  <2> QED BY <2>1, <2>2, <2>3
<1>8. Rising(u)
  BY <1>2, <1>7 DEF Rising
<1>9. ASSUME NEW c \in 0..m PROVE Numbers(SubSeq(u, 1, c)) = Numbers(SubSeq(s, 1, c))
  <2>1. c \in Nat /\ 1 <= c + 1 /\ c <= Len(u) /\ c <= Len(s) /\ 1 \in Nat
    BY <1>1, <1>2 DEF m
  <2>2. Numbers(SubSeq(u, 1, c)) = NumbersAt(u, 1, c) /\ Numbers(SubSeq(s, 1, c)) = NumbersAt(s, 1, c)
    BY <1>1, <2>1, NumberSets
  <2>3. \A i \in 1..c : u[i] = s[i]
    BY <1>2, <1>3
  <2>4. NumbersAt(u, 1, c) = NumbersAt(s, 1, c)
    BY <2>3 DEF NumbersAt
  <2> QED BY <2>2, <2>4
<1> QED BY <1>1, <1>6, <1>8, <1>9 DEF u, m, n

LEMMA RowsJoin ==
  ASSUME NEW s \in Seq(WindowRow), NEW t \in Seq(WindowRow), NEW u \in Seq(WindowRow)
  PROVE  (s \o t) \o u = s \o (t \o u)
BY ConcatAssociative

LEMMA JoinedInOrder ==
  ASSUME NEW s \in Seq(WindowRow), NEW t \in Seq(WindowRow), Ordered(s), Ordered(t),
         \A x \in Numbers(s), y \in Numbers(t) : x < y
  PROVE  Ordered(s \o t)
<1> DEFINE u == s \o t  m == Len(s)  n == Len(t)
<1>1. /\ Rising(s) /\ Labelled(s) /\ Grouped(s)
      /\ Rising(t) /\ Labelled(t) /\ Grouped(t)
  BY DEF Ordered
<1>2. /\ u \in Seq(WindowRow) /\ Len(u) = m + n /\ Rising(u)
  BY <1>1, Joined
<1>3. \A i \in 1..m + n : u[i] = IF i <= m THEN s[i] ELSE t[i - m]
  BY ConcatProperties
<1> HIDE DEF u
<1>4. /\ m \in Nat /\ n \in Nat /\ DOMAIN s = 1..m /\ DOMAIN t = 1..n
      /\ DOMAIN u = 1..m + n
  BY <1>2, WindowRows
<1> HIDE DEF m, n
<1>5. \A i \in 1..m : i \in 1..m + n /\ u[i] = s[i]
  BY <1>3, <1>4
<1>6. ASSUME NEW i \in 1..m + n, i \notin 1..m
      PROVE  i - m \in 1..n /\ u[i] = t[i - m]
  <2>1. i - m \in 1..n /\ ~(i <= m)
    BY <1>4, <1>6
  <2> QED BY <1>3, <2>1
<1>7. Labelled(u)
  <2>1. ASSUME NEW i \in 1..m + n PROVE LabelledRow(u[i])
    <3>1. CASE i \in 1..m
      BY <1>1, <1>4, <1>5, <3>1 DEF Labelled
    <3>2. CASE i \notin 1..m
      <4> DEFINE k == i - m
      <4>1. k \in 1..n /\ u[i] = t[k]
        BY <1>6, <3>2
      <4> HIDE DEF k
      <4> QED BY <1>1, <1>4, <4>1 DEF Labelled
    <3> QED BY <3>1, <3>2
  <2> QED BY <1>4, <2>1 DEF Labelled
<1>8. ASSUME NEW i \in 1..m + n, u[i].role = "tool"
      PROVE  \E k \in 1..i - 1 : /\ u[k].role = "assistant" /\ u[i].answers \in u[k].calls
                                 /\ \A j \in k + 1..i : u[j].role = "tool"
  <2>1. CASE i \in 1..m
    <3>1. s[i].role = "tool" /\ u[i] = s[i]
      BY <1>5, <1>8, <2>1
    <3>2. PICK k \in 1..i - 1 : /\ s[k].role = "assistant" /\ s[i].answers \in s[k].calls
                                /\ \A j \in k + 1..i : s[j].role = "tool"
      BY <1>1, <1>4, <2>1, <3>1 DEF Grouped
    <3>3. k \in 1..m /\ \A j \in k + 1..i : j \in 1..m
      BY <1>4, <2>1
    <3>4. u[k] = s[k] /\ \A j \in k + 1..i : u[j] = s[j]
      BY <1>5, <3>3
    <3> QED BY <3>1, <3>2, <3>4
  <2>2. CASE i \notin 1..m
    <3> DEFINE p == i - m
    <3>1. p \in 1..n /\ u[i] = t[p] /\ i = m + p
      BY <1>4, <1>6, <2>2
    <3> HIDE DEF p
    <3>2. t[p].role = "tool"
      BY <1>8, <3>1
    <3>3. PICK k \in 1..p - 1 : /\ t[k].role = "assistant" /\ t[p].answers \in t[k].calls
                                /\ \A j \in k + 1..p : t[j].role = "tool"
      BY <1>1, <1>4, <3>1, <3>2 DEF Grouped
    <3>4. ASSUME NEW j \in 1..n PROVE u[m + j] = t[j]
      <4> DEFINE e == m + j
      <4>1. e \in 1..m + n /\ e \notin 1..m /\ e - m = j
        BY <1>4
      <4> HIDE DEF e
      <4>2. u[e] = t[e - m]
        BY <1>6, <4>1
      <4>3. u[e] = t[j]
        BY <4>1, <4>2
      <4> QED BY <4>3 DEF e
    <3>5. k \in 1..n /\ m + k \in 1..i - 1
      BY <1>4, <3>1, <3>3
    <3>6. u[m + k] = t[k]
      BY <3>4, <3>5
    <3>7. ASSUME NEW j \in m + k + 1..i PROVE u[j].role = "tool"
      <4> DEFINE q == j - m
      <4>1. q \in k + 1..p /\ q \in 1..n /\ m + q = j
        BY <1>4, <3>1, <3>5
      <4> HIDE DEF q
      <4>2. u[m + q] = t[q] /\ t[q].role = "tool"
        BY <3>3, <3>4, <4>1
      <4> QED BY <4>1, <4>2
    <3> DEFINE c == m + k
    <3>8. c \in 1..i - 1 /\ u[c] = t[k] /\ \A j \in c + 1..i : u[j].role = "tool"
      BY <3>5, <3>6, <3>7
    <3> HIDE DEF c
    <3> QED BY <3>1, <3>3, <3>8
  <2> QED BY <2>1, <2>2
<1>9. Grouped(u)
  BY <1>4, <1>8 DEF Grouped
<1> QED BY <1>2, <1>7, <1>9 DEF Ordered, u

(***************************************************************************)
(* What a save and a consolidation do.                                     *)
(***************************************************************************)
LEMMA WindowBounds ==
  /\ RowBound \in Nat /\ RowBound >= 4 /\ RowCap \in Nat \ {0} /\ RowCap >= 4
  /\ ReplayMax \in Nat \ {0} /\ Suffix \in Nat \ {0}
<1>1. RowBound \in Nat /\ RowCap \in Nat /\ RowCap >= 4 /\ ReplayMax \in 1..RowCap
  BY WindowAssumption
<1> QED BY <1>1, WindowAssumption

LEMMA Saves ==
  ASSUME NEW s \in Seq(WindowRow), Ordered(s), consolidated \in 0..Len(s), again = {},
         Numbers(s) \cap archived = Numbers(SubSeq(s, 1, consolidated)),
         CappedSave(s)
  PROVE  /\ messages' \in Seq(WindowRow) /\ Len(messages') <= RowCap /\ Ordered(messages')
         /\ consolidated' \in 0..Len(messages') /\ again' = {}
         /\ Numbers(messages') \subseteq Numbers(s)
         /\ archived \subseteq archived' /\ archived' \subseteq archived \cup Numbers(s)
         /\ Numbers(s) \ Numbers(messages') \subseteq archived'
         /\ Numbers(messages') \cap archived' = Numbers(SubSeq(messages', 1, consolidated'))
<1> DEFINE kept == Retained(s, RowCap, FALSE)
           hidden == Numbers(SubSeq(s, 1, consolidated))
           gone == (Numbers(s) \ Numbers(kept)) \ hidden
           k == Cardinality(hidden \cap Numbers(kept))
<1>1. /\ messages' = kept /\ consolidated' = k
      /\ archived' = archived \cup gone /\ again' = again \cup (archived \cap gone)
  BY DEF CappedSave, ToArchive
<1>2. Cut(kept, s) /\ Len(kept) <= RowCap /\ (kept = s \/ Supported(kept)) /\ Rising(s)
  BY RetainedCut, WindowBounds DEF Ordered
<1>3. kept \in Seq(WindowRow)
  BY <1>2, CutFacts
<1>4. Ordered(kept) /\ Numbers(kept) \subseteq Numbers(s)
  <2>1. CASE kept = s
    BY <2>1
  <2>2. CASE Supported(kept)
    <3> HIDE DEF kept
    <3> QED BY <1>2, <2>2, CutInOrder, CutRises
  <2> QED BY <1>2, <2>1, <2>2
<1>5. k \in 0..Len(kept) /\ Numbers(SubSeq(kept, 1, k)) = hidden \cap Numbers(kept)
  BY <1>2, HiddenFirst
<1>6. Numbers(s) \cap archived = hidden
  OBVIOUS
<1> HIDE DEF kept, hidden, k
<1>7. archived \cap gone = {}
  BY <1>6
<1>8. Numbers(s) \ Numbers(kept) \subseteq archived \cup gone
  BY <1>6
<1>9. Numbers(kept) \cap (archived \cup gone) = hidden \cap Numbers(kept)
  BY <1>4, <1>6
<1> HIDE DEF gone
<1>10. gone \subseteq Numbers(s)
  BY DEF gone
<1> QED BY <1>1, <1>2, <1>3, <1>4, <1>5, <1>7, <1>8, <1>9, <1>10

LEMMA ConsolidatesTo ==
  ASSUME CutIInv, NEW end \in consolidated..Len(messages), ConsolidateTo(end)
  PROVE  /\ consolidated' = end /\ end \in 0..Len(messages) /\ again' = {}
         /\ archived \subseteq archived' /\ archived' \subseteq archived \cup Numbers(messages)
         /\ Numbers(messages) \cap archived' = Numbers(SubSeq(messages, 1, end))
<1> DEFINE c == consolidated  hides == Numbers(SubSeq(messages, c + 1, end))
<1>1. /\ messages \in Seq(WindowRow) /\ c \in 0..Len(messages) /\ Rising(messages) /\ again = {}
      /\ Numbers(messages) \cap archived = Numbers(SubSeq(messages, 1, c))
  BY DEF CutIInv, WindowTypeOK, CutIsArchived, Ordered
<1>2. /\ consolidated' = end
      /\ archived' = archived \cup hides /\ again' = again \cup (archived \cap hides)
  BY DEF ConsolidateTo, ToArchive
<1>3. Len(messages) \in Nat /\ c \in Nat /\ end \in Nat /\ c <= end /\ end <= Len(messages)
  <2>1. Len(messages) \in Nat
    BY <1>1, WindowRows
  <2> QED BY <1>1, <2>1
<1> HIDE DEF c
<1>4. /\ hides = NumbersAt(messages, c + 1, end)
      /\ Numbers(SubSeq(messages, 1, c)) = NumbersAt(messages, 1, c)
      /\ Numbers(SubSeq(messages, 1, end)) = NumbersAt(messages, 1, end)
      /\ hides \subseteq Numbers(messages)
  <2> DEFINE b == c + 1
  <2>1. b \in Nat /\ 1 <= b /\ b <= end + 1 /\ 1 \in Nat /\ 1 <= 1 /\ 1 <= c + 1 /\ 1 <= end + 1
        /\ c <= Len(messages)
    BY <1>3
  <2> HIDE DEF b
  <2>2. /\ Numbers(SubSeq(messages, b, end)) = NumbersAt(messages, b, end)
        /\ NumbersAt(messages, b, end) \subseteq Numbers(messages)
        /\ Numbers(SubSeq(messages, 1, c)) = NumbersAt(messages, 1, c)
        /\ Numbers(SubSeq(messages, 1, end)) = NumbersAt(messages, 1, end)
    BY <1>1, <1>3, <2>1, NumberSets
  <2> QED BY <2>2 DEF b
<1> HIDE DEF hides
<1>5. NumbersAt(messages, 1, c) \cap NumbersAt(messages, c + 1, end) = {}
  <2>1. ASSUME NEW i \in 1..c, NEW j \in c + 1..end PROVE messages[i].n # messages[j].n
    <3>1. i \in 1..Len(messages) /\ j \in 1..Len(messages) /\ i # j
      BY <1>3
    <3> QED BY <1>1, <3>1, Different
  <2> QED BY <2>1 DEF NumbersAt
<1>6. NumbersAt(messages, 1, end) = NumbersAt(messages, 1, c) \cup NumbersAt(messages, c + 1, end)
  <2>1. 1..end = (1..c) \cup (c + 1..end)
    BY <1>3
  <2> QED BY <2>1 DEF NumbersAt
<1>7. archived \cap hides = {}
  BY <1>1, <1>4, <1>5 DEF c
<1>8. Numbers(messages) \cap (archived \cup hides) = NumbersAt(messages, 1, end)
  BY <1>1, <1>4, <1>6 DEF c
<1>9. end \in 0..Len(messages)
  BY <1>3
<1> QED BY <1>1, <1>2, <1>4, <1>7, <1>8, <1>9

(***************************************************************************)
(* The steps.                                                              *)
(***************************************************************************)
LEMMA Hides ==
  ASSUME CutIInv, NEW end \in consolidated..Len(messages), ConsolidateTo(end),
         stage \in {"none", "compacting"}, stage' \in {"none", "compacting"},
         UNCHANGED <<messages, written, turnRows>>
  PROVE  CutIInv'
<1>1. /\ consolidated' = end /\ end \in 0..Len(messages) /\ again' = {}
      /\ archived \subseteq archived' /\ archived' \subseteq archived \cup Numbers(messages)
      /\ Numbers(messages) \cap archived' = Numbers(SubSeq(messages, 1, end))
  BY ConsolidatesTo
<1>2. WindowTypeOK /\ CutIsArchived /\ Ordered(messages) /\ Ordered(turnRows)
  BY DEF CutIInv
<1>3. WindowTypeOK'
  BY <1>1, <1>2 DEF WindowTypeOK, Numbers
<1>4. CutIsArchived'
  <2>1. Unsaved = {} /\ Unsaved' = {}
    BY DEF Unsaved
  <2>2. (1..written \ {}) \ Numbers(messages) \subseteq archived
    BY <1>2, <2>1 DEF CutIsArchived
  <2>3. (1..written' \ {}) \ Numbers(messages') \subseteq archived'
    BY <1>1, <2>2
  <2>4. Numbers(messages') \cap archived' = Numbers(SubSeq(messages', 1, consolidated'))
    BY <1>1
  <2> QED BY <1>1, <2>1, <2>3, <2>4 DEF CutIsArchived
<1>5. Ordered(messages') /\ Ordered(turnRows') /\ stage' # "running"
  BY <1>2
<1> QED BY <1>3, <1>4, <1>5 DEF CutIInv

LEMMA ShownIs ==
  ASSUME CutIInv
  PROVE  /\ Cut(Shown(messages), messages) /\ Shown(messages) \in Seq(WindowRow)
         /\ Len(Shown(messages)) = Len(messages) - consolidated
         /\ consolidated \in Nat /\ consolidated <= Len(messages) /\ Len(messages) \in Nat
<1>1. messages \in Seq(WindowRow) /\ consolidated \in 0..Len(messages)
  BY DEF CutIInv, WindowTypeOK
<1>2. Len(messages) \in Nat
  BY <1>1, WindowRows
<1> DEFINE i == consolidated + 1
<1>3. i \in 1..Len(messages) + 1
  BY <1>1, <1>2
<1> HIDE DEF i
<1>4. Cut(From(messages, i), messages) /\ From(messages, i) \in Seq(WindowRow)
      /\ Len(From(messages, i)) = Len(messages) - i + 1
  BY <1>1, <1>3, FromCut
<1>5. Shown(messages) = From(messages, i)
  BY DEF Shown, i
<1>6. Len(messages) - i + 1 = Len(messages) - consolidated
  BY <1>1, <1>2 DEF i
<1> QED BY <1>1, <1>2, <1>4, <1>5, <1>6

LEMMA CompactIdleKeeps ==
  ASSUME CutIInv, CompactIdle
  PROVE  CutIInv'
<1> DEFINE tail == Shown(messages)  visible == Retained(tail, Suffix, TRUE)
           end == Len(messages) - Len(visible)
<1>1. stage = "none" /\ ConsolidateTo(end) /\ UNCHANGED <<messages, written, stage, history, turnRows>>
  BY DEF CompactIdle
<1>2. tail \in Seq(WindowRow) /\ Len(tail) = Len(messages) - consolidated
      /\ consolidated \in Nat /\ consolidated <= Len(messages) /\ Len(messages) \in Nat
  BY ShownIs
<1> HIDE DEF tail
<1>3. Cut(visible, tail)
  BY <1>2, RetainedCut, WindowBounds
<1> HIDE DEF visible
<1>4. Len(visible) \in 0..Len(tail)
  BY <1>2, <1>3, CutFacts
<1>5. end \in consolidated..Len(messages)
  BY <1>2, <1>4
<1> HIDE DEF end
<1> QED BY <1>1, <1>5, Hides

LEMMA TurnOpensKeeps ==
  ASSUME CutIInv, TurnOpens
  PROVE  CutIInv'
<1> DEFINE tail == Shown(messages)
           late == From(tail, RecentStart(tail, ReplayMax, TRUE))
           open == FromOpening(late)
           seen == Legal(open)
<1>1. /\ stage = "none" /\ stage' = "compacting" /\ ConsolidateTo(OverflowBoundary)
      /\ UNCHANGED <<messages, written, history, turnRows>>
  BY DEF TurnOpens
<1>2. tail \in Seq(WindowRow) /\ Len(tail) = Len(messages) - consolidated
      /\ consolidated \in Nat /\ consolidated <= Len(messages) /\ Len(messages) \in Nat
  BY ShownIs
<1>3. OverflowBoundary = consolidated \/ OverflowBoundary = Len(messages) - Len(seen)
  BY DEF OverflowBoundary
<1> HIDE DEF tail
<1>4. RecentStart(tail, ReplayMax, TRUE) \in 1..Len(tail) + 1
  BY <1>2, RecentStartIs, WindowBounds
<1>5. Cut(late, tail) /\ late \in Seq(WindowRow)
  BY <1>2, <1>4, FromCut
<1> HIDE DEF late
<1>6. Cut(open, late) /\ open \in Seq(WindowRow)
  BY <1>5, FirstUserCuts, CutFacts
<1> HIDE DEF open
<1>7. Cut(seen, open)
  BY <1>6, LegalCut
<1> HIDE DEF seen
<1>8. Cut(seen, tail)
  <2>1. Cut(seen, late)
    BY <1>5, <1>6, <1>7, CutOfCut
  <2> QED BY <1>2, <1>5, <2>1, CutOfCut
<1>9. Len(seen) \in 0..Len(tail)
  BY <1>2, <1>8, CutFacts
<1>10. OverflowBoundary \in consolidated..Len(messages)
  BY <1>2, <1>3, <1>9
<1> QED BY <1>1, <1>10, Hides

LEMMA TokenRoundKeeps ==
  ASSUME CutIInv, TokenRound
  PROVE  CutIInv'
<1>1. PICK end \in TokenBoundaries : ConsolidateTo(end)
  BY DEF TokenRound
<1>2. stage = "compacting" /\ UNCHANGED <<messages, written, stage, history, turnRows>>
  BY DEF TokenRound
<1>3. consolidated \in Nat /\ consolidated <= Len(messages) /\ Len(messages) \in Nat
  BY ShownIs
<1>4. Users(messages) \subseteq 1..Len(messages)
  BY WindowRows DEF CutIInv, WindowTypeOK
<1>5. PICK i \in Users(messages) : i > consolidated + 1 /\ end = i - 1
  BY <1>1 DEF TokenBoundaries
<1>6. end \in consolidated..Len(messages)
  BY <1>3, <1>4, <1>5
<1> QED BY <1>1, <1>2, <1>6, Hides

LEMMA NoRows ==
  /\ <<>> \in Seq(WindowRow) /\ Len(<<>>) = 0 /\ Ordered(<<>>) /\ Numbers(<<>>) = {}
<1>1. <<>> \in Seq(WindowRow) /\ Len(<<>>) = 0
  BY EmptySeq
<1> DEFINE e == <<>>
<1> HIDE DEF e
<1>2. e \in Seq(WindowRow) /\ Len(e) = 0
  BY <1>1 DEF e
<1>3. DOMAIN e = 1..0
  BY <1>2, WindowRows
<1>4. DOMAIN e = {}
  BY <1>3
<1>5. Ordered(e) /\ Numbers(e) = {}
  BY <1>4 DEF Ordered, Rising, Labelled, Grouped, Numbers
<1> QED BY <1>2, <1>5 DEF e

Simple(row) ==
  row.calls = {} /\ row.role # "tool" /\ row.answers = NoCall /\ (row.kind = "delivery" => row.role = "assistant")

LEMMA OneRow ==
  ASSUME NEW row \in WindowRow
  PROVE  /\ <<row>> \in Seq(WindowRow) /\ Len(<<row>>) = 1 /\ <<row>>[1] = row /\ <<row>> # <<>>
         /\ Rising(<<row>>) /\ Numbers(<<row>>) = {row.n} /\ Numbers(Tail(<<row>>)) = {}
         /\ Simple(row) => Ordered(<<row>>)
<1> DEFINE s == <<row>>  t == Tail(s)
<1>1. s \in Seq(WindowRow) /\ Len(s) = 1 /\ s[1] = row
  OBVIOUS
<1>2. s # <<>>
  OBVIOUS
<1> HIDE DEF s
<1>3. t \in Seq(WindowRow) /\ Len(t) = 0
  <2>1. Len(t) = Len(s) - 1 /\ t \in Seq(WindowRow)
    BY <1>1, <1>2, HeadTailProperties
  <2> HIDE DEF t
  <2> QED BY <1>1, <2>1
<1> HIDE DEF t
<1>4. DOMAIN s = 1..1 /\ DOMAIN t = 1..0
  BY <1>1, <1>3, WindowRows
<1>5. DOMAIN s = {1} /\ DOMAIN t = {}
  BY <1>4
<1>6. Rising(s) /\ Numbers(s) = {row.n} /\ Numbers(t) = {}
  BY <1>1, <1>5 DEF Rising, Numbers
<1>7. Simple(row) => Ordered(s)
  BY <1>1, <1>5, <1>6 DEF Ordered, Labelled, Grouped, Simple, LabelledRow
<1> QED BY <1>1, <1>2, <1>6, <1>7 DEF s, t

LEMMA RowIs ==
  ASSUME NEW n \in Nat, NEW role \in {"user", "assistant"},
         NEW kind \in {"plain", "placeholder", "command", "delivery", "report"}
  PROVE  /\ Row(n, role, kind, {}) \in WindowRow /\ Row(n, role, kind, {}).n = n
         /\ Row(n, role, kind, {}).role = role
         /\ (kind = "delivery" => role = "assistant") => Simple(Row(n, role, kind, {}))
BY DEF Row, WindowRow, NoCall, Simple

(* Rows are saved that are newer than all that was.                        *)
Newer(rows) == \A x \in Numbers(messages) \cup archived, y \in Numbers(rows) : x < y

LEMMA SavesNewer ==
  ASSUME CutIInv, NEW rows \in Seq(WindowRow), Ordered(rows), Newer(rows),
         CappedSave(messages \o rows)
  PROVE  /\ messages' \in Seq(WindowRow) /\ Len(messages') <= RowCap /\ Ordered(messages')
         /\ consolidated' \in 0..Len(messages') /\ again' = {}
         /\ archived \subseteq archived'
         /\ Numbers(messages') \cup archived' \subseteq Numbers(messages) \cup archived \cup Numbers(rows)
         /\ (Numbers(messages) \cup Numbers(rows)) \ Numbers(messages') \subseteq archived'
         /\ Numbers(messages') \cap archived' = Numbers(SubSeq(messages', 1, consolidated'))
<1> DEFINE s == messages \o rows
<1>1. /\ messages \in Seq(WindowRow) /\ consolidated \in 0..Len(messages)
      /\ Ordered(messages) /\ Rising(messages) /\ Rising(rows) /\ again = {}
      /\ Numbers(messages) \cap archived = Numbers(SubSeq(messages, 1, consolidated))
  BY DEF CutIInv, WindowTypeOK, CutIsArchived, Ordered
<1>2. \A x \in Numbers(messages), y \in Numbers(rows) : x < y
  BY DEF Newer
<1>3. /\ s \in Seq(WindowRow) /\ Len(s) = Len(messages) + Len(rows) /\ Ordered(s)
      /\ Numbers(s) = Numbers(messages) \cup Numbers(rows)
      /\ Numbers(SubSeq(s, 1, consolidated)) = Numbers(SubSeq(messages, 1, consolidated))
  BY <1>1, <1>2, Joined, JoinedInOrder
<1>4. CappedSave(s)
  OBVIOUS
<1> HIDE DEF s
<1>5. consolidated \in 0..Len(s)
  <2>1. Len(messages) \in Nat /\ Len(rows) \in Nat
    BY <1>1, WindowRows
  <2> QED BY <1>1, <1>3, <2>1
<1>6. Numbers(rows) \cap archived = {}
  <2>1. Numbers(rows) \subseteq Nat
    BY NumberSets
  <2> QED BY <2>1 DEF Newer
<1>7. Numbers(s) \cap archived = Numbers(SubSeq(s, 1, consolidated))
  BY <1>1, <1>3, <1>6
<1>8. /\ messages' \in Seq(WindowRow) /\ Len(messages') <= RowCap /\ Ordered(messages')
      /\ consolidated' \in 0..Len(messages') /\ again' = {}
      /\ Numbers(messages') \subseteq Numbers(s)
      /\ archived \subseteq archived' /\ archived' \subseteq archived \cup Numbers(s)
      /\ Numbers(s) \ Numbers(messages') \subseteq archived'
      /\ Numbers(messages') \cap archived' = Numbers(SubSeq(messages', 1, consolidated'))
  BY <1>1, <1>3, <1>4, <1>5, <1>7, Saves
<1> QED BY <1>3, <1>8

LEMMA SaveKeeps ==
  ASSUME CutIInv, NEW rows \in Seq(WindowRow), Ordered(rows), Newer(rows),
         CappedSave(messages \o rows),
         written' \in written..RowBound,
         1..written' \subseteq (1..written) \cup Numbers(rows), Numbers(rows) \subseteq 1..written',
         Unsaved \subseteq Numbers(rows),
         \/ stage' = "none" /\ turnRows' = <<>>
         \/ stage' = "running" /\ written' > written /\ turnRows' = <<User(written')>>
  PROVE  CutIInv'
<1>1. /\ messages' \in Seq(WindowRow) /\ Len(messages') <= RowCap /\ Ordered(messages')
      /\ consolidated' \in 0..Len(messages') /\ again' = {}
      /\ archived \subseteq archived'
      /\ Numbers(messages') \cup archived' \subseteq Numbers(messages) \cup archived \cup Numbers(rows)
      /\ (Numbers(messages) \cup Numbers(rows)) \ Numbers(messages') \subseteq archived'
      /\ Numbers(messages') \cap archived' = Numbers(SubSeq(messages', 1, consolidated'))
  BY SavesNewer
<1>2. /\ Numbers(messages) \cup archived \subseteq 1..written /\ written \in Nat /\ written \in 0..RowBound
      /\ (1..written \ Unsaved) \ Numbers(messages) \subseteq archived
      /\ RowBound \in Nat
  BY WindowBounds DEF CutIInv, WindowTypeOK, CutIsArchived
<1>3. written' \in Nat /\ written' \in 0..RowBound /\ 1..written \subseteq 1..written'
  BY <1>2
<1>4. Numbers(messages') \cup archived' \subseteq 1..written'
  BY <1>1, <1>2, <1>3
<1>5. 1..written' \ Numbers(messages') \subseteq archived'
  <2>1. ASSUME NEW x \in 1..written', x \notin Numbers(messages') PROVE x \in archived'
    <3>1. CASE x \in Numbers(messages) \cup Numbers(rows)
      BY <1>1, <2>1, <3>1
    <3>2. CASE x \notin Numbers(messages) \cup Numbers(rows)
      <4>1. x \in 1..written \ Unsaved
        BY <3>2
      <4>2. x \in archived
        BY <1>2, <3>2, <4>1
      <4> QED BY <1>1, <4>2
    <3> QED BY <3>1, <3>2
  <2> QED BY <2>1
<1>6. /\ turnRows' \in Seq(WindowRow) /\ Ordered(turnRows') /\ Numbers(turnRows') \subseteq 1..written'
      /\ (stage' = "running") = (turnRows' # <<>>) /\ stage' \in {"none", "compacting", "running"}
      /\ Unsaved' = {}
      /\ stage' = "running" => turnRows'[1].n = written' /\ turnRows'[1].role = "user"
  <2>1. CASE stage' = "none" /\ turnRows' = <<>>
    <3>1. Unsaved' = {}
      BY <2>1 DEF Unsaved
    <3>2. turnRows' \in Seq(WindowRow) /\ Ordered(turnRows') /\ Numbers(turnRows') = {}
      BY <2>1, NoRows
    <3> QED BY <2>1, <3>1, <3>2
  <2>2. CASE stage' = "running" /\ written' > written /\ turnRows' = <<User(written')>>
    <3>1. /\ User(written') \in WindowRow /\ User(written').n = written'
          /\ User(written').role = "user" /\ Simple(User(written'))
      BY <1>3, RowIs DEF User
    <3> DEFINE row == User(written')
    <3> HIDE DEF row
    <3>2. row \in WindowRow /\ row.n = written' /\ row.role = "user" /\ Simple(row) /\ turnRows' = <<row>>
      BY <2>2, <3>1 DEF row
    <3>3. /\ turnRows' \in Seq(WindowRow) /\ turnRows'[1] = row /\ turnRows' # <<>>
          /\ Ordered(turnRows') /\ Numbers(turnRows') = {written'} /\ Numbers(Tail(turnRows')) = {}
      BY <3>2, OneRow
    <3>4. Unsaved' = {}
      BY <2>2, <3>3 DEF Unsaved
    <3>5. written' \in 1..written'
      BY <1>2, <1>3, <2>2
    <3> QED BY <2>2, <3>2, <3>3, <3>4, <3>5
  <2> QED BY <2>1, <2>2
<1>7. WindowTypeOK'
  BY <1>1, <1>3, <1>4, <1>6 DEF WindowTypeOK
<1>8. CutIsArchived'
  BY <1>1, <1>5, <1>6 DEF CutIsArchived
<1>9. stage' = "running" => /\ Numbers(messages') \cup archived' \subseteq 1..turnRows'[1].n
                            /\ turnRows'[1].role = "user"
  BY <1>4, <1>6
<1> QED BY <1>1, <1>6, <1>7, <1>8, <1>9 DEF CutIInv

LEMMA DeliverKeeps ==
  ASSUME CutIInv, Deliver
  PROVE  CutIInv'
<1> DEFINE row == Row(written + 1, "assistant", "delivery", {})  rows == <<row>>
<1>1. /\ stage = "none" /\ Write(rows) /\ CappedSave(messages \o rows)
      /\ UNCHANGED <<stage, history, turnRows>>
  BY DEF Deliver
<1>2. written \in Nat /\ Numbers(messages) \cup archived \subseteq 1..written /\ turnRows = <<>>
  BY <1>1, WindowBounds DEF CutIInv, WindowTypeOK
<1>3. row \in WindowRow /\ row.n = written + 1 /\ Simple(row)
  BY <1>2, RowIs
<1> HIDE DEF row
<1>4. rows \in Seq(WindowRow) /\ Len(rows) = 1 /\ Ordered(rows) /\ Numbers(rows) = {written + 1}
  BY <1>3, OneRow
<1> HIDE DEF rows
<1>5. written' = written + 1 /\ written' <= RowBound
  BY <1>1, <1>4 DEF Write
<1>6. Newer(rows)
  BY <1>2, <1>4 DEF Newer
<1>7. /\ written' \in written..RowBound
      /\ 1..written' \subseteq (1..written) \cup Numbers(rows) /\ Numbers(rows) \subseteq 1..written'
  BY <1>2, <1>4, <1>5, WindowBounds
<1>8. Unsaved = {}
  BY <1>1 DEF Unsaved
<1> QED BY <1>1, <1>2, <1>4, <1>6, <1>7, <1>8, SaveKeeps

LEMMA CommandKeeps ==
  ASSUME CutIInv, Command
  PROVE  CutIInv'
<1> DEFINE n == written + 1
           asks == Row(n, "user", "command", {})
           answer == Row(written + 2, "assistant", "command", {})
           rows == <<asks, answer>>
<1>1. /\ stage = "none" /\ Write(rows) /\ CappedSave(messages \o rows)
      /\ UNCHANGED <<stage, history, turnRows>>
  BY DEF Command
<1>2. written \in Nat /\ Numbers(messages) \cup archived \subseteq 1..written /\ turnRows = <<>>
  BY <1>1, WindowBounds DEF CutIInv, WindowTypeOK
<1>3. /\ asks \in WindowRow /\ asks.n = written + 1 /\ answer \in WindowRow /\ answer.n = written + 2
      /\ Simple(asks) /\ Simple(answer)
  BY <1>2, RowIs
<1> HIDE DEF asks, answer
<1>4. /\ rows \in Seq(WindowRow) /\ Len(rows) = 2 /\ rows[1] = asks /\ rows[2] = answer
  BY <1>3
<1> HIDE DEF rows
<1>5. DOMAIN rows = {1, 2}
  <2>1. DOMAIN rows = 1..2
    BY <1>4, WindowRows
  <2> QED BY <2>1
<1>6. Numbers(rows) = {written + 1, written + 2}
  BY <1>3, <1>4, <1>5 DEF Numbers
<1>7. Ordered(rows)
  <2>1. Rising(rows)
    BY <1>2, <1>3, <1>4, <1>5 DEF Rising
  <2>2. Labelled(rows) /\ Grouped(rows)
    BY <1>3, <1>4, <1>5 DEF Labelled, Grouped, Simple, LabelledRow
  <2> QED BY <2>1, <2>2 DEF Ordered
<1>8. written' = written + 2 /\ written' <= RowBound
  BY <1>1, <1>4 DEF Write
<1>9. Newer(rows)
  BY <1>2, <1>6 DEF Newer
<1>10. /\ written' \in written..RowBound
       /\ 1..written' \subseteq (1..written) \cup Numbers(rows) /\ Numbers(rows) \subseteq 1..written'
  BY <1>2, <1>6, <1>8, WindowBounds
<1>11. Unsaved = {}
  BY <1>1 DEF Unsaved
<1> QED BY <1>1, <1>2, <1>4, <1>7, <1>9, <1>10, <1>11, SaveKeeps

LEMMA TurnPromptsKeeps ==
  ASSUME CutIInv, NEW subagent \in BOOLEAN, TurnPrompts(subagent)
  PROVE  CutIInv'
<1> DEFINE n == written + 1
           saved == IF subagent THEN Row(n, "assistant", "report", {}) ELSE User(n)
           rows == <<saved>>
<1>1. /\ stage = "compacting" /\ written < RowBound /\ turnRows' = <<User(n)>>
      /\ written' = n /\ CappedSave(Append(messages, saved)) /\ stage' = "running"
  BY DEF TurnPrompts
<1>2. /\ written \in Nat /\ Numbers(messages) \cup archived \subseteq 1..written
      /\ messages \in Seq(WindowRow)
  BY WindowBounds DEF CutIInv, WindowTypeOK
<1>3. saved \in WindowRow /\ saved.n = written + 1 /\ Simple(saved)
  <2> DEFINE report == Row(n, "assistant", "report", {})
  <2>1. report \in WindowRow /\ report.n = n /\ Simple(report)
    BY <1>2, RowIs
  <2>2. User(n) \in WindowRow /\ User(n).n = n /\ Simple(User(n))
    BY <1>2, RowIs DEF User
  <2> QED BY <2>1, <2>2
<1> HIDE DEF saved
<1>4. rows \in Seq(WindowRow) /\ Ordered(rows) /\ Numbers(rows) = {written + 1}
  BY <1>3, OneRow
<1>5. Append(messages, saved) = messages \o rows
  BY <1>2, <1>3, AppendIsConcat
<1> HIDE DEF rows
<1>6. Newer(rows)
  BY <1>2, <1>4 DEF Newer
<1>7. /\ written' \in written..RowBound /\ written' > written
      /\ 1..written' \subseteq (1..written) \cup Numbers(rows) /\ Numbers(rows) \subseteq 1..written'
  BY <1>1, <1>2, <1>4, WindowBounds
<1>8. Unsaved = {}
  BY <1>1 DEF Unsaved
<1>9. CappedSave(messages \o rows) /\ turnRows' = <<User(written')>>
  BY <1>1, <1>5
<1> QED BY <1>1, <1>4, <1>6, <1>7, <1>8, <1>9, SaveKeeps

(* The rows of a turn after its prompt.                                    *)
LEMMA TailNumbers ==
  ASSUME NEW s \in Seq(WindowRow), Rising(s), s # <<>>
  PROVE  /\ Tail(s) \in Seq(WindowRow) /\ Rising(Tail(s)) /\ s[1].n \in Numbers(s)
         /\ Numbers(Tail(s)) = Numbers(s) \ {s[1].n}
         /\ \A x \in Numbers(Tail(s)) : s[1].n < x
         /\ Ordered(s) /\ s[1].role # "assistant" => Ordered(Tail(s))
<1> DEFINE m == Len(s)
<1>1. /\ m \in Nat /\ DOMAIN s = 1..m /\ \A i \in 1..m : s[i].n \in Nat
  BY WindowRows
<1>2. m >= 1
  <2>1. Len(s) \in Nat \ {0}
    BY EmptySeq
  <2> QED BY <2>1
<1>3. Tail(s) = SubSeq(s, 2, m)
  BY TailIsSubSeq
<1>4. /\ Cut(SubSeq(s, 2, m), s) /\ SubSeq(s, 2, m) \in Seq(WindowRow)
      /\ Numbers(SubSeq(s, 2, m)) = NumbersAt(s, 2, m)
  <2>1. 2 \in Nat /\ 1 <= 2 /\ 2 <= m + 1 /\ m <= Len(s)
    BY <1>1, <1>2
  <2> QED BY <1>1, <2>1, CutOf, NumberSets
<1>5. \A i \in 2..m : i \in 1..m /\ s[1].n < s[i].n
  <2>1. ASSUME NEW i \in 2..m PROVE i \in 1..m /\ s[1].n < s[i].n
    <3>1. 1 \in 1..m /\ i \in 1..m /\ 1 < i
      BY <1>1, <1>2
    <3> QED BY <3>1, Different
  <2> QED BY <2>1
<1> HIDE DEF m
<1>6. \A x \in NumbersAt(s, 2, m) : x \in Numbers(s) /\ s[1].n < x
  BY <1>1, <1>5 DEF NumbersAt, Numbers
<1>7. 1 \in 1..m /\ \A i \in 1..m : i = 1 \/ i \in 2..m
  BY <1>1, <1>2
<1>8. Numbers(s) \ {s[1].n} \subseteq NumbersAt(s, 2, m)
  BY <1>1, <1>7 DEF NumbersAt, Numbers
<1>9. s[1].n \in Numbers(s) /\ s[1].n \in Nat
  BY <1>1, <1>7 DEF Numbers
<1>10. NumbersAt(s, 2, m) \subseteq Numbers(s) \ {s[1].n}
  BY <1>6, <1>9
<1>11. Rising(SubSeq(s, 2, m))
  BY <1>4, CutRises
<1>12. ASSUME Ordered(s), s[1].role # "assistant" PROVE Ordered(Tail(s))
  <2> DEFINE t == Tail(s)
  <2>1. /\ t \in Seq(WindowRow) /\ Len(t) = m - 1 /\ \A i \in 1..Len(t) : t[i] = s[i + 1]
    BY HeadTailProperties DEF m
  <2> HIDE DEF t
  <2>2. DOMAIN t = 1..m - 1
    BY <2>1, WindowRows
  <2>3. \A i \in 1..m - 1 : i + 1 \in 1..m /\ t[i] = s[i + 1]
    BY <1>1, <2>1
  <2>4. Labelled(t)
    <3>1. ASSUME NEW i \in 1..m - 1 PROVE LabelledRow(t[i])
      <4>1. PICK j \in 1..m : t[i] = s[j]
        BY <2>3
      <4>2. LabelledRow(s[j])
        BY <1>1, <1>12 DEF Ordered, Labelled
      <4> QED BY <4>1, <4>2
    <3> QED BY <3>1, <2>2 DEF Labelled
  <2>5. ASSUME NEW i \in 1..m - 1, t[i].role = "tool"
        PROVE  \E k \in 1..i - 1 : /\ t[k].role = "assistant" /\ t[i].answers \in t[k].calls
                                   /\ \A j \in k + 1..i : t[j].role = "tool"
    <3>1. i + 1 \in 1..m /\ t[i] = s[i + 1]
      BY <2>3
    <3>2. PICK k \in 1..(i + 1) - 1 :
            /\ s[k].role = "assistant" /\ s[i + 1].answers \in s[k].calls
            /\ \A j \in k + 1..i + 1 : s[j].role = "tool"
      BY <1>1, <1>12, <2>5, <3>1 DEF Ordered, Grouped
    <3>3. k # 1
      BY <1>12, <3>2
    <3> DEFINE c == k - 1
    <3>4. c \in 1..i - 1 /\ c \in 1..m - 1 /\ c + 1 = k
      BY <1>1, <3>3
    <3> HIDE DEF c
    <3>5. t[c] = s[k]
      BY <2>3, <3>4
    <3>6. ASSUME NEW j \in c + 1..i PROVE t[j].role = "tool"
      <4>1. j + 1 \in k + 1..i + 1 /\ j \in 1..m - 1
        BY <1>1, <3>4
      <4> QED BY <2>3, <3>2, <4>1
    <3> QED BY <3>1, <3>2, <3>4, <3>5, <3>6
  <2>6. Grouped(t)
    BY <2>2, <2>5 DEF Grouped
  <2>7. Rising(t)
    BY <1>3, <1>11 DEF t
  <2> QED BY <2>4, <2>6, <2>7 DEF Ordered, t
<1> QED BY <1>3, <1>4, <1>6, <1>8, <1>9, <1>10, <1>11, <1>12

LEMMA GrowsKeeps ==
  ASSUME CutIInv, stage = "running", NEW rows \in Seq(WindowRow), Ordered(rows),
         written' \in written..RowBound, Numbers(rows) = written + 1..written',
         turnRows' = turnRows \o rows,
         UNCHANGED <<messages, consolidated, archived, again, stage>>
  PROVE  CutIInv'
<1> DEFINE u == turnRows \o rows  prompt == turnRows[1].n
<1>1. /\ turnRows \in Seq(WindowRow) /\ Rising(turnRows) /\ Ordered(turnRows) /\ turnRows # <<>>
      /\ Numbers(turnRows) \subseteq 1..written /\ written \in Nat /\ turnRows[1].role = "user"
      /\ Numbers(messages) \cup archived \subseteq 1..prompt
      /\ Numbers(messages) \cup archived \subseteq 1..written
      /\ (1..written \ Numbers(Tail(turnRows))) \ Numbers(messages) \subseteq archived
      /\ Rising(rows)
  BY WindowBounds DEF CutIInv, WindowTypeOK, CutIsArchived, Unsaved, Ordered
<1>2. \A x \in Numbers(turnRows), y \in Numbers(rows) : x < y
  BY <1>1
<1>3. /\ u \in Seq(WindowRow) /\ Len(u) = Len(turnRows) + Len(rows) /\ Rising(u)
      /\ Numbers(u) = Numbers(turnRows) \cup Numbers(rows) /\ Ordered(u)
  BY <1>1, <1>2, Joined, JoinedInOrder
<1>4. Len(turnRows) \in Nat \ {0} /\ Len(rows) \in Nat
  BY <1>1, EmptySeq, WindowRows
<1>5. u[1] = turnRows[1] /\ u # <<>>
  <2>1. 1 \in 1..Len(turnRows) + Len(rows) /\ 1 <= Len(turnRows)
    BY <1>4
  <2>2. u[1] = IF 1 <= Len(turnRows) THEN turnRows[1] ELSE rows[1 - Len(turnRows)]
    BY <1>1, <2>1, ConcatProperties
  <2>3. u # <<>>
    <3> HIDE DEF u
    <3>1. Len(u) # 0
      BY <1>3, <1>4
    <3> QED BY <3>1
  <2> QED BY <2>1, <2>2, <2>3
<1> HIDE DEF u
<1>6. /\ Numbers(Tail(turnRows)) = Numbers(turnRows) \ {prompt} /\ prompt \in Numbers(turnRows)
  BY <1>1, TailNumbers
<1>7. Numbers(Tail(u)) = Numbers(u) \ {prompt}
  BY <1>3, <1>5, TailNumbers
<1> HIDE DEF prompt
<1>8. prompt \in 1..written
  BY <1>1, <1>6
<1>9. Numbers(Tail(u)) = Numbers(Tail(turnRows)) \cup Numbers(rows)
  <2>1. prompt \notin written + 1..written'
    BY <1>1, <1>8
  <2>2. prompt \notin Numbers(rows)
    BY <2>1
  <2> QED BY <1>3, <1>6, <1>7, <2>2
<1>10. 1..written' \subseteq (1..written) \cup Numbers(rows)
  BY <1>1
<1>11. (1..written' \ Numbers(Tail(u))) \ Numbers(messages) \subseteq archived
  BY <1>1, <1>9, <1>10
<1>12. /\ written' \in Nat /\ written' \in 0..RowBound /\ written \in 0..written'
       /\ Numbers(rows) \subseteq 1..written'
  BY <1>1, WindowBounds
<1>13. Numbers(messages) \cup Numbers(u) \cup archived \subseteq 1..written'
  BY <1>1, <1>3, <1>12
<1>14. turnRows' = u /\ stage' = "running"
  BY DEF u
<1>15. WindowTypeOK'
  BY <1>3, <1>5, <1>12, <1>13, <1>14 DEF CutIInv, WindowTypeOK
<1>16. CutIsArchived'
  <2>1. Unsaved' = Numbers(Tail(u))
    BY <1>14 DEF Unsaved
  <2> QED BY <1>11, <2>1 DEF CutIInv, CutIsArchived
<1>17. Ordered(messages') /\ Ordered(turnRows') /\ turnRows'[1].role = "user"
  BY <1>1, <1>3, <1>5, <1>14 DEF CutIInv
<1>18. Numbers(messages') \cup archived' \subseteq 1..turnRows'[1].n
  BY <1>1, <1>5, <1>14 DEF prompt
<1> QED BY <1>15, <1>16, <1>17, <1>18 DEF CutIInv

LEMMA RoundIs ==
  ASSUME NEW n \in Nat, NEW width \in 1..2
  PROVE  /\ Round(n, width) \in Seq(WindowRow) /\ Len(Round(n, width)) = width + 1
         /\ Ordered(Round(n, width)) /\ Numbers(Round(n, width)) = n..n + width
<1> DEFINE calls == Row(n, "assistant", "plain", 2*n .. 2*n + width - 1)
           results == [i \in 1..width |-> Result(n + i, 2*n + i - 1)]
<1>1. /\ calls \in WindowRow /\ calls.n = n /\ calls.role = "assistant" /\ calls.kind = "plain"
      /\ calls.calls = 2*n .. 2*n + width - 1 /\ calls.answers = NoCall
  BY DEF Row, WindowRow, NoCall
<1>2. \A i \in 1..width : /\ results[i] \in WindowRow /\ results[i].n = n + i
                          /\ results[i].role = "tool" /\ results[i].kind = "plain"
                          /\ results[i].calls = {} /\ results[i].answers = 2*n + i - 1
  BY DEF Result, Row, WindowRow, NoCall
<1>3. results \in [1..width -> WindowRow]
  <2>1. DOMAIN results = 1..width
    OBVIOUS
  <2> QED BY <1>2, <2>1
<1>4. width \in Nat
  OBVIOUS
<1> HIDE DEF calls, results
<1>5. results \in Seq(WindowRow) /\ Len(results) = width /\ DOMAIN results = 1..width
  BY <1>3, <1>4, SeqDef, LenProperties
<1>6. Rising(results)
  BY <1>2, <1>5 DEF Rising
<1>7. Numbers(results) = n + 1..n + width
  <2>1. \A x \in n + 1..n + width : x - n \in 1..width /\ n + (x - n) = x
    BY <1>4
  <2>2. \A i \in 1..width : n + i \in n + 1..n + width
    BY <1>4
  <2>3. n + 1..n + width \subseteq Numbers(results)
    <3>1. ASSUME NEW x \in n + 1..n + width PROVE x \in Numbers(results)
      <4>1. results[x - n].n = x
        BY <1>2, <2>1
      <4> QED BY <1>5, <2>1, <4>1 DEF Numbers
    <3> QED BY <3>1
  <2>4. \A i \in 1..width : results[i].n \in n + 1..n + width
    BY <1>2, <2>2
  <2>5. Numbers(results) \subseteq n + 1..n + width
    BY <1>5, <2>4 DEF Numbers
  <2> QED BY <2>3, <2>5
<1>8. <<calls>> \in Seq(WindowRow) /\ Len(<<calls>>) = 1 /\ Rising(<<calls>>) /\ Numbers(<<calls>>) = {n}
  BY <1>1, OneRow
<1>9. \A x \in Numbers(<<calls>>), y \in Numbers(results) : x < y
  <2>1. \A y \in n + 1..n + width : n < y
    OBVIOUS
  <2> QED BY <1>7, <1>8, <2>1
<1> DEFINE first == <<calls>>
<1> HIDE DEF first
<1>10. /\ first \o results \in Seq(WindowRow) /\ Len(first \o results) = Len(first) + Len(results)
       /\ Rising(first \o results)
       /\ Numbers(first \o results) = Numbers(first) \cup Numbers(results)
  BY <1>5, <1>6, <1>8, <1>9, Joined DEF first
<1>11. Round(n, width) = first \o results
  BY DEF Round, first, calls, results
<1>12. {n} \cup (n + 1..n + width) = n..n + width
  BY <1>4
<1>13. Len(first) = 1 /\ Numbers(first) = {n}
  BY <1>8 DEF first
<1>14. 1 + width = width + 1
  BY <1>4
<1>15. Len(Round(n, width)) = width + 1
  BY <1>5, <1>10, <1>11, <1>13, <1>14
<1>16. Numbers(Round(n, width)) = n..n + width
  BY <1>7, <1>10, <1>11, <1>12, <1>13
<1> DEFINE u == Round(n, width)
<1>17. u \in Seq(WindowRow) /\ DOMAIN u = 1..width + 1 /\ u[1] = calls
       /\ \A i \in 2..width + 1 : i - 1 \in 1..width /\ u[i] = results[i - 1]
  <2>1. u \in Seq(WindowRow) /\ Len(u) = width + 1
    BY <1>10, <1>11, <1>15
  <2>2. \A i \in 1..1 + width : u[i] = IF i <= 1 THEN first[i] ELSE results[i - 1]
    <3>1. \A i \in 1..Len(first) + Len(results) :
            (first \o results)[i] = IF i <= Len(first) THEN first[i] ELSE results[i - Len(first)]
      BY <1>5, <1>8, ConcatProperties DEF first
    <3> QED BY <1>5, <1>11, <1>13, <3>1
  <2>3. first[1] = calls
    BY <1>1, OneRow DEF first
  <2> HIDE DEF u
  <2>4. DOMAIN u = 1..width + 1
    BY <2>1, WindowRows
  <2>5. u[1] = calls
    BY <1>4, <2>2, <2>3
  <2>6. \A i \in 2..width + 1 : i - 1 \in 1..width /\ u[i] = results[i - 1]
    BY <1>4, <2>2
  <2> QED BY <2>1, <2>4, <2>5, <2>6
<1> HIDE DEF u
<1>18. \A i \in 1..width + 1 : i = 1 \/ i \in 2..width + 1
  BY <1>4
<1>19. Labelled(u)
  <2>1. calls.calls \subseteq {2 * n, 2 * n + 1}
    BY <1>1
  <2>2. LabelledRow(u[1])
    BY <1>1, <1>17, <2>1 DEF LabelledRow
  <2>3. ASSUME NEW i \in 2..width + 1 PROVE LabelledRow(u[i])
    <3>1. u[i].role = "tool" /\ u[i].kind = "plain" /\ u[i].calls = {}
      <4> DEFINE k == i - 1
      <4>1. k \in 1..width /\ u[i] = results[k]
        BY <1>17
      <4> HIDE DEF k
      <4> QED BY <1>2, <4>1
    <3> QED BY <3>1 DEF LabelledRow
  <2>4. \A i \in 1..width + 1 : LabelledRow(u[i])
    BY <1>18, <2>2, <2>3
  <2> QED BY <1>17, <2>4 DEF Labelled
<1>20. Grouped(u)
  <2>1. ASSUME NEW i \in 1..width + 1, u[i].role = "tool"
        PROVE  \E k \in 1..i - 1 : /\ u[k].role = "assistant" /\ u[i].answers \in u[k].calls
                                   /\ \A j \in k + 1..i : u[j].role = "tool"
    <3>1. i \in 2..width + 1
      BY <1>1, <1>17, <1>18, <2>1
    <3>2. u[i].answers = 2*n + (i - 1) - 1
      BY <1>2, <1>17, <3>1
    <3>3. u[i].answers \in u[1].calls /\ u[1].role = "assistant"
      <4>1. 2*n + (i - 1) - 1 \in 2*n .. 2*n + width - 1
        BY <1>4, <3>1
      <4> QED BY <1>1, <1>17, <3>2, <4>1
    <3>4. \A j \in 1 + 1..i : j \in 2..width + 1
      BY <1>4, <3>1
    <3>5. ASSUME NEW j \in 1 + 1..i PROVE u[j].role = "tool"
      <4>1. j - 1 \in 1..width /\ u[j] = results[j - 1]
        BY <1>17, <3>4
      <4> QED BY <1>2, <4>1
    <3>6. 1 \in 1..i - 1
      BY <3>1
    <3> QED BY <3>3, <3>5, <3>6
  <2> QED BY <1>17, <2>1 DEF Grouped
<1>21. Ordered(u)
  BY <1>10, <1>11, <1>19, <1>20 DEF Ordered, u
<1> QED BY <1>10, <1>11, <1>15, <1>16, <1>21 DEF u

LEMMA ToolRoundKeeps ==
  ASSUME CutIInv, NEW width \in 1..2, ToolRound(width)
  PROVE  CutIInv'
<1> DEFINE n == written + 1  rows == Round(n, width)
<1>1. /\ stage = "running" /\ Write(rows) /\ turnRows' = turnRows \o rows
      /\ UNCHANGED <<messages, consolidated, archived, again, stage, history>>
  BY DEF ToolRound
<1>2. written \in Nat /\ n \in Nat
  BY WindowBounds DEF CutIInv, WindowTypeOK
<1> HIDE DEF n
<1>3. /\ rows \in Seq(WindowRow) /\ Len(rows) = width + 1
      /\ Ordered(rows) /\ Numbers(rows) = n..n + width
  BY <1>2, RoundIs
<1> HIDE DEF rows
<1>4. written' = written + (width + 1) /\ written' <= RowBound
  BY <1>1, <1>3 DEF Write
<1>5. written' \in written..RowBound /\ n..n + width = written + 1..written'
  BY <1>2, <1>4, WindowBounds DEF n
<1>6. Numbers(rows) = written + 1..written'
  BY <1>3, <1>5
<1> QED BY <1>1, <1>3, <1>5, <1>6, GrowsKeeps

LEMMA InjectKeeps ==
  ASSUME CutIInv, Inject
  PROVE  CutIInv'
<1> DEFINE row == User(written + 1)  rows == <<row>>
<1>1. /\ stage = "running" /\ Write(rows) /\ turnRows' = Append(turnRows, row)
      /\ UNCHANGED <<messages, consolidated, archived, again, stage, history>>
  BY DEF Inject
<1>2. written \in Nat /\ turnRows \in Seq(WindowRow)
  BY WindowBounds DEF CutIInv, WindowTypeOK
<1>3. row \in WindowRow /\ row.n = written + 1 /\ Simple(row)
  BY <1>2, RowIs DEF User
<1> HIDE DEF row
<1>4. rows \in Seq(WindowRow) /\ Len(rows) = 1 /\ Ordered(rows) /\ Numbers(rows) = {written + 1}
  BY <1>3, OneRow
<1>5. Append(turnRows, row) = turnRows \o rows
  BY <1>2, <1>3, AppendIsConcat
<1> HIDE DEF rows
<1>6. written' = written + 1 /\ written' <= RowBound
  BY <1>1, <1>4 DEF Write
<1>7. written' \in written..RowBound /\ {written + 1} = written + 1..written'
  BY <1>2, <1>6, WindowBounds
<1>8. Numbers(rows) = written + 1..written' /\ turnRows' = turnRows \o rows
  BY <1>1, <1>4, <1>5, <1>7
<1> QED BY <1>1, <1>4, <1>7, <1>8, GrowsKeeps

LEMMA TurnAnswersKeeps ==
  ASSUME CutIInv, TurnAnswers
  PROVE  CutIInv'
<1> DEFINE rest == Tail(turnRows)  row == Assistant(written + 1)  last == <<row>>
           rows == rest \o last  prompt == turnRows[1].n
<1>1. /\ stage = "running" /\ written < RowBound /\ written' = written + 1
      /\ CappedSave(messages \o rest \o last) /\ stage' = "none" /\ turnRows' = <<>>
  BY DEF TurnAnswers
<1>2. /\ turnRows \in Seq(WindowRow) /\ Rising(turnRows) /\ turnRows # <<>>
      /\ Ordered(turnRows) /\ turnRows[1].role = "user"
      /\ Numbers(turnRows) \subseteq 1..written /\ written \in Nat
      /\ Numbers(messages) \cup archived \subseteq 1..prompt
      /\ Numbers(messages) \cup archived \subseteq 1..written
      /\ messages \in Seq(WindowRow) /\ Unsaved = Numbers(rest)
  BY <1>1, WindowBounds DEF CutIInv, WindowTypeOK, Unsaved, Ordered
<1>3. /\ rest \in Seq(WindowRow) /\ Rising(rest) /\ Ordered(rest) /\ Numbers(rest) \subseteq Numbers(turnRows)
      /\ \A x \in Numbers(rest) : prompt < x
      /\ prompt \in Numbers(turnRows)
  BY <1>2, TailNumbers
<1>4. row \in WindowRow /\ row.n = written + 1 /\ Simple(row)
  BY <1>2, RowIs DEF Assistant
<1> HIDE DEF row, rest
<1>5. last \in Seq(WindowRow) /\ Len(last) = 1 /\ Rising(last) /\ Ordered(last) /\ Numbers(last) = {written + 1}
  BY <1>4, OneRow
<1> HIDE DEF last
<1>6. \A x \in Numbers(rest), y \in Numbers(last) : x < y
  BY <1>2, <1>3, <1>5
<1>7. rows \in Seq(WindowRow) /\ Ordered(rows) /\ Numbers(rows) = Numbers(rest) \cup Numbers(last)
  BY <1>3, <1>5, <1>6, Joined, JoinedInOrder
<1>8. messages \o rest \o last = messages \o rows
  BY <1>2, <1>3, <1>5, RowsJoin
<1> HIDE DEF rows
<1>9. prompt \in 1..written
  BY <1>2, <1>3
<1> HIDE DEF prompt
<1>10. Newer(rows)
  <2>1. ASSUME NEW x \in Numbers(messages) \cup archived, NEW y \in Numbers(rows) PROVE x < y
    <3>1. x \in 1..prompt /\ x \in 1..written
      BY <1>2
    <3>2. CASE y \in Numbers(rest)
      <4>1. prompt < y /\ y \in 1..written
        BY <1>2, <1>3, <3>2
      <4> QED BY <1>9, <3>1, <4>1
    <3>3. CASE y = written + 1
      BY <1>2, <3>1, <3>3
    <3> QED BY <1>5, <1>7, <3>2, <3>3
  <2> QED BY <2>1 DEF Newer
<1>11. /\ written' \in written..RowBound
       /\ 1..written' \subseteq (1..written) \cup {written + 1} /\ 1..written \subseteq 1..written'
       /\ written + 1 \in 1..written'
  BY <1>1, <1>2, WindowBounds
<1>12. 1..written' \subseteq (1..written) \cup Numbers(rows) /\ Numbers(rows) \subseteq 1..written'
  BY <1>2, <1>3, <1>5, <1>7, <1>11
<1>13. Unsaved \subseteq Numbers(rows)
  BY <1>2, <1>7
<1>14. CappedSave(messages \o rows)
  BY <1>1, <1>8
<1> QED BY <1>1, <1>7, <1>10, <1>11, <1>12, <1>13, <1>14, SaveKeeps

LEMMA WindowStarts == WindowInit => CutIInv
<1> SUFFICES ASSUME WindowInit PROVE CutIInv
  OBVIOUS
<1> DEFINE s == messages
<1>1. /\ written = Len(s) /\ consolidated = 0 /\ archived = {} /\ again = {}
      /\ stage = "none" /\ turnRows = <<>>
  BY DEF WindowInit
<1>2. /\ s \in Seq(WindowRow) /\ Ordered(s) /\ Len(s) \in 0..4 /\ Numbers(s) = 1..Len(s)
  <2>1. CASE s = <<>>
    <3>1. 1..0 = {} /\ 0 \in 0..4
      OBVIOUS
    <3> QED BY <2>1, <3>1, NoRows
  <2>2. CASE s = Old
    <3> DEFINE a == User(1)
               b == [Row(2, "assistant", "plain", {4}) EXCEPT !.nameless = {4}]
               c == Result(3, 4)
               d == Row(4, "assistant", "placeholder", {})
    <3>1. /\ a \in WindowRow /\ a.n = 1 /\ a.role = "user" /\ a.kind = "plain" /\ a.calls = {}
          /\ b \in WindowRow /\ b.n = 2 /\ b.role = "assistant" /\ b.kind = "plain" /\ b.calls = {4}
          /\ a.answers = NoCall /\ b.answers = NoCall
      BY DEF User, Row, WindowRow, NoCall
    <3>2. /\ c \in WindowRow /\ c.n = 3 /\ c.kind = "plain" /\ c.calls = {} /\ c.answers = 4
          /\ c.role = "tool"
          /\ d \in WindowRow /\ d.n = 4 /\ d.role = "assistant" /\ d.kind = "placeholder" /\ d.calls = {}
          /\ d.answers = NoCall
      BY DEF Result, Row, WindowRow, NoCall
    <3>3. s = <<a, b, c, d>>
      BY <2>2 DEF Old
    <3> HIDE DEF a, b, c, d, s
    <3>4. s \in Seq(WindowRow) /\ Len(s) = 4 /\ s[1] = a /\ s[2] = b /\ s[3] = c /\ s[4] = d
      BY <3>1, <3>2, <3>3
    <3>5. DOMAIN s = 1..4
      BY <3>4, WindowRows
    <3>0. \A i \in 1..4 : i = 1 \/ i = 2 \/ i = 3 \/ i = 4
      OBVIOUS
    <3>6. \A i \in 1..4 : s[i].n = i
      <4>1. s[1].n = 1 /\ s[2].n = 2 /\ s[3].n = 3 /\ s[4].n = 4
        BY <3>1, <3>2, <3>4
      <4> QED BY <3>0, <4>1
    <3>7. Rising(s)
      BY <3>5, <3>6 DEF Rising
    <3>8. Numbers(s) = 1..4
      BY <3>5, <3>6 DEF Numbers
    <3>9. Labelled(s)
      <4>1. LabelledRow(a) /\ LabelledRow(b) /\ LabelledRow(c) /\ LabelledRow(d)
        BY <3>1, <3>2 DEF LabelledRow
      <4> QED BY <4>1, <3>0, <3>4, <3>5 DEF Labelled
    <3>10. Grouped(s)
      <4>1. \A i \in 1..4 : s[i].role = "tool" => i = 3
        BY <3>0, <3>1, <3>2, <3>4
      <4>2. /\ 2 \in 1..3 - 1 /\ s[2].role = "assistant" /\ s[3].answers \in s[2].calls
            /\ \A j \in 2 + 1..3 : s[j].role = "tool"
        <5>1. \A j \in 2 + 1..3 : j = 3
          OBVIOUS
        <5> QED BY <3>1, <3>2, <3>4, <5>1
      <4> QED BY <3>5, <4>1, <4>2 DEF Grouped
    <3> QED BY <3>4, <3>7, <3>8, <3>9, <3>10 DEF Ordered
  <2> QED BY <2>1, <2>2 DEF WindowInit
<1>3. turnRows \in Seq(WindowRow) /\ Ordered(turnRows) /\ Numbers(turnRows) = {}
  BY <1>1, NoRows
<1> HIDE DEF s
<1>4. WindowTypeOK
  <2> DEFINE l == Len(s)
  <2>0. l \in 0..4
    BY <1>2
  <2> HIDE DEF l
  <2>1. l \in 0..RowBound /\ l <= RowCap /\ 0 \in 0..l
    BY <2>0, WindowBounds
  <2> QED BY <1>1, <1>2, <1>3, <2>1 DEF WindowTypeOK, s, l
<1>5. CutIsArchived
  <2>1. Unsaved = {}
    BY <1>1 DEF Unsaved
  <2>2. Numbers(SubSeq(s, 1, 0)) = {}
    <3>1. SubSeq(s, 1, 0) = <<>>
      BY SubSeqEmpty
    <3> QED BY <3>1, NoRows
  <2> QED BY <1>1, <1>2, <2>1, <2>2 DEF CutIsArchived, s
<1> QED BY <1>1, <1>2, <1>3, <1>4, <1>5 DEF CutIInv, s

(* Every step keeps CutIInv (Session and Consolidator).                 *)
THEOREM CutInvariant == WindowSpec => []CutIInv
<1>1. WindowInit => CutIInv
  BY WindowStarts
<1>2. CutIInv /\ [WindowNext]_windowVars => CutIInv'
  <2> SUFFICES ASSUME CutIInv, [WindowNext]_windowVars PROVE CutIInv'
    OBVIOUS
  <2>1. CASE Deliver
    BY <2>1, DeliverKeeps
  <2>2. CASE Command
    BY <2>2, CommandKeeps
  <2>3. CASE CompactIdle
    BY <2>3, CompactIdleKeeps
  <2>4. CASE TurnOpens
    BY <2>4, TurnOpensKeeps
  <2>5. CASE TokenRound
    BY <2>5, TokenRoundKeeps
  <2>6. CASE \E subagent \in BOOLEAN : TurnPrompts(subagent)
    BY <2>6, TurnPromptsKeeps
  <2>7. CASE \E width \in 1..2 : ToolRound(width)
    BY <2>7, ToolRoundKeeps
  <2>8. CASE Inject
    BY <2>8, InjectKeeps
  <2>9. CASE TurnAnswers
    BY <2>9, TurnAnswersKeeps
  <2>10. CASE UNCHANGED windowVars
    BY <2>10 DEF windowVars, CutIInv, WindowTypeOK, CutIsArchived, Unsaved
  <2> QED BY <2>1, <2>2, <2>3, <2>4, <2>5, <2>6, <2>7, <2>8, <2>9, <2>10 DEF WindowNext
<1> QED BY <1>1, <1>2, PTL DEF WindowSpec

(* What is cut away, or hidden, is archived, and archived once (Session,   *)
(* enforce_file_cap; Consolidator).                                        *)
THEOREM EverythingCutIsArchived == WindowSpec => []CutIsArchived
<1>1. CutIInv => CutIsArchived
  BY DEF CutIInv
<1> QED BY <1>1, CutInvariant, PTL

(***************************************************************************)
(* What the boundary leaves is what the window of the turn shows.          *)
(***************************************************************************)
Ends(t, s) == CutAt(t, s, Len(s) - Len(t))

LEMMA FromEnds ==
  ASSUME NEW s \in Seq(WindowRow), NEW i \in 1..Len(s) + 1
  PROVE  Ends(From(s, i), s)
<1>1. Len(s) \in Nat
  BY WindowRows
<1>2. i \in Nat /\ 1 <= i /\ i <= Len(s) + 1 /\ Len(s) <= Len(s)
  BY <1>1
<1>3. CutAt(From(s, i), s, i - 1) /\ Len(From(s, i)) = Len(s) - i + 1
  BY <1>1, <1>2, CutOf DEF From
<1> DEFINE n == Len(From(s, i))
<1>4. Len(s) - n = i - 1
  BY <1>1, <1>2, <1>3
<1> QED BY <1>3, <1>4 DEF Ends

LEMMA EndsFacts ==
  ASSUME NEW s \in Seq(WindowRow), NEW t, Ends(t, s)
  PROVE  /\ t \in Seq(WindowRow) /\ Len(t) \in 0..Len(s) /\ Cut(t, s)
         /\ From(s, Len(s) - Len(t) + 1) = t
<1> DEFINE d == Len(s) - Len(t)  i == d + 1  u == From(s, i)
<1>1. /\ t \in Seq(WindowRow) /\ d \in Nat /\ d + Len(t) <= Len(s)
      /\ \A k \in 1..Len(t) : t[k] = s[d + k]
  BY DEF Ends, CutAt
<1>2. Len(s) \in Nat /\ Len(t) \in Nat
  BY <1>1, WindowRows
<1>3. Cut(t, s)
  BY <1>1 DEF Ends, Cut
<1>4. i \in 1..Len(s) + 1 /\ Len(s) - i + 1 = Len(t)
  BY <1>1, <1>2
<1> HIDE DEF i
<1>5. /\ u \in Seq(WindowRow) /\ Len(u) = Len(s) - i + 1
      /\ \A k \in 1..Len(s) - i + 1 : u[k] = s[i + k - 1]
  BY <1>4, FromCut
<1> HIDE DEF u
<1>6. \A k \in 1..Len(t) : u[k] = t[k]
  <2>1. ASSUME NEW k \in 1..Len(t) PROVE u[k] = t[k]
    <3>1. i + k - 1 = d + k /\ k \in 1..Len(s) - i + 1
      BY <1>1, <1>2, <1>4 DEF i
    <3>2. u[k] = s[i + k - 1]
      BY <1>5, <3>1
    <3> QED BY <1>1, <3>1, <3>2
  <2> QED BY <2>1
<1>7. u = t
  BY <1>1, <1>4, <1>5, <1>6, SeqEqual
<1> QED BY <1>1, <1>2, <1>3, <1>7 DEF u, i

LEMMA EndsOfEnds ==
  ASSUME NEW s \in Seq(WindowRow), NEW t, NEW u, Ends(t, s), Ends(u, t)
  PROVE  Ends(u, s)
<1> DEFINE d == Len(s) - Len(t)  e == Len(t) - Len(u)  f == Len(s) - Len(u)
<1>1. /\ t \in Seq(WindowRow) /\ d \in Nat /\ d + Len(t) <= Len(s)
      /\ \A k \in 1..Len(t) : t[k] = s[d + k]
      /\ u \in Seq(WindowRow) /\ e \in Nat /\ e + Len(u) <= Len(t)
      /\ \A k \in 1..Len(u) : u[k] = t[e + k]
  BY DEF Ends, CutAt
<1>2. Len(s) \in Nat /\ Len(t) \in Nat /\ Len(u) \in Nat
  BY <1>1, WindowRows
<1>3. ASSUME NEW k \in 1..Len(u) PROVE u[k] = s[f + k]
  <2>1. e + k \in 1..Len(t) /\ d + (e + k) = f + k
    BY <1>1, <1>2
  <2>2. t[e + k] = s[d + (e + k)]
    BY <1>1, <2>1
  <2> QED BY <1>1, <2>1, <2>2
<1>4. f \in Nat /\ f + Len(u) <= Len(s)
  BY <1>1, <1>2
<1> QED BY <1>1, <1>3, <1>4 DEF Ends, CutAt

LEMMA WholeIs ==
  ASSUME NEW s \in Seq(WindowRow)
  PROVE  From(s, 1) = s /\ Ends(s, s)
<1>1. Len(s) \in Nat
  BY WindowRows
<1>2. From(s, 1) = s
  BY SubSeqFull DEF From
<1>3. 1 \in 1..Len(s) + 1
  BY <1>1
<1>4. Ends(From(s, 1), s)
  BY <1>3, FromEnds
<1> QED BY <1>2, <1>4

LEMMA LegalEnds ==
  ASSUME NEW s \in Seq(WindowRow)
  PROVE  Ends(Legal(s), s)
<1>1. LegalStart(s) \in 0..Len(s) /\ Len(s) \in Nat
  BY LegalCut, WindowRows
<1>2. LegalStart(s) + 1 \in 1..Len(s) + 1
  BY <1>1
<1> QED BY <1>2, FromEnds DEF Legal

(* A window that opens with a user row, or the delivery before one.        *)
Opened(s, u) ==
  /\ u \in {1, 2} /\ u \in Users(s) /\ \A i \in Users(s) : u <= i
  /\ u = 2 => s[1].kind = "delivery"

LEMMA OpenedStays ==
  ASSUME NEW s \in Seq(WindowRow), NEW u, Opened(s, u)
  PROVE  /\ Opening(s, u) = 1 /\ Min(Users(s)) = u /\ FromOpening(s) = s
<1>1. u \in Users(s) /\ Users(s) \subseteq 1..Len(s) /\ Len(s) \in Nat /\ u \in {1, 2}
  BY WindowRows DEF Opened
<1>2. Opening(s, u) = 1
  BY <1>1 DEF Opening, Opened
<1>3. Min(Users(s)) = u
  <2> DEFINE x == Min(Users(s))
  <2>1. Users(s) \subseteq Nat /\ Users(s) # {}
    BY <1>1
  <2>2. x \in Users(s) /\ \A y \in Users(s) : x <= y
    BY <2>1, MinOf
  <2> HIDE DEF x
  <2>3. x <= u /\ u <= x /\ x \in Nat /\ u \in Nat
    BY <1>1, <2>1, <2>2 DEF Opened
  <2>4. x = u
    BY <2>3
  <2> QED BY <2>4 DEF x
<1>4. FromOpening(s) = From(s, 1)
  BY <1>1, <1>2, <1>3 DEF FromOpening
<1> QED BY <1>2, <1>3, <1>4, WholeIs

LEMMA FromOpeningOpens ==
  ASSUME NEW s \in Seq(WindowRow), Users(s) # {}
  PROVE  Ends(FromOpening(s), s) /\ \E u \in {1, 2} : Opened(FromOpening(s), u)
<1> DEFINE first == Min(Users(s))  open == Opening(s, first)  t == From(s, open)
<1>1. Len(s) \in Nat /\ Users(s) \subseteq 1..Len(s) /\ DOMAIN s = 1..Len(s)
  BY WindowRows
<1>2. first \in Users(s) /\ \A i \in Users(s) : first <= i
  <2>1. Users(s) \subseteq Nat
    BY <1>1
  <2> QED BY <2>1, MinOf
<1>3. \/ open = first
      \/ first > 1 /\ s[first - 1].kind = "delivery" /\ open = first - 1
  BY DEF Opening
<1> HIDE DEF first
<1>4. first \in 1..Len(s)
  BY <1>1, <1>2
<1>5. open \in 1..Len(s) + 1 /\ open \in 1..Len(s) /\ open <= first /\ first <= open + 1
  BY <1>1, <1>3, <1>4
<1>6. FromOpening(s) = t
  BY DEF FromOpening, first
<1> HIDE DEF open
<1>7. /\ Ends(t, s) /\ t \in Seq(WindowRow) /\ Len(t) = Len(s) - open + 1
      /\ \A k \in 1..Len(s) - open + 1 : t[k] = s[open + k - 1]
  BY <1>5, FromEnds, FromCut
<1> HIDE DEF t
<1>8. DOMAIN t = 1..Len(s) - open + 1
  BY <1>7, WindowRows
<1> DEFINE u == first - open + 1
<1>9. u \in {1, 2} /\ u \in 1..Len(s) - open + 1 /\ open + u - 1 = first
  BY <1>1, <1>4, <1>5
<1>10. u \in Users(t)
  <2>1. t[u] = s[first]
    <3>1. t[u] = s[open + u - 1]
      BY <1>7, <1>9
    <3> QED BY <1>9, <3>1
  <2>2. s[first].role = "user"
    BY <1>2 DEF Users
  <2> QED BY <1>8, <1>9, <2>1, <2>2 DEF Users
<1>11. ASSUME NEW i \in Users(t) PROVE u <= i
  <2>1. i \in 1..Len(s) - open + 1 /\ t[i].role = "user"
    BY <1>8 DEF Users
  <2>2. open + i - 1 \in 1..Len(s)
    BY <1>1, <1>5, <2>1
  <2>3. open + i - 1 \in Users(s)
    BY <1>1, <1>7, <2>1, <2>2 DEF Users
  <2>4. first <= open + i - 1
    BY <1>2, <2>3
  <2> QED BY <1>4, <1>5, <2>1, <2>4
<1>12. ASSUME u = 2 PROVE t[1].kind = "delivery"
  <2>1. s[first - 1].kind = "delivery" /\ open = first - 1
    BY <1>3, <1>4, <1>5, <1>12 DEF open
  <2>2. 1 \in 1..Len(s) - open + 1 /\ open + 1 - 1 = first - 1
    BY <1>1, <1>5, <2>1
  <2>3. t[1] = s[open + 1 - 1]
    BY <1>7, <2>2
  <2> QED BY <2>1, <2>2, <2>3
<1>13. Opened(t, u)
  BY <1>9, <1>10, <1>11, <1>12 DEF Opened
<1> QED BY <1>6, <1>7, <1>9, <1>13

LEMMA OpenedIsSupported ==
  ASSUME NEW m \in Seq(WindowRow), Ordered(m), NEW s, Cut(s, m), NEW u, Opened(s, u)
  PROVE  Supported(s)
<1>1. PICK d \in Nat : CutAt(s, m, d)
  BY DEF Cut
<1>2. /\ s \in Seq(WindowRow) /\ d + Len(s) <= Len(m)
      /\ \A i \in 1..Len(s) : s[i] = m[d + i]
  BY <1>1 DEF CutAt
<1>3. /\ Len(s) \in Nat /\ Len(m) \in Nat /\ DOMAIN s = 1..Len(s) /\ DOMAIN m = 1..Len(m)
  BY <1>2, WindowRows
<1>4. u \in {1, 2} /\ u \in 1..Len(s) /\ s[u].role = "user"
  BY <1>3 DEF Opened, Users
<1>5. ASSUME NEW i \in 1..Len(s), s[i].role = "tool" PROVE s[i].answers \in Declared(s, 0, i)
  <2> DEFINE id == s[i].answers  e == d + i  q == d + u
  <2>1. e \in 1..Len(m) /\ s[i] = m[e] /\ q \in 1..Len(m) /\ s[u] = m[q]
    BY <1>2, <1>3, <1>4
  <2>2. i # u
    BY <1>4, <1>5
  <2>3. i > u
    <3>1. SUFFICES ASSUME ~(i > u) PROVE FALSE
      OBVIOUS
    <3>2. u = 2 /\ i = 1
      BY <1>3, <1>4, <2>2, <3>1
    <3>3. s[1].kind = "delivery"
      BY <3>2 DEF Opened
    <3>4. m[e].kind = "delivery" /\ m[e].role = "tool"
      BY <1>5, <2>1, <3>2, <3>3
    <3>5. m[e].role = "assistant"
      BY <1>3, <2>1, <3>4 DEF Ordered, Labelled, LabelledRow
    <3> QED BY <3>4, <3>5
  <2>4. q < e /\ e = d + i /\ q = d + u
    BY <1>3, <1>4, <2>3
  <2> HIDE DEF e, q
  <2>5. m[e].role = "tool" /\ m[e].answers = id /\ m[q].role = "user"
    BY <1>4, <1>5, <2>1
  <2> HIDE DEF id
  <2>6. PICK k \in 1..e - 1 : /\ m[k].role = "assistant" /\ id \in m[k].calls
                              /\ \A j \in k + 1..e : m[j].role = "tool"
    BY <1>3, <2>1, <2>5 DEF Ordered, Grouped
  <2>7. q <= k
    <3>1. q \notin k + 1..e
      BY <2>5, <2>6
    <3> QED BY <1>3, <2>1, <2>4, <3>1
  <2> DEFINE c == k - d
  <2>8. c \in 0 + 1..i - 1 /\ c \in 1..Len(s) /\ d + c = k
    BY <1>3, <1>4, <2>1, <2>4, <2>7
  <2> HIDE DEF c
  <2>9. s[c] = m[k]
    BY <1>2, <2>8
  <2>10. \E j \in 0 + 1..i - 1 : s[j].role = "assistant" /\ id \in s[j].calls
    BY <2>6, <2>8, <2>9
  <2>11. id \in Declared(s, 0, i)
    BY <2>10, DeclaredIs
  <2> QED BY <2>11 DEF id
<1> QED BY <1>5 DEF Supported

LEMMA RecentStartCases ==
  ASSUME NEW s \in Seq(WindowRow), NEW max \in Nat \ {0}, NEW extend \in BOOLEAN
  PROVE  /\ Len(s) <= max => RecentStart(s, max, extend) = 1
         /\ Len(s) > max =>
              LET start == Len(s) - max + 1 IN
              \/ RecentStart(s, max, extend) = start
              \/ /\ extend /\ Users(s) # {} /\ \A i \in Users(s) : i < start
                 /\ RecentStart(s, max, extend) = Opening(s, Max(Users(s)))
         /\ ~extend /\ Len(s) > max => RecentStart(s, max, extend) = Len(s) - max + 1
<1> DEFINE late == Len(s) - max + 1
           start == Max({1, late})
           before == {i \in Users(s) : i < start}
<1>1. Len(s) \in Nat /\ Users(s) \subseteq 1..Len(s)
  BY WindowRows
<1>2. start = IF 1 <= late THEN late ELSE 1
  <2>1. late \in Int /\ 1 \in Int
    BY <1>1
  <2> HIDE DEF late
  <2>2. Max({1, late}) = IF 1 <= late THEN late ELSE 1
    BY <2>1, MinMax
  <2> QED BY <2>2
<1>3. RecentStart(s, max, extend) =
        IF ~extend \/ Users(s) \ before # {} \/ before = {} THEN start
        ELSE Opening(s, Max(before))
  BY DEF RecentStart
<1> HIDE DEF start
<1>4. ASSUME Len(s) <= max PROVE RecentStart(s, max, extend) = 1
  <2>1. start = 1
    BY <1>1, <1>2, <1>4
  <2>2. before = {}
    BY <1>1, <2>1
  <2> QED BY <1>3, <2>1, <2>2
<1>5. ASSUME Len(s) > max
      PROVE  /\ \/ RecentStart(s, max, extend) = late
                \/ /\ extend /\ Users(s) # {} /\ \A i \in Users(s) : i < late
                   /\ RecentStart(s, max, extend) = Opening(s, Max(Users(s)))
             /\ ~extend => RecentStart(s, max, extend) = late
  <2>1. start = late /\ late \in Nat
    BY <1>1, <1>2, <1>5
  <2> HIDE DEF late
  <2>2. CASE ~extend \/ Users(s) \ before # {} \/ before = {}
    BY <1>3, <2>1, <2>2
  <2>3. CASE extend /\ Users(s) \ before = {} /\ before # {}
    <3>1. before = Users(s)
      BY <2>3
    <3>2. RecentStart(s, max, extend) = Opening(s, Max(before))
      BY <1>3, <2>3
    <3>3. \A i \in Users(s) : i < late
      BY <2>1, <3>1
    <3> QED BY <2>3, <3>1, <3>2, <3>3
  <2> QED BY <2>2, <2>3
<1> QED BY <1>4, <1>5

Overflows(s) == Len(s) > ReplayMax
Boundary(t, s) == t = ReplayWindow(s, TRUE)
Reached(t, extend) ==
  extend \/ Users(t) = {} \/ Users(From(t, RecentStart(t, ReplayMax, FALSE))) # {}

LEMMA WindowStays ==
  ASSUME NEW m \in Seq(WindowRow), Ordered(m), NEW s \in Seq(WindowRow), Cut(s, m),
         Overflows(s), NEW extend \in BOOLEAN, NEW t, Boundary(t, s), Reached(t, extend)
  PROVE  Ends(t, s) /\ ReplayWindow(t, extend) = t
<1> DEFINE p == RecentStart(s, ReplayMax, TRUE)  r == From(s, p)  o == FromOpening(r)
           start == Len(s) - ReplayMax + 1
<1>1. /\ Len(s) \in Nat /\ Users(s) \subseteq 1..Len(s) /\ DOMAIN s = 1..Len(s)
      /\ ReplayMax \in Nat \ {0} /\ Len(s) > ReplayMax
  BY WindowRows, WindowBounds DEF Overflows
<1>2. p \in 1..Len(s) + 1
  BY <1>1, RecentStartIs
<1>3. \/ p = start
      \/ Users(s) # {} /\ (\A i \in Users(s) : i < start) /\ p = Opening(s, Max(Users(s)))
  BY <1>1, RecentStartCases
<1>4. t = Legal(o)
  BY DEF ReplayWindow, Boundary
<1> HIDE DEF p
<1>5. /\ Ends(r, s) /\ r \in Seq(WindowRow) /\ Len(r) = Len(s) - p + 1
      /\ \A k \in 1..Len(s) - p + 1 : r[k] = s[p + k - 1]
  BY <1>2, FromEnds, FromCut
<1> HIDE DEF r
<1>6. DOMAIN r = 1..Len(s) - p + 1
  BY <1>5, WindowRows
<1>7. ReplayWindow(t, extend) = Legal(FromOpening(From(t, RecentStart(t, ReplayMax, extend))))
  BY DEF ReplayWindow
<1>8. CASE Users(r) = {}
  <2>1. o = r
    BY <1>8 DEF FromOpening
  <2>2. p = start
    <3>1. SUFFICES ASSUME Users(s) # {}, p = Opening(s, Max(Users(s))) PROVE FALSE
      BY <1>3
    <3> DEFINE x == Max(Users(s))
    <3>2. x \in Users(s)
      <4>1. Users(s) \subseteq 0..Len(s)
        BY <1>1
      <4> QED BY <1>1, <3>1, <4>1, MaxOf
    <3>3. p = Opening(s, x)
      BY <3>1
    <3> HIDE DEF x
    <3>4. p <= x /\ x \in 1..Len(s)
      BY <1>1, <3>2, <3>3, OpeningIs
    <3> DEFINE k == x - p + 1
    <3>5. k \in 1..Len(s) - p + 1 /\ p + k - 1 = x
      BY <1>1, <1>2, <3>4
    <3> HIDE DEF k
    <3>6. r[k] = s[x]
      <4>1. r[k] = s[p + k - 1]
        BY <1>5, <3>5
      <4> QED BY <3>5, <4>1
    <3>7. r[k].role = "user"
      BY <3>2, <3>6 DEF Users
    <3> QED BY <1>6, <1>8, <3>5, <3>7 DEF Users
  <2>3. t = Legal(r)
    BY <1>4, <2>1
  <2>4. Ends(t, r) /\ Supported(t)
    BY <1>5, <2>3, LegalEnds, LegalIsSupported
  <2>5. Ends(t, s)
    BY <1>5, <2>4, EndsOfEnds
  <2>6. t \in Seq(WindowRow) /\ Len(t) \in 0..Len(r)
    BY <1>5, <2>4, EndsFacts
  <2>7. Len(t) <= ReplayMax
    BY <1>1, <1>5, <2>2, <2>6
  <2>8. RecentStart(t, ReplayMax, extend) = 1
    BY <1>1, <2>6, <2>7, RecentStartCases
  <2>9. Users(t) = {}
    <3> DEFINE d == Len(r) - Len(t)
    <3>1. \A k \in 1..Len(t) : t[k] = r[d + k]
      BY <2>4 DEF Ends, CutAt
    <3>2. DOMAIN t = 1..Len(t) /\ Len(t) \in Nat /\ Len(r) \in Nat /\ DOMAIN r = 1..Len(r)
      BY <1>5, <2>6, WindowRows
    <3>3. \A k \in 1..Len(t) : d + k \in 1..Len(r)
      BY <2>6, <3>2
    <3> HIDE DEF d
    <3> QED BY <1>8, <3>1, <3>2, <3>3 DEF Users
  <2>10. From(t, 1) = t /\ FromOpening(t) = t /\ Legal(t) = t
    BY <2>4, <2>6, <2>9, WholeIs, SupportedIsLegal DEF FromOpening
  <2> QED BY <1>7, <2>5, <2>8, <2>10
<1>9. CASE Users(r) # {}
  <2>1. Ends(o, r) /\ \E u \in {1, 2} : Opened(o, u)
    BY <1>5, <1>9, FromOpeningOpens
  <2> HIDE DEF o
  <2>2. PICK u \in {1, 2} : Opened(o, u)
    BY <2>1
  <2>3. /\ Ends(o, s) /\ o \in Seq(WindowRow) /\ Cut(o, s)
    BY <1>5, <2>1, EndsOfEnds, EndsFacts
  <2>4. Cut(o, m)
    BY <2>3, CutOfCut
  <2>5. Supported(o)
    BY <2>2, <2>4, OpenedIsSupported
  <2>6. t = o
    BY <1>4, <2>3, <2>5, SupportedIsLegal
  <2>7. t \in Seq(WindowRow) /\ Opened(t, u) /\ Supported(t) /\ Ends(t, s) /\ Ends(t, r)
    BY <2>1, <2>2, <2>3, <2>5, <2>6
  <2>8. Opening(t, u) = 1 /\ FromOpening(t) = t /\ Legal(t) = t /\ From(t, 1) = t
    BY <2>7, OpenedStays, SupportedIsLegal, WholeIs
  <2>9. SUFFICES RecentStart(t, ReplayMax, extend) = 1
    BY <1>7, <2>7, <2>8
  <2>10. CASE Len(t) <= ReplayMax
    BY <1>1, <2>7, <2>10, RecentStartCases
  <2>11. CASE Len(t) > ReplayMax
    <3> DEFINE d == Len(s) - Len(t)  from == Len(t) - ReplayMax + 1
    <3>1. /\ d \in Nat /\ d + Len(t) <= Len(s) /\ \A k \in 1..Len(t) : t[k] = s[d + k]
      BY <2>7 DEF Ends, CutAt
    <3>2. DOMAIN t = 1..Len(t) /\ Len(t) \in Nat /\ Users(t) \subseteq 1..Len(t)
      BY <2>7, WindowRows
    <3>3. Len(t) \in 0..Len(r)
      BY <1>5, <2>7, EndsFacts
    <3>4. /\ Users(s) # {} /\ \A i \in Users(s) : i < start
          /\ p = Opening(s, Max(Users(s)))
      <4>1. p # start
        BY <1>1, <1>5, <2>11, <3>2, <3>3
      <4> QED BY <1>3, <4>1
    <3>5. \A k \in 1..Len(t) : d + k \in 1..Len(s)
      BY <1>1, <3>1, <3>2
    <3>6. \A k \in Users(t) : d + k \in Users(s)
      BY <1>1, <3>1, <3>2, <3>5 DEF Users
    <3>7. ASSUME NEW k \in Users(t) PROVE k < from
      <4>1. d + k < start /\ k \in Nat
        BY <3>2, <3>4, <3>6
      <4> QED BY <1>1, <3>2, <4>1
    <3>8. u \in Users(t) /\ \A k \in Users(t) : u <= k
      BY <2>7 DEF Opened
    <3>9. extend
      <4>1. SUFFICES ASSUME ~extend PROVE FALSE
        OBVIOUS
      <4>2. RecentStart(t, ReplayMax, FALSE) = from
        BY <1>1, <2>7, <2>11, RecentStartCases
      <4>3. Users(From(t, from)) # {}
        BY <3>8, <4>1, <4>2 DEF Reached
      <4>4. from \in 1..Len(t) + 1
        BY <1>1, <2>11, <3>2
      <4> DEFINE v == From(t, from)
      <4> HIDE DEF from
      <4>5. /\ v \in Seq(WindowRow) /\ Len(v) = Len(t) - from + 1
            /\ \A k \in 1..Len(t) - from + 1 : v[k] = t[from + k - 1]
        BY <2>7, <4>4, FromCut
      <4>6. PICK k \in Users(v) : TRUE
        BY <4>3
      <4> HIDE DEF v
      <4>7. k \in 1..Len(t) - from + 1 /\ v[k].role = "user"
        <5>1. DOMAIN v = 1..Len(v)
          BY <4>5, WindowRows
        <5> QED BY <4>5, <4>6, <5>1 DEF Users
      <4> DEFINE e == from + k - 1
      <4>8. e \in 1..Len(t) /\ e >= from /\ e \in Int /\ from \in Int
        BY <3>2, <4>4, <4>7
      <4>9. t[e].role = "user"
        BY <4>5, <4>7
      <4>10. e \in Users(t)
        BY <3>2, <4>8, <4>9 DEF Users
      <4> HIDE DEF e
      <4>11. e < from
        BY <3>7, <4>10 DEF from
      <4> QED BY <4>8, <4>11
    <3>10. \/ RecentStart(t, ReplayMax, extend) = from
           \/ RecentStart(t, ReplayMax, extend) = Opening(t, Max(Users(t)))
      BY <1>1, <2>7, <2>11, RecentStartCases
    <3>11. RecentStart(t, ReplayMax, extend) = Opening(t, Max(Users(t)))
      <4>1. Users(t) \ {i \in Users(t) : i < Max({1, from})} = {}
        <5>1. \A k \in Users(t) : k < Max({1, from})
          <6>1. from \in Int /\ 1 \in Int
            BY <1>1, <3>2
          <6>2. \A k \in Users(t) : k < from
            BY <3>7
          <6> HIDE DEF from
          <6>3. Max({1, from}) = IF 1 <= from THEN from ELSE 1
            BY <6>1, MinMax
          <6>4. Users(t) \subseteq Nat
            BY <3>2
          <6>5. \A k \in Users(t) : k \in Nat /\ 1 <= from
            BY <3>2, <6>1, <6>2
          <6> QED BY <6>2, <6>3, <6>5
        <5> QED BY <5>1
      <4>2. {i \in Users(t) : i < Max({1, from})} = Users(t)
        BY <4>1
      <4>3. Users(t) # {}
        BY <3>8
      <4> QED BY <3>9, <4>1, <4>2, <4>3 DEF RecentStart
    <3>12. Max(Users(t)) = u
      <4> DEFINE x == Max(Users(t))  y == Max(Users(s))
      <4>1. x \in Users(t) /\ \A k \in Users(t) : x >= k
        <5>1. Users(t) \subseteq 0..Len(t) /\ Users(t) # {}
          BY <3>2, <3>8
        <5> QED BY <3>2, <5>1, MaxOf
      <4>2. y \in Users(s) /\ \A k \in Users(s) : y >= k
        <5>1. Users(s) \subseteq 0..Len(s)
          BY <1>1
        <5> QED BY <1>1, <3>4, <5>1, MaxOf
      <4>3. p = Opening(s, y)
        BY <3>4
      <4> HIDE DEF x, y
      <4>4. x \in Nat /\ y \in Nat /\ u \in Nat /\ u >= 1 /\ u <= x /\ y \in 1..Len(s)
        BY <1>1, <3>2, <3>8, <4>1, <4>2
      <4>5. d + x \in Users(s) /\ d + u \in Users(s) /\ d + x <= y
        BY <3>6, <3>8, <4>1, <4>2
      <4>6. d + 1 >= p
        BY <1>1, <1>2, <1>5, <3>2, <3>3
      <4>7. \/ p = y
            \/ p = y - 1 /\ s[y - 1].kind = "delivery"
        BY <4>3 DEF Opening
      <4>8. SUFFICES ASSUME x # u PROVE FALSE
        BY DEF x
      <4>9. p = y - 1 /\ d + u = y - 1
        <5>1. u < x /\ d \in Nat /\ p \in Int
          BY <1>1, <1>2, <3>1, <4>4, <4>8
        <5> HIDE DEF d
        <5>2. p # y
          BY <4>4, <4>5, <4>6, <5>1
        <5>3. p = y - 1
          BY <4>7, <5>2
        <5> QED BY <4>4, <4>5, <4>6, <5>1, <5>3
      <4>10. s[y - 1].kind = "delivery" /\ s[y - 1].role = "user" /\ y - 1 \in DOMAIN s
        BY <4>4, <4>5, <4>7, <4>9 DEF Users
      <4>11. Labelled(s)
        <5>1. PICK c \in Nat : CutAt(s, m, c)
          BY DEF Cut
        <5>2. c + Len(s) <= Len(m) /\ \A i \in 1..Len(s) : s[i] = m[c + i]
          BY <5>1 DEF CutAt
        <5>3. DOMAIN m = 1..Len(m) /\ Len(m) \in Nat
          BY WindowRows
        <5>4. \A i \in 1..Len(s) : c + i \in 1..Len(m)
          BY <1>1, <5>2, <5>3
        <5> QED BY <1>1, <5>2, <5>3, <5>4 DEF Ordered, Labelled
      <4> QED BY <4>10, <4>11 DEF Labelled, LabelledRow
    <3> QED BY <2>8, <3>11, <3>12
  <2> QED BY <1>1, <2>7, <2>10, <2>11, WindowRows
<1> QED BY <1>8, <1>9

(* When a turn opens on more rows than its window has, all that is not     *)
(* archived is in the window (_replay_overflow_boundary, get_history).     *)
THEOREM WindowHidesWhatIsArchived == WindowSpec => WindowHidesArchived
<1> DEFINE Opens ==
      stage = "none" /\ stage' = "compacting" /\ Len(Shown(messages)) > ReplayMax
    Stays == LET tail == Shown(messages)' IN
      \A extend \in BOOLEAN :
        extend \/ Users(tail) = {} \/ Users(From(tail, RecentStart(tail, ReplayMax, FALSE))) # {}
        => Numbers(tail) \subseteq Numbers(ReplayWindow(tail, extend))
<1>1. ASSUME CutIInv, WindowNext, Opens PROVE Stays
  <2> DEFINE s == Shown(messages)  t == ReplayWindow(s, TRUE)
  <2>1. TurnOpens
    BY <1>1 DEF WindowNext, Deliver, Command, CompactIdle, TurnOpens, TokenRound, Inject, TurnAnswers,
                TurnPrompts, ToolRound
  <2>2. messages' = messages /\ consolidated' = OverflowBoundary
    BY <2>1 DEF TurnOpens, ConsolidateTo
  <2>3. OverflowBoundary = Len(messages) - Len(t)
    <3>1. OverflowBoundary = IF Len(s) <= ReplayMax THEN consolidated ELSE Len(messages) - Len(t)
      BY DEF OverflowBoundary, ReplayWindow
    <3>2. Len(s) > ReplayMax /\ Len(s) \in Nat /\ ReplayMax \in Nat
      BY <1>1, ShownIs, WindowRows, WindowBounds
    <3>3. ~(Len(s) <= ReplayMax)
      <4> HIDE DEF s
      <4> QED BY <3>2
    <3> QED BY <3>1, <3>3
  <2>4. /\ messages \in Seq(WindowRow) /\ Ordered(messages) /\ Len(messages) \in Nat
        /\ s \in Seq(WindowRow) /\ Cut(s, messages) /\ Len(s) > ReplayMax
        /\ consolidated + 1 \in 1..Len(messages) + 1
    <3>1. messages \in Seq(WindowRow) /\ Ordered(messages)
      BY <1>1 DEF CutIInv, WindowTypeOK
    <3>2. /\ Cut(s, messages) /\ s \in Seq(WindowRow) /\ Len(messages) \in Nat
          /\ consolidated \in Nat /\ consolidated <= Len(messages)
      BY <1>1, ShownIs
    <3>3. Len(s) > ReplayMax
      BY <1>1
    <3> QED BY <3>1, <3>2, <3>3
  <2>5. Ends(s, messages)
    BY <2>4, FromEnds DEF Shown
  <2> HIDE DEF s
  <2>6. ASSUME NEW extend \in BOOLEAN,
               Reached(t, extend)
        PROVE  Ends(t, s) /\ ReplayWindow(t, extend) = t
    <3>1. Boundary(t, s) /\ Overflows(s)
      BY <2>4 DEF Boundary, Overflows
    <3> DEFINE w == t
    <3> HIDE DEF w
    <3>2. Boundary(w, s) /\ Overflows(s) /\ Reached(w, extend)
      BY <2>6, <3>1 DEF w
    <3>3. Ends(w, s) /\ ReplayWindow(w, extend) = w
      BY <2>4, <3>2, WindowStays
    <3> QED BY <3>3 DEF w
  <2>7. Ends(t, s)
    BY <2>6 DEF Reached
  <2> HIDE DEF t
  <2>8. From(messages, Len(messages) - Len(t) + 1) = t
    <3>1. Ends(t, messages)
      BY <2>4, <2>5, <2>7, EndsOfEnds
    <3> QED BY <2>4, <3>1, EndsFacts
  <2>9. Shown(messages)' = t
    BY <2>2, <2>3, <2>8 DEF Shown
  <2>10. \A extend \in BOOLEAN : Reached(t, extend) => Numbers(t) \subseteq Numbers(ReplayWindow(t, extend))
    BY <2>6
  <2> QED BY <2>9, <2>10 DEF Reached
<1>2. CutIInv /\ [WindowNext]_windowVars => [Opens => Stays]_windowVars
  BY <1>1
<1>3. WindowSpec => [][Opens => Stays]_windowVars
  BY <1>2, CutInvariant, PTL DEF WindowSpec
<1> QED BY <1>3 DEF WindowHidesArchived

(***************************************************************************)
(* Loops: what they build piece by piece, and where each piece is.         *)
(***************************************************************************)
LEMMA UpTo ==
  ASSUME NEW n \in Nat, NEW J, 0 \in J, \A i \in 1..n : i - 1 \in J => i \in J
  PROVE  \A i \in 0..n : i \in J
<1> DEFINE T == {i \in 0..n : i \notin J}
<1> SUFFICES ASSUME T # {} PROVE FALSE
  OBVIOUS
<1>1. T \subseteq Nat
  OBVIOUS
<1>2. PICK x \in T : \A y \in T : x <= y
  BY <1>1, LeastNat
<1>3. x \in 0..n /\ x \notin J /\ x # 0
  OBVIOUS
<1>4. x \in 1..n /\ x - 1 \in 0..n /\ ~(x <= x - 1)
  BY <1>3
<1>5. x - 1 \in J
  BY <1>2, <1>4
<1> QED BY <1>3, <1>4, <1>5

(* What the loop has built after the first m pieces.                       *)
Joins(f, P, n, D) ==
  /\ f \in [0..n -> Seq(D)] /\ f[0] = <<>>
  /\ \A i \in 1..n : f[i] = f[i - 1] \o P[i]

LEMMA JoinExists ==
  ASSUME NEW D, NEW n \in Nat, NEW P \in [1..n -> Seq(D)]
  PROVE  \E f : Joins(f, P, n, D)
<1> DEFINE J == {m \in 0..n : \E f : Joins(f, P, m, D)}
<1>1. 0 \in J
  <2> DEFINE f == [i \in 0..0 |-> <<>>]
  <2>1. <<>> \in Seq(D)
    BY EmptySeq
  <2>2. f \in [0..0 -> Seq(D)] /\ f[0] = <<>>
    BY <2>1
  <2>3. Joins(f, P, 0, D)
    <3>1. \A i \in 1..0 : FALSE
      OBVIOUS
    <3> HIDE DEF f
    <3> QED BY <2>2, <3>1 DEF Joins
  <2> QED BY <2>3
<1>2. ASSUME NEW m \in 1..n, m - 1 \in J PROVE m \in J
  <2>1. PICK f : Joins(f, P, m - 1, D)
    BY <1>2
  <2> DEFINE g == [i \in 0..m |-> IF i = m THEN f[m - 1] \o P[m] ELSE f[i]]
  <2>2. /\ f \in [0..m - 1 -> Seq(D)] /\ f[0] = <<>>
        /\ \A i \in 1..m - 1 : f[i] = f[i - 1] \o P[i]
    BY <2>1 DEF Joins
  <2>3. \A i \in 0..m : i = m \/ i \in 0..m - 1
    OBVIOUS
  <2>4. f[m - 1] \o P[m] \in Seq(D)
    <3>1. f[m - 1] \in Seq(D) /\ P[m] \in Seq(D)
      BY <2>2
    <3> QED BY <3>1, ConcatProperties
  <2>5. g \in [0..m -> Seq(D)]
    BY <2>2, <2>3, <2>4
  <2>6. g[m] = f[m - 1] \o P[m] /\ \A i \in 0..m - 1 : i # m /\ i \in 0..m /\ g[i] = f[i]
    <3>1. \A i \in 0..m - 1 : i # m /\ i \in 0..m
      OBVIOUS
    <3> QED BY <3>1
  <2> HIDE DEF g
  <2>7. g[0] = <<>>
    <3>1. 0 \in 0..m - 1
      OBVIOUS
    <3> QED BY <2>2, <2>6, <3>1
  <2>8. \A i \in 1..m : g[i] = g[i - 1] \o P[i]
    <3>1. ASSUME NEW i \in 1..m PROVE g[i] = g[i - 1] \o P[i]
      <4>1. i - 1 \in 0..m - 1 /\ (i = m \/ i \in 1..m - 1)
        OBVIOUS
      <4>2. g[i - 1] = f[i - 1]
        BY <2>6, <4>1
      <4>3. CASE i = m
        BY <2>6, <4>2, <4>3
      <4>4. CASE i \in 1..m - 1
        <5>1. g[i] = f[i]
          BY <2>6, <4>4
        <5> QED BY <2>2, <4>2, <4>4, <5>1
      <4> QED BY <4>1, <4>3, <4>4
    <3> QED BY <3>1
  <2>9. Joins(g, P, m, D)
    BY <2>5, <2>7, <2>8 DEF Joins
  <2> QED BY <2>9
<1> HIDE DEF J
<1>3. \A m \in 0..n : m \in J
  BY <1>1, <1>2, UpTo
<1>4. n \in J
  BY <1>3
<1> QED BY <1>4 DEF J

(* Piece i of "out" is behind its first at[i - 1] elements.                *)
Places(P, n, at) ==
  /\ \A i \in 0..n : at[i] \in Nat
  /\ at[0] = 0 /\ \A i \in 1..n : at[i] = at[i - 1] + Len(P[i])
Spread(out, P, n, at) ==
  /\ Places(P, n, at) /\ Len(out) = at[n]
  /\ \A i \in 1..n : \A q \in 1..Len(P[i]) : out[at[i - 1] + q] = P[i][q]

LEMMA SpreadGrows ==
  ASSUME NEW D, NEW n \in Nat, NEW P \in [1..n -> Seq(D)], NEW at, Places(P, n, at)
  PROVE  \A i, k \in 0..n : i <= k => at[i] <= at[k]
<1> DEFINE J == {k \in 0..n : \A i \in 0..n : i <= k => at[i] <= at[k]}
<1>1. 0 \in J
  <2>1. \A i \in 0..n : i <= 0 => i = 0
    OBVIOUS
  <2>2. 0 \in 0..n /\ at[0] \in Nat
    BY DEF Places
  <2> QED BY <2>1, <2>2
<1>2. ASSUME NEW k \in 1..n, k - 1 \in J PROVE k \in J
  <2>1. k - 1 \in 0..n /\ k \in 0..n
    OBVIOUS
  <2>2. at[k] = at[k - 1] + Len(P[k]) /\ Len(P[k]) \in Nat
    BY LenProperties DEF Places
  <2>3. at[k - 1] <= at[k]
    BY <2>1, <2>2 DEF Places
  <2>4. ASSUME NEW i \in 0..n, i <= k PROVE at[i] <= at[k]
    <3>1. i = k \/ i <= k - 1
      BY <2>4
    <3>2. CASE i <= k - 1
      <4>1. at[i] <= at[k - 1]
        BY <1>2, <3>2
      <4>2. at[i] \in Nat /\ at[k - 1] \in Nat /\ at[k] \in Nat
        BY <2>1 DEF Places
      <4> QED BY <2>3, <4>1, <4>2
    <3>3. CASE i = k
      <4>1. at[k] \in Nat
        BY <2>1 DEF Places
      <4> QED BY <3>3, <4>1
    <3> QED BY <3>1, <3>2, <3>3
  <2> QED BY <2>1, <2>4
<1> HIDE DEF J
<1>3. \A k \in 0..n : k \in J
  BY <1>1, <1>2, UpTo
<1> QED BY <1>3 DEF J

InPiece(P, n, at, k) == \E i \in 1..n : \E q \in 1..Len(P[i]) : k = at[i - 1] + q

LEMMA SpreadCovers ==
  ASSUME NEW D, NEW n \in Nat, NEW P \in [1..n -> Seq(D)], NEW at, NEW out,
         Spread(out, P, n, at)
  PROVE  \A k \in 1..Len(out) : InPiece(P, n, at, k)
<1> TAKE k \in 1..Len(out)
<1> DEFINE T == {i \in 0..n : k <= at[i]}
<1>1. /\ \A i \in 0..n : at[i] \in Nat
      /\ at[0] = 0 /\ \A i \in 1..n : at[i] = at[i - 1] + Len(P[i])
      /\ Len(out) = at[n]
  BY DEF Spread, Places
<1>2. n \in T /\ T \subseteq Nat
  BY <1>1
<1>3. PICK i \in T : \A y \in T : i <= y
  BY <1>2, LeastNat
<1>4. i \in 0..n /\ k <= at[i] /\ k \in Nat /\ k >= 1
  BY <1>1
<1>5. i # 0
  BY <1>1, <1>4
<1>6. i \in 1..n /\ i - 1 \in 0..n /\ ~(i <= i - 1)
  BY <1>4, <1>5
<1>7. ~(k <= at[i - 1])
  BY <1>3, <1>6
<1>8. at[i - 1] \in Nat /\ at[i] = at[i - 1] + Len(P[i]) /\ Len(P[i]) \in Nat
  BY <1>1, <1>6, LenProperties
<1>9. k - at[i - 1] \in 1..Len(P[i]) /\ k = at[i - 1] + (k - at[i - 1])
  BY <1>4, <1>7, <1>8
<1> QED BY <1>6, <1>9 DEF InPiece

LEMMA JoinSpread ==
  ASSUME NEW D, NEW n \in Nat, NEW P \in [1..n -> Seq(D)], NEW f, Joins(f, P, n, D)
  PROVE  \E at : \A m \in 0..n : Spread(f[m], P, m, at)
<1> DEFINE at == [i \in 0..n |-> Len(f[i])]
<1>1. /\ f \in [0..n -> Seq(D)] /\ f[0] = <<>>
      /\ \A i \in 1..n : f[i] = f[i - 1] \o P[i]
  BY DEF Joins
<1>2. \A i \in 0..n : at[i] = Len(f[i]) /\ Len(f[i]) \in Nat
  BY <1>1, LenProperties
<1> HIDE DEF at
<1>3. ASSUME NEW i \in 1..n
      PROVE  /\ i \in 0..n /\ i - 1 \in 0..n /\ f[i - 1] \in Seq(D) /\ P[i] \in Seq(D)
             /\ Len(P[i]) \in Nat
             /\ at[i] = at[i - 1] + Len(P[i])
             /\ \A k \in 1..at[i] : f[i][k] = IF k <= at[i - 1] THEN f[i - 1][k] ELSE P[i][k - at[i - 1]]
  <2>1. i \in 0..n /\ i - 1 \in 0..n
    OBVIOUS
  <2>2. f[i - 1] \in Seq(D) /\ P[i] \in Seq(D) /\ f[i] = f[i - 1] \o P[i]
    BY <1>1, <2>1
  <2>3. /\ Len(f[i - 1] \o P[i]) = Len(f[i - 1]) + Len(P[i])
        /\ \A k \in 1..Len(f[i - 1]) + Len(P[i]) :
             (f[i - 1] \o P[i])[k] = IF k <= Len(f[i - 1]) THEN f[i - 1][k] ELSE P[i][k - Len(f[i - 1])]
    BY <2>2, ConcatProperties
  <2>4. Len(P[i]) \in Nat
    BY <2>2, LenProperties
  <2> QED BY <1>2, <2>1, <2>2, <2>3, <2>4
<1>4. at[0] = 0
  BY <1>1, <1>2
<1>5. \A i, k \in 0..n : i <= k => at[i] <= at[k]
  <2>1. /\ \A i \in 0..n : at[i] \in Nat
        /\ \A i \in 1..n : at[i] = at[i - 1] + Len(P[i])
    BY <1>2, <1>3
  <2>2. Places(P, n, at)
    BY <1>4, <2>1 DEF Places
  <2> QED BY <2>2, SpreadGrows
<1> DEFINE J == {m \in 0..n : \A i \in 1..m : \A q \in 1..Len(P[i]) : f[m][at[i - 1] + q] = P[i][q]}
<1>6. 0 \in J
  OBVIOUS
<1>7. ASSUME NEW m \in 1..n, m - 1 \in J PROVE m \in J
  <2>1. ASSUME NEW i \in 1..m, NEW q \in 1..Len(P[i]) PROVE f[m][at[i - 1] + q] = P[i][q]
    <3> DEFINE k == at[i - 1] + q
    <3>1. i \in 1..n /\ i \in 0..n /\ i - 1 \in 0..n /\ m - 1 \in 0..n /\ m \in 0..n
      OBVIOUS
    <3>2. at[i] \in Nat /\ at[i - 1] \in Nat /\ at[m - 1] \in Nat /\ at[m] \in Nat
      BY <1>2, <3>1
    <3>3. at[i] = at[i - 1] + Len(P[i]) /\ Len(P[i]) \in Nat
      BY <1>3, <3>1
    <3>4. k \in 1..at[i] /\ q = k - at[i - 1] /\ ~(k <= at[i - 1])
      <4> DEFINE b == at[i - 1]  l == Len(P[i])
      <4>1. b \in Nat /\ l \in Nat /\ q \in 1..l /\ k = b + q /\ at[i] = b + l
        BY <3>2, <3>3
      <4> HIDE DEF b, l, k
      <4>2. k \in 1..b + l /\ q = k - b /\ ~(k <= b)
        BY <4>1
      <4> QED BY <4>1, <4>2 DEF b
    <3>5. at[i] <= at[m]
      BY <1>5, <3>1
    <3>6. k \in 1..at[m]
      <4> DEFINE c == at[i]  d == at[m]
      <4>1. c \in Nat /\ d \in Nat /\ c <= d /\ k \in 1..c
        BY <3>2, <3>4, <3>5
      <4> HIDE DEF c, d, k
      <4>2. k \in 1..d
        BY <4>1
      <4> QED BY <4>2 DEF d
    <3> HIDE DEF k
    <3>7. f[m][k] = IF k <= at[m - 1] THEN f[m - 1][k] ELSE P[m][k - at[m - 1]]
      BY <1>3, <3>6
    <3>8. CASE i = m
      BY <3>4, <3>7, <3>8 DEF k
    <3>9. CASE i # m
      <4>1. i \in 1..m - 1 /\ i <= m - 1
        BY <3>9
      <4>2. at[i] <= at[m - 1]
        BY <1>5, <3>1, <4>1
      <4>3. k <= at[m - 1]
        BY <3>2, <3>4, <4>2
      <4>4. f[m - 1][k] = P[i][q]
        BY <1>7, <4>1 DEF k
      <4> QED BY <3>7, <4>3, <4>4 DEF k
    <3> QED BY <3>8, <3>9
  <2> QED BY <2>1
<1> HIDE DEF J
<1>8. \A m \in 0..n : m \in J
  BY <1>6, <1>7, UpTo
<1>9. ASSUME NEW m \in 0..n PROVE Spread(f[m], P, m, at)
  <2>1. \A i \in 0..m : i \in 0..n
    OBVIOUS
  <2>2. \A i \in 1..m : i \in 1..n
    OBVIOUS
  <2>3. \A i \in 1..m : \A q \in 1..Len(P[i]) : f[m][at[i - 1] + q] = P[i][q]
    BY <1>8 DEF J
  <2> QED BY <1>2, <1>3, <1>4, <2>1, <2>2, <2>3 DEF Spread, Places
<1> QED BY <1>9

(***************************************************************************)
(* Rows that are picked, in their order: those at the places in K.         *)
(***************************************************************************)
PickedBy(t, s, K, e) ==
  /\ t \in Seq(WindowRow) /\ e \in [1..Len(t) -> K]
  /\ \A i, k \in 1..Len(t) : i < k => e[i] < e[k]
  /\ \A i \in 1..Len(t) : t[i] = s[e[i]]
  /\ \A k \in K : \E i \in 1..Len(t) : e[i] = k
Picked(t, s, K) == \E e : PickedBy(t, s, K, e)

Pieces(s, K) == [i \in 1..Len(s) |-> IF i \in K THEN <<s[i]>> ELSE <<>>]

LEMMA PiecesAre ==
  ASSUME NEW s \in Seq(WindowRow), NEW K, K \subseteq 1..Len(s)
  PROVE  /\ Pieces(s, K) \in [1..Len(s) -> Seq(WindowRow)]
         /\ \A i \in 1..Len(s) : Pieces(s, K)[i] = IF i \in K THEN <<s[i]>> ELSE <<>>
         /\ \A i \in K : i \in 1..Len(s) /\ Len(Pieces(s, K)[i]) = 1 /\ Pieces(s, K)[i][1] = s[i]
         /\ \A i \in 1..Len(s) : i \notin K => Len(Pieces(s, K)[i]) = 0
<1> DEFINE P == Pieces(s, K)
<1>1. \A i \in 1..Len(s) : P[i] = IF i \in K THEN <<s[i]>> ELSE <<>>
  BY DEF Pieces
<1>2. DOMAIN P = 1..Len(s) /\ P = [i \in 1..Len(s) |-> P[i]]
  BY DEF Pieces
<1> HIDE DEF P
<1>3. \A i \in 1..Len(s) : s[i] \in WindowRow
  BY WindowRows
<1>4. \A i \in 1..Len(s) : <<s[i]>> \in Seq(WindowRow) /\ Len(<<s[i]>>) = 1 /\ <<s[i]>>[1] = s[i]
  BY <1>3
<1>5. <<>> \in Seq(WindowRow) /\ Len(<<>>) = 0
  BY EmptySeq
<1>6. \A i \in 1..Len(s) : P[i] \in Seq(WindowRow)
  BY <1>1, <1>4, <1>5
<1>7. P \in [1..Len(s) -> Seq(WindowRow)]
  BY <1>2, <1>6
<1>8. \A i \in K : i \in 1..Len(s)
  OBVIOUS
<1>9. \A i \in K : Len(P[i]) = 1 /\ P[i][1] = s[i]
  BY <1>1, <1>4, <1>8
<1>10. \A i \in 1..Len(s) : i \notin K => Len(P[i]) = 0
  BY <1>1, <1>5
<1> QED BY <1>1, <1>7, <1>8, <1>9, <1>10 DEF P

LEMMA PickedOf ==
  ASSUME NEW s \in Seq(WindowRow), NEW K, K \subseteq 1..Len(s), NEW t \in Seq(WindowRow),
         NEW at, Spread(t, Pieces(s, K), Len(s), at)
  PROVE  Picked(t, s, K)
<1> DEFINE n == Len(s)  P == Pieces(s, K)
<1>1. n \in Nat /\ Len(t) \in Nat
  BY LenProperties
<1>2. /\ P \in [1..n -> Seq(WindowRow)]
      /\ \A i \in K : i \in 1..n /\ Len(P[i]) = 1 /\ P[i][1] = s[i]
      /\ \A i \in 1..n : i \notin K => Len(P[i]) = 0
  <2>1. \A i \in K : i \in 1..n
    OBVIOUS
  <2>0. /\ Pieces(s, K) \in [1..Len(s) -> Seq(WindowRow)]
        /\ \A i \in 1..Len(s) : Pieces(s, K)[i] = IF i \in K THEN <<s[i]>> ELSE <<>>
        /\ \A i \in K : i \in 1..Len(s) /\ Len(Pieces(s, K)[i]) = 1 /\ Pieces(s, K)[i][1] = s[i]
        /\ \A i \in 1..Len(s) : i \notin K => Len(Pieces(s, K)[i]) = 0
    BY PiecesAre, Zenon
  <2>2. P \in [1..n -> Seq(WindowRow)]
    BY <2>0, Zenon
  <2>3. \A i \in K : Len(P[i]) = 1 /\ P[i][1] = s[i]
    BY <2>0, Zenon
  <2>4. \A i \in 1..n : i \notin K => Len(P[i]) = 0
    BY <2>0, Zenon
  <2> HIDE DEF n, P
  <2> QED BY <2>1, <2>2, <2>3, <2>4
<1>3. Spread(t, P, n, at)
  OBVIOUS
<1> HIDE DEF n, P
<1>3a. P \in [1..n -> Seq(WindowRow)]
  BY <1>2
<1>4. /\ \A i \in 0..n : at[i] \in Nat
      /\ at[0] = 0 /\ \A i \in 1..n : at[i] = at[i - 1] + Len(P[i])
      /\ Len(t) = at[n]
      /\ \A i \in 1..n : \A q \in 1..Len(P[i]) : t[at[i - 1] + q] = P[i][q]
  BY <1>3 DEF Spread, Places
<1>5. \A i, k \in 0..n : i <= k => at[i] <= at[k]
  <2>1. Places(P, n, at)
    BY <1>3 DEF Spread
  <2> QED BY <1>1, <1>3a, <2>1, SpreadGrows
<1>5a. \A k \in 1..Len(t) : InPiece(P, n, at, k)
  BY <1>1, <1>3, <1>3a, SpreadCovers
<1>6. ASSUME NEW k \in 1..Len(t) PROVE \E i \in K : k = at[i - 1] + 1
  <2>1. PICK i \in 1..n : \E q \in 1..Len(P[i]) : k = at[i - 1] + q
    BY <1>5a DEF InPiece
  <2>2. PICK q \in 1..Len(P[i]) : k = at[i - 1] + q
    BY <2>1
  <2>3. i \in K
    BY <1>2, <2>2
  <2>4. Len(P[i]) = 1
    BY <1>2, <2>3
  <2>5. q = 1
    BY <2>2, <2>4
  <2> QED BY <2>2, <2>3, <2>5
<1>7. ASSUME NEW i \in K
      PROVE  /\ i \in 1..n /\ i - 1 \in 0..n /\ at[i - 1] \in Nat /\ at[i] = at[i - 1] + 1
             /\ at[i] \in 1..Len(t) /\ t[at[i]] = s[i]
  <2>1. i \in 1..n /\ Len(P[i]) = 1 /\ P[i][1] = s[i]
    BY <1>2
  <2>2. i - 1 \in 0..n /\ i \in 0..n /\ n \in 0..n /\ i <= n
    BY <1>1, <2>1
  <2>3. at[i - 1] \in Nat /\ at[i] \in Nat /\ at[n] \in Nat
    BY <1>4, <2>2
  <2>4. at[i] = at[i - 1] + 1
    BY <1>4, <2>1
  <2>5. at[i] <= Len(t)
    BY <1>4, <1>5, <2>2
  <2>6. 1 \in 1..Len(P[i])
    BY <2>1
  <2>7. t[at[i - 1] + 1] = s[i]
    BY <1>4, <2>1, <2>6
  <2>8. at[i] \in 1..Len(t)
    BY <1>1, <2>3, <2>4, <2>5
  <2> QED BY <2>1, <2>2, <2>3, <2>4, <2>7, <2>8
<1>8. ASSUME NEW i \in K, NEW k \in K, i < k PROVE at[i] < at[k]
  <2>1. i \in 0..n /\ k - 1 \in 0..n /\ i <= k - 1
    BY <1>1, <1>7, <1>8
  <2>2. at[i] <= at[k - 1]
    BY <1>5, <2>1
  <2>3. at[k] = at[k - 1] + 1 /\ at[k - 1] \in Nat /\ at[i] \in Nat
    BY <1>4, <1>7, <2>1
  <2> QED BY <2>2, <2>3
<1> DEFINE e == [k \in 1..Len(t) |-> CHOOSE i \in K : at[i] = k]
<1>9. ASSUME NEW k \in 1..Len(t) PROVE e[k] \in K /\ at[e[k]] = k
  <2>1. \E i \in K : at[i] = k
    BY <1>6, <1>7
  <2> QED BY <2>1
<1>10. e \in [1..Len(t) -> K]
  BY <1>9
<1> HIDE DEF e
<1>11. ASSUME NEW i \in 1..Len(t), NEW k \in 1..Len(t), i < k PROVE e[i] < e[k]
  <2>1. e[i] \in K /\ e[k] \in K /\ at[e[i]] = i /\ at[e[k]] = k
    BY <1>9
  <2>2. e[i] \in 1..n /\ e[k] \in 1..n
    BY <1>7, <2>1
  <2>3. SUFFICES ASSUME ~(e[i] < e[k]) PROVE FALSE
    OBVIOUS
  <2>4. e[i] = e[k] \/ e[k] < e[i]
    BY <2>2, <2>3
  <2>5. e[i] # e[k]
    BY <1>1, <1>11, <2>1
  <2>6. at[e[k]] < at[e[i]]
    BY <1>8, <2>1, <2>4, <2>5
  <2> QED BY <1>1, <1>11, <2>1, <2>6
<1>12. \A i \in 1..Len(t) : t[i] = s[e[i]]
  BY <1>7, <1>9
<1>13. ASSUME NEW k \in K PROVE \E i \in 1..Len(t) : e[i] = k
  <2> DEFINE i == at[k]  p == e[i]
  <2>1. i \in 1..Len(t) /\ i \in Nat /\ k \in 1..n
    BY <1>1, <1>7
  <2>2. p \in K /\ at[p] = i
    BY <1>9, <2>1
  <2>3. p \in 1..n
    BY <1>7, <2>2
  <2>4. at[k] = i /\ p = e[i]
    OBVIOUS
  <2> HIDE DEF i, p
  <2>5. ~(p < k) /\ ~(k < p)
    BY <1>8, <2>1, <2>2, <2>4
  <2>6. p = k
    BY <2>1, <2>3, <2>5
  <2> QED BY <2>1, <2>4, <2>6
<1>14. PickedBy(t, s, K, e)
  BY <1>10, <1>11, <1>12, <1>13 DEF PickedBy
<1> QED BY <1>14 DEF Picked

(* Session.get_history, strip_placeholder_assistant_messages: rows of a    *)
(* kind are left out.                                                      *)
Dropping(s, kind, f) ==
  f = [i \in 0..Len(s) |-> IF i = 0 THEN <<>>
                           ELSE IF s[i].kind = kind THEN f[i - 1] ELSE Append(f[i - 1], s[i])]

LEMMA Adding ==
  ASSUME NEW D, NEW s \in Seq(D), NEW x \in D
  PROVE  s \o <<>> = s /\ s \o <<x>> = Append(s, x)
OBVIOUS

LEMMA WithoutPicks ==
  ASSUME NEW s \in Seq(WindowRow), NEW kind
  PROVE  Picked(Without(kind, s), s, {i \in 1..Len(s) : s[i].kind # kind})
<1> DEFINE n == Len(s)  K == {i \in 1..n : s[i].kind # kind}  P == Pieces(s, K)
<1>1. n \in Nat /\ \A i \in 1..n : s[i] \in WindowRow
  BY WindowRows
<1>2. K \subseteq 1..Len(s)
  OBVIOUS
<1>3. /\ P \in [1..n -> Seq(WindowRow)]
      /\ \A i \in 1..n : P[i] = IF i \in K THEN <<s[i]>> ELSE <<>>
  BY <1>2, PiecesAre
<1>4. \A i \in 1..n : i \in K <=> s[i].kind # kind
  OBVIOUS
<1> HIDE DEF P, K
<1>5. PICK f : Joins(f, P, n, WindowRow)
  <2> HIDE DEF n
  <2> QED BY <1>1, <1>3, JoinExists
<1>6. /\ f \in [0..n -> Seq(WindowRow)] /\ f[0] = <<>>
      /\ \A i \in 1..n : f[i] = f[i - 1] \o P[i]
  BY <1>5 DEF Joins
<1>7. ASSUME NEW i \in 1..n
      PROVE  f[i] = IF s[i].kind = kind THEN f[i - 1] ELSE Append(f[i - 1], s[i])
  <2>1. f[i - 1] \in Seq(WindowRow)
    <3>1. i - 1 \in 0..n
      BY <1>1
    <3> QED BY <1>6, <3>1
  <2>2. f[i - 1] \o <<>> = f[i - 1] /\ f[i - 1] \o <<s[i]>> = Append(f[i - 1], s[i])
    BY <1>1, <2>1, Adding
  <2> QED BY <1>3, <1>4, <1>6, <2>2
<1>8. Dropping(s, kind, f)
  <2>1. \A i \in 0..n : i = 0 \/ i \in 1..n
    BY <1>1
  <2>2. \A i \in 0..n : f[i] = IF i = 0 THEN <<>>
                     ELSE IF s[i].kind = kind THEN f[i - 1] ELSE Append(f[i - 1], s[i])
    BY <1>6, <1>7, <2>1
  <2> QED BY <1>6, <2>2 DEF Dropping
<1> DEFINE h == CHOOSE g : Dropping(s, kind, g)
<1>9. Dropping(s, kind, h)
  BY <1>8
<1>10. Without(kind, s) = h[n]
  BY DEF Without, Dropping
<1> HIDE DEF h
<1> DEFINE J == {i \in 0..n : h[i] = f[i]}
<1>11. h[0] = <<>>
  <2>1. 0 \in 0..Len(s)
    BY <1>1
  <2> QED BY <1>9, <2>1 DEF Dropping
<1>12. \A i \in 1..n : h[i] = IF s[i].kind = kind THEN h[i - 1] ELSE Append(h[i - 1], s[i])
  <2>1. \A i \in 1..n : i \in 0..Len(s) /\ i # 0
    BY <1>1
  <2> QED BY <1>9, <2>1 DEF Dropping
<1>13. \A i \in 0..n : i \in J
  <2>1. 0 \in J
    BY <1>1, <1>6, <1>11
  <2>2. ASSUME NEW i \in 1..n, i - 1 \in J PROVE i \in J
    BY <1>1, <1>7, <1>12, <2>2
  <2> HIDE DEF J, n
  <2> QED BY <1>1, <2>1, <2>2, UpTo
<1>14. n \in 0..n
  BY <1>1
<1>15. Without(kind, s) = f[n]
  BY <1>10, <1>13, <1>14
<1>16. f[n] \in Seq(WindowRow) /\ \E at : Spread(f[n], P, n, at)
  <2>1. f[n] \in Seq(WindowRow)
    BY <1>6, <1>14
  <2> HIDE DEF n
  <2>2. \E at : \A m \in 0..n : Spread(f[m], P, m, at)
    BY <1>1, <1>3, <1>5, JoinSpread
  <2> QED BY <1>14, <2>1, <2>2
<1>17. PICK at : Spread(f[n], Pieces(s, K), Len(s), at)
  BY <1>16 DEF P
<1>18. Picked(f[n], s, K)
  <2> HIDE DEF n
  <2> QED BY <1>2, <1>16, <1>17, PickedOf
<1> QED BY <1>15, <1>18 DEF K

Loop(h, g, x, S, n) == h \in [0..n -> S] /\ h[0] = x /\ \A i \in 1..n : h[i] = g[<<h[i - 1], i>>]

LEMMA LoopExists ==
  ASSUME NEW S, NEW x \in S, NEW n \in Nat, NEW g \in [S \X (1..n) -> S]
  PROVE  \E h : Loop(h, g, x, S, n)
<1> DEFINE J == {m \in 0..n : \E h : Loop(h, g, x, S, m)}
<1>1. 0 \in J
  <2> DEFINE h == [i \in 0..0 |-> x]
  <2>1. h \in [0..0 -> S] /\ h[0] = x /\ \A i \in 1..0 : FALSE
    OBVIOUS
  <2> HIDE DEF h
  <2>2. Loop(h, g, x, S, 0)
    BY <2>1 DEF Loop
  <2> QED BY <2>2
<1>2. ASSUME NEW m \in 1..n, m - 1 \in J PROVE m \in J
  <2>1. PICK f : Loop(f, g, x, S, m - 1)
    BY <1>2
  <2> DEFINE y == g[<<f[m - 1], m>>]  h == [i \in 0..m |-> IF i = m THEN y ELSE f[i]]
  <2>2. /\ f \in [0..m - 1 -> S] /\ f[0] = x
        /\ \A i \in 1..m - 1 : f[i] = g[<<f[i - 1], i>>]
    BY <2>1 DEF Loop
  <2>3. \A i \in 0..m : i = m \/ i \in 0..m - 1
    OBVIOUS
  <2>4. y \in S
    <3>1. f[m - 1] \in S /\ m \in 1..n
      BY <2>2
    <3> QED BY <3>1
  <2>5. y = g[<<f[m - 1], m>>]
    OBVIOUS
  <2> HIDE DEF y
  <2>6. h \in [0..m -> S]
    BY <2>2, <2>3, <2>4
  <2>7. h[m] = y /\ \A i \in 0..m - 1 : i # m /\ i \in 0..m /\ h[i] = f[i]
    <3>1. \A i \in 0..m - 1 : i # m /\ i \in 0..m
      OBVIOUS
    <3> QED BY <3>1
  <2> HIDE DEF h
  <2>8. h[0] = x
    <3>1. 0 \in 0..m - 1
      OBVIOUS
    <3> QED BY <2>2, <2>7, <3>1
  <2>9. ASSUME NEW i \in 1..m PROVE h[i] = g[<<h[i - 1], i>>]
    <3>1. i - 1 \in 0..m - 1 /\ (i = m \/ i \in 1..m - 1)
      OBVIOUS
    <3>2. h[i - 1] = f[i - 1]
      BY <2>7, <3>1
    <3>3. CASE i = m
      BY <2>5, <2>7, <3>2, <3>3
    <3>4. CASE i \in 1..m - 1
      <4>1. h[i] = f[i]
        BY <2>7, <3>4
      <4> QED BY <2>2, <3>2, <3>4, <4>1
    <3> QED BY <3>1, <3>3, <3>4
  <2>10. Loop(h, g, x, S, m)
    BY <2>6, <2>8, <2>9 DEF Loop
  <2> QED BY <2>10
<1>3. \A m \in 0..n : m \in J
  <2> HIDE DEF J
  <2> QED BY <1>1, <1>2, UpTo
<1>4. n \in J
  BY <1>3
<1> QED BY <1>4

(***************************************************************************)
(* Requests that can be repaired.                                          *)
(***************************************************************************)
FitRow(row) ==
  /\ row.calls # {} => row.role = "assistant"
  /\ NoCall \notin row.calls /\ IsFiniteSet(row.calls)
  /\ row.role # "tool" => row.answers = NoCall
(* An id is of one call, and a result is behind its call if that is there. *)
Apart(s) == \A i, k \in 1..Len(s) : \A id \in s[i].calls : id \in s[k].calls => i = k
Follows(s) ==
  \A i, k \in 1..Len(s) : s[i].role = "tool" /\ s[i].answers \in s[k].calls =>
    k < i /\ \A j \in k + 1..i : s[j].role = "tool"
Fit(s) ==
  /\ s \in Seq(WindowRow) /\ \A i \in 1..Len(s) : FitRow(s[i])
  /\ Apart(s) /\ Follows(s)
Owned(s) ==
  \A i \in 1..Len(s) : s[i].role = "tool" => \E k \in 1..Len(s) : s[i].answers \in s[k].calls

Chosen(t, s, K, e) ==
  /\ t \in Seq(WindowRow) /\ Len(t) \in Nat
  /\ \A i \in 1..Len(t) : e[i] \in K /\ e[i] \in 1..Len(s) /\ t[i] = s[e[i]]
  /\ \A i, k \in 1..Len(t) : /\ i < k <=> e[i] < e[k]
                             /\ e[i] = e[k] => i = k
  /\ \A k \in K : \E i \in 1..Len(t) : e[i] = k

LEMMA PickedFacts ==
  ASSUME NEW s \in Seq(WindowRow), NEW K, K \subseteq 1..Len(s), NEW t, NEW e, PickedBy(t, s, K, e)
  PROVE  Chosen(t, s, K, e)
<1>1. /\ t \in Seq(WindowRow) /\ e \in [1..Len(t) -> K]
      /\ \A i, k \in 1..Len(t) : i < k => e[i] < e[k]
      /\ \A i \in 1..Len(t) : t[i] = s[e[i]]
      /\ \A k \in K : \E i \in 1..Len(t) : e[i] = k
  BY DEF PickedBy
<1>2. Len(t) \in Nat /\ Len(s) \in Nat
  BY <1>1, WindowRows
<1>3. \A i \in 1..Len(t) : e[i] \in K /\ e[i] \in 1..Len(s) /\ t[i] = s[e[i]]
  BY <1>1
<1>4. ASSUME NEW i \in 1..Len(t), NEW k \in 1..Len(t)
      PROVE  (i < k <=> e[i] < e[k]) /\ (e[i] = e[k] => i = k)
  <2> DEFINE a == e[i]  b == e[k]
  <2>1. a \in Nat /\ b \in Nat
    BY <1>2, <1>3
  <2>2. (i < k => a < b) /\ (k < i => b < a)
    BY <1>1
  <2>3. i \in Nat /\ k \in Nat
    BY <1>2
  <2>4. i = k => a = b
    OBVIOUS
  <2> HIDE DEF a, b
  <2>5. (i < k <=> a < b) /\ (a = b => i = k)
    BY <2>1, <2>2, <2>3, <2>4
  <2> QED BY <2>5 DEF a, b
<1> QED BY <1>1, <1>2, <1>3, <1>4 DEF Chosen

LEMMA PickedFit ==
  ASSUME NEW s, Fit(s), NEW K, K \subseteq 1..Len(s), NEW t, Picked(t, s, K)
  PROVE  Fit(t)
<1>1. PICK e : PickedBy(t, s, K, e)
  BY DEF Picked
<1>2. /\ s \in Seq(WindowRow) /\ \A i \in 1..Len(s) : FitRow(s[i])
      /\ Apart(s) /\ Follows(s)
  BY DEF Fit
<1>3. /\ t \in Seq(WindowRow) /\ Len(t) \in Nat
      /\ \A i \in 1..Len(t) : e[i] \in K /\ e[i] \in 1..Len(s) /\ t[i] = s[e[i]]
      /\ \A i, k \in 1..Len(t) : /\ i < k <=> e[i] < e[k]
                                 /\ e[i] = e[k] => i = k
  <2>1. Chosen(t, s, K, e)
    BY <1>1, <1>2, PickedFacts
  <2> QED BY <2>1 DEF Chosen
<1>4. \A i \in 1..Len(t) : FitRow(t[i])
  BY <1>2, <1>3
<1>5. Apart(t)
  <2>1. \A i, k \in 1..Len(t) : \A id \in t[i].calls : id \in t[k].calls => e[i] = e[k]
    BY <1>2, <1>3 DEF Apart
  <2> QED BY <1>3, <2>1 DEF Apart
<1>6. ASSUME NEW i \in 1..Len(t), NEW k \in 1..Len(t), t[i].role = "tool", t[i].answers \in t[k].calls
      PROVE  k < i /\ \A j \in k + 1..i : t[j].role = "tool"
  <2>1. e[k] < e[i] /\ \A j \in e[k] + 1..e[i] : s[j].role = "tool"
    BY <1>2, <1>3, <1>6 DEF Follows
  <2>2. k < i
    BY <1>3, <2>1
  <2>3. ASSUME NEW j \in k + 1..i PROVE t[j].role = "tool"
    <3>1. j \in 1..Len(t) /\ k < j /\ (j < i \/ j = i)
      BY <1>3
    <3> DEFINE a == e[k]  b == e[i]  c == e[j]
    <3>2. a \in Nat /\ b \in Nat /\ c \in Nat
      <4>1. Len(s) \in Nat
        BY <1>2, WindowRows
      <4> QED BY <1>3, <3>1, <4>1
    <3>3. a < c /\ (c < b \/ c = b)
      BY <1>3, <3>1
    <3> HIDE DEF a, b, c
    <3>4. c \in a + 1..b
      BY <3>2, <3>3
    <3>5. s[c].role = "tool"
      BY <2>1, <3>4 DEF a, b
    <3> QED BY <1>3, <3>1, <3>5 DEF c
  <2> QED BY <2>2, <2>3
<1>7. Follows(t)
  BY <1>6 DEF Follows
<1> QED BY <1>3, <1>4, <1>5, <1>7 DEF Fit

LEMMA PickedMore ==
  ASSUME NEW s \in Seq(WindowRow), NEW i \in 1..Len(s), NEW K, K \subseteq 1..i - 1,
         NEW t, Picked(t, s, K)
  PROVE  Picked(Append(t, s[i]), s, K \cup {i})
<1>1. PICK e : PickedBy(t, s, K, e)
  BY DEF Picked
<1> DEFINE u == Append(t, s[i])  m == Len(t)  d == [k \in 1..m + 1 |-> IF k = m + 1 THEN i ELSE e[k]]
<1>2. /\ t \in Seq(WindowRow) /\ e \in [1..m -> K]
      /\ \A a, b \in 1..m : a < b => e[a] < e[b]
      /\ \A a \in 1..m : t[a] = s[e[a]]
      /\ \A k \in K : \E a \in 1..m : e[a] = k
  BY <1>1 DEF PickedBy
<1>3. m \in Nat /\ s[i] \in WindowRow /\ i \in Nat /\ Len(s) \in Nat
  BY <1>2, WindowRows
<1>4. /\ u \in Seq(WindowRow) /\ Len(u) = m + 1 /\ u[m + 1] = s[i]
      /\ \A a \in 1..m : u[a] = t[a]
  BY <1>2, <1>3, AppendProperties
<1> HIDE DEF u, m
<1>5. \A a \in 1..m + 1 : a = m + 1 \/ a \in 1..m
  BY <1>3
<1>6. d[m + 1] = i /\ \A a \in 1..m : a \in 1..m + 1 /\ d[a] = e[a] /\ e[a] \in K /\ a # m + 1
  <2>1. \A a \in 1..m : a \in 1..m + 1 /\ a # m + 1
    BY <1>3
  <2>2. m + 1 \in 1..m + 1
    BY <1>3
  <2> QED BY <1>2, <2>1, <2>2
<1>7. d \in [1..m + 1 -> K \cup {i}]
  <2>1. \A a \in 1..m + 1 : d[a] \in K \cup {i}
    BY <1>5, <1>6
  <2> QED BY <2>1
<1> HIDE DEF d
<1>8. ASSUME NEW a \in 1..m + 1, NEW b \in 1..m + 1, a < b PROVE d[a] < d[b]
  <2>1. a \in 1..m
    BY <1>3, <1>8
  <2>2. d[a] \in K /\ d[a] = e[a] /\ d[a] < i
    <3>1. d[a] \in K /\ d[a] = e[a]
      BY <1>6, <2>1
    <3>2. \A x \in K : x < i
      BY <1>3
    <3> QED BY <3>1, <3>2
  <2>3. CASE b = m + 1
    BY <1>6, <2>2, <2>3
  <2>4. CASE b \in 1..m
    BY <1>2, <1>6, <1>8, <2>1, <2>4
  <2> QED BY <1>5, <2>3, <2>4
<1>9. \A a \in 1..m + 1 : u[a] = s[d[a]]
  BY <1>2, <1>4, <1>5, <1>6
<1>10. \A k \in K \cup {i} : \E a \in 1..m + 1 : d[a] = k
  <2>1. m + 1 \in 1..m + 1
    BY <1>3
  <2> QED BY <1>2, <1>6, <2>1
<1>11. PickedBy(u, s, K \cup {i}, d)
  BY <1>4, <1>7, <1>8, <1>9, <1>10 DEF PickedBy
<1> QED BY <1>11 DEF Picked, u

LEMMA PickedNone ==
  ASSUME NEW s
  PROVE  Picked(<<>>, s, {})
<1> DEFINE e == [i \in {} |-> 0]
<1>1. <<>> \in Seq(WindowRow) /\ Len(<<>>) = 0 /\ 1..0 = {}
  BY EmptySeq
<1>2. e \in [{} -> {}]
  OBVIOUS
<1>3. PickedBy(<<>>, s, {}, e)
  BY <1>1, <1>2 DEF PickedBy
<1> QED BY <1>3 DEF Picked

(* drop_orphan_tool_results: what is left of the first n rows.             *)
Same(s, i, k) == s[i].role = "tool" /\ s[k].role = "tool" /\ s[i].answers = s[k].answers
Sifted(s, n, K) ==
  /\ K \subseteq 1..n
  /\ \A i \in 1..n : s[i].role # "tool" => i \in K
  /\ \A i \in K : ~Orphan(s, i)
  /\ \A i, k \in K : Same(s, i, k) => i = k
  /\ \A i \in 1..n : s[i].role = "tool" /\ ~Orphan(s, i) => \E k \in K : Same(s, k, i)

Said(acc, s, i) == s[i].role = "tool" /\ \E k \in DOMAIN acc : acc[k].answers = s[i].answers
Sifting(s, f) ==
  f = [i \in 0..Len(s) |-> IF i = 0 THEN <<>>
         ELSE IF Orphan(s, i) \/ Said(f[i - 1], s, i) THEN f[i - 1] ELSE Append(f[i - 1], s[i])]
Siftings(s, h) ==
  /\ h \in [0..Len(s) -> Seq(WindowRow)] /\ h[0] = <<>>
  /\ \A i \in 1..Len(s) :
       h[i] = IF Orphan(s, i) \/ Said(h[i - 1], s, i) THEN h[i - 1] ELSE Append(h[i - 1], s[i])

LEMMA SiftingExists ==
  ASSUME NEW s \in Seq(WindowRow)
  PROVE  \E h : Siftings(s, h) /\ WithoutOrphans(s) = h[Len(s)]
<1> DEFINE n == Len(s)  S == Seq(WindowRow)
           Then(acc, i) == IF Orphan(s, i) \/ Said(acc, s, i) THEN acc ELSE Append(acc, s[i])
           g == [z \in S \X (1..n) |-> Then(z[1], z[2])]
<1>1. n \in Nat /\ <<>> \in S /\ \A i \in 1..n : s[i] \in WindowRow
  BY WindowRows, EmptySeq
<1>2. ASSUME NEW acc \in S, NEW i \in 1..n PROVE Then(acc, i) \in S /\ g[<<acc, i>>] = Then(acc, i)
  <2>1. Append(acc, s[i]) \in S
    BY <1>1, AppendProperties
  <2>2. <<acc, i>> \in S \X (1..n)
    OBVIOUS
  <2>3. <<acc, i>>[1] = acc /\ <<acc, i>>[2] = i
    OBVIOUS
  <2> HIDE DEF Then
  <2>4. g[<<acc, i>>] = Then(acc, i)
    BY <2>2, <2>3
  <2>5. Then(acc, i) \in S
    BY <2>1 DEF Then
  <2> QED BY <2>4, <2>5
<1>3. g \in [S \X (1..n) -> S]
  <2>1. \A z \in S \X (1..n) : Then(z[1], z[2]) \in S
    <3> HIDE DEF Then
    <3> QED BY <1>2
  <2> HIDE DEF Then
  <2> QED BY <2>1
<1> HIDE DEF g
<1>4. PICK h : h \in [0..n -> S] /\ h[0] = <<>> /\ \A i \in 1..n : h[i] = g[<<h[i - 1], i>>]
  <2> DEFINE x == <<>>
  <2>1. x \in S
    BY <1>1
  <2> HIDE DEF n, S, x
  <2>2. \E h : Loop(h, g, x, S, n)
    BY <1>1, <1>3, <2>1, LoopExists
  <2> QED BY <2>2 DEF x, Loop
<1>5. \A i \in 1..n : h[i] = Then(h[i - 1], i)
  <2>1. ASSUME NEW i \in 1..n PROVE h[i] = Then(h[i - 1], i)
    <3>1. i - 1 \in 0..n
      BY <1>1
    <3>2. h[i - 1] \in S
      BY <1>4, <3>1
    <3> QED BY <1>2, <1>4, <3>2
  <2> QED BY <2>1
<1>6. Sifting(s, h)
  <2>1. \A i \in 0..n : i = 0 \/ i \in 1..n
    BY <1>1
  <2>2. \A i \in 0..n : h[i] = IF i = 0 THEN <<>> ELSE Then(h[i - 1], i)
    BY <1>4, <1>5, <2>1
  <2> QED BY <1>4, <2>2 DEF Sifting
<1> DEFINE f == CHOOSE f : Sifting(s, f)
<1>7. Sifting(s, f)
  BY <1>6
<1>8. WithoutOrphans(s) = f[n]
  BY DEF WithoutOrphans, Sifting, Said
<1> HIDE DEF f
<1> DEFINE J == {i \in 0..n : f[i] = h[i]}
<1>9. 0 \in J
  <2>1. 0 \in 0..Len(s)
    BY <1>1
  <2> QED BY <1>4, <1>7, <2>1 DEF Sifting
<1>10. ASSUME NEW i \in 1..n, i - 1 \in J PROVE i \in J
  <2>1. i \in 0..Len(s) /\ i # 0
    BY <1>1
  <2>2. f[i] = Then(f[i - 1], i)
    BY <1>7, <2>1 DEF Sifting
  <2>3. f[i - 1] = h[i - 1]
    BY <1>10
  <2> QED BY <1>5, <2>1, <2>2, <2>3
<1>11. n \in 0..n /\ \A i \in 0..n : i \in J
  <2>1. n \in 0..n
    BY <1>1
  <2> HIDE DEF n, J
  <2> QED BY <1>1, <1>9, <1>10, <2>1, UpTo
<1>12. WithoutOrphans(s) = h[n]
  BY <1>8, <1>11
<1> QED BY <1>4, <1>5, <1>12 DEF Siftings

LEMMA OrphansPicked ==
  ASSUME NEW s, Fit(s)
  PROVE  \E K : Sifted(s, Len(s), K) /\ Picked(WithoutOrphans(s), s, K)
<1> DEFINE n == Len(s)
<1>1. s \in Seq(WindowRow) /\ n \in Nat /\ \A i \in 1..n : FitRow(s[i])
  BY WindowRows DEF Fit
<1>2. PICK h : Siftings(s, h) /\ WithoutOrphans(s) = h[n]
  BY <1>1, SiftingExists
<1>3. /\ h \in [0..n -> Seq(WindowRow)] /\ h[0] = <<>>
      /\ \A i \in 1..n :
           h[i] = IF Orphan(s, i) \/ Said(h[i - 1], s, i) THEN h[i - 1] ELSE Append(h[i - 1], s[i])
  BY <1>2 DEF Siftings
<1> DEFINE J == {m \in 0..n : \E K : Sifted(s, m, K) /\ Picked(h[m], s, K)}
<1>4. 0 \in J
  <2>1. Sifted(s, 0, {})
    <3>1. 1..0 = {}
      OBVIOUS
    <3> QED BY <3>1 DEF Sifted
  <2>2. Picked(h[0], s, {})
    BY <1>3, PickedNone
  <2> QED BY <1>1, <2>1, <2>2
<1>5. ASSUME NEW m \in 1..n, m - 1 \in J PROVE m \in J
  <2>1. PICK K : Sifted(s, m - 1, K) /\ Picked(h[m - 1], s, K)
    BY <1>5
  <2> DEFINE acc == h[m - 1]
  <2>2. /\ K \subseteq 1..m - 1
        /\ \A i \in 1..m - 1 : s[i].role # "tool" => i \in K
        /\ \A i \in K : ~Orphan(s, i)
        /\ \A i, k \in K : Same(s, i, k) => i = k
        /\ \A i \in 1..m - 1 : s[i].role = "tool" /\ ~Orphan(s, i) => \E k \in K : Same(s, k, i)
    BY <2>1 DEF Sifted
  <2>3. PICK e : PickedBy(acc, s, K, e)
    BY <2>1 DEF Picked
  <2>4. K \subseteq 1..n /\ K \subseteq 1..m /\ m \notin K /\ m \in 0..n /\ m - 1 \in 0..n
    BY <1>1, <2>2
  <2>5. Chosen(acc, s, K, e)
    BY <1>1, <2>3, <2>4, PickedFacts
  <2>6. DOMAIN acc = 1..Len(acc)
    <3>1. acc \in Seq(WindowRow)
      BY <1>3, <2>4
    <3> QED BY <3>1, WindowRows
  <2>7. \A i \in 1..m : i = m \/ i \in 1..m - 1
    BY <1>1
  <2>8. h[m] = IF Orphan(s, m) \/ Said(acc, s, m) THEN acc ELSE Append(acc, s[m])
    BY <1>3
  <2> HIDE DEF acc
  <2>9. CASE Orphan(s, m)
    <3>1. s[m].role = "tool"
      BY <2>9 DEF Orphan
    <3>2. Sifted(s, m, K)
      BY <2>2, <2>4, <2>7, <2>9, <3>1 DEF Sifted
    <3>3. Picked(h[m], s, K)
      BY <2>1, <2>8, <2>9 DEF acc
    <3> QED BY <2>4, <3>2, <3>3
  <2>10. CASE ~Orphan(s, m) /\ Said(acc, s, m)
    <3>1. PICK k \in 1..Len(acc) : acc[k].answers = s[m].answers
      BY <2>6, <2>10 DEF Said
    <3>2. s[m].role = "tool"
      BY <2>10 DEF Said
    <3>3. e[k] \in K /\ acc[k] = s[e[k]]
      BY <2>5 DEF Chosen
    <3>4. s[m].answers # NoCall
      <4>1. PICK c \in 1..m - 1 : s[m].answers \in s[c].calls
        BY <2>10, <3>2 DEF Orphan
      <4>2. c \in 1..n
        BY <1>1
      <4>3. NoCall \notin s[c].calls
        BY <1>1, <4>2 DEF FitRow
      <4> QED BY <4>1, <4>3
    <3>5. s[e[k]].role = "tool"
      <4>1. FitRow(s[e[k]])
        BY <1>1, <2>4, <3>3
      <4> QED BY <3>1, <3>3, <3>4, <4>1 DEF FitRow
    <3>6. Same(s, e[k], m)
      BY <3>1, <3>2, <3>3, <3>5 DEF Same
    <3>7. \A i \in 1..m : s[i].role # "tool" => i \in K
      BY <2>2, <2>7, <3>2
    <3>8. \A i \in 1..m : s[i].role = "tool" /\ ~Orphan(s, i) => \E j \in K : Same(s, j, i)
      <4>1. ASSUME NEW i \in 1..m, s[i].role = "tool", ~Orphan(s, i) PROVE \E j \in K : Same(s, j, i)
        <5>1. CASE i = m
          BY <3>3, <3>6, <5>1
        <5>2. CASE i # m
          BY <2>2, <2>7, <4>1, <5>2
        <5> QED BY <5>1, <5>2
      <4> QED BY <4>1
    <3>9. Sifted(s, m, K)
      BY <2>2, <2>4, <3>7, <3>8 DEF Sifted
    <3>10. Picked(h[m], s, K)
      BY <2>1, <2>8, <2>10 DEF acc
    <3> QED BY <2>4, <3>9, <3>10
  <2>11. CASE ~Orphan(s, m) /\ ~Said(acc, s, m)
    <3> DEFINE L == K \cup {m}
    <3>1. Picked(h[m], s, L)
      <4>1. Picked(Append(acc, s[m]), s, L)
        BY <1>1, <2>1, <2>2, PickedMore DEF acc
      <4> QED BY <2>8, <2>11, <4>1
    <3>2. ASSUME NEW i \in K PROVE ~Same(s, i, m) /\ ~Same(s, m, i)
      <4>1. SUFFICES ASSUME s[m].role = "tool", s[i].answers = s[m].answers PROVE FALSE
        BY DEF Same
      <4>2. PICK k \in 1..Len(acc) : e[k] = i
        BY <2>5 DEF Chosen
      <4>3. acc[k].answers = s[m].answers
        BY <2>5, <4>1, <4>2 DEF Chosen
      <4> QED BY <2>6, <2>11, <4>1, <4>2, <4>3 DEF Said
    <3>3. \A i, k \in L : Same(s, i, k) => i = k
      BY <2>2, <3>2
    <3>4. L \subseteq 1..m /\ m \in L
      BY <2>4
    <3>5. \A i \in 1..m : s[i].role # "tool" => i \in L
      BY <2>2, <2>7
    <3>6. \A i \in L : ~Orphan(s, i)
      BY <2>2, <2>11
    <3>7. \A i \in 1..m : s[i].role = "tool" /\ ~Orphan(s, i) => \E k \in L : Same(s, k, i)
      BY <2>2, <2>7, <3>4 DEF Same
    <3>8. Sifted(s, m, L)
      BY <3>3, <3>4, <3>5, <3>6, <3>7 DEF Sifted
    <3> QED BY <2>4, <3>1, <3>8
  <2> QED BY <2>9, <2>10, <2>11
<1>6. n \in 0..n /\ \A m \in 0..n : m \in J
  <2>1. n \in 0..n
    BY <1>1
  <2> HIDE DEF n, J
  <2> QED BY <1>1, <1>4, <1>5, <2>1, UpTo
<1>7. n \in J
  BY <1>6
<1> QED BY <1>2, <1>7

(* The same for a result with a call: Orphan looks at the rows before it.  *)
LEMMA OrphansGone ==
  ASSUME NEW s, Fit(s)
  PROVE  LET w == WithoutOrphans(s) IN Fit(w) /\ Owned(w) /\ Single(w)
<1> DEFINE n == Len(s)  w == WithoutOrphans(s)
<1>1. PICK K : Sifted(s, n, K) /\ Picked(w, s, K)
  BY OrphansPicked
<1>2. /\ K \subseteq 1..n
      /\ \A i \in 1..n : s[i].role # "tool" => i \in K
      /\ \A i \in K : ~Orphan(s, i)
      /\ \A i, k \in K : Same(s, i, k) => i = k
  BY <1>1 DEF Sifted
<1>3. s \in Seq(WindowRow) /\ n \in Nat /\ \A i \in 1..n : FitRow(s[i])
  BY WindowRows DEF Fit
<1>4. Fit(w)
  BY <1>1, <1>2, PickedFit
<1>5. PICK e : PickedBy(w, s, K, e)
  BY <1>1 DEF Picked
<1>6. Chosen(w, s, K, e)
  BY <1>2, <1>3, <1>5, PickedFacts
<1> HIDE DEF w
<1>7. DOMAIN w = 1..Len(w)
  BY <1>4, WindowRows DEF Fit
<1>8. \A i \in 1..Len(w) : e[i] \in K /\ e[i] \in 1..n /\ w[i] = s[e[i]]
  BY <1>6 DEF Chosen
<1>9. ASSUME NEW i \in 1..Len(w), w[i].role = "tool"
      PROVE  \E k \in 1..Len(w) : w[i].answers \in w[k].calls
  <2> DEFINE p == e[i]
  <2>1. p \in K /\ p \in 1..n /\ w[i] = s[p]
    BY <1>8
  <2> HIDE DEF p
  <2>2. PICK c \in 1..p - 1 : s[p].answers \in s[c].calls
    BY <1>2, <1>9, <2>1 DEF Orphan
  <2>3. c \in 1..n
    BY <1>3, <2>1
  <2>4. s[c].role # "tool"
    BY <1>3, <2>2, <2>3 DEF FitRow
  <2>5. c \in K
    BY <1>2, <2>3, <2>4
  <2>6. PICK k \in 1..Len(w) : e[k] = c
    BY <1>6, <2>5 DEF Chosen
  <2> QED BY <1>8, <2>1, <2>2, <2>6
<1>10. Owned(w)
  BY <1>9 DEF Owned
<1>11. Single(w)
  <2>1. ASSUME NEW i \in 1..Len(w), NEW k \in 1..Len(w), Same(w, i, k) PROVE e[i] = e[k]
    <3>1. e[i] \in K /\ e[k] \in K /\ w[i] = s[e[i]] /\ w[k] = s[e[k]]
      BY <1>8
    <3>2. Same(s, e[i], e[k])
      BY <2>1, <3>1 DEF Same
    <3> QED BY <1>2, <3>1, <3>2
  <2>2. \A i, k \in 1..Len(w) : e[i] = e[k] => i = k
    BY <1>6 DEF Chosen
  <2>3. \A i, k \in 1..Len(w) : Same(w, i, k) => i = k
    BY <2>1, <2>2
  <2> QED BY <1>7, <2>3 DEF Single, Same
<1> QED BY <1>4, <1>10, <1>11 DEF w

LEMMA EachOnce ==
  ASSUME NEW S, IsFiniteSet(S)
  PROVE  \E n \in Nat : /\ SetToSeq(S) \in [1..n -> S]
                        /\ \A i, k \in 1..n : SetToSeq(S)[i] = SetToSeq(S)[k] => i = k
                        /\ \A x \in S : \E i \in 1..n : SetToSeq(S)[i] = x
<1> DEFINE n == Cardinality(S)  q == SetToSeq(S)
<1>1. n \in Nat
  BY FS_CardinalityType
<1>2. PICK m \in Nat : ExistsBijection(1..m, S)
  BY FS_NatBijection
<1>3. m = n
  BY <1>2, FS_CountingElements
<1>4. PICK f : f \in Bijection(1..n, S)
  BY <1>2, <1>3 DEF ExistsBijection
<1>5. f \in [1..n -> S] /\ IsInjective(f)
  BY <1>4 DEF Bijection, Injection
<1>6. q \in [1..n -> S] /\ IsInjective(q)
  BY <1>5 DEF SetToSeq
<1> HIDE DEF q
<1>7. q \in Injection(1..n, S)
  BY <1>6 DEF Injection
<1>8. IsFiniteSet(1..n) /\ Cardinality(1..n) = n
  <2>1. 1 \in Int /\ n \in Int
    BY <1>1
  <2> HIDE DEF n
  <2>2. IsFiniteSet(1..n) /\ Cardinality(1..n) = IF 1 > n THEN 0 ELSE n - 1 + 1
    BY <2>1, FS_Interval
  <2> QED BY <1>1, <2>2
<1>9. q \in Surjection(1..n, S)
  BY <1>7, <1>8, FS_Injection
<1>10. \A x \in S : \E i \in 1..n : q[i] = x
  BY <1>9 DEF Surjection
<1>11. \A i, k \in 1..n : q[i] = q[k] => i = k
  BY <1>6 DEF IsInjective
<1> QED BY <1>1, <1>6, <1>10, <1>11 DEF q

(* backfill_missing_tool_results: the call that row i ends without a       *)
(* result for id.                                                          *)
Group(s, c, i) == c \in 1..i /\ s[c].role # "tool" /\ \A j \in c + 1..i : s[j].role = "tool"
Due(s, i, c, id) ==
  /\ Group(s, c, i) /\ (i = Len(s) \/ s[i + 1].role # "tool")
  /\ id \in s[c].calls /\ id \notin Answered(s)

LEMMA CallerIs ==
  ASSUME NEW s \in Seq(WindowRow), NEW i \in 1..Len(s)
  PROVE  /\ \A c \in 1..i : Group(s, c, i) <=> Caller(s, i) = c
         /\ Caller(s, i) \in 0..i
<1> DEFINE T == {k \in 1..i : s[k].role # "tool"} \cup {0}  m == Caller(s, i)
<1>1. Len(s) \in Nat /\ i \in Nat
  BY WindowRows
<1>2. m \in T /\ (\A y \in T : m >= y) /\ T \subseteq 0..i
  <2>1. T \subseteq 0..i /\ T # {}
    BY <1>1
  <2>2. m = Max(T)
    BY DEF Caller
  <2> HIDE DEF T, m
  <2> QED BY <1>1, <2>1, <2>2, MaxOf
<1>3. m \in 0..i
  BY <1>2
<1> HIDE DEF m
<1>4. ASSUME NEW c \in 1..i, Group(s, c, i) PROVE m = c
  <2>1. c \in T
    BY <1>4 DEF Group
  <2>2. m >= c /\ m \in 1..i
    BY <1>1, <1>2, <1>3, <2>1
  <2>3. s[m].role # "tool"
    BY <1>2, <2>2
  <2>4. m \notin c + 1..i
    BY <1>4, <2>3 DEF Group
  <2> QED BY <1>1, <2>2, <2>4
<1>5. ASSUME NEW c \in 1..i, m = c PROVE Group(s, c, i)
  <2>1. s[c].role # "tool"
    BY <1>1, <1>2, <1>5
  <2>2. ASSUME NEW j \in c + 1..i, s[j].role # "tool" PROVE FALSE
    <3>1. j \in 1..i
      BY <1>1
    <3>2. j \in T
      BY <2>2, <3>1
    <3>3. m >= j
      BY <1>2, <3>2
    <3> QED BY <1>1, <1>5, <3>3
  <2> QED BY <2>1, <2>2 DEF Group
<1> QED BY <1>3, <1>4, <1>5 DEF m

LEMMA MissingIs ==
  ASSUME NEW s \in Seq(WindowRow), NEW i \in 1..Len(s), NEW id
  PROVE  id \in Missing(s, i) <=> Caller(s, i) \in 1..i /\ Due(s, i, Caller(s, i), id)
<1> DEFINE m == Caller(s, i)
<1>1. Len(s) \in Nat /\ i \in Nat
  BY WindowRows
<1>2. m \in 0..i /\ \A c \in 1..i : Group(s, c, i) <=> m = c
  BY CallerIs
<1>3. id \in Missing(s, i) <=> /\ (i = Len(s) \/ s[i + 1].role # "tool") /\ m > 0
                               /\ id \in s[m].calls /\ id \notin Answered(s)
  BY DEF Missing
<1> HIDE DEF m
<1>4. m > 0 <=> m \in 1..i
  BY <1>1, <1>2
<1>5. m \in 1..i => Group(s, m, i)
  BY <1>2
<1> QED BY <1>3, <1>4, <1>5 DEF Due, m

(* What is filled in behind row i.                                         *)
FillerOf(s, i, row) ==
  /\ row \in WindowRow /\ row.role = "tool" /\ row.calls = {}
  /\ \E c \in 1..i : Due(s, i, c, row.answers)
Fills(s, i, fill) ==
  /\ fill \in Seq(WindowRow)
  /\ \A k \in 1..Len(fill) : FillerOf(s, i, fill[k])
  /\ \A k, j \in 1..Len(fill) : fill[k].answers = fill[j].answers => k = j
  /\ \A c \in 1..i : \A id \in s[c].calls :
       Due(s, i, c, id) => \E k \in 1..Len(fill) : fill[k].answers = id

LEMMA FillersAre ==
  ASSUME NEW s, Fit(s), NEW i \in 1..Len(s)
  PROVE  Fills(s, i, Fillers(s, i))
<1> DEFINE m == Caller(s, i)  M == Missing(s, i)  ids == SetToSeq(M)  fill == Fillers(s, i)
<1>1. /\ s \in Seq(WindowRow) /\ Len(s) \in Nat /\ i \in Nat
      /\ \A k \in 1..Len(s) : s[k] \in WindowRow /\ FitRow(s[k])
  BY WindowRows DEF Fit
<1>2. /\ m \in 0..i
      /\ \A c \in 1..i : Group(s, c, i) <=> m = c
      /\ \A id : id \in M <=> m \in 1..i /\ Due(s, i, m, id)
  BY <1>1, CallerIs, MissingIs
<1>3. fill = [k \in DOMAIN ids |-> Result(s[m].n, ids[k])]
  BY DEF Fillers
<1> HIDE DEF m, M, ids, fill
<1>4. M = {} \/ (m \in 1..Len(s) /\ M \subseteq s[m].calls)
  BY <1>1, <1>2 DEF Due
<1>5. IsFiniteSet(M)
  <2>1. CASE M = {}
    BY <2>1, FS_EmptySet
  <2>2. CASE m \in 1..Len(s) /\ M \subseteq s[m].calls
    BY <1>1, <2>2, FS_Subset DEF FitRow
  <2> QED BY <1>4, <2>1, <2>2
<1>6. PICK n \in Nat : /\ ids \in [1..n -> M]
                       /\ \A k, j \in 1..n : ids[k] = ids[j] => k = j
                       /\ \A x \in M : \E k \in 1..n : ids[k] = x
  BY <1>5, EachOnce DEF ids
<1>7. ASSUME NEW id \in M
      PROVE  LET row == Result(s[m].n, id) IN FillerOf(s, i, row) /\ row.answers = id
  <2> DEFINE row == Result(s[m].n, id)
  <2>1. m \in 1..i /\ Due(s, i, m, id) /\ m \in 1..Len(s) /\ id \in s[m].calls
    BY <1>1, <1>2, <1>4
  <2>2. s[m].n \in Nat /\ id \in Nat
    BY <1>1, <2>1 DEF WindowRow
  <2>3. /\ row \in WindowRow /\ row.role = "tool" /\ row.calls = {} /\ row.answers = id
    BY <2>2 DEF Result, Row, WindowRow, NoCall
  <2> QED BY <2>1, <2>3 DEF FillerOf
<1>8. /\ DOMAIN fill = 1..n
      /\ \A k \in 1..n : FillerOf(s, i, fill[k]) /\ fill[k].answers = ids[k]
  <2>1. DOMAIN ids = 1..n /\ \A k \in 1..n : ids[k] \in M
    BY <1>6
  <2> QED BY <1>3, <1>7, <2>1
<1>9. fill = [k \in 1..n |-> fill[k]]
  BY <1>3, <1>8
<1>10. \A k \in 1..n : fill[k] \in WindowRow
  BY <1>8 DEF FillerOf
<1>11. fill \in Seq(WindowRow) /\ Len(fill) = n
  <2>1. fill \in [1..n -> WindowRow]
    BY <1>9, <1>10
  <2> QED BY <1>8, <2>1, SeqDef, LenProperties
<1>12. \A k, j \in 1..Len(fill) : fill[k].answers = fill[j].answers => k = j
  BY <1>6, <1>8, <1>11
<1>13. ASSUME NEW c \in 1..i, NEW id \in s[c].calls, Due(s, i, c, id)
       PROVE  \E k \in 1..Len(fill) : fill[k].answers = id
  <2>1. m = c
    BY <1>2, <1>13 DEF Due
  <2>2. id \in M
    BY <1>2, <1>13, <2>1
  <2> QED BY <1>6, <1>8, <1>11, <2>2
<1> QED BY <1>8, <1>11, <1>12, <1>13 DEF Fills, fill

(* Each row at its base, what is filled in behind it up to its end.        *)
Laid(b, w, base, end) ==
  /\ b \in Seq(WindowRow)
  /\ \A i \in 1..Len(w) :
       /\ base[i] \in 1..Len(b) /\ end[i] \in 1..Len(b) /\ base[i] <= end[i] /\ b[base[i]] = w[i]
       /\ \A q \in 1..Len(Fillers(w, i)) : base[i] + q <= end[i] /\ b[base[i] + q] = Fillers(w, i)[q]
  /\ \A i, k \in 1..Len(w) : i < k => end[i] < base[k]
  /\ \A p \in 1..Len(b) : \E i \in 1..Len(w) :
       p = base[i] \/ \E q \in 1..Len(Fillers(w, i)) : p = base[i] + q

Filling(s, f) ==
  f = [i \in 0..Len(s) |-> IF i = 0 THEN <<>> ELSE f[i - 1] \o <<s[i]>> \o Fillers(s, i)]

LEMMA FillingJoins ==
  ASSUME NEW s, Fit(s), NEW P, P = [i \in 1..Len(s) |-> <<s[i]>> \o Fillers(s, i)]
  PROVE  /\ P \in [1..Len(s) -> Seq(WindowRow)]
         /\ \E f : Joins(f, P, Len(s), WindowRow) /\ Backfilled(s) = f[Len(s)]
<1> DEFINE n == Len(s)
<1>1. s \in Seq(WindowRow) /\ n \in Nat /\ \A i \in 1..n : s[i] \in WindowRow
  BY WindowRows DEF Fit
<1>2. \A i \in 1..n : <<s[i]>> \in Seq(WindowRow) /\ Fillers(s, i) \in Seq(WindowRow)
  BY <1>1, FillersAre, OneRow DEF Fills
<1>3. P \in [1..n -> Seq(WindowRow)]
  <2>1. \A i \in 1..n : <<s[i]>> \o Fillers(s, i) \in Seq(WindowRow)
    BY <1>2, ConcatProperties
  <2> QED BY <2>1
<1>4. PICK h : Joins(h, P, n, WindowRow)
  <2> HIDE DEF n
  <2> QED BY <1>1, <1>3, JoinExists
<1>5. /\ h \in [0..n -> Seq(WindowRow)] /\ h[0] = <<>>
      /\ \A i \in 1..n : h[i] = h[i - 1] \o P[i]
  BY <1>4 DEF Joins
<1>6. ASSUME NEW i \in 1..n PROVE h[i] = h[i - 1] \o <<s[i]>> \o Fillers(s, i)
  <2>1. i - 1 \in 0..n
    BY <1>1
  <2>2. h[i - 1] \in Seq(WindowRow)
    BY <1>5, <2>1
  <2>3. h[i - 1] \o <<s[i]>> \o Fillers(s, i) = h[i - 1] \o (<<s[i]>> \o Fillers(s, i))
    <3> DEFINE a == h[i - 1]  x == <<s[i]>>  y == Fillers(s, i)
    <3>1. a \in Seq(WindowRow) /\ x \in Seq(WindowRow) /\ y \in Seq(WindowRow)
      BY <1>2, <2>2
    <3> HIDE DEF a, x, y
    <3>2. (a \o x) \o y = a \o (x \o y)
      BY <3>1, RowsJoin
    <3> QED BY <3>2 DEF a, x, y
  <2> QED BY <1>5, <2>3
<1>7. Filling(s, h)
  <2>1. \A i \in 0..n : i = 0 \/ i \in 1..n
    BY <1>1
  <2>2. \A i \in 0..n : h[i] = IF i = 0 THEN <<>> ELSE h[i - 1] \o <<s[i]>> \o Fillers(s, i)
    BY <1>5, <1>6, <2>1
  <2> QED BY <1>5, <2>2 DEF Filling
<1> DEFINE f == CHOOSE f : Filling(s, f)
<1>8. Filling(s, f)
  BY <1>7
<1>9. Backfilled(s) = f[n]
  BY DEF Backfilled, Filling
<1> HIDE DEF f
<1> DEFINE J == {i \in 0..n : f[i] = h[i]}
<1>10. 0 \in J
  <2>1. 0 \in 0..Len(s)
    BY <1>1
  <2> QED BY <1>5, <1>8, <2>1 DEF Filling
<1>11. ASSUME NEW i \in 1..n, i - 1 \in J PROVE i \in J
  <2>1. i \in 0..Len(s) /\ i # 0
    BY <1>1
  <2>2. f[i] = f[i - 1] \o <<s[i]>> \o Fillers(s, i)
    BY <1>8, <2>1 DEF Filling
  <2>3. f[i - 1] = h[i - 1]
    BY <1>11
  <2> QED BY <1>6, <2>1, <2>2, <2>3
<1>12. n \in 0..n /\ \A i \in 0..n : i \in J
  <2>1. n \in 0..n
    BY <1>1
  <2> HIDE DEF n, J
  <2> QED BY <1>1, <1>10, <1>11, <2>1, UpTo
<1> QED BY <1>3, <1>4, <1>9, <1>12

LEMMA BackfilledLaid ==
  ASSUME NEW w, Fit(w)
  PROVE  \E base, end : Laid(Backfilled(w), w, base, end)
<1> DEFINE n == Len(w)  b == Backfilled(w)  P == [i \in 1..Len(w) |-> <<w[i]>> \o Fillers(w, i)]
<1>1. w \in Seq(WindowRow) /\ n \in Nat /\ \A i \in 1..n : w[i] \in WindowRow
  BY WindowRows DEF Fit
<1>2. P \in [1..n -> Seq(WindowRow)] /\ \E f : Joins(f, P, n, WindowRow) /\ b = f[n]
  BY FillingJoins
<1>3. ASSUME NEW i \in 1..n
      PROVE  /\ P[i] = <<w[i]>> \o Fillers(w, i)
             /\ Fillers(w, i) \in Seq(WindowRow) /\ Len(Fillers(w, i)) \in Nat
             /\ Len(P[i]) = 1 + Len(Fillers(w, i)) /\ P[i][1] = w[i]
             /\ \A q \in 1..Len(Fillers(w, i)) : P[i][1 + q] = Fillers(w, i)[q]
  <2> DEFINE x == <<w[i]>>  F == Fillers(w, i)
  <2>1. x \in Seq(WindowRow) /\ Len(x) = 1 /\ x[1] = w[i] /\ F \in Seq(WindowRow) /\ Len(F) \in Nat
    BY <1>1, FillersAre, OneRow, LenProperties DEF Fills
  <2>2. P[i] = x \o F
    OBVIOUS
  <2> HIDE DEF P, x, F
  <2>3. /\ Len(x \o F) = 1 + Len(F)
        /\ \A q \in 1..1 + Len(F) : (x \o F)[q] = IF q <= 1 THEN x[q] ELSE F[q - 1]
    <3>1. /\ Len(x \o F) = Len(x) + Len(F)
          /\ \A q \in 1..Len(x) + Len(F) : (x \o F)[q] = IF q <= Len(x) THEN x[q] ELSE F[q - Len(x)]
      BY <2>1, ConcatProperties
    <3> QED BY <2>1, <3>1
  <2>4. (x \o F)[1] = w[i]
    BY <2>1, <2>3
  <2>5. ASSUME NEW q \in 1..Len(F) PROVE (x \o F)[1 + q] = F[q]
    <3> DEFINE r == 1 + q
    <3>1. r \in 1..1 + Len(F) /\ ~(r <= 1) /\ r - 1 = q
      BY <2>1
    <3> HIDE DEF r
    <3>2. (x \o F)[r] = F[r - 1]
      BY <2>3, <3>1
    <3> QED BY <3>1, <3>2 DEF r
  <2> QED BY <2>1, <2>2, <2>3, <2>4, <2>5 DEF x, F
<1> HIDE DEF P, b, n
<1>4. PICK f : Joins(f, P, n, WindowRow) /\ b = f[n]
  BY <1>2
<1>5. PICK at : \A m \in 0..n : Spread(f[m], P, m, at)
  BY <1>1, <1>2, <1>4, JoinSpread
<1>6. n \in 0..n /\ b \in Seq(WindowRow)
  BY <1>1, <1>4 DEF Joins
<1>7. Spread(b, P, n, at)
  BY <1>4, <1>5, <1>6
<1>8. Places(P, n, at) /\ Len(b) = at[n]
      /\ \A i \in 1..n : \A q \in 1..Len(P[i]) : b[at[i - 1] + q] = P[i][q]
  BY <1>7 DEF Spread
<1>9. \A i, k \in 0..n : i <= k => at[i] <= at[k]
  BY <1>1, <1>2, <1>8, SpreadGrows
<1>10. \A k \in 1..Len(b) : InPiece(P, n, at, k)
  BY <1>1, <1>2, <1>7, SpreadCovers
<1> DEFINE base == [i \in 1..n |-> at[i - 1] + 1]  end == [i \in 1..n |-> at[i]]
<1>11. ASSUME NEW i \in 1..n
       PROVE  /\ i \in 0..n /\ i - 1 \in 0..n /\ i <= n /\ at[i - 1] \in Nat /\ at[i] \in Nat /\ at[n] \in Nat
              /\ at[i] = at[i - 1] + Len(P[i])
              /\ base[i] = at[i - 1] + 1 /\ end[i] = at[i]
  <2>1. i \in 0..n /\ i - 1 \in 0..n /\ i <= n
    BY <1>1
  <2> QED BY <1>6, <1>8, <2>1 DEF Places
<1> HIDE DEF base, end
<1>12. ASSUME NEW i \in 1..n
       PROVE  /\ base[i] \in 1..Len(b) /\ end[i] \in 1..Len(b) /\ base[i] <= end[i] /\ b[base[i]] = w[i]
              /\ \A q \in 1..Len(Fillers(w, i)) : base[i] + q <= end[i] /\ b[base[i] + q] = Fillers(w, i)[q]
  <2> DEFINE l == Len(Fillers(w, i))
  <2>1. l \in Nat /\ Len(P[i]) = 1 + l
    BY <1>3
  <2>2. at[i] <= at[n]
    BY <1>6, <1>9, <1>11
  <2>3. base[i] \in 1..Len(b) /\ end[i] \in 1..Len(b) /\ base[i] <= end[i] /\ end[i] = base[i] + l
    <3> DEFINE a == at[i - 1]  z == at[i]  m == at[n]
    <3>1. /\ a \in Nat /\ z \in Nat /\ m \in Nat /\ z = a + (1 + l) /\ z <= m /\ Len(b) = m
          /\ base[i] = a + 1 /\ end[i] = z
      BY <1>8, <1>11, <2>1, <2>2
    <3> HIDE DEF a, z, m, l
    <3> QED BY <2>1, <3>1
  <2>4. b[base[i]] = w[i]
    <3>1. 1 \in 1..Len(P[i])
      BY <2>1
    <3>2. b[at[i - 1] + 1] = P[i][1]
      BY <1>8, <3>1
    <3> QED BY <1>3, <1>11, <3>2
  <2>5. ASSUME NEW q \in 1..l PROVE base[i] + q <= end[i] /\ b[base[i] + q] = Fillers(w, i)[q]
    <3> DEFINE r == 1 + q
    <3>1. r \in 1..Len(P[i]) /\ base[i] + q = at[i - 1] + r /\ base[i] + q <= end[i]
      <4> DEFINE a == at[i - 1]
      <4>1. a \in Nat /\ base[i] = a + 1 /\ end[i] = base[i] + l
        BY <1>11, <2>3
      <4> HIDE DEF a, l
      <4>2. r \in 1..1 + l /\ base[i] + q = a + r /\ base[i] + q <= end[i]
        BY <2>1, <4>1
      <4> QED BY <2>1, <4>2 DEF a
    <3>2. P[i][r] = Fillers(w, i)[q]
      BY <1>3
    <3> HIDE DEF r
    <3>3. b[at[i - 1] + r] = P[i][r]
      BY <1>8, <3>1
    <3> QED BY <3>1, <3>2, <3>3
  <2> QED BY <2>3, <2>4, <2>5
<1>13. ASSUME NEW i \in 1..n, NEW k \in 1..n, i < k PROVE end[i] < base[k]
  <2>1. i <= k - 1 /\ i \in 0..n /\ k - 1 \in 0..n
    BY <1>1, <1>13
  <2>2. at[i] <= at[k - 1]
    BY <1>9, <2>1
  <2> QED BY <1>11, <2>2
<1>14. ASSUME NEW p \in 1..Len(b)
       PROVE  \E i \in 1..n : p = base[i] \/ \E q \in 1..Len(Fillers(w, i)) : p = base[i] + q
  <2>1. PICK i \in 1..n : \E r \in 1..Len(P[i]) : p = at[i - 1] + r
    BY <1>10 DEF InPiece
  <2>2. PICK r \in 1..Len(P[i]) : p = at[i - 1] + r
    BY <2>1
  <2> DEFINE l == Len(Fillers(w, i))
  <2>3. l \in Nat /\ Len(P[i]) = 1 + l /\ base[i] = at[i - 1] + 1 /\ at[i - 1] \in Nat
    BY <1>3, <1>11
  <2> HIDE DEF l
  <2>4. CASE r = 1
    BY <2>2, <2>3, <2>4
  <2>5. CASE r # 1
    <3>1. r - 1 \in 1..l /\ p = base[i] + (r - 1)
      BY <2>2, <2>3, <2>5
    <3> QED BY <3>1 DEF l
  <2> QED BY <2>4, <2>5
<1>15. Laid(b, w, base, end)
  BY <1>6, <1>12, <1>13, <1>14 DEF Laid, n
<1> QED BY <1>15 DEF b

(* What stands at place p: row i itself, or what was filled in behind it.  *)
LaidAt(b, w, base, end, p) ==
  \E i \in 1..Len(w) :
    /\ base[i] <= p /\ p <= end[i]
    /\ \/ p = base[i] /\ b[p] = w[i]
       \/ base[i] < p /\ FillerOf(w, i, b[p])

LEMMA LaidIs ==
  ASSUME NEW w, Fit(w), NEW b, NEW base, NEW end, Laid(b, w, base, end), NEW p \in 1..Len(b)
  PROVE  LaidAt(b, w, base, end, p)
<1>1. PICK i \in 1..Len(w) : p = base[i] \/ \E q \in 1..Len(Fillers(w, i)) : p = base[i] + q
  BY DEF Laid
<1>2. /\ base[i] \in 1..Len(b) /\ end[i] \in 1..Len(b) /\ base[i] <= end[i] /\ b[base[i]] = w[i]
      /\ \A q \in 1..Len(Fillers(w, i)) : base[i] + q <= end[i] /\ b[base[i] + q] = Fillers(w, i)[q]
      /\ b \in Seq(WindowRow)
  BY DEF Laid
<1>3. Len(b) \in Nat
  BY <1>2, WindowRows
<1>4. CASE p = base[i]
  <2>1. base[i] <= p
    BY <1>2, <1>3, <1>4
  <2> QED BY <1>2, <1>4, <2>1 DEF LaidAt
<1>5. CASE \E q \in 1..Len(Fillers(w, i)) : p = base[i] + q
  <2>1. PICK q \in 1..Len(Fillers(w, i)) : p = base[i] + q
    BY <1>5
  <2>2. FillerOf(w, i, b[p]) /\ p <= end[i]
    BY <1>2, <2>1, FillersAre DEF Fills
  <2>3. base[i] < p /\ base[i] <= p
    BY <1>2, <1>3, <2>1
  <2> QED BY <2>2, <2>3 DEF LaidAt
<1> QED BY <1>1, <1>4, <1>5

LEMMA LaidOrder ==
  ASSUME NEW w, Fit(w), NEW b, NEW base, NEW end, Laid(b, w, base, end)
  PROVE  \A i, k \in 1..Len(w) :
           /\ base[i] \in Nat /\ end[i] \in Nat /\ base[i] <= end[i] /\ base[i] \in 1..Len(b)
           /\ i < k => end[i] < base[k]
           /\ i <= k => base[i] <= base[k]
           /\ base[i] <= end[k] => i <= k
           /\ base[i] = base[k] => i = k
<1> SUFFICES ASSUME NEW i \in 1..Len(w), NEW k \in 1..Len(w)
             PROVE  /\ base[i] \in Nat /\ end[i] \in Nat /\ base[i] <= end[i] /\ base[i] \in 1..Len(b)
                    /\ i < k => end[i] < base[k]
                    /\ i <= k => base[i] <= base[k]
                    /\ base[i] <= end[k] => i <= k
                    /\ base[i] = base[k] => i = k
  OBVIOUS
<1> DEFINE a == base[i]  c == base[k]  x == end[i]  y == end[k]
<1>1. /\ a \in 1..Len(b) /\ x \in 1..Len(b) /\ a <= x
      /\ c \in 1..Len(b) /\ y \in 1..Len(b) /\ c <= y
      /\ (i < k => x < c) /\ (k < i => y < a)
  BY DEF Laid
<1>2. Len(b) \in Nat /\ Len(w) \in Nat
  BY WindowRows DEF Laid, Fit
<1>3. i = k => a = c
  OBVIOUS
<1>4. i \in Nat /\ k \in Nat
  BY <1>2
<1> HIDE DEF a, c, x, y
<1>5. /\ a \in Nat /\ x \in Nat /\ a <= x /\ a \in 1..Len(b)
      /\ i < k => x < c
      /\ i <= k => a <= c
      /\ a <= y => i <= k
      /\ a = c => i = k
  BY <1>1, <1>2, <1>3, <1>4
<1> QED BY <1>5 DEF a, c, x, y

(* Behind row c and up to row i, if these are results, are results.        *)
LEMMA LaidBetween ==
  ASSUME NEW w, Fit(w), NEW b, NEW base, NEW end, Laid(b, w, base, end),
         NEW i \in 1..Len(w), NEW c \in 1..i, \A j \in c + 1..i : w[j].role = "tool",
         NEW p \in Nat, base[c] < p, p <= end[i]
  PROVE  b[p].role = "tool"
<1>1. Len(w) \in Nat /\ c \in 1..Len(w) /\ Len(b) \in Nat
  BY WindowRows DEF Laid, Fit
<1>2. base[c] \in 1..Len(b) /\ end[i] \in 1..Len(b)
  BY <1>1 DEF Laid
<1>3. p \in 1..Len(b)
  BY <1>1, <1>2
<1>4. LaidAt(b, w, base, end, p)
  BY <1>3, LaidIs
<1>5. PICK j \in 1..Len(w) : \/ p = base[j] /\ b[p] = w[j]
                             \/ FillerOf(w, j, b[p])
  BY <1>4 DEF LaidAt
<1>6. CASE p = base[j] /\ b[p] = w[j]
  <2>1. j <= i /\ ~(j <= c)
    <3>1. base[j] <= end[i] /\ ~(base[j] <= base[c])
      BY <1>2, <1>6
    <3> QED BY <1>1, <3>1, LaidOrder
  <2>2. j \in c + 1..i
    BY <1>1, <2>1
  <2> QED BY <1>6, <2>2
<1>7. CASE FillerOf(w, j, b[p])
  BY <1>7 DEF FillerOf
<1> QED BY <1>5, <1>6, <1>7

LEMMA LaidCalls ==
  ASSUME NEW w, Fit(w), NEW b, NEW base, NEW end, Laid(b, w, base, end),
         NEW p \in 1..Len(b), NEW id \in b[p].calls
  PROVE  \E c \in 1..Len(w) : p = base[c] /\ b[p] = w[c] /\ id \in w[c].calls
<1>1. LaidAt(b, w, base, end, p)
  BY LaidIs
<1>2. PICK c \in 1..Len(w) : (p = base[c] /\ b[p] = w[c]) \/ FillerOf(w, c, b[p])
  BY <1>1 DEF LaidAt
<1>3. ~FillerOf(w, c, b[p])
  BY DEF FillerOf
<1> QED BY <1>2, <1>3

(* A result at place p, the row i it is or that it is behind, and its call.*)
LEMMA LaidResult ==
  ASSUME NEW w, Fit(w), Owned(w), NEW b, NEW base, NEW end, Laid(b, w, base, end),
         NEW p \in 1..Len(b), b[p].role = "tool"
  PROVE  \E i \in 1..Len(w), c \in 1..Len(w) :
           /\ b[p].answers \in w[c].calls /\ b[base[c]] = w[c]
           /\ base[c] < p /\ base[c] \in 1..Len(b)
           /\ \A j \in base[c] + 1..p : b[j].role = "tool"
<1>1. LaidAt(b, w, base, end, p)
  BY LaidIs
<1>2. PICK i \in 1..Len(w) : /\ base[i] <= p /\ p <= end[i]
                             /\ \/ p = base[i] /\ b[p] = w[i]
                                \/ base[i] < p /\ FillerOf(w, i, b[p])
  BY <1>1 DEF LaidAt
<1>3. \E c \in 1..i : /\ b[p].answers \in w[c].calls /\ base[c] < p
                      /\ \A j \in c + 1..i : w[j].role = "tool"
  <2>1. CASE p = base[i] /\ b[p] = w[i]
    <3>1. PICK c \in 1..Len(w) : w[i].answers \in w[c].calls
      BY <2>1 DEF Owned
    <3>2. c < i /\ \A j \in c + 1..i : w[j].role = "tool"
      BY <2>1, <3>1 DEF Fit, Follows
    <3>3. base[c] < p /\ c \in 1..i
      <4>1. end[c] < base[i] /\ base[c] <= end[c] /\ base[c] \in Nat /\ end[c] \in Nat /\ base[i] \in Nat
        BY <3>2, LaidOrder
      <4>2. Len(w) \in Nat
        BY WindowRows DEF Fit
      <4> QED BY <2>1, <3>2, <4>1, <4>2
    <3> QED BY <2>1, <3>1, <3>2, <3>3
  <2>2. CASE base[i] < p /\ FillerOf(w, i, b[p])
    <3>1. PICK c \in 1..i : Due(w, i, c, b[p].answers)
      BY <2>2 DEF FillerOf
    <3>2. b[p].answers \in w[c].calls /\ \A j \in c + 1..i : w[j].role = "tool"
      BY <3>1 DEF Due, Group
    <3>3. base[c] < p
      <4>1. Len(w) \in Nat /\ Len(b) \in Nat
        BY WindowRows DEF Fit, Laid
      <4>2. c \in 1..Len(w) /\ c <= i
        BY <4>1
      <4>3. base[c] <= base[i] /\ base[c] \in Nat /\ base[i] \in Nat
        BY <4>2, LaidOrder
      <4> QED BY <2>2, <4>1, <4>3
    <3> QED BY <3>2, <3>3
  <2> QED BY <1>2, <2>1, <2>2
<1>4. PICK c \in 1..i : /\ b[p].answers \in w[c].calls /\ base[c] < p
                        /\ \A j \in c + 1..i : w[j].role = "tool"
  BY <1>3
<1>5. Len(w) \in Nat /\ Len(b) \in Nat
  BY WindowRows DEF Fit, Laid
<1>6. c \in 1..Len(w) /\ base[c] \in 1..Len(b) /\ b[base[c]] = w[c] /\ end[i] \in 1..Len(b)
  BY <1>5 DEF Laid
<1>7. ASSUME NEW j \in base[c] + 1..p PROVE b[j].role = "tool"
  <2>1. j \in Nat /\ base[c] < j /\ j <= end[i]
    BY <1>2, <1>5, <1>6
  <2> QED BY <1>4, <2>1, LaidBetween
<1> QED BY <1>4, <1>6, <1>7

(* Every call has one result.                                              *)
Exact(s) ==
  \A i \in 1..Len(s) : \A id \in s[i].calls :
    \E k \in 1..Len(s) : s[k].answers = id /\ \A j \in 1..Len(s) : s[j].answers = id => j = k

LEMMA LaidFit ==
  ASSUME NEW w, Fit(w), Owned(w), NEW b, NEW base, NEW end, Laid(b, w, base, end)
  PROVE  Fit(b) /\ Owned(b)
<1>1. /\ w \in Seq(WindowRow) /\ \A i \in 1..Len(w) : FitRow(w[i])
      /\ Apart(w) /\ Follows(w) /\ b \in Seq(WindowRow)
  BY DEF Fit, Laid
<1>2. ASSUME NEW p \in 1..Len(b) PROVE FitRow(b[p])
  <2>1. LaidAt(b, w, base, end, p)
    BY LaidIs
  <2>2. PICK i \in 1..Len(w) : b[p] = w[i] \/ FillerOf(w, i, b[p])
    BY <2>1 DEF LaidAt
  <2> QED BY <1>1, <2>2, FS_EmptySet DEF FitRow, FillerOf
<1>3. ASSUME NEW p \in 1..Len(b), NEW q \in 1..Len(b), NEW id \in b[p].calls, id \in b[q].calls
      PROVE  p = q
  <2>1. PICK c \in 1..Len(w) : p = base[c] /\ id \in w[c].calls
    BY LaidCalls
  <2>2. PICK d \in 1..Len(w) : q = base[d] /\ id \in w[d].calls
    BY <1>3, LaidCalls
  <2>3. c = d
    BY <1>1, <2>1, <2>2 DEF Apart
  <2> QED BY <2>1, <2>2, <2>3
<1>4. Apart(b)
  BY <1>3 DEF Apart
<1>5. ASSUME NEW p \in 1..Len(b), b[p].role = "tool"
      PROVE  \E k \in 1..Len(b) : /\ b[p].answers \in b[k].calls
                                  /\ k < p /\ \A j \in k + 1..p : b[j].role = "tool"
  <2>1. PICK i \in 1..Len(w), c \in 1..Len(w) :
           /\ b[p].answers \in w[c].calls /\ b[base[c]] = w[c]
           /\ base[c] < p /\ base[c] \in 1..Len(b)
           /\ \A j \in base[c] + 1..p : b[j].role = "tool"
    BY <1>5, LaidResult
  <2> QED BY <2>1
<1>6. ASSUME NEW p \in 1..Len(b), NEW q \in 1..Len(b), b[p].role = "tool", b[p].answers \in b[q].calls
      PROVE  q < p /\ \A j \in q + 1..p : b[j].role = "tool"
  <2>1. PICK k \in 1..Len(b) : /\ b[p].answers \in b[k].calls
                               /\ k < p /\ \A j \in k + 1..p : b[j].role = "tool"
    BY <1>5, <1>6
  <2>2. k = q
    BY <1>4, <1>6, <2>1 DEF Apart
  <2> QED BY <2>1, <2>2
<1>7. Follows(b)
  BY <1>6 DEF Follows
<1>8. Owned(b)
  BY <1>5 DEF Owned
<1> QED BY <1>1, <1>2, <1>4, <1>7, <1>8 DEF Fit

(* The last of the results behind a call.                                  *)
LEMMA GroupEnds ==
  ASSUME NEW w, Fit(w), NEW c \in 1..Len(w), w[c].role # "tool"
  PROVE  \E i \in c..Len(w) : Group(w, c, i) /\ (i = Len(w) \/ w[i + 1].role # "tool")
<1> DEFINE n == Len(w)  T == {i \in c..n : \A j \in c + 1..i : w[j].role = "tool"}
<1>1. n \in Nat /\ c \in Nat
  BY WindowRows DEF Fit
<1>2. c \in T /\ T \subseteq 0..n
  BY <1>1
<1> DEFINE i == Max(T)
<1>3. i \in T /\ \A y \in T : i >= y
  <2> HIDE DEF T, n
  <2> QED BY <1>1, <1>2, MaxOf
<1> HIDE DEF i
<1>4. i \in c..n /\ \A j \in c + 1..i : w[j].role = "tool"
  BY <1>3
<1>5. ASSUME i # n, w[i + 1].role = "tool" PROVE FALSE
  <2>1. i + 1 \in c..n /\ \A j \in c + 1..i + 1 : j = i + 1 \/ j \in c + 1..i
    BY <1>1, <1>4, <1>5
  <2>2. i + 1 \in T
    BY <1>4, <1>5, <2>1
  <2>3. i >= i + 1
    BY <1>3, <2>2
  <2> QED BY <1>1, <1>4, <2>3
<1>6. c \in 1..i
  BY <1>1, <1>4
<1> QED BY <1>4, <1>5, <1>6 DEF Group

LEMMA DueOnce ==
  ASSUME NEW w, Fit(w), NEW i \in 1..Len(w), NEW k \in 1..Len(w),
         NEW c \in 1..i, NEW d \in 1..k, NEW id, Due(w, i, c, id), Due(w, k, d, id)
  PROVE  i = k /\ c = d
<1>1. Len(w) \in Nat /\ Apart(w)
  BY WindowRows DEF Fit
<1>2. c \in 1..Len(w) /\ d \in 1..Len(w) /\ id \in w[c].calls /\ id \in w[d].calls
  BY <1>1 DEF Due
<1>3. c = d
  BY <1>1, <1>2 DEF Apart
<1>4. ~(i < k)
  <2>1. SUFFICES ASSUME i < k PROVE FALSE
    OBVIOUS
  <2>2. i + 1 \in d + 1..k /\ i # Len(w)
    BY <1>1, <1>3, <2>1
  <2> QED BY <2>2 DEF Due, Group
<1>5. ~(k < i)
  <2>1. SUFFICES ASSUME k < i PROVE FALSE
    OBVIOUS
  <2>2. k + 1 \in c + 1..i /\ k # Len(w)
    BY <1>1, <1>3, <2>1
  <2> QED BY <2>2 DEF Due, Group
<1> QED BY <1>1, <1>3, <1>4, <1>5

LEMMA LaidExact ==
  ASSUME NEW w, Fit(w), Single(w), NEW b, NEW base, NEW end, Laid(b, w, base, end)
  PROVE  Exact(b)
<1>1. /\ w \in Seq(WindowRow) /\ \A i \in 1..Len(w) : FitRow(w[i])
      /\ DOMAIN w = 1..Len(w) /\ Len(w) \in Nat
  BY WindowRows DEF Fit
<1>2. ASSUME NEW j \in 1..Len(b)
      PROVE  \E i \in 1..Len(w) :
               \/ j = base[i] /\ b[j] = w[i]
               \/ \E q \in 1..Len(Fillers(w, i)) : j = base[i] + q /\ b[j] = Fillers(w, i)[q]
  <2>1. PICK i \in 1..Len(w) : j = base[i] \/ \E q \in 1..Len(Fillers(w, i)) : j = base[i] + q
    BY DEF Laid
  <2>2. /\ b[base[i]] = w[i]
        /\ \A q \in 1..Len(Fillers(w, i)) : b[base[i] + q] = Fillers(w, i)[q]
    BY DEF Laid
  <2>3. CASE j = base[i]
    BY <2>2, <2>3
  <2>4. CASE \E q \in 1..Len(Fillers(w, i)) : j = base[i] + q
    <3>1. PICK q \in 1..Len(Fillers(w, i)) : j = base[i] + q
      BY <2>4
    <3>2. b[j] = Fillers(w, i)[q]
      BY <2>2, <3>1
    <3> QED BY <3>1, <3>2
  <2> QED BY <2>1, <2>3, <2>4
<1>3. ASSUME NEW i \in 1..Len(w), NEW q \in 1..Len(Fillers(w, i))
      PROVE  \E d \in 1..i : Due(w, i, d, Fillers(w, i)[q].answers)
  BY FillersAre DEF Fills, FillerOf
<1>4. ASSUME NEW p \in 1..Len(b), NEW id \in b[p].calls
      PROVE  \E k \in 1..Len(b) : b[k].answers = id /\ \A j \in 1..Len(b) : b[j].answers = id => j = k
  <2>1. PICK c \in 1..Len(w) : p = base[c] /\ id \in w[c].calls
    BY LaidCalls
  <2>2. id # NoCall /\ w[c].role # "tool"
    BY <1>1, <2>1 DEF FitRow
  <2>3. CASE id \in Answered(w)
    <3>1. PICK m \in 1..Len(w) : w[m].answers = id
      BY <1>1, <2>3 DEF Answered
    <3>2. base[m] \in 1..Len(b) /\ b[base[m]].answers = id
      BY <3>1 DEF Laid
    <3>3. ASSUME NEW j \in 1..Len(b), b[j].answers = id PROVE j = base[m]
      <4>1. PICK i \in 1..Len(w) :
               \/ j = base[i] /\ b[j] = w[i]
               \/ \E q \in 1..Len(Fillers(w, i)) : j = base[i] + q /\ b[j] = Fillers(w, i)[q]
        BY <1>2
      <4>2. CASE j = base[i] /\ b[j] = w[i]
        <5>1. w[i].role = "tool" /\ w[m].role = "tool" /\ w[i].answers = w[m].answers
          BY <1>1, <2>2, <3>1, <3>3, <4>2 DEF FitRow
        <5>2. i = m
          BY <1>1, <5>1 DEF Single
        <5> QED BY <4>2, <5>2
      <4>3. CASE \E q \in 1..Len(Fillers(w, i)) : j = base[i] + q /\ b[j] = Fillers(w, i)[q]
        <5>1. \E d \in 1..i : Due(w, i, d, id)
          BY <1>3, <3>3, <4>3
        <5> QED BY <2>3, <5>1 DEF Due
      <4> QED BY <4>1, <4>2, <4>3
    <3> QED BY <3>2, <3>3
  <2>4. CASE id \notin Answered(w)
    <3>1. PICK i \in c..Len(w) : Group(w, c, i) /\ (i = Len(w) \/ w[i + 1].role # "tool")
      BY <2>2, GroupEnds
    <3>2. i \in 1..Len(w) /\ c \in 1..i /\ Due(w, i, c, id)
      <4>1. i \in 1..Len(w) /\ c \in 1..i
        <5>1. Len(w) \in Nat /\ i \in c..Len(w) /\ c \in 1..Len(w)
          BY <1>1
        <5> QED BY <5>1
      <4>2. Due(w, i, c, id)
        BY <2>1, <2>4, <3>1 DEF Due
      <4> QED BY <4>1, <4>2
    <3>3. Fills(w, i, Fillers(w, i))
      BY <3>2, FillersAre
    <3>4. PICK q \in 1..Len(Fillers(w, i)) : Fillers(w, i)[q].answers = id
      BY <2>1, <3>2, <3>3 DEF Fills
    <3> DEFINE k == base[i] + q
    <3>5. b[k].answers = id /\ k \in 1..Len(b)
      <4>1. /\ b[k] = Fillers(w, i)[q] /\ k <= end[i] /\ end[i] \in 1..Len(b) /\ base[i] \in 1..Len(b)
        BY <3>2 DEF Laid
      <4>2. Len(b) \in Nat /\ Len(Fillers(w, i)) \in Nat
        BY <3>3, WindowRows DEF Laid, Fills
      <4>3. k \in 1..Len(b)
        <5> DEFINE x == base[i]  y == end[i]  l == Len(Fillers(w, i))
        <5>1. x \in 1..Len(b) /\ y \in 1..Len(b) /\ x + q <= y /\ q \in 1..l /\ l \in Nat
          BY <4>1, <4>2
        <5> HIDE DEF x, y, l
        <5>2. x + q \in 1..Len(b)
          BY <4>2, <5>1
        <5> QED BY <5>2 DEF x
      <4> QED BY <3>4, <4>1, <4>3
    <3>6. ASSUME NEW j \in 1..Len(b), b[j].answers = id PROVE j = k
      <4>1. PICK h \in 1..Len(w) :
               \/ j = base[h] /\ b[j] = w[h]
               \/ \E r \in 1..Len(Fillers(w, h)) : j = base[h] + r /\ b[j] = Fillers(w, h)[r]
        BY <1>2
      <4>2. ~(j = base[h] /\ b[j] = w[h])
        BY <1>1, <2>4, <3>6 DEF Answered
      <4>3. PICK r \in 1..Len(Fillers(w, h)) : j = base[h] + r /\ b[j] = Fillers(w, h)[r]
        BY <4>1, <4>2
      <4>4. PICK d \in 1..h : Due(w, h, d, id)
        BY <1>3, <3>6, <4>3
      <4>5. h = i
        BY <3>2, <4>4, DueOnce
      <4>6. r \in 1..Len(Fillers(w, i)) /\ Fillers(w, i)[r].answers = id
        BY <3>6, <4>3, <4>5
      <4>7. r = q
        BY <3>3, <3>4, <4>6 DEF Fills
      <4> QED BY <4>3, <4>5, <4>7
    <3> QED BY <3>5, <3>6
  <2> QED BY <2>3, <2>4
<1> QED BY <1>4 DEF Exact

(* _governed_messages of one request: what repairing makes of it.          *)
Valid(s) == Fit(s) /\ Owned(s) /\ Exact(s)

LEMMA ValidIsPaired ==
  ASSUME NEW s, Valid(s)
  PROVE  Paired(s)
<1>1. /\ DOMAIN s = 1..Len(s) /\ Len(s) \in Nat /\ Follows(s) /\ Owned(s) /\ Exact(s)
  BY WindowRows DEF Valid, Fit
<1>2. ASSUME NEW i \in 1..Len(s), s[i].role = "tool"
      PROVE  \E k \in 1..i - 1 : s[i].answers \in s[k].calls /\ \A j \in k + 1..i : s[j].role = "tool"
  <2>1. PICK k \in 1..Len(s) : s[i].answers \in s[k].calls
    BY <1>1, <1>2 DEF Owned
  <2>2. k < i /\ \A j \in k + 1..i : s[j].role = "tool"
    BY <1>1, <1>2, <2>1 DEF Follows
  <2>3. k \in 1..i - 1
    BY <1>1, <2>2
  <2> QED BY <2>1, <2>2, <2>3
<1>3. ASSUME NEW i \in 1..Len(s), NEW id \in s[i].calls
      PROVE  Cardinality({k \in 1..Len(s) : s[k].answers = id}) = 1
  <2>1. PICK k \in 1..Len(s) : s[k].answers = id /\ \A j \in 1..Len(s) : s[j].answers = id => j = k
    BY <1>1 DEF Exact
  <2>2. {j \in 1..Len(s) : s[j].answers = id} = {k}
    BY <2>1
  <2> QED BY <2>2, FS_Singleton
<1> QED BY <1>1, <1>2, <1>3 DEF Paired

LEMMA RepairedIsValid ==
  ASSUME NEW s, Fit(s)
  PROVE  Valid(Repaired(s))
<1> DEFINE w == WithoutOrphans(s)  b == Backfilled(w)
<1>1. Fit(w) /\ Owned(w) /\ Single(w)
  BY OrphansGone
<1> HIDE DEF w
<1>2. PICK base, end : Laid(b, w, base, end)
  BY <1>1, BackfilledLaid
<1> HIDE DEF b
<1>3. Fit(b) /\ Owned(b) /\ Exact(b)
  BY <1>1, <1>2, LaidFit, LaidExact
<1> QED BY <1>3 DEF Valid, Repaired, w, b

(* The rows with the numbers in N are among the places K of s; no row of   *)
(* the user is behind them, and no repair takes them away.                 *)
LateAt(s, K, i) ==
  /\ \A u \in Users(s) : u <= i
  /\ s[i].role = "tool" => /\ \E k \in K : s[i].answers \in s[k].calls
                           /\ \A j \in 1..Len(s) : Same(s, j, i) => j = i
LateIn(s, K, N) ==
  /\ \E u \in Users(s) : u \in K
  /\ \A x \in N : \E i \in K : s[i].n = x /\ LateAt(s, K, i)
Late(s, N) == LateIn(s, 1..Len(s), N)

LEMMA PickedLate ==
  ASSUME NEW s \in Seq(WindowRow), NEW K, K \subseteq 1..Len(s), NEW t, Picked(t, s, K),
         NEW N, LateIn(s, K, N)
  PROVE  Late(t, N)
<1>1. PICK e : PickedBy(t, s, K, e)
  BY DEF Picked
<1>2. Chosen(t, s, K, e)
  BY <1>1, PickedFacts
<1>3. /\ t \in Seq(WindowRow) /\ Len(t) \in Nat
      /\ \A i \in 1..Len(t) : e[i] \in K /\ e[i] \in 1..Len(s) /\ t[i] = s[e[i]]
      /\ \A i, k \in 1..Len(t) : /\ i < k <=> e[i] < e[k]
                                 /\ e[i] = e[k] => i = k
      /\ \A k \in K : \E i \in 1..Len(t) : e[i] = k
  BY <1>2 DEF Chosen
<1>4. DOMAIN t = 1..Len(t) /\ DOMAIN s = 1..Len(s) /\ Len(s) \in Nat
  BY <1>3, WindowRows
<1>5. \E u \in Users(t) : u \in 1..Len(t)
  <2>1. PICK u \in Users(s) : u \in K
    BY DEF LateIn
  <2>2. PICK m \in 1..Len(t) : e[m] = u
    BY <1>3, <2>1
  <2>3. t[m].role = "user"
    BY <1>3, <2>1, <2>2 DEF Users
  <2> QED BY <1>4, <2>3 DEF Users
<1>6. ASSUME NEW x \in N PROVE \E m \in 1..Len(t) : t[m].n = x /\ LateAt(t, 1..Len(t), m)
  <2>1. PICK i \in K : s[i].n = x /\ LateAt(s, K, i)
    BY DEF LateIn
  <2>2. PICK m \in 1..Len(t) : e[m] = i
    BY <1>3
  <2>3. t[m] = s[i]
    BY <1>3, <2>2
  <2>4. ASSUME NEW v \in Users(t) PROVE v <= m
    <3>1. v \in 1..Len(t) /\ e[v] \in 1..Len(s) /\ s[e[v]].role = "user"
      BY <1>3, <1>4 DEF Users
    <3>2. e[v] <= i
      BY <1>4, <2>1, <3>1 DEF LateAt, Users
    <3>3. i \in 1..Len(s)
      OBVIOUS
    <3>4. ~(e[m] < e[v])
      BY <1>4, <2>2, <3>1, <3>2, <3>3
    <3>5. ~(m < v)
      BY <1>3, <3>1, <3>4
    <3> QED BY <1>4, <3>1, <3>5
  <2>5. ASSUME t[m].role = "tool"
        PROVE  /\ \E k \in 1..Len(t) : t[m].answers \in t[k].calls
               /\ \A j \in 1..Len(t) : Same(t, j, m) => j = m
    <3>1. PICK k \in K : s[i].answers \in s[k].calls
      BY <2>1, <2>3, <2>5 DEF LateAt
    <3>2. PICK q \in 1..Len(t) : e[q] = k
      BY <1>3
    <3>3. t[m].answers \in t[q].calls
      BY <1>3, <2>3, <3>1, <3>2
    <3>4. ASSUME NEW j \in 1..Len(t), Same(t, j, m) PROVE j = m
      <4>1. e[j] \in 1..Len(s) /\ Same(s, e[j], i)
        BY <1>3, <2>3, <3>4 DEF Same
      <4>2. e[j] = i
        BY <2>1, <2>3, <2>5, <4>1 DEF LateAt
      <4> QED BY <1>3, <2>2, <4>2
    <3> QED BY <3>3, <3>4
  <2>6. LateAt(t, 1..Len(t), m)
    BY <2>4, <2>5 DEF LateAt
  <2> QED BY <2>1, <2>3, <2>6
<1> QED BY <1>5, <1>6 DEF Late, LateIn

LEMMA SiftedLate ==
  ASSUME NEW s, Fit(s), NEW N, Late(s, N), NEW K, Sifted(s, Len(s), K)
  PROVE  LateIn(s, K, N)
<1>1. /\ s \in Seq(WindowRow) /\ Len(s) \in Nat /\ DOMAIN s = 1..Len(s)
      /\ \A i \in 1..Len(s) : FitRow(s[i])
      /\ Follows(s)
  BY WindowRows DEF Fit
<1>2. /\ \A i \in 1..Len(s) : s[i].role # "tool" => i \in K
      /\ \A i \in 1..Len(s) : s[i].role = "tool" /\ ~Orphan(s, i) => \E k \in K : Same(s, k, i)
      /\ K \subseteq 1..Len(s)
  BY DEF Sifted
<1>3. \E u \in Users(s) : u \in K
  BY <1>1, <1>2 DEF Late, LateIn, Users
<1>4. ASSUME NEW x \in N PROVE \E i \in K : s[i].n = x /\ LateAt(s, K, i)
  <2>1. PICK i \in 1..Len(s) : s[i].n = x /\ LateAt(s, 1..Len(s), i)
    BY DEF Late, LateIn
  <2>2. CASE s[i].role # "tool"
    BY <1>2, <2>1, <2>2 DEF LateAt
  <2>3. CASE s[i].role = "tool"
    <3>1. PICK k \in 1..Len(s) : s[i].answers \in s[k].calls
      BY <2>1, <2>3 DEF LateAt
    <3>2. k \in 1..i - 1
      <4>1. k < i
        BY <1>1, <2>3, <3>1 DEF Follows
      <4> QED BY <1>1, <4>1
    <3>3. ~Orphan(s, i)
      BY <3>1, <3>2 DEF Orphan
    <3>4. PICK j \in K : Same(s, j, i)
      BY <1>2, <2>3, <3>3
    <3>5. j = i
      BY <1>2, <2>1, <2>3, <3>4 DEF LateAt
    <3>6. k \in K
      BY <1>1, <1>2, <3>1 DEF FitRow
    <3> QED BY <2>1, <3>1, <3>4, <3>5, <3>6 DEF LateAt
  <2> QED BY <2>2, <2>3
<1> QED BY <1>3, <1>4 DEF LateIn

LEMMA LaidLate ==
  ASSUME NEW w, Fit(w), NEW b, NEW base, NEW end, Laid(b, w, base, end), Owned(b), Exact(b),
         NEW N, Late(w, N)
  PROVE  Late(b, N)
<1>1. /\ DOMAIN w = 1..Len(w) /\ DOMAIN b = 1..Len(b) /\ Len(w) \in Nat /\ Len(b) \in Nat
  BY WindowRows DEF Fit, Laid
<1>2. \A i \in 1..Len(w) : base[i] \in 1..Len(b) /\ b[base[i]] = w[i]
  BY DEF Laid
<1>3. \E u \in Users(b) : u \in 1..Len(b)
  <2>1. PICK u \in 1..Len(w) : w[u].role = "user"
    BY DEF Late, LateIn, Users
  <2> QED BY <1>1, <1>2, <2>1 DEF Users
<1>4. ASSUME NEW x \in N PROVE \E p \in 1..Len(b) : b[p].n = x /\ LateAt(b, 1..Len(b), p)
  <2>1. PICK i \in 1..Len(w) : w[i].n = x /\ LateAt(w, 1..Len(w), i)
    BY DEF Late, LateIn
  <2> DEFINE p == base[i]
  <2>2. p \in 1..Len(b) /\ b[p] = w[i]
    BY <1>2
  <2>3. ASSUME NEW v \in Users(b) PROVE v <= p
    <3>1. v \in 1..Len(b) /\ b[v].role = "user"
      BY <1>1 DEF Users
    <3>2. LaidAt(b, w, base, end, v)
      BY <3>1, LaidIs
    <3>3. PICK u \in 1..Len(w) : v = base[u] /\ b[v] = w[u]
      BY <3>1, <3>2 DEF LaidAt, FillerOf
    <3>4. u <= i
      BY <1>1, <2>1, <3>1, <3>3 DEF LateAt, Users
    <3> QED BY <3>3, <3>4, LaidOrder
  <2> HIDE DEF p
  <2>4. ASSUME b[p].role = "tool"
        PROVE  /\ \E k \in 1..Len(b) : b[p].answers \in b[k].calls
               /\ \A j \in 1..Len(b) : Same(b, j, p) => j = p
    <3>1. PICK k \in 1..Len(b) : b[p].answers \in b[k].calls
      BY <2>2, <2>4 DEF Owned
    <3>2. \A j \in 1..Len(b) : Same(b, j, p) => j = p
      BY <2>2, <3>1 DEF Exact, Same
    <3> QED BY <3>1, <3>2
  <2>5. LateAt(b, 1..Len(b), p)
    BY <2>3, <2>4 DEF LateAt
  <2> QED BY <2>1, <2>2, <2>5
<1> QED BY <1>3, <1>4 DEF Late, LateIn

LEMMA RepairedLate ==
  ASSUME NEW s, Fit(s), NEW N, Late(s, N)
  PROVE  Late(Repaired(s), N)
<1> DEFINE w == WithoutOrphans(s)  b == Backfilled(w)
<1>1. PICK K : Sifted(s, Len(s), K) /\ Picked(w, s, K)
  BY OrphansPicked
<1>2. Fit(w) /\ Owned(w)
  BY OrphansGone
<1>3. Late(w, N)
  <2>1. K \subseteq 1..Len(s) /\ s \in Seq(WindowRow) /\ LateIn(s, K, N)
    BY <1>1, SiftedLate DEF Sifted, Fit
  <2> HIDE DEF w
  <2> QED BY <1>1, <2>1, PickedLate
<1>4. Repaired(s) = b
  BY DEF Repaired
<1>5. Valid(b)
  BY <1>4, RepairedIsValid
<1> HIDE DEF w
<1>6. PICK base, end : Laid(b, w, base, end)
  BY <1>2, BackfilledLaid
<1> HIDE DEF b
<1>7. Late(b, N)
  BY <1>2, <1>3, <1>5, <1>6, LaidLate DEF Valid
<1> QED BY <1>4, <1>7

LEMMA FromPicked ==
  ASSUME NEW s \in Seq(WindowRow), NEW u \in 1..Len(s)
  PROVE  Picked(From(s, u), s, u..Len(s))
<1> DEFINE t == From(s, u)  n == Len(s) - u + 1  e == [i \in 1..n |-> u + i - 1]
<1>1. Len(s) \in Nat /\ u \in 1..Len(s) + 1
  BY WindowRows
<1>2. /\ t \in Seq(WindowRow) /\ Len(t) = n
      /\ \A k \in 1..n : t[k] = s[u + k - 1]
  BY <1>1, FromCut
<1> HIDE DEF t
<1>3. \A i \in 1..n : u + i - 1 \in u..Len(s)
  BY <1>1
<1>4. e \in [1..n -> u..Len(s)] /\ \A i \in 1..n : e[i] = u + i - 1
  BY <1>3
<1> HIDE DEF e
<1>5. \A i, k \in 1..n : i < k => e[i] < e[k]
  BY <1>1, <1>4
<1>6. \A i \in 1..n : t[i] = s[e[i]]
  BY <1>2, <1>4
<1>7. ASSUME NEW k \in u..Len(s) PROVE \E i \in 1..n : e[i] = k
  <2>1. k - u + 1 \in 1..n /\ u + (k - u + 1) - 1 = k
    BY <1>1
  <2> QED BY <1>4, <2>1
<1>8. PickedBy(t, s, u..Len(s), e)
  BY <1>2, <1>4, <1>5, <1>6, <1>7 DEF PickedBy
<1> QED BY <1>8 DEF Picked, t

(* snip_history: what is left begins with a row of the user, and the rows  *)
(* that are safe stay.                                                     *)
LEMMA UserFirst ==
  ASSUME NEW s, Valid(s), NEW N, Late(s, N), NEW u \in Users(s)
  PROVE  LET t == From(s, u) IN Fit(t) /\ Supported(t) /\ Late(t, N)
<1> DEFINE t == From(s, u)  n == Len(s)
<1>1. /\ s \in Seq(WindowRow) /\ n \in Nat /\ DOMAIN s = 1..n /\ Fit(s)
      /\ \A i \in 1..n : FitRow(s[i])
      /\ Follows(s) /\ Owned(s) /\ Exact(s)
  BY WindowRows DEF Valid, Fit
<1>2. u \in 1..n /\ s[u].role = "user"
  BY <1>1 DEF Users
<1>3. u..n \subseteq 1..n
  BY <1>1, <1>2
<1>4. Picked(t, s, u..n)
  BY <1>1, <1>2, FromPicked
<1>5. Fit(t)
  BY <1>1, <1>3, <1>4, PickedFit
<1>6. ASSUME NEW i \in u..n, s[i].role = "tool"
      PROVE  \E k \in u..i - 1 : s[k].role = "assistant" /\ s[i].answers \in s[k].calls
  <2>1. i \in 1..n
    BY <1>3
  <2>2. PICK k \in 1..n : s[i].answers \in s[k].calls
    BY <1>1, <1>6, <2>1 DEF Owned
  <2>3. k < i /\ \A j \in k + 1..i : s[j].role = "tool"
    BY <1>1, <1>6, <2>1, <2>2 DEF Follows
  <2>4. u \notin k + 1..i
    BY <1>2, <2>3
  <2>5. k \in u..i - 1
    BY <1>1, <1>2, <2>1, <2>3, <2>4
  <2>6. s[k].role = "assistant"
    BY <1>1, <2>2 DEF FitRow
  <2> QED BY <2>2, <2>5, <2>6
<1>7. /\ Len(t) = n - u + 1 /\ \A k \in 1..n - u + 1 : t[k] = s[u + k - 1]
  <2>1. u \in 1..Len(s) + 1
    BY <1>1, <1>2
  <2> QED BY <1>1, <2>1, FromCut
<1> HIDE DEF t
<1>8. ASSUME NEW i \in 1..Len(t), t[i].role = "tool" PROVE t[i].answers \in Declared(t, 0, i)
  <2> DEFINE p == u + i - 1  id == t[i].answers
  <2>1. p \in u..n /\ t[i] = s[p] /\ p \in Nat /\ i \in 1..n - u + 1
    BY <1>1, <1>2, <1>7
  <2>2. PICK k \in u..p - 1 : s[k].role = "assistant" /\ id \in s[k].calls
    BY <1>6, <1>8, <2>1
  <2> DEFINE q == k - u + 1
  <2>3. q \in 0 + 1..i - 1 /\ q \in 1..n - u + 1 /\ u + q - 1 = k
    BY <1>1, <1>2, <2>1, <2>2
  <2> HIDE DEF q, id
  <2>4. t[q] = s[k]
    BY <1>7, <2>3
  <2>5. \E j \in 0 + 1..i - 1 : t[j].role = "assistant" /\ id \in t[j].calls
    BY <2>2, <2>3, <2>4
  <2>6. id \in Declared(t, 0, i)
    BY <2>5, DeclaredIs
  <2> QED BY <2>6 DEF id
<1>9. Supported(t)
  BY <1>8 DEF Supported
<1>10. LateIn(s, u..n, N)
  <2>1. u \in u..n
    BY <1>1, <1>2
  <2>2. ASSUME NEW x \in N PROVE \E i \in u..n : s[i].n = x /\ LateAt(s, u..n, i)
    <3>1. PICK i \in 1..n : s[i].n = x /\ LateAt(s, 1..n, i)
      BY DEF Late, LateIn
    <3>2. u <= i
      BY <3>1 DEF LateAt
    <3>3. i \in u..n
      BY <1>1, <1>2, <3>1, <3>2
    <3>4. ASSUME s[i].role = "tool" PROVE \E k \in u..n : s[i].answers \in s[k].calls
      <4>1. PICK k \in u..i - 1 : s[i].answers \in s[k].calls
        BY <1>6, <3>3, <3>4
      <4>2. k \in u..n
        BY <1>1, <1>2, <3>3
      <4> QED BY <4>1, <4>2
    <3> QED BY <3>1, <3>3, <3>4 DEF LateAt
  <2> QED BY <2>1, <2>2 DEF LateIn
<1>11. Late(t, N)
  BY <1>1, <1>3, <1>4, <1>10, PickedLate
<1> QED BY <1>5, <1>9, <1>11 DEF t

LEMMA SnippedIs ==
  ASSUME NEW s, Valid(s), NEW N, Late(s, N), NEW fitting \in 1..Len(s)
  PROVE  Fit(Snipped(s, fitting)) /\ Late(Snipped(s, fitting), N)
<1> DEFINE n == Len(s)  a == n - fitting + 1  kept == From(s, a)
           t == IF Users(kept) # {} THEN FromFirstUser(kept)
                ELSE IF Users(s) # {} THEN From(s, Max(Users(s))) ELSE kept
<1>1. s \in Seq(WindowRow) /\ n \in Nat /\ DOMAIN s = 1..n /\ Users(s) \subseteq 1..n /\ Users(s) # {}
  <2>1. s \in Seq(WindowRow)
    BY DEF Valid, Fit
  <2> QED BY <2>1, WindowRows DEF Late, LateIn
<1>2. a \in 1..n /\ a \in 1..Len(s) + 1
  BY <1>1
<1>3. Snipped(s, fitting) = Legal(t)
  BY DEF Snipped
<1>4. /\ kept \in Seq(WindowRow) /\ Len(kept) = n - a + 1 /\ Ends(kept, s)
      /\ \A k \in 1..n - a + 1 : kept[k] = s[a + k - 1]
  <2> HIDE DEF a
  <2> QED BY <1>1, <1>2, FromCut, FromEnds
<1> HIDE DEF a, kept
<1>5. \E u \in Users(s) : t = From(s, u)
  <2>1. CASE Users(kept) # {}
    <3> DEFINE m == Min(Users(kept))  v == From(kept, m)
    <3>1. m \in Users(kept) /\ m \in 1..Len(kept)
      <4>1. Users(kept) \subseteq Nat
        BY <1>4, WindowRows
      <4>2. m \in Users(kept)
        BY <2>1, <4>1, MinOf
      <4> QED BY <1>4, <2>1, <4>2, UserIs
    <3>2. t = v
      BY <2>1 DEF FromFirstUser
    <3> HIDE DEF m
    <3>3. m \in 1..Len(kept) + 1
      BY <1>1, <1>2, <1>4, <3>1
    <3>4. Ends(v, kept) /\ Len(v) = Len(kept) - m + 1
      BY <1>4, <3>3, FromEnds, FromCut
    <3> DEFINE u == a + m - 1
    <3>5. n - Len(v) + 1 = u /\ u \in 1..n
      BY <1>1, <1>2, <1>4, <3>1, <3>4
    <3> HIDE DEF v
    <3>6. From(s, n - Len(v) + 1) = v
      <4>1. Ends(v, s)
        BY <1>1, <1>4, <3>4, EndsOfEnds
      <4> QED BY <1>1, <4>1, EndsFacts
    <3>7. s[u].role = "user"
      <4>1. kept[m] = s[u] /\ kept[m].role = "user"
        BY <1>4, <3>1 DEF Users
      <4> QED BY <4>1
    <3>8. u \in Users(s)
      BY <1>1, <3>5, <3>7 DEF Users
    <3> QED BY <3>2, <3>5, <3>6, <3>8
  <2>2. CASE Users(kept) = {}
    <3> DEFINE u == Max(Users(s))
    <3>1. u \in Users(s)
      <4>1. Users(s) \subseteq 0..n
        BY <1>1
      <4> QED BY <1>1, <4>1, MaxOf
    <3>2. t = From(s, u)
      BY <1>1, <2>2
    <3> QED BY <3>1, <3>2
  <2> QED BY <2>1, <2>2
<1>6. PICK u \in Users(s) : t = From(s, u)
  BY <1>5
<1> HIDE DEF t
<1>7. Fit(t) /\ Supported(t) /\ Late(t, N)
  BY <1>6, UserFirst
<1>8. Legal(t) = t
  BY <1>7, SupportedIsLegal DEF Fit
<1> QED BY <1>3, <1>7, <1>8

LEMMA PreparedIs ==
  ASSUME NEW c, NEW s, c = Cleaned(s), Fit(c), NEW N, Late(c, N), NEW r \in Prepared(s)
  PROVE  Paired(r) /\ N \subseteq Numbers(r)
<1> DEFINE closed == Repaired(c)
<1>1. Valid(closed) /\ Late(closed, N)
  BY RepairedIsValid, RepairedLate
<1>2. r \in {Repaired(closed)} \cup {Repaired(Snipped(closed, fitting)) : fitting \in 1..Len(closed)}
  BY DEF Prepared
<1> HIDE DEF closed
<1>3. \E t : Fit(t) /\ Late(t, N) /\ r = Repaired(t)
  <2>1. CASE r = Repaired(closed)
    BY <1>1, <2>1 DEF Valid
  <2>2. CASE \E fitting \in 1..Len(closed) : r = Repaired(Snipped(closed, fitting))
    BY <1>1, <2>2, SnippedIs
  <2> QED BY <1>2, <2>1, <2>2
<1>4. PICK t : Fit(t) /\ Late(t, N) /\ r = Repaired(t)
  BY <1>3
<1>5. Valid(r) /\ Late(r, N)
  BY <1>4, RepairedIsValid, RepairedLate
<1>6. DOMAIN r = 1..Len(r)
  BY <1>5, WindowRows DEF Valid, Fit
<1>7. N \subseteq Numbers(r)
  BY <1>5, <1>6 DEF Late, LateIn, Numbers
<1> QED BY <1>5, <1>7, ValidIsPaired

(***************************************************************************)
(* What a turn asks: its history and its rows, in order, can be repaired.  *)
(***************************************************************************)
LEMMA NamedRow ==
  ASSUME NEW row \in WindowRow, NEW named,
         named = [row EXCEPT !.calls = @ \ row.nameless, !.nameless = {}]
  PROVE  /\ named \in WindowRow
         /\ named.n = row.n /\ named.role = row.role /\ named.kind = row.kind
         /\ named.answers = row.answers /\ named.calls = row.calls \ row.nameless
BY DEF WindowRow

LEMMA NamedRows ==
  ASSUME NEW s \in Seq(WindowRow)
  PROVE  /\ Named(s) \in Seq(WindowRow) /\ Len(Named(s)) = Len(s)
         /\ \A i \in 1..Len(s) :
              /\ Named(s)[i].n = s[i].n /\ Named(s)[i].role = s[i].role
              /\ Named(s)[i].kind = s[i].kind /\ Named(s)[i].answers = s[i].answers
              /\ Named(s)[i].calls = s[i].calls \ s[i].nameless
<1> DEFINE t == Named(s)
<1>1. Len(s) \in Nat /\ DOMAIN s = 1..Len(s) /\ \A i \in 1..Len(s) : s[i] \in WindowRow
  BY WindowRows
<1>2. \A i \in 1..Len(s) : t[i] = [s[i] EXCEPT !.calls = @ \ s[i].nameless, !.nameless = {}]
  BY <1>1 DEF Named
<1>3. DOMAIN t = 1..Len(s) /\ t = [i \in 1..Len(s) |-> t[i]]
  BY <1>1 DEF Named
<1> HIDE DEF t
<1>4. ASSUME NEW i \in 1..Len(s)
      PROVE  /\ t[i] \in WindowRow
             /\ t[i].n = s[i].n /\ t[i].role = s[i].role
             /\ t[i].kind = s[i].kind /\ t[i].answers = s[i].answers
             /\ t[i].calls = s[i].calls \ s[i].nameless
  BY <1>1, <1>2, NamedRow
<1>5. t \in [1..Len(s) -> WindowRow]
  BY <1>3, <1>4
<1>6. t \in Seq(WindowRow) /\ Len(t) = Len(s)
  BY <1>1, <1>5, SeqDef, LenProperties
<1> QED BY <1>4, <1>6 DEF t

(* An id is of one call, and a result answers a call of its own writer.    *)
LEMMA OwnIds ==
  ASSUME NEW a \in Nat, NEW b \in Nat, NEW id, id \in {2 * a, 2 * a + 1}, id \in {2 * b, 2 * b + 1}
  PROVE  a = b
OBVIOUS

LEMMA OwnCalls ==
  ASSUME NEW s \in Seq(WindowRow), Ordered(s)
  PROVE  /\ \A i, k \in 1..Len(s) : \A id \in s[i].calls : id \in s[k].calls => i = k
         /\ \A i \in 1..Len(s) : s[i].role = "tool" =>
              \E k \in 1..Len(s) : s[i].answers \in {2 * s[k].n, 2 * s[k].n + 1}
<1>1. /\ Len(s) \in Nat /\ DOMAIN s = 1..Len(s) /\ \A i \in 1..Len(s) : s[i].n \in Nat
      /\ Rising(s) /\ Labelled(s) /\ Grouped(s)
  BY WindowRows DEF Ordered
<1>2. \A i \in 1..Len(s) : s[i].calls \subseteq {2 * s[i].n, 2 * s[i].n + 1}
  BY <1>1 DEF Labelled, LabelledRow
<1>3. ASSUME NEW i \in 1..Len(s), NEW k \in 1..Len(s), NEW id \in s[i].calls, id \in s[k].calls
      PROVE  i = k
  <2> DEFINE a == s[i].n  b == s[k].n
  <2>1. a \in Nat /\ b \in Nat /\ id \in {2 * a, 2 * a + 1} /\ id \in {2 * b, 2 * b + 1}
    BY <1>1, <1>2, <1>3
  <2> HIDE DEF a, b
  <2>2. a = b
    BY <2>1, OwnIds
  <2> QED BY <1>1, <2>2, Different DEF a, b
<1>4. ASSUME NEW i \in 1..Len(s), s[i].role = "tool"
      PROVE  \E k \in 1..Len(s) : s[i].answers \in {2 * s[k].n, 2 * s[k].n + 1}
  <2>1. PICK k \in 1..i - 1 : s[i].answers \in s[k].calls
    BY <1>1, <1>4 DEF Grouped
  <2>2. k \in 1..Len(s)
    BY <1>1
  <2> QED BY <1>2, <2>1, <2>2
<1> QED BY <1>3, <1>4

LEMMA NamedFit ==
  ASSUME NEW s \in Seq(WindowRow), Ordered(s), 0 \notin Numbers(s)
  PROVE  Fit(Named(s))
<1> DEFINE t == Named(s)
<1>1. /\ Len(s) \in Nat /\ DOMAIN s = 1..Len(s) /\ \A i \in 1..Len(s) : s[i].n \in Nat
      /\ Labelled(s) /\ Grouped(s)
  BY WindowRows DEF Ordered
<1>2. /\ t \in Seq(WindowRow) /\ Len(t) = Len(s)
      /\ \A i \in 1..Len(s) :
           /\ t[i].role = s[i].role /\ t[i].answers = s[i].answers
           /\ t[i].calls \subseteq s[i].calls
  BY NamedRows
<1> HIDE DEF t
<1>3. ASSUME NEW i \in 1..Len(s) PROVE FitRow(t[i])
  <2> DEFINE a == s[i].n
  <2>1. a \in Nat /\ a # 0 /\ LabelledRow(s[i])
    BY <1>1 DEF Numbers, Labelled
  <2>2. s[i].calls \subseteq {2 * a, 2 * a + 1}
    BY <2>1 DEF LabelledRow
  <2>3. 2 * a # 0 /\ 2 * a + 1 # 0
    BY <2>1
  <2>4. IsFiniteSet({2 * a, 2 * a + 1})
    <3>1. {2 * a, 2 * a + 1} = {2 * a} \cup {2 * a + 1}
      OBVIOUS
    <3>2. IsFiniteSet({2 * a}) /\ IsFiniteSet({2 * a + 1})
      BY FS_Singleton
    <3> QED BY <3>1, <3>2, FS_Union
  <2> HIDE DEF a
  <2>5. IsFiniteSet(t[i].calls)
    BY <1>2, <2>2, <2>4, FS_Subset
  <2>6. NoCall \notin t[i].calls
    BY <1>2, <2>2, <2>3 DEF NoCall
  <2> QED BY <1>2, <2>1, <2>5, <2>6 DEF FitRow, LabelledRow
<1>4. Apart(t)
  BY <1>2, OwnCalls DEF Apart
<1>5. ASSUME NEW i \in 1..Len(s), NEW k \in 1..Len(s), t[i].role = "tool", t[i].answers \in t[k].calls
      PROVE  k < i /\ \A j \in k + 1..i : t[j].role = "tool"
  <2>1. s[i].role = "tool" /\ s[i].answers \in s[k].calls
    BY <1>2, <1>5
  <2>2. PICK c \in 1..i - 1 : s[i].answers \in s[c].calls /\ \A j \in c + 1..i : s[j].role = "tool"
    BY <1>1, <2>1 DEF Grouped
  <2>3. c \in 1..Len(s) /\ \A j \in c + 1..i : j \in 1..Len(s)
    BY <1>1
  <2>4. c = k
    BY <2>1, <2>2, <2>3, OwnCalls
  <2>5. k < i
    BY <1>1, <2>4
  <2> QED BY <1>2, <2>2, <2>3, <2>4, <2>5
<1>6. Follows(t)
  BY <1>2, <1>5 DEF Follows
<1> QED BY <1>2, <1>3, <1>4, <1>6 DEF Fit, t

Clear(s) == \A i \in DOMAIN s : s[i].kind = "plain" /\ s[i].nameless = {}

LEMMA AskedLate ==
  ASSUME NEW h \in Seq(WindowRow), NEW t \in Seq(WindowRow), Ordered(h), Ordered(t),
         \A x \in Numbers(h), y \in Numbers(t) : x < y,
         Users(t) # {}, Clear(t), Single(t), NEW s, s = h \o t
  PROVE  LateIn(Named(s), {i \in 1..Len(s) : Named(s)[i].kind # "placeholder"},
                Numbers(From(t, Max(Users(t)))))
<1> DEFINE m == Len(h)  n == Len(t)  v == Named(s)  u == Max(Users(t))
           K == {i \in 1..Len(s) : v[i].kind # "placeholder"}
           N == Numbers(From(t, u))
<1>1. /\ m \in Nat /\ n \in Nat /\ DOMAIN h = 1..m /\ DOMAIN t = 1..n
      /\ \A i \in 1..m : h[i].n \in Nat
      /\ \A i \in 1..n : t[i].n \in Nat
      /\ Users(t) \subseteq 1..n
  BY WindowRows
<1>2. /\ s \in Seq(WindowRow) /\ Len(s) = m + n
      /\ \A i \in 1..m + n : s[i] = IF i <= m THEN h[i] ELSE t[i - m]
  BY ConcatProperties
<1>3. /\ u \in Users(t) /\ \A w \in Users(t) : w <= u
  <2>1. Users(t) \subseteq 0..n
    BY <1>1
  <2>2. u \in Users(t) /\ \A w \in Users(t) : u >= w
    BY <1>1, <2>1, MaxOf
  <2> HIDE DEF u
  <2>3. \A w \in Users(t) : w \in Nat
    BY <1>1
  <2> QED BY <2>2, <2>3
<1>4. /\ v \in Seq(WindowRow) /\ Len(v) = m + n /\ DOMAIN v = 1..m + n
      /\ \A i \in 1..m + n :
           /\ v[i].n = s[i].n /\ v[i].role = s[i].role /\ v[i].kind = s[i].kind
           /\ v[i].answers = s[i].answers /\ v[i].calls = s[i].calls \ s[i].nameless
  <2>1. /\ v \in Seq(WindowRow) /\ Len(v) = Len(s)
        /\ \A i \in 1..Len(s) :
             /\ v[i].n = s[i].n /\ v[i].role = s[i].role /\ v[i].kind = s[i].kind
             /\ v[i].answers = s[i].answers /\ v[i].calls = s[i].calls \ s[i].nameless
    <3> DEFINE Keeps(r) ==
                 /\ Named(r) \in Seq(WindowRow) /\ Len(Named(r)) = Len(r)
                 /\ \A i \in 1..Len(r) :
                      /\ Named(r)[i].n = r[i].n /\ Named(r)[i].role = r[i].role
                      /\ Named(r)[i].kind = r[i].kind /\ Named(r)[i].answers = r[i].answers
                      /\ Named(r)[i].calls = r[i].calls \ r[i].nameless
    <3>1. s \in Seq(WindowRow)
      BY <1>2
    <3>2. ASSUME NEW r \in Seq(WindowRow) PROVE Keeps(r)
      BY NamedRows
    <3> HIDE DEF Keeps
    <3>3. Keeps(s)
      BY <3>1, <3>2
    <3> QED BY <3>3 DEF Keeps
  <2> HIDE DEF v
  <2>2. DOMAIN v = 1..Len(v)
    BY <2>1, WindowRows
  <2> QED BY <1>2, <2>1, <2>2
<1>5. u \in 1..n
  BY <1>1, <1>3
<1>6. \A x \in N : \E j \in u..n : t[j].n = x
  <2> HIDE DEF u
  <2>1. N = NumbersAt(t, u, n)
    <3>1. u \in Nat /\ n \in Nat /\ 1 <= u /\ u <= n + 1 /\ n <= Len(t)
      BY <1>1, <1>5
    <3> QED BY <3>1, NumberSets DEF From
  <2> QED BY <2>1 DEF NumbersAt
<1> HIDE DEF v, u, N
<1>7. ASSUME NEW j \in 1..n
      PROVE  /\ m + j \in 1..m + n /\ m + j \in K /\ v[m + j].n = t[j].n /\ v[m + j].role = t[j].role
             /\ v[m + j].answers = t[j].answers /\ v[m + j].calls = t[j].calls
  <2> DEFINE e == m + j
  <2>1. e \in 1..m + n /\ ~(e <= m) /\ e - m = j
    BY <1>1
  <2> HIDE DEF e
  <2>2. s[e] = t[j]
    <3>1. s[e] = t[e - m]
      BY <1>2, <2>1
    <3> QED BY <2>1, <3>1
  <2>3. t[j].kind = "plain" /\ t[j].nameless = {}
    BY <1>1 DEF Clear
  <2>4. v[e].kind = "plain" /\ v[e].calls = t[j].calls
    <3>1. v[e].kind = s[e].kind /\ v[e].calls = s[e].calls \ s[e].nameless
      BY <1>4, <2>1
    <3> QED BY <2>2, <2>3, <3>1
  <2> QED BY <1>2, <1>4, <2>1, <2>2, <2>4 DEF e
<1>8. ASSUME NEW i \in 1..m + n
      PROVE  \/ i \in 1..m /\ v[i].role = h[i].role /\ v[i].answers = h[i].answers
             \/ \E j \in 1..n : i = m + j
  <2>1. CASE i <= m
    BY <1>2, <1>4, <2>1
  <2>2. CASE ~(i <= m)
    <3>1. i - m \in 1..n /\ i = m + (i - m)
      BY <1>1, <2>2
    <3> QED BY <3>1
  <2> QED BY <2>1, <2>2
<1> HIDE DEF K
<1>9. \E w \in Users(v) : w \in K
  <2>1. m + u \in 1..m + n /\ m + u \in K /\ v[m + u].role = "user"
    BY <1>3, <1>5, <1>7 DEF Users
  <2> QED BY <1>4, <2>1 DEF Users
<1>10. ASSUME NEW x \in N PROVE \E i \in K : v[i].n = x /\ LateAt(v, K, i)
  <2>1. PICK j \in u..n : t[j].n = x
    BY <1>6
  <2> DEFINE i == m + j
  <2>2. j \in 1..n /\ u <= j
    BY <1>1, <1>5
  <2>3. /\ i \in 1..m + n /\ i \in K /\ v[i].n = x /\ v[i].role = t[j].role
        /\ v[i].answers = t[j].answers
    BY <1>7, <2>1, <2>2
  <2>4. ASSUME NEW w \in Users(v) PROVE w <= i
    <3>1. w \in 1..m + n /\ v[w].role = "user"
      BY <1>4 DEF Users
    <3>2. CASE w \in 1..m
      BY <1>1, <2>2, <3>2
    <3>3. CASE \E q \in 1..n : w = m + q
      <4>1. PICK q \in 1..n : w = m + q
        BY <3>3
      <4>2. t[q].role = "user"
        BY <1>7, <3>1, <4>1
      <4>3. q <= u
        BY <1>1, <1>3, <4>2 DEF Users
      <4> QED BY <1>1, <1>5, <2>2, <4>1, <4>3
    <3> QED BY <1>8, <3>1, <3>2, <3>3
  <2>5. i = m + j
    OBVIOUS
  <2> HIDE DEF i
  <2>6. ASSUME v[i].role = "tool"
        PROVE  /\ \E k \in K : v[i].answers \in v[k].calls
               /\ \A k \in 1..Len(v) : Same(v, k, i) => k = i
    <3>1. t[j].role = "tool"
      BY <2>3, <2>6
    <3>2. PICK c \in 1..j - 1 : t[j].answers \in t[c].calls
      BY <1>1, <2>2, <3>1 DEF Ordered, Grouped
    <3>3. c \in 1..n
      BY <1>1, <2>2
    <3>4. m + c \in K /\ v[i].answers \in v[m + c].calls
      BY <1>7, <2>3, <3>2, <3>3
    <3>5. ASSUME NEW k \in 1..m + n, Same(v, k, i) PROVE k = i
      <4>1. v[k].role = "tool" /\ v[k].answers = t[j].answers
        BY <2>3, <3>5 DEF Same
      <4>2. CASE k \in 1..m /\ v[k].role = h[k].role /\ v[k].answers = h[k].answers
        <5>1. PICK p \in 1..m : h[k].answers \in {2 * h[p].n, 2 * h[p].n + 1}
          BY <4>1, <4>2, OwnCalls
        <5>2. PICK q \in 1..n : t[j].answers \in {2 * t[q].n, 2 * t[q].n + 1}
          BY <2>2, <3>1, OwnCalls
        <5> DEFINE a == h[p].n  b == t[q].n
        <5>3. a \in Nat /\ b \in Nat /\ a < b
          BY <1>1 DEF Numbers
        <5>4. t[j].answers \in {2 * a, 2 * a + 1} /\ t[j].answers \in {2 * b, 2 * b + 1}
          BY <4>1, <4>2, <5>1, <5>2
        <5> HIDE DEF a, b
        <5>5. a = b
          BY <5>3, <5>4, OwnIds
        <5> QED BY <5>3, <5>5
      <4>3. CASE \E q \in 1..n : k = m + q
        <5>1. PICK q \in 1..n : k = m + q
          BY <4>3
        <5>2. t[q].role = "tool" /\ t[q].answers = t[j].answers
          BY <1>7, <4>1, <5>1
        <5>3. q = j
          BY <1>1, <2>2, <3>1, <5>2 DEF Single
        <5> QED BY <2>5, <5>1, <5>3
      <4> QED BY <1>8, <4>2, <4>3
    <3> QED BY <1>4, <3>4, <3>5
  <2>7. LateAt(v, K, i)
    BY <2>4, <2>6 DEF LateAt
  <2> QED BY <2>3, <2>7
<1> QED BY <1>9, <1>10 DEF LateIn, v, K, N, u

LEMMA AskedIsValid ==
  ASSUME CutIInv, AskIInv
  PROVE  RequestValid
<1> SUFFICES ASSUME stage = "running" PROVE \A r \in Prepared(history \o turnRows) : Paired(r) /\ HasPrompt(r)
  BY DEF RequestValid
<1> DEFINE h == history  t == turnRows  s == h \o t  v == Named(s)  c == Cleaned(s)
           p == t[1].n  K == {i \in 1..Len(s) : v[i].kind # "placeholder"}
           N == Numbers(From(t, Max(Users(t))))
<1>1. /\ t \in Seq(WindowRow) /\ Ordered(t) /\ Rising(t) /\ t # <<>>
      /\ Numbers(t) \subseteq 1..written /\ t[1].role = "user"
      /\ h \in Seq(WindowRow) /\ Ordered(h) /\ Rising(h) /\ Numbers(h) \subseteq 1..p - 1
      /\ Clear(t) /\ Single(t)
  BY DEF CutIInv, AskIInv, WindowTypeOK, Ordered, Clear
<1>2. /\ p \in Numbers(t) /\ \A y \in Numbers(t) : y = p \/ p < y
  BY <1>1, TailNumbers
<1>3. Users(t) # {}
  <2>1. Len(t) \in Nat \ {0}
    BY <1>1, EmptySeq
  <2>2. 1 \in DOMAIN t
    BY <1>1, <2>1, WindowRows
  <2> QED BY <1>1, <2>2 DEF Users
<1>4. written \in Nat
  BY WindowBounds DEF CutIInv, WindowTypeOK
<1> HIDE DEF p
<1>5. /\ \A y \in Numbers(t) : y \in Nat /\ y # 0
      /\ p \in Nat /\ \A x \in Numbers(h) : x \in Nat /\ x # 0 /\ x < p
  <2>1. \A y \in Numbers(t) : y \in Nat /\ y # 0
    BY <1>1, <1>4
  <2>2. p \in Nat
    BY <1>2, <2>1
  <2> QED BY <1>1, <2>1, <2>2
<1>6. \A x \in Numbers(h), y \in Numbers(t) : x < y
  BY <1>2, <1>5
<1>7. s \in Seq(WindowRow) /\ Ordered(s) /\ Numbers(s) = Numbers(h) \cup Numbers(t)
  BY <1>1, <1>6, Joined, JoinedInOrder
<1>8. LateIn(v, K, N)
  BY <1>1, <1>3, <1>6, AskedLate
<1> HIDE DEF s, N
<1>9. Fit(v) /\ v \in Seq(WindowRow) /\ Len(v) = Len(s)
  <2>1. 0 \notin Numbers(s)
    BY <1>5, <1>7
  <2> QED BY <1>7, <2>1, NamedFit, NamedRows
<1> HIDE DEF v
<1>10. Picked(c, v, K)
  <2>1. Picked(Without("placeholder", v), v, {i \in 1..Len(v) : v[i].kind # "placeholder"})
    BY <1>9, WithoutPicks
  <2>2. c = Without("placeholder", v)
    BY DEF Cleaned, v
  <2> QED BY <1>9, <2>1, <2>2
<1>11. K \subseteq 1..Len(v)
  BY <1>9
<1>12. c = Cleaned(s)
  OBVIOUS
<1> HIDE DEF c, K
<1>13. Fit(c) /\ Late(c, N)
  BY <1>8, <1>9, <1>10, <1>11, PickedFit, PickedLate
<1>14. ASSUME NEW r \in Prepared(s) PROVE Paired(r) /\ HasPrompt(r)
  <2>1. Paired(r) /\ N \subseteq Numbers(r)
    BY <1>12, <1>13, PreparedIs
  <2> QED BY <2>1 DEF HasPrompt, N
<1> QED BY <1>14 DEF s

(* get_history: what the turn is given is in order.                        *)
LEMMA PickedInOrder ==
  ASSUME NEW s \in Seq(WindowRow), Ordered(s), NEW K, K \subseteq 1..Len(s),
         \A i \in 1..Len(s) : s[i].role = "tool" \/ s[i].calls # {} => i \in K,
         NEW t, Picked(t, s, K)
  PROVE  t \in Seq(WindowRow) /\ Ordered(t) /\ Numbers(t) \subseteq Numbers(s)
<1>1. PICK e : PickedBy(t, s, K, e)
  BY DEF Picked
<1>2. /\ t \in Seq(WindowRow) /\ Len(t) \in Nat
      /\ \A i \in 1..Len(t) : e[i] \in K /\ e[i] \in 1..Len(s) /\ t[i] = s[e[i]]
      /\ \A i, k \in 1..Len(t) : /\ i < k <=> e[i] < e[k]
                                 /\ e[i] = e[k] => i = k
      /\ \A k \in K : \E i \in 1..Len(t) : e[i] = k
  <2>1. Chosen(t, s, K, e)
    BY <1>1, PickedFacts
  <2> QED BY <2>1 DEF Chosen
<1>3. DOMAIN t = 1..Len(t) /\ DOMAIN s = 1..Len(s) /\ Len(s) \in Nat
  BY <1>2, WindowRows
<1>4. Rising(s) /\ Labelled(s) /\ Grouped(s)
  BY DEF Ordered
<1>5. Numbers(t) \subseteq Numbers(s)
  BY <1>2, <1>3 DEF Numbers
<1>6. Rising(t)
  BY <1>2, <1>3, <1>4 DEF Rising
<1>7. Labelled(t)
  BY <1>2, <1>3, <1>4 DEF Labelled
<1>8. ASSUME NEW i \in 1..Len(t), t[i].role = "tool"
      PROVE  \E k \in 1..i - 1 : /\ t[k].role = "assistant" /\ t[i].answers \in t[k].calls
                                 /\ \A j \in k + 1..i : t[j].role = "tool"
  <2> DEFINE b == e[i]
  <2>1. b \in 1..Len(s) /\ t[i] = s[b]
    BY <1>2
  <2>2. PICK a \in 1..b - 1 : /\ s[a].role = "assistant" /\ s[b].answers \in s[a].calls
                              /\ \A j \in a + 1..b : s[j].role = "tool"
    BY <1>3, <1>4, <1>8, <2>1 DEF Grouped
  <2>3. a \in 1..Len(s) /\ a < b /\ a \in Nat /\ b \in Nat
    BY <1>3, <2>1
  <2>4. PICK k \in 1..Len(t) : e[k] = a
    BY <1>2, <2>2, <2>3
  <2>5. b = e[i]
    OBVIOUS
  <2> HIDE DEF b
  <2>6. k < i
    BY <1>2, <2>3, <2>4, <2>5
  <2>7. ASSUME NEW j \in k + 1..i PROVE t[j].role = "tool"
    <3>1. j \in 1..Len(t) /\ k < j /\ (j < i \/ j = i)
      BY <1>2
    <3> DEFINE c == e[j]
    <3>2. c \in Nat /\ t[j] = s[c]
      BY <1>2, <1>3, <3>1
    <3>3. a < c /\ (c < b \/ c = b)
      BY <1>2, <2>4, <2>5, <3>1
    <3> HIDE DEF c
    <3>4. c \in a + 1..b
      BY <2>3, <3>2, <3>3
    <3> QED BY <2>2, <3>2, <3>4
  <2>8. k \in 1..i - 1 /\ t[k] = s[a]
    BY <1>2, <2>4, <2>6
  <2> QED BY <2>1, <2>2, <2>7, <2>8
<1>9. Grouped(t)
  BY <1>3, <1>8 DEF Grouped
<1> QED BY <1>2, <1>5, <1>6, <1>7, <1>9 DEF Ordered

LEMMA LegalInOrder ==
  ASSUME NEW s \in Seq(WindowRow), Ordered(s), NEW t, Cut(t, s)
  PROVE  /\ Legal(t) \in Seq(WindowRow) /\ Ordered(Legal(t))
         /\ Numbers(Legal(t)) \subseteq Numbers(s)
<1> DEFINE u == Legal(t)
<1>1. t \in Seq(WindowRow)
  BY CutFacts
<1>2. Cut(u, t) /\ Supported(u)
  BY <1>1, LegalCut, LegalIsSupported
<1> HIDE DEF u
<1>3. Cut(u, s)
  BY <1>2, CutOfCut
<1> QED BY <1>2, <1>3, CutFacts, CutInOrder, CutRises DEF Ordered, u

LEMMA ReplayedInOrder ==
  ASSUME NEW m \in Seq(WindowRow), Ordered(m), NEW s, Cut(s, m), NEW extend \in BOOLEAN
  PROVE  /\ Replayed(s, extend) \in Seq(WindowRow) /\ Ordered(Replayed(s, extend))
         /\ Numbers(Replayed(s, extend)) \subseteq Numbers(m)
<1> DEFINE start == RecentStart(s, ReplayMax, extend)  a == From(s, start)  b == FromOpening(a)
           w == ReplayWindow(s, extend)  r == Replayed(s, extend)
           K == {i \in 1..Len(w) : w[i].kind # "command"}
<1>1. s \in Seq(WindowRow)
  BY CutFacts
<1>2. start \in 1..Len(s) + 1
  BY <1>1, WindowBounds, RecentStartIs
<1>3. w = Legal(b)
  BY DEF ReplayWindow
<1>4. r = Without("command", w)
  BY DEF Replayed
<1> HIDE DEF start, w, r
<1>5. Cut(a, s) /\ a \in Seq(WindowRow)
  BY <1>1, <1>2, FromCut
<1> HIDE DEF a
<1>6. Cut(b, a)
  BY <1>5, FirstUserCuts
<1> HIDE DEF b
<1>7. Cut(b, m)
  BY <1>1, <1>5, <1>6, CutOfCut
<1>8. w \in Seq(WindowRow) /\ Ordered(w) /\ Numbers(w) \subseteq Numbers(m)
  BY <1>3, <1>7, LegalInOrder
<1>9. Picked(r, w, K)
  BY <1>4, <1>8, WithoutPicks
<1>10. ASSUME NEW i \in 1..Len(w), w[i].role = "tool" \/ w[i].calls # {} PROVE i \in K
  <2>1. LabelledRow(w[i])
    BY <1>8, WindowRows DEF Ordered, Labelled
  <2> QED BY <1>10, <2>1 DEF LabelledRow
<1>11. K \subseteq 1..Len(w)
  OBVIOUS
<1> HIDE DEF K
<1>12. r \in Seq(WindowRow) /\ Ordered(r) /\ Numbers(r) \subseteq Numbers(w)
  BY <1>8, <1>9, <1>10, <1>11, PickedInOrder
<1> QED BY <1>8, <1>12 DEF r

LEMMA WithinTokensInOrder ==
  ASSUME NEW s \in Seq(WindowRow), Ordered(s), NEW fitting \in Min({1, Len(s)})..Len(s)
  PROVE  /\ WithinTokens(s, fitting) \in Seq(WindowRow) /\ Ordered(WithinTokens(s, fitting))
         /\ Numbers(WithinTokens(s, fitting)) \subseteq Numbers(s)
<1> DEFINE a == Len(s) - fitting + 1  kept == From(s, a)
           t == IF Users(kept) # {} THEN FromFirstUser(kept)
                ELSE IF Users(s) # {} THEN From(s, Max(Users(s))) ELSE kept
<1>1. Len(s) \in Nat
  BY WindowRows
<1>2. a \in 1..Len(s) + 1
  <2> DEFINE n == Len(s)
  <2>1. n \in Int /\ 1 \in Int
    BY <1>1
  <2> HIDE DEF n
  <2>2. Min({1, n}) = IF 1 <= n THEN 1 ELSE n
    BY <2>1, MinMax
  <2>3. Min({1, n}) >= 0
    BY <1>1, <2>2 DEF n
  <2> QED BY <1>1, <2>2, <2>3 DEF n
<1>3. Cut(kept, s) /\ kept \in Seq(WindowRow)
  <2> HIDE DEF a
  <2> QED BY <1>2, FromCut
<1>4. WithinTokens(s, fitting) = Legal(t)
  BY DEF WithinTokens
<1> HIDE DEF kept
<1>5. Cut(t, s)
  <2>1. CASE Users(kept) # {}
    <3>1. Cut(FromFirstUser(kept), kept)
      BY <1>3, FirstUserCuts
    <3> QED BY <1>3, <2>1, <3>1, CutOfCut
  <2>2. CASE Users(kept) = {} /\ Users(s) # {}
    <3> DEFINE u == Max(Users(s))
    <3>1. u \in 1..Len(s)
      BY <2>2, UserIs
    <3> HIDE DEF u
    <3>2. u \in 1..Len(s) + 1
      BY <1>1, <3>1
    <3>3. Cut(From(s, u), s)
      BY <3>2, FromCut
    <3> QED BY <2>2, <3>3 DEF u
  <2>3. CASE Users(kept) = {} /\ Users(s) = {}
    BY <1>3, <2>3
  <2> QED BY <2>1, <2>2, <2>3
<1> HIDE DEF t
<1> QED BY <1>4, <1>5, LegalInOrder

LEMMA HistoriesInOrder ==
  ASSUME NEW m \in Seq(WindowRow), Ordered(m), NEW s, Cut(s, m), NEW extend \in BOOLEAN,
         NEW h \in Histories(s, extend)
  PROVE  h \in Seq(WindowRow) /\ Ordered(h) /\ Numbers(h) \subseteq Numbers(m)
<1> DEFINE out == Replayed(s, extend)
<1>1. out \in Seq(WindowRow) /\ Ordered(out) /\ Numbers(out) \subseteq Numbers(m)
  BY ReplayedInOrder
<1>2. h \in {WithinTokens(out, fitting) : fitting \in Min({1, Len(out)})..Len(out)}
  BY DEF Histories
<1> HIDE DEF out
<1>3. PICK fitting \in Min({1, Len(out)})..Len(out) : h = WithinTokens(out, fitting)
  BY <1>2
<1> QED BY <1>1, <1>3, WithinTokensInOrder

(***************************************************************************)
(* The request of a turn: the second half of the invariant.                *)
(***************************************************************************)
LEMMA UserIsClear ==
  ASSUME NEW n \in Nat
  PROVE  /\ User(n) \in WindowRow /\ User(n).n = n /\ User(n).role = "user"
         /\ User(n).kind = "plain" /\ User(n).nameless = {}
BY DEF User, Row, WindowRow, NoCall

LEMMA TurnPromptsAsks ==
  ASSUME CutIInv, NEW subagent \in BOOLEAN, TurnPrompts(subagent)
  PROVE  AskIInv'
<1> DEFINE n == written + 1  row == User(n)  t == turnRows'  h == history'
<1>1. /\ h \in Histories(Shown(messages), subagent) /\ t = <<row>>
  BY DEF TurnPrompts
<1>2. /\ messages \in Seq(WindowRow) /\ Ordered(messages)
      /\ Numbers(messages) \subseteq 1..written /\ written \in Nat
      /\ Cut(Shown(messages), messages)
  BY WindowBounds, ShownIs DEF CutIInv, WindowTypeOK
<1>3. h \in Seq(WindowRow) /\ Ordered(h) /\ Numbers(h) \subseteq Numbers(messages)
  BY <1>1, <1>2, HistoriesInOrder
<1>4. row \in WindowRow /\ row.n = n /\ row.role = "user" /\ row.kind = "plain" /\ row.nameless = {}
  <2>1. n \in Nat
    BY <1>2
  <2> HIDE DEF n
  <2> QED BY <2>1, UserIsClear
<1> HIDE DEF row
<1>5. t \in Seq(WindowRow) /\ Len(t) = 1 /\ t[1] = row
  BY <1>1, <1>4, OneRow
<1> HIDE DEF t, h
<1>6. DOMAIN t = {1}
  <2>1. DOMAIN t = 1..1
    BY <1>5, WindowRows
  <2> QED BY <2>1
<1>7. Clear(t) /\ Single(t)
  BY <1>4, <1>5, <1>6 DEF Clear, Single
<1>8. Numbers(h) \subseteq 1..t[1].n - 1
  <2>1. t[1].n - 1 = written
    BY <1>2, <1>4, <1>5
  <2> QED BY <1>2, <1>3, <2>1
<1> QED BY <1>3, <1>7, <1>8 DEF AskIInv, Clear, t, h

(* Rows of one turn, and new ones.                                         *)
LEMMA SingleGrows ==
  ASSUME NEW s \in Seq(WindowRow), NEW t \in Seq(WindowRow), Ordered(s), Single(s), Single(t),
         NEW a \in Nat, \A x \in Numbers(s) : x < a,
         \A i \in 1..Len(t) : t[i].role = "tool" => t[i].answers >= 2 * a,
         Clear(s), Clear(t), s # <<>>
  PROVE  Single(s \o t) /\ Clear(s \o t) /\ (s \o t)[1] = s[1]
<1> DEFINE u == s \o t  m == Len(s)  n == Len(t)
<1>1. /\ m \in Nat /\ n \in Nat /\ DOMAIN s = 1..m /\ DOMAIN t = 1..n
      /\ \A i \in 1..m : s[i].n \in Nat
      /\ \A i \in 1..n : t[i] \in WindowRow
  BY WindowRows
<1>2. /\ u \in Seq(WindowRow) /\ Len(u) = m + n
      /\ \A i \in 1..m + n : u[i] = IF i <= m THEN s[i] ELSE t[i - m]
  BY ConcatProperties
<1>3. m # 0
  BY EmptySeq
<1> HIDE DEF u
<1>4. DOMAIN u = 1..m + n
  BY <1>2, WindowRows
<1>5. ASSUME NEW i \in 1..m + n
      PROVE  \/ i \in 1..m /\ u[i] = s[i]
             \/ i - m \in 1..n /\ u[i] = t[i - m]
  <2>1. CASE i <= m
    BY <1>1, <1>2, <2>1
  <2>2. CASE ~(i <= m)
    <3>1. i - m \in 1..n
      BY <1>1, <2>2
    <3>2. u[i] = t[i - m]
      BY <1>2, <2>2
    <3> QED BY <3>1, <3>2
  <2> QED BY <2>1, <2>2
<1>6. Clear(u)
  <2>1. /\ \A i \in 1..m : s[i].kind = "plain" /\ s[i].nameless = {}
        /\ \A i \in 1..n : t[i].kind = "plain" /\ t[i].nameless = {}
    BY <1>1 DEF Clear
  <2>2. ASSUME NEW i \in 1..m + n PROVE u[i].kind = "plain" /\ u[i].nameless = {}
    <3>1. CASE i \in 1..m /\ u[i] = s[i]
      BY <2>1, <3>1
    <3>2. CASE i - m \in 1..n /\ u[i] = t[i - m]
      <4> DEFINE k == i - m
      <4>1. k \in 1..n /\ u[i] = t[k]
        BY <3>2
      <4> HIDE DEF k
      <4> QED BY <2>1, <4>1
    <3> QED BY <1>5, <3>1, <3>2
  <2> QED BY <1>4, <2>2 DEF Clear
<1>7. ASSUME NEW i \in 1..m, NEW k \in 1..n, s[i].role = "tool", t[k].role = "tool"
      PROVE  s[i].answers # t[k].answers
  <2>1. PICK p \in 1..m : s[i].answers \in {2 * s[p].n, 2 * s[p].n + 1}
    BY <1>7, OwnCalls
  <2> DEFINE x == s[p].n  y == t[k].answers
  <2>2. x \in Nat /\ x < a /\ y \in Nat /\ y >= 2 * a
    BY <1>1, <1>7 DEF Numbers, WindowRow
  <2>3. s[i].answers \in {2 * x, 2 * x + 1}
    BY <2>1
  <2> HIDE DEF x, y
  <2>4. y \notin {2 * x, 2 * x + 1}
    BY <2>2
  <2> QED BY <2>3, <2>4 DEF y
<1>8. ASSUME NEW i \in 1..m + n, NEW k \in 1..m + n, u[i].role = "tool", u[k].role = "tool",
             u[i].answers = u[k].answers
      PROVE  i = k
  <2>1. CASE i \in 1..m /\ u[i] = s[i] /\ k \in 1..m /\ u[k] = s[k]
    BY <1>1, <1>8, <2>1 DEF Single
  <2>2. CASE i - m \in 1..n /\ u[i] = t[i - m] /\ k - m \in 1..n /\ u[k] = t[k - m]
    <3>1. i - m = k - m
      BY <1>1, <1>8, <2>2 DEF Single
    <3> QED BY <1>1, <3>1
  <2>3. CASE i \in 1..m /\ u[i] = s[i] /\ k - m \in 1..n /\ u[k] = t[k - m]
    BY <1>7, <1>8, <2>3
  <2>4. CASE i - m \in 1..n /\ u[i] = t[i - m] /\ k \in 1..m /\ u[k] = s[k]
    BY <1>7, <1>8, <2>4
  <2> QED BY <1>5, <2>1, <2>2, <2>3, <2>4
<1>9. Single(u)
  BY <1>4, <1>8 DEF Single
<1>10. u[1] = s[1]
  BY <1>1, <1>2, <1>3
<1> QED BY <1>6, <1>9, <1>10 DEF u

LEMMA GrowsAsks ==
  ASSUME CutIInv, AskIInv, stage = "running", NEW rows \in Seq(WindowRow), Single(rows), Clear(rows),
         \A i \in 1..Len(rows) : rows[i].role = "tool" => rows[i].answers >= 2 * (written + 1),
         turnRows' = turnRows \o rows, history' = history
  PROVE  AskIInv'
<1> DEFINE a == written + 1  u == turnRows \o rows
<1>1. /\ turnRows \in Seq(WindowRow) /\ Ordered(turnRows) /\ turnRows # <<>>
      /\ Numbers(turnRows) \subseteq 1..written /\ written \in Nat
      /\ history \in Seq(WindowRow) /\ Ordered(history)
      /\ Numbers(history) \subseteq 1..turnRows[1].n - 1
      /\ Clear(turnRows) /\ Single(turnRows)
  BY WindowBounds DEF CutIInv, WindowTypeOK, AskIInv, Clear
<1>2. a \in Nat /\ \A x \in Numbers(turnRows) : x < a
  BY <1>1
<1>3. \A i \in 1..Len(rows) : rows[i].role = "tool" => rows[i].answers >= 2 * a
  OBVIOUS
<1> HIDE DEF a
<1>4. Single(u) /\ Clear(u) /\ u[1] = turnRows[1]
  BY <1>1, <1>2, <1>3, SingleGrows
<1>5. turnRows' = u
  OBVIOUS
<1> HIDE DEF u
<1> QED BY <1>1, <1>4, <1>5 DEF AskIInv, Clear

LEMMA RoundIsSingle ==
  ASSUME NEW n \in Nat, NEW width \in 1..2
  PROVE  /\ Single(Round(n, width)) /\ Clear(Round(n, width))
         /\ \A i \in 1..Len(Round(n, width)) :
              Round(n, width)[i].role = "tool" => Round(n, width)[i].answers >= 2 * n
<1> DEFINE calls == Row(n, "assistant", "plain", 2*n .. 2*n + width - 1)
           results == [i \in 1..width |-> Result(n + i, 2*n + i - 1)]
           u == Round(n, width)  first == <<calls>>
<1>1. /\ calls.role = "assistant" /\ calls.kind = "plain" /\ calls.nameless = {}
      /\ calls \in WindowRow
  BY DEF Row, WindowRow, NoCall
<1>2. \A i \in 1..width : /\ results[i].kind = "plain" /\ results[i].nameless = {}
                          /\ results[i].answers = 2*n + i - 1 /\ results[i] \in WindowRow
  BY DEF Result, Row, WindowRow, NoCall
<1>3. DOMAIN results = 1..width /\ width \in Nat /\ results \in [1..width -> WindowRow]
  <2>1. DOMAIN results = 1..width
    OBVIOUS
  <2> QED BY <1>2, <2>1
<1>4. u = first \o results
  BY DEF Round
<1> HIDE DEF calls, results
<1>5. /\ results \in Seq(WindowRow) /\ Len(results) = width
      /\ first \in Seq(WindowRow) /\ Len(first) = 1 /\ first[1] = calls
  BY <1>1, <1>3, SeqDef, LenProperties, OneRow
<1> HIDE DEF first
<1>6. /\ u \in Seq(WindowRow) /\ Len(u) = 1 + width
      /\ \A i \in 1..1 + width : u[i] = IF i <= 1 THEN first[i] ELSE results[i - 1]
  <2>1. /\ first \o results \in Seq(WindowRow)
        /\ Len(first \o results) = Len(first) + Len(results)
        /\ \A i \in 1..Len(first) + Len(results) :
             (first \o results)[i] = IF i <= Len(first) THEN first[i] ELSE results[i - Len(first)]
    BY <1>5, ConcatProperties
  <2> QED BY <1>4, <1>5, <2>1
<1> HIDE DEF u
<1>7. DOMAIN u = 1..1 + width /\ u[1] = calls
      /\ \A i \in 1..1 + width : i # 1 => i - 1 \in 1..width /\ u[i] = results[i - 1]
  <2>1. DOMAIN u = 1..1 + width
    BY <1>6, WindowRows
  <2> QED BY <1>3, <1>5, <1>6, <2>1
<1>8. ASSUME NEW i \in 1..1 + width, u[i].role = "tool"
      PROVE  u[i].answers = 2*n + (i - 1) - 1 /\ i - 1 \in 1..width
  <2>1. i # 1
    BY <1>1, <1>7, <1>8
  <2> QED BY <1>2, <1>7, <2>1
<1>9. Clear(u)
  BY <1>1, <1>2, <1>7 DEF Clear
<1>10. Single(u)
  <2>1. ASSUME NEW i \in 1..1 + width, NEW k \in 1..1 + width, u[i].role = "tool", u[k].role = "tool",
               u[i].answers = u[k].answers
        PROVE  i = k
    <3>1. 2*n + (i - 1) - 1 = 2*n + (k - 1) - 1
      BY <1>8, <2>1
    <3> QED BY <1>3, <3>1
  <2> QED BY <1>7, <2>1 DEF Single
<1>11. \A i \in 1..Len(u) : u[i].role = "tool" => u[i].answers >= 2 * n
  <2>1. ASSUME NEW i \in 1..1 + width, u[i].role = "tool" PROVE u[i].answers >= 2 * n
    <3>1. u[i].answers = 2*n + (i - 1) - 1 /\ i - 1 \in 1..width
      BY <1>8, <2>1
    <3> QED BY <1>3, <3>1
  <2> QED BY <1>6, <2>1
<1> QED BY <1>9, <1>10, <1>11 DEF u

LEMMA ToolRoundAsks ==
  ASSUME CutIInv, AskIInv, NEW width \in 1..2, ToolRound(width)
  PROVE  AskIInv'
<1> DEFINE n == written + 1  rows == Round(n, width)
<1>1. stage = "running" /\ turnRows' = turnRows \o rows /\ history' = history
  BY DEF ToolRound
<1>2. n \in Nat
  BY WindowBounds DEF CutIInv, WindowTypeOK
<1>3. rows \in Seq(WindowRow)
  <2> HIDE DEF n
  <2> QED BY <1>2, RoundIs
<1>4. Single(rows) /\ Clear(rows) /\ \A i \in 1..Len(rows) : rows[i].role = "tool" => rows[i].answers >= 2 * n
  <2> HIDE DEF n
  <2> QED BY <1>2, RoundIsSingle
<1> HIDE DEF rows
<1> QED BY <1>1, <1>3, <1>4, GrowsAsks

LEMMA InjectAsks ==
  ASSUME CutIInv, AskIInv, Inject
  PROVE  AskIInv'
<1> DEFINE row == User(written + 1)  rows == <<row>>
<1>1. stage = "running" /\ turnRows' = Append(turnRows, row) /\ history' = history
  BY DEF Inject
<1>2. written \in Nat /\ turnRows \in Seq(WindowRow)
  BY WindowBounds DEF CutIInv, WindowTypeOK
<1>3. row \in WindowRow /\ row.role = "user" /\ row.kind = "plain" /\ row.nameless = {}
  <2> DEFINE n == written + 1
  <2>1. n \in Nat
    BY <1>2
  <2> HIDE DEF n
  <2>2. User(n) \in WindowRow /\ User(n).role = "user" /\ User(n).kind = "plain" /\ User(n).nameless = {}
    BY <2>1, UserIsClear
  <2> QED BY <2>2 DEF n
<1> HIDE DEF row
<1>4. rows \in Seq(WindowRow) /\ Len(rows) = 1 /\ rows[1] = row
  BY <1>3, OneRow
<1>5. turnRows' = turnRows \o rows
  BY <1>1, <1>2, <1>3, AppendIsConcat
<1> HIDE DEF rows
<1>6. DOMAIN rows = {1} /\ 1..Len(rows) = {1}
  <2>1. DOMAIN rows = 1..1 /\ 1..Len(rows) = 1..1
    BY <1>4, WindowRows
  <2> QED BY <2>1
<1>7. Single(rows) /\ Clear(rows) /\ \A i \in 1..Len(rows) : rows[i].role # "tool"
  BY <1>3, <1>4, <1>6 DEF Single, Clear
<1> QED BY <1>1, <1>4, <1>5, <1>7, GrowsAsks

(* Every step keeps WindowIInv (Session, Consolidator, the turn).          *)
THEOREM WindowInvariant == WindowSpec => []WindowIInv
<1>1. WindowInit => AskIInv
  BY DEF WindowInit, AskIInv
<1>2. CutIInv /\ AskIInv /\ [WindowNext]_windowVars => AskIInv'
  <2> SUFFICES ASSUME CutIInv, AskIInv, [WindowNext]_windowVars PROVE AskIInv'
    OBVIOUS
  <2>1. CASE Deliver \/ Command \/ CompactIdle
    <3>1. stage' # "running"
      BY <2>1 DEF Deliver, Command, CompactIdle
    <3> QED BY <3>1 DEF AskIInv
  <2>2. CASE TurnOpens \/ TokenRound \/ TurnAnswers
    <3>1. stage' # "running"
      BY <2>2 DEF TurnOpens, TokenRound, TurnAnswers
    <3> QED BY <3>1 DEF AskIInv
  <2>3. CASE \E subagent \in BOOLEAN : TurnPrompts(subagent)
    BY <2>3, TurnPromptsAsks
  <2>4. CASE \E width \in 1..2 : ToolRound(width)
    BY <2>4, ToolRoundAsks
  <2>5. CASE Inject
    BY <2>5, InjectAsks
  <2>6. CASE UNCHANGED windowVars
    BY <2>6 DEF windowVars, AskIInv
  <2> QED BY <2>1, <2>2, <2>3, <2>4, <2>5, <2>6 DEF WindowNext
<1>3. CutIInv /\ AskIInv => WindowIInv
  BY DEF WindowIInv
<1> QED BY <1>1, <1>2, <1>3, CutInvariant, PTL DEF WindowSpec

(* Every request a turn sends is valid, and has what the user said last    *)
(* (prepare_for_model).                                                    *)
THEOREM RequestsAreValid == WindowSpec => []RequestValid
<1>1. WindowIInv => RequestValid
  BY AskedIsValid DEF WindowIInv
<1> QED BY <1>1, WindowInvariant, PTL
=============================================================================
