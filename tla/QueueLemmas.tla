---------------------------- MODULE QueueLemmas ----------------------------
(***************************************************************************)
(* Facts about FIFO queues, used by the proofs of the components: what     *)
(* append, take, concatenate, drop and remove do to the set of queued      *)
(* elements and to their distinctness.                                     *)
(***************************************************************************)
EXTENDS SequencesExt, SequenceTheorems, TLAPS

(* The empty queue. *)
LEMMA EmptyFacts ==
  ASSUME NEW S
  PROVE  <<>> \in Seq(S) /\ ToSet(<<>>) = {} /\ IsInjective(<<>>) /\ Len(<<>>) = 0
BY DEF ToSet, IsInjective

(* A queue over S holds elements of S, and only the empty one holds none.  *)
LEMMA ToSetFacts ==
  ASSUME NEW S, NEW q \in Seq(S)
  PROVE  ToSet(q) \subseteq S /\ (ToSet(q) = {} <=> q = <<>>)
BY DEF ToSet

(* Taking the head removes one element, which does not occur again if the  *)
(* elements are distinct.                                                  *)
LEMMA HeadTailFacts ==
  ASSUME NEW S, NEW q \in Seq(S), q # <<>>
  PROVE  /\ Head(q) \in S /\ Head(q) \in ToSet(q)
         /\ Tail(q) \in Seq(S) /\ ToSet(Tail(q)) \subseteq ToSet(q)
         /\ IsInjective(q) => IsInjective(Tail(q)) /\ Head(q) \notin ToSet(Tail(q))
BY DEF ToSet, IsInjective

(* A queue holds its head and what its tail holds.                         *)
LEMMA ConsFacts ==
  ASSUME NEW S, NEW q \in Seq(S), q # <<>>
  PROVE  ToSet(q) = ToSet(Tail(q)) \cup {Head(q)}
<1>1. /\ DOMAIN q = 1..Len(q) /\ Len(q) \in Nat \ {0} /\ Head(q) = q[1]
      /\ Tail(q) \in Seq(S) /\ DOMAIN Tail(q) = 1..Len(q) - 1
      /\ \A i \in 1..Len(q) - 1 : Tail(q)[i] = q[i + 1]
  OBVIOUS
<1> DEFINE t == Tail(q)
<1> HIDE DEF t
<1>2. ASSUME NEW i \in DOMAIN q, i # 1 PROVE q[i] \in ToSet(t)
  <2>1. i - 1 \in DOMAIN t /\ t[i - 1] = q[i]
    BY <1>1, <1>2 DEF t
  <2> QED BY <2>1 DEF ToSet
<1>3. ASSUME NEW i \in DOMAIN t PROVE t[i] \in ToSet(q)
  <2>1. i + 1 \in DOMAIN q /\ q[i + 1] = t[i]
    BY <1>1, <1>3 DEF t
  <2> QED BY <2>1 DEF ToSet
<1>4. Head(q) \in ToSet(q)
  BY <1>1 DEF ToSet
<1>5. ToSet(q) \subseteq ToSet(t) \cup {Head(q)}
  BY <1>1, <1>2 DEF ToSet
<1>6. ToSet(t) \subseteq ToSet(q)
  BY <1>3 DEF ToSet
<1> QED BY <1>4, <1>5, <1>6 DEF t

(* Appending adds the element, and keeps the elements distinct if it was   *)
(* not queued.                                                             *)
LEMMA AppendFacts ==
  ASSUME NEW S, NEW q \in Seq(S), NEW x \in S
  PROVE  /\ Append(q, x) \in Seq(S) /\ Len(Append(q, x)) = Len(q) + 1
         /\ ToSet(Append(q, x)) = ToSet(q) \cup {x}
         /\ IsInjective(q) /\ x \notin ToSet(q) => IsInjective(Append(q, x))
<1> DEFINE a == Append(q, x)
<1>1. /\ a \in Seq(S) /\ Len(a) = Len(q) + 1 /\ DOMAIN a = 1..Len(q) + 1
      /\ DOMAIN q = 1..Len(q) /\ Len(q) \in Nat
      /\ \A i \in 1..Len(q) : a[i] = q[i]
      /\ a[Len(q) + 1] = x
  BY AppendProperties
<1> HIDE DEF a
<1>2. ToSet(a) = ToSet(q) \cup {x}
  BY <1>1 DEF ToSet
<1>3. ASSUME IsInjective(q), x \notin ToSet(q)
      PROVE  IsInjective(a)
  <2>1. \A i \in 1..Len(q) : a[i] # x
    BY <1>1, <1>3 DEF ToSet
  <2> QED BY <1>1, <1>3, <2>1 DEF IsInjective
<1> QED BY <1>1, <1>2, <1>3 DEF a

(* Concatenation joins the elements, and keeps them distinct if the queues *)
(* have none in common.                                                    *)
LEMMA ConcatFacts ==
  ASSUME NEW S, NEW p \in Seq(S), NEW q \in Seq(S)
  PROVE  /\ p \o q \in Seq(S)
         /\ ToSet(p \o q) = ToSet(p) \cup ToSet(q)
         /\ IsInjective(p) /\ IsInjective(q) /\ ToSet(p) \cap ToSet(q) = {}
              => IsInjective(p \o q)
<1> DEFINE c == p \o q
<1>1. /\ c \in Seq(S) /\ DOMAIN c = 1..Len(p) + Len(q)
      /\ Len(p) \in Nat /\ Len(q) \in Nat
      /\ DOMAIN p = 1..Len(p) /\ DOMAIN q = 1..Len(q)
      /\ \A i \in 1..Len(p) + Len(q) :
           c[i] = IF i <= Len(p) THEN p[i] ELSE q[i - Len(p)]
  BY ConcatProperties
<1> HIDE DEF c
<1>2. ASSUME NEW i \in DOMAIN c
      PROVE  IF i <= Len(p) THEN i \in DOMAIN p /\ c[i] = p[i]
             ELSE i - Len(p) \in DOMAIN q /\ c[i] = q[i - Len(p)]
  BY <1>1
<1>21. ASSUME NEW i \in DOMAIN c
       PROVE  IF i <= Len(p) THEN c[i] \in ToSet(p) ELSE c[i] \in ToSet(q)
  BY <1>2 DEF ToSet
<1>22. ToSet(c) \subseteq ToSet(p) \cup ToSet(q)
  BY <1>21, Zenon DEF ToSet
<1>3. ToSet(p) \subseteq ToSet(c)
  BY <1>1 DEF ToSet
<1>4. ASSUME NEW i \in DOMAIN q
      PROVE  q[i] \in ToSet(c)
  <2>1. i + Len(p) \in DOMAIN c /\ c[i + Len(p)] = q[i]
    BY <1>1, <1>4
  <2> QED BY <2>1 DEF ToSet
<1>5. ToSet(q) \subseteq ToSet(c)
  BY <1>4 DEF ToSet
<1>6. ASSUME IsInjective(p), IsInjective(q), ToSet(p) \cap ToSet(q) = {},
             NEW i \in DOMAIN c, NEW j \in DOMAIN c, c[i] = c[j]
      PROVE  i = j
  <2>1. CASE i <= Len(p) /\ j <= Len(p)
    BY <1>1, <1>6, <2>1 DEF IsInjective
  <2>2. CASE i > Len(p) /\ j > Len(p)
    <3>1. i - Len(p) \in DOMAIN q /\ j - Len(p) \in DOMAIN q
      BY <1>1, <2>2
    <3>2. q[i - Len(p)] = q[j - Len(p)]
      BY <1>1, <1>6, <2>2
    <3>3. i - Len(p) = j - Len(p)
      BY <1>6, <3>1, <3>2 DEF IsInjective
    <3> QED BY <1>1, <3>3
  <2>3. CASE i <= Len(p) /\ j > Len(p)
    <3>1. c[i] \in ToSet(p) /\ c[j] \in ToSet(q)
      BY <1>1, <1>21, <2>3
    <3> QED BY <1>6, <3>1
  <2>4. CASE i > Len(p) /\ j <= Len(p)
    <3>1. c[j] \in ToSet(p) /\ c[i] \in ToSet(q)
      BY <1>1, <1>21, <2>4
    <3> QED BY <1>6, <3>1
  <2> QED BY <1>1, <2>1, <2>2, <2>3, <2>4
<1>7. IsInjective(p) /\ IsInjective(q) /\ ToSet(p) \cap ToSet(q) = {} => IsInjective(c)
  BY <1>6 DEF IsInjective
<1> QED BY <1>1, <1>22, <1>3, <1>5, <1>7 DEF c

(* Dropping a prefix. *)
LEMMA SuffixFacts ==
  ASSUME NEW S, NEW q \in Seq(S), NEW a \in Nat \ {0}
  PROVE  /\ SubSeq(q, a, Len(q)) \in Seq(S)
         /\ ToSet(SubSeq(q, a, Len(q))) \subseteq ToSet(q)
         /\ Len(SubSeq(q, a, Len(q))) <= Len(q)
         /\ IsInjective(q) => IsInjective(SubSeq(q, a, Len(q)))
BY DEF ToSet, IsInjective

(* What is left when the element at position i is removed. *)
LEMMA RemoveAtShape ==
  ASSUME NEW S, NEW q \in Seq(S), NEW i \in DOMAIN q
  PROVE  /\ RemoveAt(q, i) \in Seq(S)
         /\ Len(RemoveAt(q, i)) = Len(q) - 1
         /\ \A j \in 1..Len(q) - 1 :
              RemoveAt(q, i)[j] = IF j < i THEN q[j] ELSE q[j + 1]
<1> DEFINE l == SubSeq(q, 1, i - 1)  r == SubSeq(q, i + 1, Len(q))
<1>1. l \in Seq(S) /\ Len(l) = i - 1 /\ \A j \in 1..i - 1 : l[j] = q[j]
  OBVIOUS
<1>2. r \in Seq(S) /\ Len(r) = Len(q) - i /\ \A j \in 1..Len(q) - i : r[j] = q[i + j]
  OBVIOUS
<1>3. RemoveAt(q, i) = l \o r
  BY DEF RemoveAt
<1>4. i \in Nat /\ Len(q) \in Nat /\ 1 <= i /\ i <= Len(q)
  OBVIOUS
<1> HIDE DEF l, r
<1>5. /\ l \o r \in Seq(S) /\ Len(l \o r) = Len(q) - 1
      /\ \A j \in 1..Len(q) - 1 : (l \o r)[j] = IF j <= i - 1 THEN l[j] ELSE r[j - (i - 1)]
  <2>1. /\ l \o r \in Seq(S) /\ Len(l \o r) = Len(l) + Len(r)
        /\ \A j \in 1..Len(l) + Len(r) :
             (l \o r)[j] = IF j <= Len(l) THEN l[j] ELSE r[j - Len(l)]
    BY <1>1, <1>2, ConcatProperties
  <2>2. Len(l) + Len(r) = Len(q) - 1 /\ Len(l) = i - 1
    BY <1>1, <1>2, <1>4
  <2> QED BY <2>1, <2>2
<1>6. ASSUME NEW j \in 1..Len(q) - 1
      PROVE  (l \o r)[j] = IF j < i THEN q[j] ELSE q[j + 1]
  <2>1. CASE j < i
    BY <1>1, <1>4, <1>5, <2>1
  <2>2. CASE j >= i
    <3>0. ~ (j < i)
      BY <1>4, <2>2
    <3>1. (l \o r)[j] = r[j - (i - 1)]
      BY <1>4, <1>5, <2>2
    <3>2. j - (i - 1) \in 1..Len(q) - i /\ i + (j - (i - 1)) = j + 1
      BY <1>4, <2>2
    <3>3. r[j - (i - 1)] = q[j + 1]
      BY <1>2, <3>2
    <3> QED BY <3>0, <3>1, <3>3, Zenon
  <2>3. j < i \/ j >= i
    BY <1>4
  <2> QED BY <2>1, <2>2, <2>3, Zenon
<1> QED BY <1>3, <1>5, <1>6

(* Removing one of several distinct elements. *)
LEMMA RemoveAtFacts ==
  ASSUME NEW S, NEW q \in Seq(S), NEW i \in DOMAIN q, IsInjective(q)
  PROVE  /\ RemoveAt(q, i) \in Seq(S)
         /\ ToSet(RemoveAt(q, i)) = ToSet(q) \ {q[i]}
         /\ IsInjective(RemoveAt(q, i))
<1> DEFINE r == RemoveAt(q, i)
<1>1. /\ r \in Seq(S) /\ Len(r) = Len(q) - 1 /\ DOMAIN r = 1..Len(q) - 1
      /\ \A j \in 1..Len(q) - 1 : r[j] = IF j < i THEN q[j] ELSE q[j + 1]
  BY RemoveAtShape
<1>2. DOMAIN q = 1..Len(q) /\ Len(q) \in Nat /\ i \in 1..Len(q)
  OBVIOUS
<1> HIDE DEF r
<1>3. ASSUME NEW j \in DOMAIN r, NEW k \in DOMAIN r, r[j] = r[k]
      PROVE  j = k
  <2> DEFINE at(n) == IF n < i THEN n ELSE n + 1
  <2>1. at(j) \in DOMAIN q /\ at(k) \in DOMAIN q /\ r[j] = q[at(j)] /\ r[k] = q[at(k)]
    BY <1>1, <1>2
  <2>2. at(j) = at(k)
    BY <1>3, <2>1 DEF IsInjective
  <2> QED BY <1>1, <1>2, <2>2
<1>4. ToSet(r) \subseteq ToSet(q) \ {q[i]}
  <2>1. ASSUME NEW j \in DOMAIN r
        PROVE  r[j] \in ToSet(q) /\ r[j] # q[i]
    <3>1. CASE j < i
      <4>1. j \in DOMAIN q /\ j # i /\ r[j] = q[j]
        BY <1>1, <1>2, <3>1
      <4> QED BY <4>1 DEF ToSet, IsInjective
    <3>2. CASE ~ (j < i)
      <4>1. j + 1 \in DOMAIN q /\ j + 1 # i /\ r[j] = q[j + 1]
        BY <1>1, <1>2, <3>2
      <4> QED BY <4>1 DEF ToSet, IsInjective
    <3> QED BY <3>1, <3>2
  <2> QED BY <2>1 DEF ToSet
<1>5. ASSUME NEW k \in DOMAIN q, q[k] # q[i]
      PROVE  q[k] \in ToSet(r)
  <2>1. CASE k < i
    BY <1>1, <1>2, <2>1 DEF ToSet
  <2>2. CASE k > i
    <3>1. k - 1 \in DOMAIN r /\ r[k - 1] = q[k]
      BY <1>1, <1>2, <2>2
    <3> QED BY <3>1 DEF ToSet
  <2> QED BY <1>2, <1>5, <2>1, <2>2
<1>6. ToSet(q) \ {q[i]} \subseteq ToSet(r)
  BY <1>5 DEF ToSet
<1>7. IsInjective(r)
  BY <1>3 DEF IsInjective
<1> QED BY <1>1, <1>4, <1>6, <1>7 DEF r
=============================================================================
