---------------------------- MODULE SinksProofs -----------------------------
(***************************************************************************)
(* Theorems about Sinks: what a call of a library reports, and where it is *)
(* located, for call stacks and captures of any depth.                     *)
(***************************************************************************)
EXTENDS Sinks, FiniteSetTheorems, FunctionTheorems, SequenceTheorems, TLAPS

(***************************************************************************)
(* What the captures of a call stack show, for call stacks and captures of *)
(* any depth; and the sequences and sets of positions they are made of.    *)
(***************************************************************************)

(***************************************************************************)
(* Sequences                                                               *)
(***************************************************************************)

(* A function on the first positions is a sequence.                        *)
LEMMA FunctionOfPositions ==
  ASSUME NEW T, NEW n \in Nat, NEW f \in [1..n -> T]
  PROVE  f \in Seq(T) /\ Len(f) = n
OBVIOUS

(* Tuples are sequences.                                                   *)
LEMMA EmptyTuple ==
  ASSUME NEW T
  PROVE  <<>> \in Seq(T)
OBVIOUS

(* A tuple of one is a sequence.                                           *)
LEMMA SingleTuple ==
  ASSUME NEW T, NEW x \in T
  PROVE  <<x>> \in Seq(T)
OBVIOUS

(* A pair is a sequence.                                                   *)
LEMMA PairTuple ==
  ASSUME NEW T, NEW x \in T, NEW y \in T
  PROVE  <<x, y>> \in Seq(T)
OBVIOUS

(* The tuple is unchanged by an empty prefix.                              *)
LEMMA EmptyConcat ==
  ASSUME NEW T, NEW x \in T
  PROVE  <<>> \o <<x>> = <<x>>
OBVIOUS

(* Two tuples of one make a pair.                                          *)
LEMMA PairConcat ==
  ASSUME NEW T, NEW x \in T, NEW y \in T
  PROVE  <<x>> \o <<y>> = <<x, y>>
<1> DEFINE s == <<x>> \o <<y>>
           t == <<x, y>>
<1>1. s \in Seq(T) /\ t \in Seq(T) /\ Len(s) = 2 /\ Len(t) = 2
  OBVIOUS
<1>2. \A i \in 1..2 : s[i] = t[i]
  OBVIOUS
<1> HIDE DEF s, t
<1>3. s = t
  BY <1>1, <1>2, SeqEqual
<1>4. QED
  BY <1>3 DEF s, t

(* The empty sequence is neutral.                                          *)
LEMMA EmptyPrefix ==
  ASSUME NEW T, NEW s \in Seq(T)
  PROVE  <<>> \o s = s
OBVIOUS

(* The elements of a tuple of one.                                         *)
LEMMA ElementsOfSingle ==
  ASSUME NEW a
  PROVE  Range(<<a>>) = {a}
BY DEF Range

(* The elements of a pair.                                                 *)
LEMMA ElementsOfPair ==
  ASSUME NEW a, NEW b
  PROVE  Range(<<a, b>>) = {a, b}
<1>1. \A i \in 1..2 : i = 1 \/ i = 2
  OBVIOUS
<1>2. DOMAIN <<a, b>> = 1..2 /\ <<a, b>>[1] = a /\ <<a, b>>[2] = b /\ 1 \in 1..2 /\ 2 \in 1..2
  OBVIOUS
<1>3. QED
  BY <1>1, <1>2 DEF Range

(* The elements of a triple.                                               *)
LEMMA ElementsOfTriple ==
  ASSUME NEW a, NEW b, NEW c
  PROVE  Range(<<a, b, c>>) = {a, b, c}
<1>1. \A i \in 1..3 : i = 1 \/ i = 2 \/ i = 3
  OBVIOUS
<1>2. /\ DOMAIN <<a, b, c>> = 1..3 /\ 1 \in 1..3 /\ 2 \in 1..3 /\ 3 \in 1..3
      /\ <<a, b, c>>[1] = a /\ <<a, b, c>>[2] = b /\ <<a, b, c>>[3] = c
  OBVIOUS
<1>3. QED
  BY <1>1, <1>2 DEF Range

(* The elements of a sequence with one appended.                           *)
LEMMA AppendOf ==
  ASSUME NEW T, NEW s \in Seq(T), NEW x \in T
  PROVE  /\ Append(s, x) \in Seq(T) /\ Len(Append(s, x)) = Len(s) + 1 /\ Append(s, x)[Len(s) + 1] = x
         /\ Append(s, x)[Len(Append(s, x))] = x
         /\ \A i \in 1..Len(s) : Append(s, x)[i] = s[i]
OBVIOUS

(* The head and the tail of a sequence that is not empty.                  *)
LEMMA HeadAndTail ==
  ASSUME NEW T, NEW s \in Seq(T), s # <<>>
  PROVE  /\ Len(s) \in Nat \ {0} /\ Head(s) = s[1] /\ s[1] \in T
         /\ Tail(s) \in Seq(T) /\ Len(Tail(s)) = Len(s) - 1
         /\ \A n \in 1..Len(Tail(s)) : Tail(s)[n] = s[n + 1] /\ n + 1 \in 1..Len(s)
<1>1. Len(s) \in Nat \ {0}
  BY EmptySeq
<1>2. QED
  BY <1>1

(* The elements of a part of a sequence.                                   *)
LEMMA SubSeqOf ==
  ASSUME NEW T, NEW s \in Seq(T), NEW m \in 1..(Len(s) + 1), NEW n \in (m - 1)..Len(s)
  PROVE  /\ SubSeq(s, m, n) \in Seq(T) /\ Len(SubSeq(s, m, n)) = n - m + 1
         /\ \A i \in 1..(n - m + 1) : SubSeq(s, m, n)[i] = s[m - 1 + i]
OBVIOUS

(* The elements of a concatenation.                                        *)
LEMMA ConcatOf ==
  ASSUME NEW T, NEW s \in Seq(T), NEW t \in Seq(T)
  PROVE  /\ s \o t \in Seq(T) /\ Len(s \o t) = Len(s) + Len(t)
         /\ \A i \in 1..Len(s) : (s \o t)[i] = s[i]
         /\ \A i \in (Len(s) + 1)..(Len(s) + Len(t)) : (s \o t)[i] = t[i - Len(s)]
OBVIOUS

(* A concatenation begins with its first part.                             *)
LEMMA ConcatPrefix ==
  ASSUME NEW T, NEW s \in Seq(T), NEW t \in Seq(T)
  PROVE  /\ s \o t \in Seq(T) /\ Len(s \o t) = Len(s) + Len(t)
         /\ \A i \in 1..Len(s) : (s \o t)[i] = s[i]
OBVIOUS

(* Elements given by their positions, and two more.                        *)
LEMMA ConcatPositionsAndTwo ==
  ASSUME NEW T, NEW m \in Nat, NEW s \in [1..m -> T], NEW a \in T, NEW b \in T
  PROVE  /\ s \o <<a, b>> \in Seq(T) /\ Len(s \o <<a, b>>) = m + 2
         /\ \A n \in 1..m : (s \o <<a, b>>)[n] = s[n]
         /\ (s \o <<a, b>>)[m + 1] = a /\ (s \o <<a, b>>)[m + 2] = b
<1> DEFINE t == <<a, b>>
<1>1. t \in Seq(T) /\ Len(t) = 2 /\ t[1] = a /\ t[2] = b
  OBVIOUS
<1>2. s \in Seq(T) /\ Len(s) = m
  BY FunctionOfPositions
<1> HIDE DEF t
<1>3. /\ s \o t \in Seq(T) /\ Len(s \o t) = Len(s) + Len(t)
      /\ \A i \in 1..Len(s) + Len(t) : (s \o t)[i] = IF i <= Len(s) THEN s[i] ELSE t[i - Len(s)]
  BY <1>1, <1>2, ConcatProperties
<1>4. /\ s \o t \in Seq(T) /\ Len(s \o t) = m + 2
      /\ \A i \in 1..m + 2 : (s \o t)[i] = IF i <= m THEN s[i] ELSE t[i - m]
  BY <1>1, <1>2, <1>3
<1>5. m + 1 \in 1..m + 2 /\ m + 2 \in 1..m + 2 /\ ~(m + 1 <= m) /\ ~(m + 2 <= m) /\ (m + 1) - m = 1 /\ (m + 2) - m = 2
  OBVIOUS
<1>6. (s \o t)[m + 1] = t[1] /\ (s \o t)[m + 2] = t[2]
  BY <1>4, <1>5
<1>7. \A n \in 1..m : n \in 1..m + 2 /\ n <= m
  OBVIOUS
<1>8. QED
  BY <1>1, <1>4, <1>6, <1>7 DEF t

(* The elements of a reversed sequence.                                    *)
LEMMA ReverseElements ==
  ASSUME NEW T, NEW s \in Seq(T)
  PROVE  /\ Reverse(s) \in Seq(T) /\ Len(Reverse(s)) = Len(s)
         /\ \A i \in 1..Len(s) : Reverse(s)[i] = s[Len(s) - i + 1]
<1>1. \A i \in 1..Len(s) : Len(s) - i + 1 \in 1..Len(s)
  OBVIOUS
<1>2. Reverse(s) \in [1..Len(s) -> T]
  BY <1>1 DEF Reverse
<1>3. QED
  BY <1>2 DEF Reverse

(* What is between the first two elements and the last.                    *)
LEMMA Unwrapped ==
  ASSUME NEW T, NEW x \in T, NEW y \in T, NEW z \in T, NEW s \in Seq(T)
  PROVE  LET name == <<x>> \o (<<y>> \o s \o <<z>>)
         IN  /\ name \in Seq(T) /\ Len(name) > 1 /\ name[1] = x /\ name[2] = y
             /\ SubSeq(name, 3, Len(name) - 1) = s
<1> DEFINE inner == <<y>> \o s \o <<z>>
           name == <<x>> \o inner
<1>1. Len(s) \in Nat
  OBVIOUS
<1>2. <<x>> \in Seq(T) /\ <<y>> \in Seq(T) /\ <<z>> \in Seq(T)
      /\ Len(<<x>>) = 1 /\ Len(<<y>>) = 1 /\ Len(<<z>>) = 1 /\ <<x>>[1] = x /\ <<y>>[1] = y
  OBVIOUS
<1>3. /\ <<y>> \o s \in Seq(T) /\ Len(<<y>> \o s) = 1 + Len(s)
      /\ (<<y>> \o s)[1] = y /\ \A i \in 1..Len(s) : (<<y>> \o s)[i + 1] = s[i]
  OBVIOUS
<1>4. inner \in Seq(T) /\ Len(inner) = Len(s) + 2
      /\ \A i \in 1..(1 + Len(s)) : inner[i] = (<<y>> \o s)[i]
  <2>1. \A front \in Seq(T), back \in Seq(T) :
          /\ front \o back \in Seq(T) /\ Len(front \o back) = Len(front) + Len(back)
          /\ \A i \in 1..Len(front) : (front \o back)[i] = front[i]
    BY ConcatPrefix
  <2> HIDE DEF name
  <2>2. /\ inner \in Seq(T) /\ Len(inner) = Len(<<y>> \o s) + Len(<<z>>)
        /\ \A i \in 1..Len(<<y>> \o s) : inner[i] = (<<y>> \o s)[i]
    BY <1>2, <1>3, <2>1, Zenon
  <2>3. QED
    BY <1>1, <1>2, <1>3, <2>2
<1>5. inner[1] = y /\ \A i \in 1..Len(s) : inner[i + 1] = s[i]
  BY <1>1, <1>3, <1>4
<1> HIDE DEF inner
<1>6. name \in Seq(T) /\ Len(name) = Len(s) + 3 /\ name[1] = x
      /\ \A i \in 1..Len(inner) : name[i + 1] = inner[i]
  BY <1>1, <1>2, <1>4
<1> HIDE DEF name
<1>7. name[2] = y
  <2>1. 1 \in 1..Len(inner) /\ 1 + 1 = 2
    BY <1>1, <1>4
  <2>2. QED
    BY <1>5, <1>6, <2>1
<1>8. \A i \in 1..Len(s) : name[i + 2] = s[i]
  <2>1. \A i \in 1..Len(s) : i + 1 \in 1..Len(inner) /\ (i + 1) + 1 = i + 2
    BY <1>1, <1>4
  <2>2. QED
    BY <1>5, <1>6, <2>1
<1> DEFINE middle == SubSeq(name, 3, Len(name) - 1)
<1>9. middle \in Seq(T) /\ Len(middle) = Len(s) /\ \A i \in 1..Len(s) : middle[i] = name[i + 2]
  <2>1. 3 \in 1..(Len(name) + 1) /\ Len(name) - 1 \in (3 - 1)..Len(name) /\ (Len(name) - 1) - 3 + 1 = Len(s)
    BY <1>1, <1>6
  <2>2. /\ middle \in Seq(T) /\ Len(middle) = (Len(name) - 1) - 3 + 1
        /\ \A i \in 1..((Len(name) - 1) - 3 + 1) : middle[i] = name[3 - 1 + i]
    BY <1>6, <2>1, SubSeqOf
  <2>3. \A i \in 1..Len(s) : 3 - 1 + i = i + 2
    BY <1>1
  <2>4. QED
    BY <2>1, <2>2, <2>3
<1> HIDE DEF middle
<1>10. middle = s
  BY <1>8, <1>9, SeqEqual
<1>11. Len(name) > 1
  BY <1>1, <1>6
<1>12. QED
  BY <1>6, <1>7, <1>10, <1>11 DEF name, inner, middle

(***************************************************************************)
(* Positions                                                               *)
(***************************************************************************)

(* Induction on numbers, as a fact about sets of them: a set of numbers    *)
(* has a smallest one. The subset order of the finite sets is well-        *)
(* founded.                                                                *)
LEMMA SmallestElement ==
  ASSUME NEW S \in SUBSET Nat, S # {}
  PROVE  \E m \in S : \A n \in S : m <= n
<1> DEFINE T == {0..m : m \in S}
<1>1. T \subseteq FiniteSubsetsOf(Nat) /\ T # {}
  <2>1. ASSUME NEW m \in S PROVE 0..m \in FiniteSubsetsOf(Nat)
    <3>1. 0 \in Int /\ m \in Int /\ 0..m \subseteq Nat
      OBVIOUS
    <3>2. IsFiniteSet(0..m)
      BY <3>1, FS_Interval
    <3>3. QED
      BY <3>1, <3>2 DEF FiniteSubsetsOf
  <2>2. QED
    BY <2>1
<1>2. PICK x \in T : \A y \in T : ~(<<y, x>> \in StrictSubsetOrdering(Nat))
  <2> HIDE DEF T
  <2>1. QED
    BY <1>1, WFMin, FS_StrictSubsetOrderingWellFounded
<1>3. PICK m \in S : x = 0..m
  BY <1>2
<1>4. ASSUME NEW n \in S, n < m PROVE FALSE
  <2>1. 0..n \in T /\ ~(<<0..n, x>> \in StrictSubsetOrdering(Nat))
    BY <1>2
  <2>2. <<0..n, 0..m>> \in (SUBSET Nat) \X (SUBSET Nat)
    OBVIOUS
  <2>3. 0..n \subseteq 0..m /\ 0..n # 0..m
    <3>1. m \in 0..m /\ m \notin 0..n
      BY <1>4
    <3>2. QED
      BY <1>4, <3>1
  <2>4. QED
    BY <1>3, <2>1, <2>2, <2>3 DEF StrictSubsetOrdering
<1>5. QED
  BY <1>4

(* The elements of S up to i; how many there are is the rank of i.         *)
UpTo(S, i) == {j \in S : j <= i}

(* The rank of an element is a position in the set.                        *)
LEMMA UpToFinite ==
  ASSUME NEW S \in SUBSET Nat, IsFiniteSet(S), NEW i
  PROVE  /\ IsFiniteSet(UpTo(S, i)) /\ Cardinality(UpTo(S, i)) \in 0..Cardinality(S)
         /\ i \in S => Cardinality(UpTo(S, i)) \in 1..Cardinality(S)
<1>1. UpTo(S, i) \in SUBSET S
  BY DEF UpTo
<1>2. IsFiniteSet(UpTo(S, i)) /\ Cardinality(UpTo(S, i)) <= Cardinality(S)
  BY <1>1, FS_Subset
<1>3. Cardinality(S) \in Nat /\ Cardinality(UpTo(S, i)) \in Nat
  BY <1>2, FS_CardinalityType
<1>4. i \in S => Cardinality(UpTo(S, i)) # 0
  <2>1. i \in S => i \in UpTo(S, i)
    BY DEF UpTo
  <2>2. QED
    BY <2>1, <1>2, FS_EmptySet
<1>5. QED
  BY <1>2, <1>3, <1>4

(* Further positions have higher ranks.                                    *)
LEMMA RankIncreases ==
  ASSUME NEW S \in SUBSET Nat, IsFiniteSet(S), NEW i \in Nat, NEW j \in S, i < j
  PROVE  Cardinality(UpTo(S, i)) < Cardinality(UpTo(S, j))
<1>1. UpTo(S, i) \in SUBSET UpTo(S, j)
  <2>1. \A k \in S : k <= i => k <= j
    OBVIOUS
  <2>2. QED
    BY <2>1 DEF UpTo
<1>2. j \in UpTo(S, j) /\ j \notin UpTo(S, i)
  BY DEF UpTo
<1>3. IsFiniteSet(UpTo(S, j)) /\ Cardinality(UpTo(S, j)) \in Nat /\ Cardinality(UpTo(S, i)) \in Nat
  BY UpToFinite
<1>4. QED
  BY <1>1, <1>2, <1>3, FS_Subset

(* Every rank is that of one position.                                     *)
LEMMA NthPosition ==
  ASSUME NEW S \in SUBSET Nat, IsFiniteSet(S), NEW n \in 1..Cardinality(S)
  PROVE  Nth(S, n) \in S /\ Cardinality(UpTo(S, Nth(S, n))) = n
<1> DEFINE rank == [i \in S |-> Cardinality(UpTo(S, i))]
<1>1. rank \in Injection(S, 1..Cardinality(S))
  <2>1. rank \in [S -> 1..Cardinality(S)]
    BY UpToFinite
  <2>2. ASSUME NEW i \in S, NEW j \in S, rank[i] = rank[j] PROVE i = j
    <3>1. i \in Nat /\ j \in Nat /\ rank[i] \in Nat /\ rank[j] \in Nat
      BY UpToFinite
    <3>2. ~(i < j) /\ ~(j < i)
      BY <2>2, <3>1, RankIncreases
    <3>3. QED
      BY <3>1, <3>2
  <2>3. QED
    BY <2>1, <2>2, Fun_IsInj
<1>2. rank \in Surjection(S, 1..Cardinality(S))
  <2>1. Cardinality(S) \in Nat
    BY FS_CardinalityType
  <2>2. IsFiniteSet(1..Cardinality(S)) /\ Cardinality(1..Cardinality(S)) = Cardinality(S)
    BY <2>1, FS_Interval
  <2>3. QED
    BY <1>1, <2>2, FS_Injection
<1>3. \E i \in S : Cardinality(UpTo(S, i)) = n
  <2>1. \E i \in S : rank[i] = n
    <3> HIDE DEF rank
    <3>1. QED
      BY <1>2 DEF Surjection
  <2>2. QED
    BY <2>1
<1>4. QED
  BY <1>3 DEF Nth, UpTo

(***************************************************************************)
(* Captures                                                                *)
(***************************************************************************)

(* The positions a trace can show are finitely many.                       *)
LEMMA ShownFinite ==
  ASSUME NEW T, NEW frames \in Seq(T), NEW skip \in Nat
  PROVE  Shown(frames, skip) \in SUBSET (1..Len(frames)) /\ IsFiniteSet(Shown(frames, skip))
         /\ Cardinality(Shown(frames, skip)) \in Nat
<1>1. Shown(frames, skip) \in SUBSET (1..Len(frames))
  BY DEF Shown
<1>2. IsFiniteSet(1..Len(frames))
  BY FS_Interval
<1>3. QED
  BY <1>1, <1>2, FS_Subset, FS_CardinalityType

(* A frame of a trace.                                                     *)
CapturedFrame == [raw : Nat, index : Nat]

(* A list of captured frames: positions a trace shows, in order.           *)
Captured(frames, skip, list) ==
  /\ list \in Seq(CapturedFrame)
  /\ \A n \in 1..Len(list) : list[n].raw \in Shown(frames, skip) /\ list[n].index = list[n].raw - skip - 1
  /\ \A n \in 1..Len(list) : \A m \in 1..Len(list) : m < n => list[m].raw < list[n].raw

(* The visible frames are in order, none is missing, and each is at its    *)
(* rank.                                                                   *)
LEMMA VisibleFrames ==
  ASSUME NEW T, NEW frames \in Seq(T), NEW skip \in Nat
  PROVE  LET list == Visible(frames, skip)
             shown == Shown(frames, skip)
         IN  /\ Captured(frames, skip, list)
             /\ Len(list) = Cardinality(shown)
             /\ \A n \in 1..Len(list) : Cardinality(UpTo(shown, list[n].raw)) = n
             /\ \A i \in shown : \E n \in 1..Len(list) : list[n].raw = i
<1> DEFINE shown == Shown(frames, skip)
           list == Visible(frames, skip)
<1>1. shown \in SUBSET Nat /\ IsFiniteSet(shown) /\ Cardinality(shown) \in Nat /\ \A i \in shown : i > skip
  BY ShownFinite DEF Shown
<1> HIDE DEF shown
<1>2. \A n \in 1..Cardinality(shown) :
        Nth(shown, n) \in shown /\ Cardinality(UpTo(shown, Nth(shown, n))) = n
  BY <1>1, NthPosition
<1>3. list = [n \in 1..Cardinality(shown) |->
                [raw |-> Nth(shown, n), index |-> Nth(shown, n) - skip - 1]]
  BY DEF Visible, shown
<1> HIDE DEF list
<1>4. list \in Seq(CapturedFrame) /\ Len(list) = Cardinality(shown)
  <2>1. ASSUME NEW n \in 1..Cardinality(shown)
        PROVE  [raw |-> Nth(shown, n), index |-> Nth(shown, n) - skip - 1] \in CapturedFrame
    <3>1. Nth(shown, n) \in Nat /\ Nth(shown, n) > skip
      BY <1>1, <1>2
    <3>2. Nth(shown, n) - skip - 1 \in Nat
      BY <3>1
    <3>3. QED
      BY <3>1, <3>2 DEF CapturedFrame
  <2>2. list \in [1..Cardinality(shown) -> CapturedFrame]
    BY <1>3, <2>1
  <2>3. QED
    BY <1>1, <2>2, FunctionOfPositions
<1>5. \A n \in 1..Len(list) : /\ list[n].raw \in shown /\ list[n].index = list[n].raw - skip - 1
                              /\ Cardinality(UpTo(shown, list[n].raw)) = n
  BY <1>2, <1>3, <1>4
<1>6. ASSUME NEW n \in 1..Len(list), NEW m \in 1..Len(list), m < n
      PROVE  list[m].raw < list[n].raw
  <2>1. list[m].raw \in Nat /\ list[n].raw \in Nat /\ list[m].raw \in shown /\ list[n].raw \in shown
    BY <1>1, <1>5
  <2> DEFINE rank(i) == Cardinality(UpTo(shown, i))
  <2>2. rank(list[m].raw) = m /\ rank(list[n].raw) = n
    BY <1>5
  <2>3. list[n].raw < list[m].raw => rank(list[n].raw) < rank(list[m].raw)
    BY <2>1, <1>1, RankIncreases
  <2>4. m \in Nat /\ n \in Nat /\ list[n].raw # list[m].raw
    BY <1>4, <1>6, <2>2
  <2>5. QED
    BY <2>1, <2>2, <2>3, <2>4, <1>6
<1>7. ASSUME NEW i \in shown
      PROVE  \E n \in 1..Len(list) : list[n].raw = i
  <2>1. i \in Nat /\ Cardinality(UpTo(shown, i)) \in 1..Len(list)
    BY <1>1, <1>4, UpToFinite
  <2> DEFINE n == Cardinality(UpTo(shown, i))
  <2>2. list[n].raw \in shown /\ Cardinality(UpTo(shown, list[n].raw)) = n /\ list[n].raw \in Nat
    BY <1>1, <1>5, <2>1
  <2>3. /\ list[n].raw < i => Cardinality(UpTo(shown, list[n].raw)) < Cardinality(UpTo(shown, i))
        /\ i < list[n].raw => Cardinality(UpTo(shown, i)) < Cardinality(UpTo(shown, list[n].raw))
    <3> HIDE DEF n
    <3>1. QED
      BY <1>1, <2>1, <2>2, RankIncreases
  <2>4. QED
    BY <2>1, <2>2, <2>3
<1>8. QED
  BY <1>4, <1>5, <1>6, <1>7 DEF Captured, shown, list

(* What a capture is made of.                                              *)
LEMMA CaptureShape ==
  ASSUME NEW T, NEW frames \in Seq(T)
  PROVE  LET visible == Visible(frames, 0)
             list == Capture(frames)
             top == TraceDepth - TopFrames
         IN  /\ Captured(frames, 0, list)
             /\ captures /\ Len(visible) <= TraceDepth => list = visible
             /\ captures /\ Len(visible) > TraceDepth =>
                  Len(list) = TraceDepth /\ \A n \in 1..top : list[n] = visible[n]
<1> DEFINE visible == Visible(frames, 0)
           list == Capture(frames)
           top == TraceDepth - TopFrames
           first == SubSeq(visible, 1, top)
           last == SubSeq(visible, Len(visible) - TopFrames + 1, Len(visible))
<1>1. Captured(frames, 0, visible) /\ Captured(frames, 0, <<>>)
  <2>1. Captured(frames, 0, visible)
    BY VisibleFrames
  <2>2. Captured(frames, 0, <<>>)
    BY DEF Captured
  <2>3. QED
    BY <2>1, <2>2
<1>2. visible \in Seq(CapturedFrame) /\ Len(visible) \in Nat
  BY <1>1 DEF Captured
<1>3. TopFrames \in Nat /\ TraceDepth \in Nat /\ top \in Nat \ {0}
  BY LocationAssumption
<1>4. CASE ~captures
  <2>1. list = <<>>
    BY <1>4 DEF Capture
  <2>2. QED
    BY <1>1, <1>4, <2>1
<1>5. CASE captures /\ Len(visible) <= TraceDepth
  <2>1. list = visible
    BY <1>5 DEF Capture
  <2> HIDE DEF list, visible
  <2>2. Captured(frames, 0, list) /\ (captures /\ Len(visible) <= TraceDepth => list = visible)
    BY <1>1, <2>1
  <2>3. ~(Len(visible) > TraceDepth)
    BY <1>2, <1>3, <1>5
  <2>4. QED
    BY <2>2, <2>3 DEF list, visible
<1>6. CASE captures /\ Len(visible) > TraceDepth
  <2>1. list = first \o last
    BY <1>6, <1>2, <1>3 DEF Capture
  <2> HIDE DEF visible
  <2>2. /\ first \in Seq(CapturedFrame) /\ Len(first) = top
        /\ \A n \in 1..top : first[n] = visible[n]
    BY <1>2, <1>3, <1>6, SubSeqOf
  <2>3. /\ last \in Seq(CapturedFrame) /\ Len(last) = TopFrames
        /\ \A n \in 1..TopFrames : last[n] = visible[Len(visible) - TopFrames + n]
    BY <1>2, <1>3, <1>6, SubSeqOf
  <2> HIDE DEF first, last
  <2>4. /\ list \in Seq(CapturedFrame) /\ Len(list) = TraceDepth
        /\ \A n \in 1..top : list[n] = visible[n]
        /\ \A n \in (top + 1)..TraceDepth : list[n] = visible[Len(visible) - TraceDepth + n]
    <3>1. top + TopFrames = TraceDepth
      BY <1>3
    <3>2. /\ first \o last \in Seq(CapturedFrame) /\ Len(first \o last) = Len(first) + Len(last)
          /\ \A n \in 1..Len(first) : (first \o last)[n] = first[n]
          /\ \A n \in (Len(first) + 1)..(Len(first) + Len(last)) : (first \o last)[n] = last[n - Len(first)]
      BY <2>2, <2>3, ConcatOf
    <3>3. \A n \in (top + 1)..TraceDepth : list[n] = last[n - top]
      BY <2>1, <2>2, <2>3, <3>1, <3>2
    <3>4. \A n \in (top + 1)..TraceDepth :
            n - top \in 1..TopFrames /\ Len(visible) - TopFrames + (n - top) = Len(visible) - TraceDepth + n
      BY <1>2, <1>3
    <3>5. \A n \in (top + 1)..TraceDepth : list[n] = visible[Len(visible) - TraceDepth + n]
      BY <2>3, <3>3, <3>4
    <3>6. QED
      BY <2>1, <2>2, <2>3, <3>1, <3>2, <3>5
  <2> HIDE DEF list
  <2> DEFINE place(n) == IF n <= top THEN n ELSE Len(visible) - TraceDepth + n
  <2>5. \A n \in 1..TraceDepth : place(n) \in 1..Len(visible) /\ list[n] = visible[place(n)]
    <3>1. TAKE n \in 1..TraceDepth
    <3>2. CASE n <= top
      BY <1>2, <1>3, <1>6, <2>4, <3>2
    <3>3. CASE n > top
      BY <1>2, <1>3, <1>6, <2>4, <3>3
    <3>4. QED
      BY <1>3, <3>2, <3>3
  <2>6. \A n \in 1..TraceDepth : \A m \in 1..TraceDepth : m < n => place(m) < place(n)
    BY <1>2, <1>3, <1>6
  <2> HIDE DEF place
  <2>7. Captured(frames, 0, list)
    <3>1. \A n \in 1..TraceDepth : list[n].raw \in Shown(frames, 0) /\ list[n].index = list[n].raw - 0 - 1
      BY <1>1, <2>5 DEF Captured
    <3>2. \A n \in 1..TraceDepth : \A m \in 1..TraceDepth : m < n => list[m].raw < list[n].raw
      BY <1>1, <2>5, <2>6 DEF Captured
    <3>3. QED
      BY <2>4, <3>1, <3>2 DEF Captured
  <2>8. QED
    BY <1>2, <1>3, <1>6, <2>4, <2>7 DEF list, visible
<1>7. QED
  BY <1>2, <1>3, <1>4, <1>5, <1>6

(* A capture of one frame is the first that can be shown.                  *)
LEMMA CaptureLeafShape ==
  ASSUME NEW T, NEW frames \in Seq(T), NEW skip \in Nat
  PROVE  LET leaf == CaptureLeaf(frames, skip)
         IN  /\ Captured(frames, skip, leaf) /\ Len(leaf) <= 1
             /\ captures /\ leaf = <<>> => Shown(frames, skip) = {}
             /\ leaf # <<>> => Len(leaf) = 1 /\ \A i \in Shown(frames, skip) : leaf[1].raw <= i
<1> DEFINE visible == Visible(frames, skip)
           leaf == CaptureLeaf(frames, skip)
<1>1. /\ Captured(frames, skip, visible)
      /\ \A i \in Shown(frames, skip) : \E n \in 1..Len(visible) : visible[n].raw = i
  BY VisibleFrames
<1>2. visible \in Seq(CapturedFrame) /\ Captured(frames, skip, <<>>)
  BY <1>1 DEF Captured
<1> HIDE DEF visible
<1>3. CASE ~captures
  <2>1. leaf = <<>>
    BY <1>3 DEF CaptureLeaf
  <2>2. QED
    BY <1>2, <1>3, <2>1
<1>4. CASE captures /\ visible = <<>>
  <2>1. leaf = <<>>
    BY <1>4 DEF CaptureLeaf, visible
  <2>2. Shown(frames, skip) = {}
    BY <1>1, <1>4
  <2>3. QED
    BY <1>2, <2>1, <2>2
<1>5. CASE captures /\ visible # <<>>
  <2>1. leaf = <<visible[1]>>
    BY <1>5 DEF CaptureLeaf, visible
  <2>2. 1 \in 1..Len(visible) /\ visible[1] \in CapturedFrame
    BY <1>2, <1>5
  <2> HIDE DEF leaf
  <2>3. leaf \in Seq(CapturedFrame) /\ Len(leaf) = 1 /\ leaf[1] = visible[1]
    BY <2>1, <2>2
  <2>4. Captured(frames, skip, leaf)
    BY <1>1, <2>2, <2>3 DEF Captured
  <2>5. ASSUME NEW i \in Shown(frames, skip) PROVE leaf[1].raw <= i
    <3>1. PICK n \in 1..Len(visible) : visible[n].raw = i
      BY <1>1
    <3>2. n = 1 \/ 1 < n
      BY <1>2
    <3>3. visible[1].raw \in Nat /\ visible[n].raw \in Nat
      <4>1. visible[1] \in CapturedFrame /\ visible[n] \in CapturedFrame
        BY <1>2, <2>2
      <4>2. QED
        BY <4>1 DEF CapturedFrame
    <3>4. 1 < n => visible[1].raw < visible[n].raw
      BY <1>1, <2>2 DEF Captured
    <3>5. QED
      BY <2>3, <3>1, <3>2, <3>3, <3>4
  <2>6. Len(leaf) <= 1 /\ leaf # <<>>
    BY <2>3
  <2>7. QED
    BY <2>3, <2>4, <2>5, <2>6, Zenon DEF leaf
<1>6. QED
  BY <1>3, <1>4, <1>5

(* Visible frames before the first of a set of them.                       *)
Leading(frames, C) == Cardinality({n \in DOMAIN frames : ~frames[n].hidden /\ \A c \in C : n < c})

(* The first of a set of frames, and how many shown frames come before it. *)
LEMMA FirstOfThem ==
  ASSUME NEW T, NEW frames \in Seq(T), NEW C \in SUBSET Shown(frames, 0), C # {}
  PROVE  LET shown == Shown(frames, 0)
         IN  \E c \in C :
               /\ c \in shown /\ \A d \in C : c <= d
               /\ shown \in SUBSET Nat /\ IsFiniteSet(shown)
               /\ Cardinality(UpTo(shown, c)) = Leading(frames, C) + 1 /\ Leading(frames, C) \in Nat
<1> DEFINE shown == Shown(frames, 0)
<1>1. shown = {n \in 1..Len(frames) : ~frames[n].hidden}
  BY DEF Shown
<1>2. shown \in SUBSET Nat /\ IsFiniteSet(shown)
  BY ShownFinite
<1> HIDE DEF shown
<1>3. PICK c \in C : \A d \in C : c <= d
  <2>1. C \in SUBSET Nat
    BY <1>2 DEF shown
  <2>2. QED
    BY <2>1, SmallestElement
<1> DEFINE before == {n \in shown : n < c}
<1>4. before = {n \in DOMAIN frames : ~frames[n].hidden /\ \A d \in C : n < d}
  <2>1. ASSUME NEW n \in 1..Len(frames) PROVE n < c <=> \A d \in C : n < d
    BY <1>2, <1>3 DEF shown
  <2>2. DOMAIN frames = 1..Len(frames)
    OBVIOUS
  <2>3. QED
    BY <1>1, <2>1, <2>2
<1>5. Leading(frames, C) = Cardinality(before)
  BY <1>4 DEF Leading
<1>6. UpTo(shown, c) = before \union {c} /\ c \notin before /\ c \in shown
  BY <1>2 DEF UpTo, shown
<1>7. IsFiniteSet(before)
  BY <1>2, FS_Subset
<1>8. Cardinality(before) \in Nat /\ Cardinality(before \union {c}) = Cardinality(before) + 1
  <2> HIDE DEF before
  <2>1. QED
    BY <1>6, <1>7, FS_CardinalityType, FS_AddElement
<1>9. QED
  BY <1>2, <1>3, <1>5, <1>6, <1>8 DEF shown

(* A deep capture reaches the first of them, a leaf is there.              *)
LEMMA CaptureReaches ==
  ASSUME NEW T, NEW frames \in Seq(T), NEW C \in SUBSET Shown(frames, 0), C # {}, captures
  PROVE  /\ Leading(frames, C) < TraceDepth - TopFrames \/ Len(Visible(frames, 0)) <= TraceDepth =>
              \E n \in 1..Len(Capture(frames)) :
                 Capture(frames)[n].raw \in C /\ \A c \in C : Capture(frames)[n].raw <= c
         /\ CaptureLeaf(frames, 0) # <<>>
<1> DEFINE shown == Shown(frames, 0)
           visible == Visible(frames, 0)
           list == Capture(frames)
<1>1. PICK c \in C :
        /\ c \in shown /\ \A d \in C : c <= d
        /\ shown \in SUBSET Nat /\ IsFiniteSet(shown)
        /\ Cardinality(UpTo(shown, c)) = Leading(frames, C) + 1 /\ Leading(frames, C) \in Nat
  BY FirstOfThem
<1>2. PICK k \in 1..Len(visible) : visible[k].raw = c /\ Cardinality(UpTo(shown, c)) = k
  BY <1>1, VisibleFrames
<1>3. CaptureLeaf(frames, 0) # <<>>
  BY <1>1, CaptureLeafShape
<1>4. Len(visible) \in Nat /\ TraceDepth \in Nat /\ TopFrames \in Nat /\ TraceDepth > TopFrames
  <2>1. visible \in Seq(CapturedFrame)
    BY VisibleFrames DEF Captured
  <2>2. QED
    BY <2>1, LocationAssumption
<1>5. ASSUME Len(visible) <= TraceDepth
      PROVE  \E n \in 1..Len(list) : list[n].raw = c
  <2>1. list = visible
    BY <1>5, CaptureShape
  <2>2. QED
    BY <1>2, <2>1
<1>6. ASSUME Len(visible) > TraceDepth, Leading(frames, C) < TraceDepth - TopFrames
      PROVE  \E n \in 1..Len(list) : list[n].raw = c
  <2>1. Len(list) = TraceDepth /\ \A n \in 1..(TraceDepth - TopFrames) : list[n] = visible[n]
    BY <1>6, CaptureShape
  <2>2. k \in 1..(TraceDepth - TopFrames) /\ k \in 1..TraceDepth
    BY <1>1, <1>2, <1>4, <1>6
  <2>3. QED
    BY <1>2, <2>1, <2>2
<1>7. QED
  BY <1>1, <1>3, <1>4, <1>5, <1>6

(* Frames before a position: there are some if one of them is shown.       *)
LEMMA ShownUpTo ==
  ASSUME NEW T, NEW frames \in Seq(T), NEW skip \in Nat
  PROVE  LET before == {n \in 1..Len(frames) : ~frames[n].hidden /\ n <= skip}
         IN  /\ IsFiniteSet(before) /\ Cardinality(before) \in Nat
             /\ before # {} => Cardinality(before) > 0
<1> DEFINE before == {n \in 1..Len(frames) : ~frames[n].hidden /\ n <= skip}
<1>1. Len(frames) \in Nat
  OBVIOUS
<1>2. IsFiniteSet(1..Len(frames))
  BY <1>1, FS_Interval
<1>3. IsFiniteSet(before)
  BY <1>2, FS_Subset
<1>4. Cardinality(before) \in Nat /\ (Cardinality(before) = 0 <=> before = {})
  <2> HIDE DEF before
  <2>1. QED
    BY <1>3, FS_CardinalityType, FS_EmptySet
<1>5. QED
  BY <1>3, <1>4

(* Visible frames up to a position that is before all the candidates.      *)
LEMMA LeadingFrames ==
  ASSUME NEW T, NEW frames \in Seq(T), NEW C \in SUBSET (1..Len(frames)), NEW skip \in Nat, \A c \in C : skip < c
  PROVE  /\ Leading(frames, C) \in Nat
         /\ Cardinality({n \in 1..Len(frames) : ~frames[n].hidden /\ n <= skip}) \in Nat
         /\ Cardinality({n \in 1..Len(frames) : ~frames[n].hidden /\ n <= skip}) <= Leading(frames, C)
<1> DEFINE before  == {n \in 1..Len(frames) : ~frames[n].hidden /\ n <= skip}
           leading == {n \in DOMAIN frames : ~frames[n].hidden /\ \A c \in C : n < c}
<1>1. DOMAIN frames = 1..Len(frames) /\ Len(frames) \in Nat
  OBVIOUS
<1>2. IsFiniteSet(1..Len(frames)) /\ leading \in SUBSET (1..Len(frames))
  BY <1>1, FS_Interval
<1>3. before \in SUBSET leading
  BY <1>1
<1>4. IsFiniteSet(leading)
  BY <1>2, FS_Subset
<1> HIDE DEF before, leading
<1>5. IsFiniteSet(before) /\ Cardinality(before) <= Cardinality(leading)
  BY <1>3, <1>4, FS_Subset
<1>6. Cardinality(before) \in Nat /\ Cardinality(leading) \in Nat
  BY <1>4, <1>5, FS_CardinalityType
<1>7. QED
  BY <1>5, <1>6 DEF before, leading, Leading

(* The unsigned subtraction of a smaller number.                           *)
LEMMA NoWrap ==
  ASSUME NEW raw \in Nat, NEW skipped \in Nat, skipped < raw, raw <= Uint32
  PROVE  (raw - 1 - skipped) % Uint32 = raw - skipped - 1 /\ raw - skipped - 1 \in Nat
<1>1. Uint32 \in Nat \ {0} /\ raw - skipped - 1 \in 0..(Uint32 - 1)
  BY LocationAssumption
<1>2. \A d \in Nat \ {0} : \A x \in 0..(d - 1) : x % d = x
  OBVIOUS
<1>3. raw - 1 - skipped = raw - skipped - 1
  OBVIOUS
<1>4. QED
  BY <1>1, <1>2, <1>3

(* The indices of a trace, shifted by the frames skipped before it.        *)
LEMMA ShiftedFrames ==
  ASSUME NEW s \in Seq(CapturedFrame), rawFramesSkipped \in Nat,
         \A n \in 1..Len(s) : s[n].index = s[n].raw - 1 /\ rawFramesSkipped < s[n].raw /\ s[n].raw <= Uint32
  PROVE  /\ ShiftIndices(s) \in Seq(CapturedFrame) /\ Len(ShiftIndices(s)) = Len(s)
         /\ \A n \in 1..Len(s) : /\ ShiftIndices(s)[n].raw = s[n].raw
                                 /\ ShiftIndices(s)[n].index = s[n].raw - rawFramesSkipped - 1
<1> DEFINE t == ShiftIndices(s)
<1>1. DOMAIN s = 1..Len(s) /\ Len(s) \in Nat
  OBVIOUS
<1>2. ASSUME NEW n \in 1..Len(s)
      PROVE  /\ t[n] \in CapturedFrame /\ t[n].raw = s[n].raw
             /\ t[n].index = s[n].raw - rawFramesSkipped - 1
  <2>1. s[n] \in CapturedFrame /\ s[n].raw \in Nat /\ s[n].index = s[n].raw - 1
    <3>1. s[n] \in CapturedFrame
      OBVIOUS
    <3>2. QED
      BY <3>1 DEF CapturedFrame
  <2>2. t[n] = [s[n] EXCEPT !.index = (s[n].index - rawFramesSkipped) % Uint32]
    BY <1>1 DEF ShiftIndices
  <2>3. (s[n].index - rawFramesSkipped) % Uint32 = s[n].raw - rawFramesSkipped - 1
        /\ s[n].raw - rawFramesSkipped - 1 \in Nat
    <3>1. (s[n].raw - 1 - rawFramesSkipped) % Uint32 = s[n].raw - rawFramesSkipped - 1
          /\ s[n].raw - rawFramesSkipped - 1 \in Nat
      BY <2>1, NoWrap
    <3>2. QED
      BY <2>1, <3>1
  <2> DEFINE index == s[n].raw - rawFramesSkipped - 1
  <2>4. t[n] = [s[n] EXCEPT !.index = index] /\ index \in Nat
    BY <2>2, <2>3
  <2> HIDE DEF index, t
  <2>5. t[n] \in CapturedFrame /\ t[n].raw = s[n].raw /\ t[n].index = index
    BY <2>1, <2>4 DEF CapturedFrame
  <2>6. QED
    BY <2>5 DEF index
<1>3. t = [n \in 1..Len(s) |-> t[n]]
  BY <1>1 DEF ShiftIndices
<1> HIDE DEF t
<1>4. t \in [1..Len(s) -> CapturedFrame]
  BY <1>2, <1>3
<1>5. t \in Seq(CapturedFrame) /\ Len(t) = Len(s)
  BY <1>1, <1>4, FunctionOfPositions
<1>6. QED
  BY <1>2, <1>5 DEF t

-----------------------------------------------------------------------------
(***************************************************************************)
(* Symbols and frames                                                      *)
(***************************************************************************)

(* The parts of the names of the libraries' functions.                     *)
Parts == {"", "Hash", "New", "Sum", "NewCipher", "NewTripleDESCipher", "NewSaltedCipher", "create",
          "shaWithTripleDESCBC", "shaWith40BitRC2CBC", "Decode", "pbDecrypterFor",
          "deriveKey", "deriveIV"}

(* The packages of the libraries, and the empty one of no frame.           *)
Namespaces == {"", "crypto", "golang.org/x/crypto/md4", "crypto/md5", "crypto/sha1", DESPackage, RC4Package,
               BlowfishPackage, RC2Package, PKCS12Package}

(* The symbols of the libraries.                                           *)
Symbols == [namespace : Namespaces, class : Seq(Parts), function : Seq(Parts)]

(* The symbol of a frame to skip has the three fields it was made of.      *)
LEMMA SkipFrameIsSymbol ==
  ASSUME NEW namespace \in Namespaces, NEW class \in Seq(Parts), NEW function \in Seq(Parts)
  PROVE  /\ SkipFrame(namespace, class, function) \in Symbols
         /\ SkipFrame(namespace, class, function).namespace = namespace
         /\ SkipFrame(namespace, class, function).class = class
         /\ SkipFrame(namespace, class, function).function = function
BY DEF SkipFrame, Symbols

(* A frame of a symbol matches it, in both layouts.                        *)
LEMMA MatchesOwnSymbol ==
  ASSUME NEW symbol \in Symbols, NEW algorithm, NEW file, NEW hidden, joined \in BOOLEAN
  PROVE  Matches(symbol, Frame(symbol, algorithm, file, hidden))
<1>1. symbol.class \in Seq(Parts) /\ symbol.function \in Seq(Parts)
  BY DEF Symbols
<1>2. CASE ~joined
  BY <1>2 DEF Matches, Frame
<1>3. CASE joined /\ symbol.class = <<>>
  <2>1. <<>> \o symbol.function = symbol.function
    BY <1>1
  <2>2. QED
    BY <1>3, <2>1 DEF Matches, Frame
<1>4. CASE joined /\ symbol.class # <<>>
  BY <1>4 DEF Matches, Frame, JoinedFunctionMatches
<1>5. QED
  BY <1>2, <1>3, <1>4

(* A value receiver and its method match the joined name.                  *)
LEMMA MatchesJoinedSymbol ==
  ASSUME NEW symbol \in Symbols, NEW algorithm, NEW file, NEW hidden, joined \in BOOLEAN,
         symbol.class # <<>>
  PROVE  Matches(SkipFrame(symbol.namespace, <<>>, symbol.class \o symbol.function),
                 Frame(symbol, algorithm, file, hidden))
BY DEF Matches, Frame, JoinedFunctionMatches, SkipFrame

(* Only frames of the same package match.                                  *)
LEMMA MatchesNamespace ==
  ASSUME NEW candidate, NEW frame, Matches(candidate, frame)
  PROVE  candidate.namespace = frame.namespace
BY DEF Matches

(* The symbol of a function of a package.                                  *)
LEMMA PackageSymbol ==
  ASSUME NEW namespace \in Namespaces, NEW function \in Parts
  PROVE  LET symbol == SkipFrame(namespace, <<>>, <<function>>) IN
           /\ symbol \in Symbols /\ symbol.namespace = namespace
           /\ symbol.class = <<>> /\ symbol.function = <<function>>
<1> DEFINE c == <<>> f == <<function>>
<1>1. c \in Seq(Parts) /\ f \in Seq(Parts)
  BY EmptyTuple, SingleTuple
<1>2. LET symbol == SkipFrame(namespace, c, f) IN
        symbol \in Symbols /\ symbol.namespace = namespace /\ symbol.class = c /\ symbol.function = f
  <2> HIDE DEF c, f
  <2>1. QED
    BY <1>1, SkipFrameIsSymbol
<1>3. QED
  BY <1>2

(* The symbol of a method.                                                 *)
LEMMA MethodSymbol ==
  ASSUME NEW namespace \in Namespaces, NEW receiver \in Parts, NEW function \in Parts
  PROVE  LET symbol == SkipFrame(namespace, <<receiver>>, <<function>>) IN
           /\ symbol \in Symbols /\ symbol.namespace = namespace
           /\ symbol.class = <<receiver>> /\ symbol.function = <<function>>
<1> DEFINE c == <<receiver>> f == <<function>>
<1>1. c \in Seq(Parts) /\ f \in Seq(Parts)
  BY SingleTuple
<1>2. LET symbol == SkipFrame(namespace, c, f) IN
        symbol \in Symbols /\ symbol.namespace = namespace /\ symbol.class = c /\ symbol.function = f
  <2> HIDE DEF c, f
  <2>1. QED
    BY <1>1, SkipFrameIsSymbol
<1>3. QED
  BY <1>2

(***************************************************************************)
(* The frames a report skips                                               *)
(***************************************************************************)

(* The frames a report skips.                                              *)
Listed(report) == Range(SkipList(report))

(* The frames ReportWeakHash skips, whichever function called it.          *)
LEMMA HashListed ==
  ASSUME NEW hash \in DOMAIN HashPackage, NEW caller
  PROVE  Listed(ReportOf(hash, caller)) =
           {SkipFrame("crypto", <<>>, <<"Hash", "New">>), SinkFrame(hash, "New"), SinkFrame(hash, "Sum")}
<1>1. SkipList(ReportOf(hash, caller)) = WeakHashFrames(hash)
  BY DEF SkipList, ReportOf
<1> DEFINE a == SkipFrame("crypto", <<>>, <<"Hash", "New">>)
           b == SinkFrame(hash, "New")
           c == SinkFrame(hash, "Sum")
<1>2. WeakHashFrames(hash) = <<a, b, c>>
  BY DEF WeakHashFrames
<1>3. Range(<<a, b, c>>) = {a, b, c}
  <2> HIDE DEF a, b, c
  <2>1. QED
    BY ElementsOfTriple
<1>4. QED
  BY <1>1, <1>2, <1>3 DEF Listed

(* The frames ReportWeakCipher skips: the caller it is given, and those of *)
(* its table.                                                              *)
LEMMA CipherListed ==
  ASSUME NEW name, name \notin DOMAIN HashPackage, NEW caller \in Symbols, SinkFrames[name] \in Seq(Symbols)
  PROVE  Listed(ReportOf(name, caller)) = {caller} \union Range(SinkFrames[name])
<1> DEFINE frames == SinkFrames[name]
           list == <<caller>> \o frames
<1>1. SkipList(ReportOf(name, caller)) = list
  BY DEF SkipList, ReportOf
<1> HIDE DEF frames
<1>2. frames \in Seq(Symbols)
  BY DEF frames
<1>3. DOMAIN list = 1..(Len(frames) + 1) /\ list[1] = caller /\ \A i \in 1..Len(frames) : list[i + 1] = frames[i]
  BY <1>2
<1> HIDE DEF list
<1>4. ASSUME NEW i \in DOMAIN list PROVE list[i] = caller \/ \E k \in DOMAIN frames : list[i] = frames[k]
  <2>1. CASE i = 1
    BY <1>3, <2>1
  <2>2. CASE i # 1
    <3>1. i - 1 \in 1..Len(frames) /\ (i - 1) + 1 = i
      BY <1>2, <1>3, <2>2
    <3>2. QED
      BY <1>2, <1>3, <3>1
  <2>3. QED
    BY <2>1, <2>2
<1>5. 1 \in DOMAIN list /\ \A k \in DOMAIN frames : k + 1 \in DOMAIN list
  BY <1>2, <1>3
<1>6. QED
  BY <1>1, <1>2, <1>3, <1>4, <1>5 DEF Listed, Range, frames

(* A sink is injected with one report of its own algorithm.                *)
LEMMA SinkFields ==
  ASSUME NEW symbol, NEW name
  PROVE  LET sink == Sink(symbol, name) IN
           /\ sink.symbol = symbol /\ sink.algorithm = name
           /\ sink.injected # <<>> /\ sink.injected[1] = ReportOf(name, NoFrame)
BY DEF Sink, Function

(* The symbols in the tables of the ciphers.                               *)
LEMMA CipherSymbols ==
  /\ NoFrame \in Symbols /\ NoFrame.namespace = ""
  /\ \A function \in {"NewCipher", "NewTripleDESCipher"} : SkipFrame(DESPackage, <<>>, <<function>>) \in Symbols
  /\ SkipFrame(RC4Package, <<>>, <<"NewCipher">>) \in Symbols
  /\ SkipFrame(RC2Package, <<>>, <<"New">>) \in Symbols
  /\ \A function \in {"NewCipher", "NewSaltedCipher"} : SkipFrame(BlowfishPackage, <<>>, <<function>>) \in Symbols
  /\ \A class \in {"shaWithTripleDESCBC", "shaWith40BitRC2CBC"} :
       SkipFrame(PKCS12Package, <<class>>, <<"create">>) \in Symbols
<1>1. \A namespace \in Namespaces, function \in Parts : SkipFrame(namespace, <<>>, <<function>>) \in Symbols
  BY PackageSymbol
<1>2. \A namespace \in Namespaces, class \in Parts, function \in Parts :
        SkipFrame(namespace, <<class>>, <<function>>) \in Symbols
  BY MethodSymbol
<1>3. NoFrame.namespace = ""
  BY DEF NoFrame, SkipFrame
<1>4. "" \in Namespaces /\ {DESPackage, RC4Package, RC2Package, BlowfishPackage, PKCS12Package} \subseteq Namespaces
  BY DEF Namespaces
<1>5. {"", "New", "NewCipher", "NewTripleDESCipher", "NewSaltedCipher", "create",
       "shaWithTripleDESCBC", "shaWith40BitRC2CBC"} \subseteq Parts
  BY DEF Parts
<1>6. QED
  BY <1>1, <1>2, <1>3, <1>4, <1>5 DEF NoFrame

(* What the cipher sinks skip, besides the frame their caller names.       *)
LEMMA CipherFrames ==
  ASSUME NEW caller \in Symbols
  PROVE  /\ Listed(ReportOf("DES", caller)) = {caller, SkipFrame(DESPackage, <<>>, <<"NewCipher">>)}
         /\ Listed(ReportOf("TripleDES", caller)) = {caller, SkipFrame(DESPackage, <<>>, <<"NewTripleDESCipher">>)}
         /\ Listed(ReportOf("RC4", caller)) = {caller, SkipFrame(RC4Package, <<>>, <<"NewCipher">>)}
         /\ Listed(ReportOf("RC2", caller)) = {caller, SkipFrame(RC2Package, <<>>, <<"New">>)}
         /\ Listed(ReportOf("Blowfish", caller)) =
              {caller, SkipFrame(BlowfishPackage, <<>>, <<"NewCipher">>),
               SkipFrame(BlowfishPackage, <<>>, <<"NewSaltedCipher">>)}
         /\ Listed(ReportOf("PBEWithSHAAnd3KeyTripleDESCBC", caller)) =
              {caller, SkipFrame(PKCS12Package, <<"shaWithTripleDESCBC">>, <<"create">>)}
         /\ Listed(ReportOf("PBEWithSHAAnd40BitRC2CBC", caller)) =
              {caller, SkipFrame(PKCS12Package, <<"shaWith40BitRC2CBC">>, <<"create">>)}
<1>1. /\ SinkFrames["DES"] = <<SkipFrame(DESPackage, <<>>, <<"NewCipher">>)>>
      /\ SinkFrames["TripleDES"] = <<SkipFrame(DESPackage, <<>>, <<"NewTripleDESCipher">>)>>
      /\ SinkFrames["RC4"] = <<SkipFrame(RC4Package, <<>>, <<"NewCipher">>)>>
      /\ SinkFrames["RC2"] = <<SkipFrame(RC2Package, <<>>, <<"New">>)>>
      /\ SinkFrames["Blowfish"] = <<SkipFrame(BlowfishPackage, <<>>, <<"NewCipher">>),
                                    SkipFrame(BlowfishPackage, <<>>, <<"NewSaltedCipher">>)>>
      /\ SinkFrames["PBEWithSHAAnd3KeyTripleDESCBC"] =
           <<SkipFrame(PKCS12Package, <<"shaWithTripleDESCBC">>, <<"create">>)>>
      /\ SinkFrames["PBEWithSHAAnd40BitRC2CBC"] =
           <<SkipFrame(PKCS12Package, <<"shaWith40BitRC2CBC">>, <<"create">>)>>
  BY DEF SinkFrames
<1>2. ASSUME NEW name, name \notin DOMAIN HashPackage, NEW x \in Symbols, SinkFrames[name] = <<x>>
      PROVE  Listed(ReportOf(name, caller)) = {caller, x}
  <2>1. SinkFrames[name] \in Seq(Symbols)
    BY <1>2, SingleTuple
  <2>2. Range(SinkFrames[name]) = {x}
    BY <1>2, ElementsOfSingle
  <2>3. Listed(ReportOf(name, caller)) = {caller} \union {x}
    BY <1>2, <2>1, <2>2, CipherListed
  <2>4. QED
    BY <2>3
<1>3. ASSUME NEW name, name \notin DOMAIN HashPackage, NEW x \in Symbols, NEW y \in Symbols,
             SinkFrames[name] = <<x, y>>
      PROVE  Listed(ReportOf(name, caller)) = {caller, x, y}
  <2>1. SinkFrames[name] \in Seq(Symbols)
    BY <1>3, PairTuple
  <2>2. Range(SinkFrames[name]) = {x, y}
    BY <1>3, ElementsOfPair
  <2>3. Listed(ReportOf(name, caller)) = {caller} \union {x, y}
    BY <1>3, <2>1, <2>2, CipherListed
  <2>4. QED
    BY <2>3
<1>4. \A name \in {"DES", "TripleDES", "RC4", "RC2", "Blowfish",
                   "PBEWithSHAAnd3KeyTripleDESCBC", "PBEWithSHAAnd40BitRC2CBC"} :
        name \notin DOMAIN HashPackage
  BY DEF HashPackage
<1>5. /\ SkipFrame(DESPackage, <<>>, <<"NewCipher">>) \in Symbols
      /\ SkipFrame(DESPackage, <<>>, <<"NewTripleDESCipher">>) \in Symbols
      /\ SkipFrame(BlowfishPackage, <<>>, <<"NewCipher">>) \in Symbols
      /\ SkipFrame(BlowfishPackage, <<>>, <<"NewSaltedCipher">>) \in Symbols
      /\ SkipFrame(PKCS12Package, <<"shaWithTripleDESCBC">>, <<"create">>) \in Symbols
      /\ SkipFrame(PKCS12Package, <<"shaWith40BitRC2CBC">>, <<"create">>) \in Symbols
  BY CipherSymbols
<1>6. /\ Listed(ReportOf("DES", caller)) = {caller, SkipFrame(DESPackage, <<>>, <<"NewCipher">>)}
      /\ Listed(ReportOf("TripleDES", caller)) = {caller, SkipFrame(DESPackage, <<>>, <<"NewTripleDESCipher">>)}
      /\ Listed(ReportOf("RC4", caller)) = {caller, SkipFrame(RC4Package, <<>>, <<"NewCipher">>)}
  BY <1>1, <1>2, <1>4, <1>5, CipherSymbols
<1>7. /\ Listed(ReportOf("RC2", caller)) = {caller, SkipFrame(RC2Package, <<>>, <<"New">>)}
      /\ Listed(ReportOf("PBEWithSHAAnd3KeyTripleDESCBC", caller)) =
           {caller, SkipFrame(PKCS12Package, <<"shaWithTripleDESCBC">>, <<"create">>)}
      /\ Listed(ReportOf("PBEWithSHAAnd40BitRC2CBC", caller)) =
           {caller, SkipFrame(PKCS12Package, <<"shaWith40BitRC2CBC">>, <<"create">>)}
  BY <1>1, <1>2, <1>4, <1>5, CipherSymbols
<1>8. Listed(ReportOf("Blowfish", caller)) =
        {caller, SkipFrame(BlowfishPackage, <<>>, <<"NewCipher">>),
         SkipFrame(BlowfishPackage, <<>>, <<"NewSaltedCipher">>)}
  BY <1>1, <1>3, <1>4, <1>5
<1>9. QED
  BY <1>6, <1>7, <1>8

(* Whether a report skips the frames of a library's function.              *)
Covers(report, function) ==
  \E x \in Listed(report) : Matches(x, Frame(function.symbol, function.algorithm, "source", FALSE))

(* Whether a report skips a frame depends neither on its file nor on the   *)
(* layout of value receivers beyond what the tracer joined.                *)
LEMMA CoversAnyFrame ==
  ASSUME NEW report, NEW function, NEW file, NEW hidden
  PROVE  (\E x \in Listed(report) : Matches(x, Frame(function.symbol, function.algorithm, file, hidden)))
           <=> Covers(report, function)
BY DEF Covers, Matches, Frame, JoinedFunctionMatches

(* A report skips the functions it lists.                                  *)
LEMMA CoversListed ==
  ASSUME joined \in BOOLEAN, NEW report, NEW function, function.symbol \in Symbols, function.symbol \in Listed(report)
  PROVE  Covers(report, function)
BY MatchesOwnSymbol DEF Covers

(* A report skips nothing of a package it does not list.                   *)
LEMMA CoversNothingElsewhere ==
  ASSUME NEW report, NEW function, \A x \in Listed(report) : x.namespace # function.symbol.namespace
  PROVE  ~Covers(report, function)
BY DEF Covers, Matches, Frame

(* The fields of a sink of a hash.                                         *)
LEMMA HashSinkFields ==
  ASSUME NEW hash \in DOMAIN HashPackage, NEW function
  PROVE  LET sink == HashSink(hash, function) IN
           /\ sink.symbol = SinkFrame(hash, function) /\ sink.algorithm = hash
           /\ sink.injected # <<>> /\ sink.injected[1] = ReportOf(hash, NoFrame)
BY SinkFields DEF HashSink

(* The packages of the hashes are namespaces of their own.                 *)
LEMMA SinkFrameIsSymbol ==
  ASSUME NEW hash \in DOMAIN HashPackage, NEW function \in Parts
  PROVE  /\ SinkFrame(hash, function) \in Symbols
         /\ SinkFrame(hash, function).namespace \notin {"", PKCS12Package}
<1>1. HashPackage[hash] \in {"golang.org/x/crypto/md4", "crypto/md5", "crypto/sha1"}
  <2>1. DOMAIN HashPackage = {"MD4", "MD5", "SHA1"}
    BY DEF HashPackage
  <2>2. /\ HashPackage["MD4"] = "golang.org/x/crypto/md4"
        /\ HashPackage["MD5"] = "crypto/md5" /\ HashPackage["SHA1"] = "crypto/sha1"
    BY DEF HashPackage
  <2>3. QED
    BY <2>1, <2>2
<1>2. SkipFrame(HashPackage[hash], <<>>, <<function>>) \in Symbols
      /\ SkipFrame(HashPackage[hash], <<>>, <<function>>).namespace = HashPackage[hash]
  <2> DEFINE namespace == HashPackage[hash]
  <2>1. namespace \in Namespaces
    BY <1>1 DEF Namespaces
  <2> HIDE DEF namespace
  <2>2. SkipFrame(namespace, <<>>, <<function>>) \in Symbols
        /\ SkipFrame(namespace, <<>>, <<function>>).namespace = namespace
    BY <2>1, PackageSymbol
  <2>3. QED
    BY <2>2 DEF namespace
<1>3. HashPackage[hash] \notin {"", PKCS12Package}
  BY <1>1 DEF PKCS12Package
<1>4. QED
  BY <1>2, <1>3 DEF SinkFrame

(* The list of the hash sinks has them, and the function that calls them.  *)
LEMMA HashCovers ==
  ASSUME joined \in BOOLEAN, NEW hash \in DOMAIN HashPackage, NEW caller
  PROVE  /\ \A function \in {"New", "Sum"} : Covers(ReportOf(hash, caller), HashSink(hash, function))
         /\ Covers(ReportOf(hash, caller), HashNew(hash))
         /\ \A function : function.symbol.namespace = PKCS12Package => ~Covers(ReportOf(hash, caller), function)
<1> DEFINE report == ReportOf(hash, caller)
           joint == SkipFrame("crypto", <<>>, <<"Hash", "New">>)
<1>1. Listed(report) = {joint, SinkFrame(hash, "New"), SinkFrame(hash, "Sum")}
  BY HashListed
<1>2. "New" \in Parts /\ "Sum" \in Parts /\ "Hash" \in Parts /\ "crypto" \in Namespaces
  BY DEF Parts, Namespaces
<1> HIDE DEF report
<1>3. ASSUME NEW function \in {"New", "Sum"} PROVE Covers(report, HashSink(hash, function))
  <2>1. HashSink(hash, function).symbol = SinkFrame(hash, function)
    BY HashSinkFields
  <2>2. SinkFrame(hash, function) \in Symbols /\ SinkFrame(hash, function) \in Listed(report)
    BY <1>1, <1>2, SinkFrameIsSymbol
  <2>3. QED
    BY <2>1, <2>2, CoversListed
<1>4. Covers(report, HashNew(hash))
  <2> DEFINE symbol == SkipFrame("crypto", <<"Hash">>, <<"New">>)
  <2>1. symbol \in Symbols /\ symbol.namespace = "crypto" /\ symbol.class = <<"Hash">> /\ symbol.function = <<"New">>
    <3>1. \A class \in Parts, function \in Parts :
            LET method == SkipFrame("crypto", <<class>>, <<function>>) IN
              /\ method \in Symbols /\ method.namespace = "crypto"
              /\ method.class = <<class>> /\ method.function = <<function>>
      BY <1>2, MethodSymbol
    <3>2. QED
      BY <1>2, <3>1
  <2>2. symbol.class # <<>>
    BY <2>1
  <2>3. symbol.class \o symbol.function = <<"Hash", "New">>
    <3>1. <<"Hash">> \o <<"New">> = <<"Hash", "New">>
      BY <1>2, PairConcat
    <3>2. QED
      BY <2>1, <3>1, Zenon
  <2>4. HashNew(hash).symbol = symbol
    BY DEF HashNew, Function
  <2> HIDE DEF symbol
  <2>5. Matches(joint, Frame(symbol, HashNew(hash).algorithm, "source", FALSE))
    BY <2>1, <2>2, <2>3, MatchesJoinedSymbol
  <2>6. QED
    BY <1>1, <2>4, <2>5 DEF Covers
<1>5. ASSUME NEW function, function.symbol.namespace = PKCS12Package PROVE ~Covers(report, function)
  <2>1. joint.namespace = "crypto"
    BY DEF SkipFrame
  <2>2. \A x \in Listed(report) : x.namespace # PKCS12Package
    BY <1>1, <1>2, <2>1, SinkFrameIsSymbol DEF PKCS12Package
  <2>3. QED
    BY <1>5, <2>2, CoversNothingElsewhere
<1>6. QED
  BY <1>3, <1>4, <1>5 DEF report

(* A sink that lists the functions of one package covers these, and        *)
(* nothing of another package.                                             *)
LEMMA PackageSinkCovers ==
  ASSUME joined \in BOOLEAN, NEW name, NEW symbol \in Symbols, symbol.namespace # PKCS12Package,
         Listed(ReportOf(name, NoFrame)) = {NoFrame, symbol}
  PROVE  LET sink == Sink(symbol, name) IN
           /\ Covers(sink.injected[1], sink)
           /\ \A function : function.symbol.namespace = PKCS12Package => ~Covers(sink.injected[1], function)
<1> DEFINE sink == Sink(symbol, name)
<1>1. sink.symbol = symbol /\ sink.injected[1] = ReportOf(name, NoFrame)
  BY SinkFields
<1>2. NoFrame.namespace # PKCS12Package
  BY CipherSymbols DEF PKCS12Package
<1> HIDE DEF sink
<1>3. Covers(ReportOf(name, NoFrame), sink)
  BY <1>1, CoversListed
<1>4. ASSUME NEW function, function.symbol.namespace = PKCS12Package
      PROVE  ~Covers(ReportOf(name, NoFrame), function)
  BY <1>2, <1>4, CoversNothingElsewhere
<1>5. QED
  BY <1>1, <1>3, <1>4 DEF sink

(* What the reports of DES, Triple DES, RC4 and RC2 cover.                 *)
LEMMA PackageCipherCovers ==
  ASSUME joined \in BOOLEAN, NEW sink \in {DESNewCipher, DESNewTripleDESCipher, RC4NewCipher, RC2New}
  PROVE  /\ Covers(sink.injected[1], sink)
         /\ \A function : function.symbol.namespace = PKCS12Package => ~Covers(sink.injected[1], function)
<1>1. NoFrame \in Symbols
  BY CipherSymbols
<1>2. CASE sink = DESNewCipher
  <2> DEFINE symbol == SkipFrame(DESPackage, <<>>, <<"NewCipher">>)
  <2>1. Listed(ReportOf("DES", NoFrame)) = {NoFrame, symbol} /\ symbol \in Symbols
    BY <1>1, CipherFrames, CipherSymbols
  <2>2. symbol.namespace # PKCS12Package
    BY DEF SkipFrame, DESPackage, PKCS12Package
  <2>3. sink = Sink(symbol, "DES")
    BY <1>2 DEF DESNewCipher
  <2> HIDE DEF symbol
  <2>4. QED
    BY <2>1, <2>2, <2>3, PackageSinkCovers
<1>3. CASE sink = DESNewTripleDESCipher
  <2> DEFINE symbol == SkipFrame(DESPackage, <<>>, <<"NewTripleDESCipher">>)
  <2>1. Listed(ReportOf("TripleDES", NoFrame)) = {NoFrame, symbol} /\ symbol \in Symbols
    BY <1>1, CipherFrames, CipherSymbols
  <2>2. symbol.namespace # PKCS12Package
    BY DEF SkipFrame, DESPackage, PKCS12Package
  <2>3. sink = Sink(symbol, "TripleDES")
    BY <1>3 DEF DESNewTripleDESCipher
  <2> HIDE DEF symbol
  <2>4. QED
    BY <2>1, <2>2, <2>3, PackageSinkCovers
<1>4. CASE sink = RC4NewCipher
  <2> DEFINE symbol == SkipFrame(RC4Package, <<>>, <<"NewCipher">>)
  <2>1. Listed(ReportOf("RC4", NoFrame)) = {NoFrame, symbol} /\ symbol \in Symbols
    BY <1>1, CipherFrames, CipherSymbols
  <2>2. symbol.namespace # PKCS12Package
    BY DEF SkipFrame, RC4Package, PKCS12Package
  <2>3. sink = Sink(symbol, "RC4")
    BY <1>4 DEF RC4NewCipher
  <2> HIDE DEF symbol
  <2>4. QED
    BY <2>1, <2>2, <2>3, PackageSinkCovers
<1>5. CASE sink = RC2New
  <2> DEFINE symbol == SkipFrame(RC2Package, <<>>, <<"New">>)
  <2>1. Listed(ReportOf("RC2", NoFrame)) = {NoFrame, symbol} /\ symbol \in Symbols
    BY <1>1, CipherFrames, CipherSymbols
  <2>2. symbol.namespace # PKCS12Package
    BY DEF SkipFrame, RC2Package, PKCS12Package
  <2>3. sink = Sink(symbol, "RC2")
    BY <1>5 DEF RC2New
  <2> HIDE DEF symbol
  <2>4. QED
    BY <2>1, <2>2, <2>3, PackageSinkCovers
<1>6. QED
  BY <1>2, <1>3, <1>4, <1>5

(* The list of Blowfish has NewCipher and the function that calls it.      *)
LEMMA BlowfishCovers ==
  ASSUME joined \in BOOLEAN
  PROVE  /\ Covers(BlowfishNewCipher.injected[1], BlowfishNewCipher)
         /\ Covers(BlowfishNewCipher.injected[1], BlowfishNewSaltedCipher(0))
         /\ Covers(BlowfishNewSaltedCipher(1).injected[1], BlowfishNewSaltedCipher(1))
<1> DEFINE new == SkipFrame(BlowfishPackage, <<>>, <<"NewCipher">>)
           salted == SkipFrame(BlowfishPackage, <<>>, <<"NewSaltedCipher">>)
<1>1. NoFrame \in Symbols /\ new \in Symbols /\ salted \in Symbols
  BY CipherSymbols
<1>2. /\ BlowfishNewCipher.symbol = new /\ BlowfishNewCipher.injected[1] = ReportOf("Blowfish", salted)
      /\ BlowfishNewSaltedCipher(0).symbol = salted /\ BlowfishNewSaltedCipher(1).symbol = salted
      /\ BlowfishNewSaltedCipher(1).injected[1] = ReportOf("Blowfish", NoFrame)
  BY DEF BlowfishNewCipher, BlowfishNewSaltedCipher, Function
<1>3. \A caller \in Symbols : Listed(ReportOf("Blowfish", caller)) = {caller, new, salted}
  BY CipherFrames
<1> HIDE DEF new, salted
<1>4. QED
  BY <1>1, <1>2, <1>3, CoversListed

(* The algorithms of PKCS#12 and their classes.                            *)
PBEs == {<<"PBEWithSHAAnd3KeyTripleDESCBC", "shaWithTripleDESCBC">>,
         <<"PBEWithSHAAnd40BitRC2CBC", "shaWith40BitRC2CBC">>}

(* The list of a PBE has its method create and nothing else of the package.*)
LEMMA PBECovers ==
  ASSUME joined \in BOOLEAN, NEW pbe \in PBEs
  PROVE  LET sink == PBECreate(pbe[1], pbe[2]) IN
           /\ sink.symbol.namespace = PKCS12Package
           /\ Covers(sink.injected[1], sink)
           /\ \A function \in {"Decode", "pbDecrypterFor"} : ~Covers(sink.injected[1], Helper(<<>>, function))
<1> DEFINE sink == PBECreate(pbe[1], pbe[2])
           symbol == SkipFrame(PKCS12Package, <<pbe[2]>>, <<"create">>)
<1>1. symbol \in Symbols /\ Listed(ReportOf(pbe[1], NoFrame)) = {NoFrame, symbol}
  <2>1. \/ pbe[1] = "PBEWithSHAAnd3KeyTripleDESCBC" /\ pbe[2] = "shaWithTripleDESCBC"
        \/ pbe[1] = "PBEWithSHAAnd40BitRC2CBC" /\ pbe[2] = "shaWith40BitRC2CBC"
    BY DEF PBEs
  <2>2. symbol \in Symbols
    BY <2>1, CipherSymbols
  <2>3. NoFrame \in Symbols
    BY CipherSymbols
  <2>4. Listed(ReportOf(pbe[1], NoFrame)) = {NoFrame, symbol}
    BY <2>1, <2>3, CipherFrames
  <2>5. QED
    BY <2>2, <2>4
<1>2. sink.symbol = symbol /\ sink.injected[1] = ReportOf(pbe[1], NoFrame)
  BY SinkFields DEF PBECreate
<1>3. symbol.namespace = PKCS12Package /\ symbol.class = <<pbe[2]>> /\ symbol.function = <<"create">>
  BY DEF SkipFrame
<1>4. ASSUME NEW function \in {"Decode", "pbDecrypterFor"}
      PROVE  ~Covers(ReportOf(pbe[1], NoFrame), Helper(<<>>, function))
  <2> DEFINE helper == Helper(<<>>, function)
             frame == Frame(helper.symbol, helper.algorithm, "source", FALSE)
  <2>1. frame.namespace = PKCS12Package /\ frame.class = <<>> /\ frame.function = <<function>>
    <3>1. helper.symbol = SkipFrame(PKCS12Package, <<>>, <<function>>)
      BY DEF Helper, Function
    <3>2. /\ helper.symbol.namespace = PKCS12Package /\ helper.symbol.class = <<>>
          /\ helper.symbol.function = <<function>>
      BY <3>1 DEF SkipFrame
    <3>3. function \in Parts
      BY DEF Parts
    <3>4. <<>> \o <<function>> = <<function>>
      BY <3>3, EmptyConcat
    <3> HIDE DEF helper
    <3>5. QED
      BY <3>2, <3>4 DEF Frame
  <2>2. NoFrame.namespace # PKCS12Package
    BY CipherSymbols DEF PKCS12Package
  <2>3. <<pbe[2]>> # <<>>
    OBVIOUS
  <2>4. <<pbe[2], "create">> # <<function>>
    OBVIOUS
  <2>5. <<pbe[2]>> \o <<"create">> = <<pbe[2], "create">>
    <3>1. pbe[2] = "shaWithTripleDESCBC" \/ pbe[2] = "shaWith40BitRC2CBC"
      BY DEF PBEs
    <3>2. pbe[2] \in Parts /\ "create" \in Parts
      BY <3>1 DEF Parts
    <3>3. QED
      BY <3>2, PairConcat
  <2> HIDE DEF symbol, frame
  <2>6. ~Matches(NoFrame, frame)
    BY <2>1, <2>2 DEF Matches
  <2>7. ~Matches(symbol, frame)
    BY <1>3, <2>1, <2>3, <2>4, <2>5 DEF Matches, JoinedFunctionMatches
  <2>8. QED
    BY <1>1, <2>6, <2>7 DEF Covers, frame, symbol
<1>5. QED
  BY <1>1, <1>2, <1>3, <1>4, CoversListed

(* The n-th call stack of functions that call each other has the first n   *)
(* of them, the last one at the leaf.                                      *)
LEMMA NestedElements ==
  ASSUME NEW T, NEW s \in Seq(T)
  PROVE  /\ Nested(s) \in Seq(Seq(T)) /\ Len(Nested(s)) = Len(s)
         /\ \A n \in 1..Len(s) : Len(Nested(s)[n]) = n /\ \A i \in 1..n : Nested(s)[n][i] = s[n - i + 1]
<1>1. ASSUME NEW n \in 1..Len(s)
      PROVE  /\ Reverse(SubSeq(s, 1, n)) \in Seq(T) /\ Len(Reverse(SubSeq(s, 1, n))) = n
             /\ \A i \in 1..n : Reverse(SubSeq(s, 1, n))[i] = s[n - i + 1]
  <2> DEFINE part == SubSeq(s, 1, n)
  <2>1. part \in Seq(T) /\ Len(part) = n /\ \A i \in 1..n : part[i] = s[i]
    OBVIOUS
  <2> HIDE DEF part
  <2>2. \A i \in 1..n : n - i + 1 \in 1..n
    OBVIOUS
  <2>3. Reverse(part) \in Seq(T) /\ Len(Reverse(part)) = n /\ \A i \in 1..n : Reverse(part)[i] = part[n - i + 1]
    BY <2>1, ReverseElements
  <2>4. \A i \in 1..n : Reverse(part)[i] = s[n - i + 1]
    BY <2>1, <2>2, <2>3
  <2>5. QED
    BY <2>3, <2>4 DEF part
<1>2. Nested(s) = [n \in 1..Len(s) |-> Reverse(SubSeq(s, 1, n))]
  BY DEF Nested
<1>3. Nested(s) \in [1..Len(s) -> Seq(T)]
  BY <1>1, <1>2
<1>4. QED
  BY <1>1, <1>2, <1>3

(***************************************************************************)
(* The calls of the libraries                                              *)
(***************************************************************************)

(* The functions of the libraries.                                         *)
LibraryFunctions ==
  {HashSink(hash, function) : hash \in DOMAIN HashPackage, function \in {"New", "Sum"}}
    \union {HashNew(hash) : hash \in DOMAIN HashPackage}
    \union {DESNewCipher, DESNewTripleDESCipher, RC4NewCipher, RC2New, BlowfishNewCipher}
    \union {BlowfishNewSaltedCipher(salt) : salt \in {0, 1}}
    \union {PBECreate(pbe[1], pbe[2]) : pbe \in PBEs}
    \union {Helper(<<>>, function) : function \in {"Decode", "pbDecrypterFor"}}
    \union {Helper(<<pbe[2]>>, function) : pbe \in PBEs, function \in {"deriveKey", "deriveIV"}}

(* The weak algorithms.                                                    *)
Algorithms == DOMAIN HashPackage \union DOMAIN SinkFrames

(* The leaf of a stack reports an algorithm, and its list has the frames   *)
(* of the stack that construct the algorithm.                              *)
SinkStack(s, algorithm) ==
  /\ s[1].injected # <<>>
  /\ s[1].injected[1].name = algorithm
  /\ s[1].algorithm = algorithm
  /\ \A j \in 1..Len(s) : Covers(s[1].injected[1], s[j]) <=> s[j].algorithm = algorithm

(* The sinks of a call are the last functions it enters, one for each use. *)
FirstSink(c) == Len(c.stacks) - Len(c.uses)

(* Each sink of a call reports one of the algorithms the call uses, in     *)
(* order.                                                                  *)
WellFormedCall(c) ==
  /\ c.stacks \in Seq(Seq(LibraryFunctions)) /\ c.uses \in Seq(Algorithms)
  /\ FirstSink(c) \in Nat
  /\ \A i \in 1..Len(c.stacks) :
       /\ Len(c.stacks[i]) \in 1..4
       /\ i <= FirstSink(c) => c.stacks[i][1].injected = <<>>
       /\ i > FirstSink(c) => SinkStack(c.stacks[i], c.uses[i - FirstSink(c)])

(* A call of a sink.                                                       *)
LEMMA SinkCall ==
  ASSUME NEW sink \in LibraryFunctions, NEW algorithm \in Algorithms,
         sink.injected # <<>>, sink.injected[1].name = algorithm, sink.algorithm = algorithm,
         Covers(sink.injected[1], sink)
  PROVE  WellFormedCall(Call(Nested(<<sink>>), <<algorithm>>))
<1> DEFINE s == <<sink>> u == <<algorithm>>
           c == Call(Nested(s), u)
<1>1. s \in Seq(LibraryFunctions) /\ Len(s) = 1 /\ s[1] = sink /\ u \in Seq(Algorithms) /\ Len(u) = 1 /\ u[1] = algorithm
  OBVIOUS
<1> HIDE DEF s, u
<1>2. c.stacks = Nested(s) /\ c.uses = u
  BY DEF Call
<1> HIDE DEF c
<1>3. c.stacks \in Seq(Seq(LibraryFunctions)) /\ Len(c.stacks) = 1 /\ Len(c.stacks[1]) = 1 /\ c.stacks[1][1] = sink
  BY <1>1, <1>2, NestedElements
<1>4. FirstSink(c) = 0
  BY <1>1, <1>2, <1>3 DEF FirstSink
<1>5. SinkStack(c.stacks[1], algorithm)
  BY <1>3 DEF SinkStack
<1>6. ASSUME NEW i \in 1..Len(c.stacks)
      PROVE  /\ Len(c.stacks[i]) \in 1..4 /\ ~(i <= FirstSink(c))
             /\ SinkStack(c.stacks[i], c.uses[i - FirstSink(c)])
  <2>1. i = 1
    BY <1>3
  <2>2. QED
    BY <2>1, <1>1, <1>2, <1>3, <1>4, <1>5
<1>7. WellFormedCall(c)
  BY <1>1, <1>2, <1>3, <1>4, <1>6 DEF WellFormedCall
<1>8. QED
  BY <1>7 DEF c, s, u

(* A call of a function that calls a sink.                                 *)
LEMMA DelegatedCall ==
  ASSUME NEW outer \in LibraryFunctions, NEW sink \in LibraryFunctions, NEW algorithm \in Algorithms,
         outer.injected = <<>>, outer.algorithm = algorithm,
         sink.injected # <<>>, sink.injected[1].name = algorithm, sink.algorithm = algorithm,
         Covers(sink.injected[1], sink), Covers(sink.injected[1], outer)
  PROVE  WellFormedCall(Call(Nested(<<outer, sink>>), <<algorithm>>))
<1> DEFINE s == <<outer, sink>> u == <<algorithm>>
           c == Call(Nested(s), u)
<1>1. /\ s \in Seq(LibraryFunctions) /\ Len(s) = 2 /\ s[1] = outer /\ s[2] = sink
      /\ u \in Seq(Algorithms) /\ Len(u) = 1 /\ u[1] = algorithm
  OBVIOUS
<1> HIDE DEF s, u
<1>2. c.stacks = Nested(s) /\ c.uses = u
  BY DEF Call
<1> HIDE DEF c
<1>3. c.stacks \in Seq(Seq(LibraryFunctions)) /\ Len(c.stacks) = 2
  BY <1>1, <1>2, NestedElements
<1>4. \A n \in 1..2 : Len(c.stacks[n]) = n /\ \A i \in 1..n : c.stacks[n][i] = s[n - i + 1]
  <2>1. \A n \in 1..Len(s) : Len(Nested(s)[n]) = n /\ \A i \in 1..n : Nested(s)[n][i] = s[n - i + 1]
    BY <1>1, NestedElements
  <2>2. QED
    BY <1>1, <1>2, <2>1
<1>5. Len(c.stacks[1]) = 1 /\ c.stacks[1][1] = outer
  <2>1. Len(c.stacks[1]) = 1 /\ \A i \in 1..1 : c.stacks[1][i] = s[1 - i + 1]
    BY <1>4
  <2>2. QED
    BY <1>1, <2>1
<1>6. Len(c.stacks[2]) = 2 /\ c.stacks[2][1] = sink /\ c.stacks[2][2] = outer
  <2>1. Len(c.stacks[2]) = 2 /\ \A i \in 1..2 : c.stacks[2][i] = s[2 - i + 1]
    BY <1>4
  <2>2. 2 - 1 + 1 = 2 /\ 2 - 2 + 1 = 1 /\ 1 \in 1..2 /\ 2 \in 1..2
    OBVIOUS
  <2>3. QED
    BY <1>1, <2>1, <2>2
<1>7. FirstSink(c) = 1
  <2>1. Len(c.stacks) = 2 /\ Len(c.uses) = 1
    BY <1>1, <1>2, <1>3
  <2>2. QED
    BY <2>1 DEF FirstSink
<1>8. SinkStack(c.stacks[2], algorithm)
  <2>1. \A j \in 1..2 : j = 1 \/ j = 2
    OBVIOUS
  <2>2. \A j \in 1..2 : c.stacks[2][j].algorithm = algorithm /\ Covers(sink.injected[1], c.stacks[2][j])
    BY <1>6, <2>1
  <2>3. QED
    BY <1>6, <2>2 DEF SinkStack
<1>9. ASSUME NEW i \in 1..Len(c.stacks)
      PROVE  /\ Len(c.stacks[i]) \in 1..4
             /\ i <= FirstSink(c) => c.stacks[i][1].injected = <<>>
             /\ i > FirstSink(c) => SinkStack(c.stacks[i], c.uses[i - FirstSink(c)])
  <2>1. i = 1 \/ i = 2
    BY <1>3
  <2>2. QED
    BY <2>1, <1>1, <1>2, <1>5, <1>6, <1>7, <1>8
<1>10. WellFormedCall(c)
  BY <1>1, <1>2, <1>3, <1>7, <1>9 DEF WellFormedCall
<1>11. QED
  BY <1>10 DEF c, s, u

(* The stacks of PKCS12Decode.                                             *)
DecodeStacks(d, p, k, v, h, b, x, keys, vectors) ==
  LET outer == <<d, p>>
      Stack(functions) == Reverse(outer \o functions)
  IN  [n \in 1..(keys + vectors) |-> IF n <= keys THEN Stack(<<k, h>>) ELSE Stack(<<v, h>>)]
        \o <<Stack(<<b>>), Stack(<<b, x>>)>>

(* A stack of three functions, and one of four, leaf first.                *)
LEMMA ThreeOnStack ==
  ASSUME NEW T, NEW d \in T, NEW p \in T, NEW b \in T
  PROVE  LET s == Reverse(<<d, p>> \o <<b>>)
         IN  s \in Seq(T) /\ Len(s) = 3 /\ s[1] = b /\ s[2] = p /\ s[3] = d
<1> DEFINE t == <<d, p>> \o <<b>>
<1>1. t \in Seq(T) /\ Len(t) = 3 /\ t[1] = d /\ t[2] = p /\ t[3] = b
  OBVIOUS
<1> HIDE DEF t
<1>2. Reverse(t) \in Seq(T) /\ Len(Reverse(t)) = Len(t) /\ \A i \in 1..Len(t) : Reverse(t)[i] = t[Len(t) - i + 1]
  BY <1>1, ReverseElements
<1>3. Reverse(t) \in Seq(T) /\ Len(Reverse(t)) = 3 /\ \A i \in 1..3 : Reverse(t)[i] = t[3 - i + 1]
  BY <1>1, <1>2
<1>4. QED
  BY <1>1, <1>3 DEF t

LEMMA FourOnStack ==
  ASSUME NEW T, NEW d \in T, NEW p \in T, NEW b \in T, NEW x \in T
  PROVE  LET s == Reverse(<<d, p>> \o <<b, x>>)
         IN  s \in Seq(T) /\ Len(s) = 4 /\ s[1] = x /\ s[2] = b /\ s[3] = p /\ s[4] = d
<1> DEFINE t == <<d, p>> \o <<b, x>>
<1>1. t \in Seq(T) /\ Len(t) = 4 /\ t[1] = d /\ t[2] = p /\ t[3] = b /\ t[4] = x
  OBVIOUS
<1> HIDE DEF t
<1>2. Reverse(t) \in Seq(T) /\ Len(Reverse(t)) = Len(t) /\ \A i \in 1..Len(t) : Reverse(t)[i] = t[Len(t) - i + 1]
  BY <1>1, ReverseElements
<1>3. Reverse(t) \in Seq(T) /\ Len(Reverse(t)) = 4 /\ \A i \in 1..4 : Reverse(t)[i] = t[4 - i + 1]
  BY <1>1, <1>2
<1>4. QED
  BY <1>1, <1>3 DEF t

(* The stacks of the hashes, however many they are, then the two of the    *)
(* ciphers.                                                                *)
AreDecodeStacks(all, T, d, p, k, v, h, b, x, hashes) ==
  /\ all \in Seq(Seq(T)) /\ Len(all) = hashes + 2
  /\ \A n \in 1..hashes :
       Len(all[n]) = 4 /\ all[n][1] = h /\ all[n][2] \in {k, v} /\ all[n][3] = p /\ all[n][4] = d
  /\ Len(all[hashes + 1]) = 3 /\ all[hashes + 1][1] = b /\ all[hashes + 1][2] = p /\ all[hashes + 1][3] = d
  /\ Len(all[hashes + 2]) = 4 /\ all[hashes + 2][1] = x /\ all[hashes + 2][2] = b
  /\ all[hashes + 2][3] = p /\ all[hashes + 2][4] = d

LEMMA PBEStacks ==
  ASSUME NEW T, NEW d \in T, NEW p \in T, NEW k \in T, NEW v \in T, NEW h \in T, NEW b \in T, NEW x \in T,
         NEW keys \in Nat, NEW vectors \in Nat
  PROVE  AreDecodeStacks(DecodeStacks(d, p, k, v, h, b, x, keys, vectors), T, d, p, k, v, h, b, x, keys + vectors)
<1> DEFINE key == Reverse(<<d, p>> \o <<k, h>>)
           vector == Reverse(<<d, p>> \o <<v, h>>)
           create == Reverse(<<d, p>> \o <<b>>)
           cipher == Reverse(<<d, p>> \o <<b, x>>)
           m == keys + vectors
           first == [n \in 1..m |-> IF n <= keys THEN key ELSE vector]
           all == first \o <<create, cipher>>
<1>0. all = DecodeStacks(d, p, k, v, h, b, x, keys, vectors)
  BY DEF DecodeStacks
<1>1. key \in Seq(T) /\ Len(key) = 4 /\ key[1] = h /\ key[2] = k /\ key[3] = p /\ key[4] = d
  BY FourOnStack
<1>2. vector \in Seq(T) /\ Len(vector) = 4 /\ vector[1] = h /\ vector[2] = v /\ vector[3] = p /\ vector[4] = d
  BY FourOnStack
<1>3. create \in Seq(T) /\ Len(create) = 3 /\ create[1] = b /\ create[2] = p /\ create[3] = d
  BY ThreeOnStack
<1>4. cipher \in Seq(T) /\ Len(cipher) = 4 /\ cipher[1] = x /\ cipher[2] = b /\ cipher[3] = p /\ cipher[4] = d
  BY FourOnStack
<1>5. m \in Nat
  OBVIOUS
<1> HIDE DEF key, vector, create, cipher, m
<1>6. first \in [1..m -> Seq(T)] /\ \A n \in 1..m : first[n] \in {key, vector}
  BY <1>1, <1>2
<1> HIDE DEF first
<1>7. /\ all \in Seq(Seq(T)) /\ Len(all) = m + 2
      /\ \A n \in 1..m : all[n] = first[n]
      /\ all[m + 1] = create /\ all[m + 2] = cipher
  <2>1. create \in Seq(T) /\ cipher \in Seq(T)
    BY <1>3, <1>4
  <2> DEFINE U == Seq(T)
  <2>2. first \in [1..m -> U] /\ create \in U /\ cipher \in U
    BY <1>6, <2>1
  <2> HIDE DEF U
  <2>3. /\ first \o <<create, cipher>> \in Seq(U) /\ Len(first \o <<create, cipher>>) = m + 2
        /\ \A n \in 1..m : (first \o <<create, cipher>>)[n] = first[n]
        /\ (first \o <<create, cipher>>)[m + 1] = create /\ (first \o <<create, cipher>>)[m + 2] = cipher
    BY <1>5, <2>2, ConcatPositionsAndTwo
  <2>4. QED
    BY <2>3 DEF U
<1> HIDE DEF all
<1>8. \A n \in 1..m : all[n] \in {key, vector}
  BY <1>6, <1>7
<1>9. \A n \in 1..m :
        Len(all[n]) = 4 /\ all[n][1] = h /\ all[n][2] \in {k, v} /\ all[n][3] = p /\ all[n][4] = d
  BY <1>1, <1>2, <1>8
<1>10. AreDecodeStacks(all, T, d, p, k, v, h, b, x, m)
  BY <1>3, <1>4, <1>7, <1>9 DEF AreDecodeStacks
<1>11. QED
  BY <1>0, <1>10 DEF m

(* A decoding: the hashes of the key and of the vector, the scheme and its *)
(* cipher.                                                                 *)
LEMMA DecodeCall ==
  ASSUME joined \in BOOLEAN, NEW pbe \in PBEs, NEW cipher \in {DESNewTripleDESCipher, RC2New},
         NEW keys \in Nat, NEW vectors \in Nat
  PROVE  WellFormedCall(PKCS12Decode(pbe[1], pbe[2], cipher, keys, vectors))
<1> DEFINE d == Helper(<<>>, "Decode")
           p == Helper(<<>>, "pbDecrypterFor")
           k == Helper(<<pbe[2]>>, "deriveKey")
           v == Helper(<<pbe[2]>>, "deriveIV")
           h == HashSink("SHA1", "Sum")
           b == PBECreate(pbe[1], pbe[2])
           m == keys + vectors
           stacks == DecodeStacks(d, p, k, v, h, b, cipher, keys, vectors)
           hashed == [n \in 1..m |-> "SHA1"]
           uses == hashed \o <<pbe[1], cipher.algorithm>>
           c == PKCS12Decode(pbe[1], pbe[2], cipher, keys, vectors)
<1>1. c.stacks = stacks /\ c.uses = uses
  BY DEF PKCS12Decode, Call, DecodeStacks
<1>2. "SHA1" \in DOMAIN HashPackage
  BY DEF HashPackage
<1>3. \A f \in {d, p, k, v, h, b, cipher} : f \in LibraryFunctions
  BY <1>2 DEF LibraryFunctions
<1>4. /\ pbe[1] \in Algorithms /\ "SHA1" \in Algorithms /\ cipher.algorithm \in Algorithms
      /\ pbe[1] # "none" /\ cipher.algorithm \notin {"none", pbe[1]} /\ pbe[1] # "SHA1" /\ cipher.algorithm # "SHA1"
  BY DEF PBEs, Algorithms, HashPackage, SinkFrames, DESNewTripleDESCipher, RC2New, Sink, Function
<1>5. /\ d.algorithm = "none" /\ p.algorithm = "none" /\ k.algorithm = "none" /\ v.algorithm = "none"
      /\ d.symbol.namespace = PKCS12Package /\ p.symbol.namespace = PKCS12Package
      /\ k.symbol.namespace = PKCS12Package /\ v.symbol.namespace = PKCS12Package
  BY DEF Helper, Function, SkipFrame
<1>6. /\ h.injected # <<>> /\ h.injected[1] = ReportOf("SHA1", NoFrame) /\ h.algorithm = "SHA1"
      /\ b.injected # <<>> /\ b.injected[1] = ReportOf(pbe[1], NoFrame) /\ b.algorithm = pbe[1]
      /\ cipher.injected # <<>> /\ cipher.injected[1] = ReportOf(cipher.algorithm, NoFrame)
  BY <1>2, HashSinkFields, SinkFields DEF PBECreate, DESNewTripleDESCipher, RC2New
<1>7. h.injected[1].name = "SHA1" /\ b.injected[1].name = pbe[1] /\ cipher.injected[1].name = cipher.algorithm
  BY <1>6 DEF ReportOf
<1>8. /\ Covers(h.injected[1], h) /\ ~Covers(h.injected[1], k) /\ ~Covers(h.injected[1], v)
      /\ ~Covers(h.injected[1], p) /\ ~Covers(h.injected[1], d)
  BY <1>2, <1>5, <1>6, HashCovers
<1>9. /\ Covers(b.injected[1], b) /\ ~Covers(b.injected[1], p) /\ ~Covers(b.injected[1], d)
      /\ b.symbol.namespace = PKCS12Package
  BY PBECovers
<1>10. /\ Covers(cipher.injected[1], cipher) /\ ~Covers(cipher.injected[1], b)
       /\ ~Covers(cipher.injected[1], p) /\ ~Covers(cipher.injected[1], d)
  BY <1>5, <1>9, PackageCipherCovers
<1>11. m \in Nat
  OBVIOUS
<1> HIDE DEF d, p, k, v, h, b, c
<1>0. stacks = DecodeStacks(d, p, k, v, h, b, cipher, keys, vectors)
  OBVIOUS
<1> HIDE DEF stacks
<1>12. /\ stacks \in Seq(Seq(LibraryFunctions)) /\ Len(stacks) = m + 2
       /\ \A n \in 1..m : /\ Len(stacks[n]) = 4
                          /\ stacks[n][1] = h /\ stacks[n][2] \in {k, v} /\ stacks[n][3] = p /\ stacks[n][4] = d
       /\ Len(stacks[m + 1]) = 3 /\ stacks[m + 1][1] = b /\ stacks[m + 1][2] = p /\ stacks[m + 1][3] = d
       /\ Len(stacks[m + 2]) = 4 /\ stacks[m + 2][1] = cipher /\ stacks[m + 2][2] = b
       /\ stacks[m + 2][3] = p /\ stacks[m + 2][4] = d
  <2>1. /\ d \in LibraryFunctions /\ p \in LibraryFunctions /\ k \in LibraryFunctions /\ v \in LibraryFunctions
        /\ h \in LibraryFunctions /\ b \in LibraryFunctions /\ cipher \in LibraryFunctions
    BY <1>3
  <2>2. AreDecodeStacks(DecodeStacks(d, p, k, v, h, b, cipher, keys, vectors), LibraryFunctions,
                        d, p, k, v, h, b, cipher, keys + vectors)
    BY <2>1, PBEStacks
  <2>3. QED
    BY <1>0, <2>2 DEF AreDecodeStacks
<1> HIDE DEF m
<1>13. /\ uses \in Seq(Algorithms) /\ Len(uses) = m + 2 /\ \A n \in 1..m : uses[n] = "SHA1"
       /\ uses[m + 1] = pbe[1] /\ uses[m + 2] = cipher.algorithm
  <2> DEFINE name == pbe[1] algorithm == cipher.algorithm
  <2>1. hashed \in [1..m -> Algorithms] /\ (\A n \in 1..m : hashed[n] = "SHA1")
        /\ name \in Algorithms /\ algorithm \in Algorithms
    BY <1>4
  <2> HIDE DEF hashed, name, algorithm
  <2>2. /\ hashed \o <<name, algorithm>> \in Seq(Algorithms) /\ Len(hashed \o <<name, algorithm>>) = m + 2
        /\ \A n \in 1..m : (hashed \o <<name, algorithm>>)[n] = hashed[n]
        /\ (hashed \o <<name, algorithm>>)[m + 1] = name /\ (hashed \o <<name, algorithm>>)[m + 2] = algorithm
    BY <1>11, <2>1, ConcatPositionsAndTwo
  <2>3. QED
    BY <2>1, <2>2 DEF name, algorithm
<1> HIDE DEF uses, hashed
<1>14. \A n \in 1..m : SinkStack(stacks[n], uses[n])
  <2> SUFFICES ASSUME NEW n \in 1..m PROVE SinkStack(stacks[n], uses[n])
    OBVIOUS
  <2>1. \A j \in 1..4 : j = 1 \/ j = 2 \/ j = 3 \/ j = 4
    OBVIOUS
  <2>2. \A j \in 1..4 : Covers(h.injected[1], stacks[n][j]) <=> stacks[n][j].algorithm = "SHA1"
    BY <1>5, <1>6, <1>8, <1>12, <2>1
  <2>3. QED
    BY <1>6, <1>7, <1>12, <1>13, <2>2 DEF SinkStack
<1>15. SinkStack(stacks[m + 1], uses[m + 1])
  <2>1. \A j \in 1..3 : j = 1 \/ j = 2 \/ j = 3
    OBVIOUS
  <2>2. \A j \in 1..3 : Covers(b.injected[1], stacks[m + 1][j]) <=> stacks[m + 1][j].algorithm = pbe[1]
    BY <1>4, <1>5, <1>6, <1>9, <1>12, <2>1
  <2>3. QED
    BY <1>6, <1>7, <1>12, <1>13, <2>2 DEF SinkStack
<1>16. SinkStack(stacks[m + 2], uses[m + 2])
  <2>1. \A j \in 1..4 : j = 1 \/ j = 2 \/ j = 3 \/ j = 4
    OBVIOUS
  <2>2. \A j \in 1..4 : Covers(cipher.injected[1], stacks[m + 2][j])
                          <=> stacks[m + 2][j].algorithm = cipher.algorithm
    BY <1>4, <1>5, <1>6, <1>10, <1>12, <2>1
  <2>3. QED
    BY <1>6, <1>7, <1>12, <1>13, <2>2 DEF SinkStack
<1>17. FirstSink(c) = 0
  BY <1>1, <1>11, <1>12, <1>13 DEF FirstSink
<1>18. ASSUME NEW i \in 1..Len(c.stacks)
       PROVE  /\ Len(c.stacks[i]) \in 1..4 /\ ~(i <= FirstSink(c))
              /\ SinkStack(c.stacks[i], c.uses[i - FirstSink(c)])
  <2>1. i \in 1..m \/ i = m + 1 \/ i = m + 2
    BY <1>1, <1>11, <1>12
  <2>2. Len(stacks[i]) \in 1..4 /\ SinkStack(stacks[i], uses[i])
    BY <1>12, <1>14, <1>15, <1>16, <2>1
  <2>3. i \in Nat \ {0} /\ i - 0 = i
    BY <1>1, <1>11, <1>12
  <2>4. QED
    BY <1>1, <1>17, <2>2, <2>3
<1>19. WellFormedCall(c)
  BY <1>1, <1>12, <1>13, <1>17, <1>18 DEF WellFormedCall
<1>20. QED
  BY <1>19 DEF c

(* The library's symbols, and what its sinks skip.                         *)
LEMMA LibrarySymbols ==
  ASSUME NEW f \in LibraryFunctions
  PROVE  f.symbol \in Symbols /\ (f.injected # <<>> => Listed(f.injected[1]) \in SUBSET Symbols)
<1>1. {"New", "Sum", "create", "Decode", "pbDecrypterFor", "deriveKey", "deriveIV", "Hash"} \subseteq Parts
      /\ {"shaWithTripleDESCBC", "shaWith40BitRC2CBC"} \subseteq Parts
      /\ "crypto" \in Namespaces /\ PKCS12Package \in Namespaces
  BY DEF Parts, Namespaces
<1>2. /\ NoFrame \in Symbols
      /\ \A function \in {"NewCipher", "NewTripleDESCipher"} : SkipFrame(DESPackage, <<>>, <<function>>) \in Symbols
      /\ SkipFrame(RC4Package, <<>>, <<"NewCipher">>) \in Symbols
      /\ SkipFrame(RC2Package, <<>>, <<"New">>) \in Symbols
      /\ \A function \in {"NewCipher", "NewSaltedCipher"} : SkipFrame(BlowfishPackage, <<>>, <<function>>) \in Symbols
      /\ \A class \in {"shaWithTripleDESCBC", "shaWith40BitRC2CBC"} :
           SkipFrame(PKCS12Package, <<class>>, <<"create">>) \in Symbols
  BY CipherSymbols
<1>3. ASSUME NEW hash \in DOMAIN HashPackage, NEW function \in {"New", "Sum"}, f = HashSink(hash, function)
      PROVE  f.symbol \in Symbols /\ Listed(f.injected[1]) \in SUBSET Symbols
  <2>1. SinkFrame(hash, "New") \in Symbols /\ SinkFrame(hash, "Sum") \in Symbols
    BY <1>1, SinkFrameIsSymbol
  <2>2. SkipFrame("crypto", <<>>, <<"Hash", "New">>) \in Symbols
    <3> DEFINE class == <<>> name == <<"Hash", "New">>
    <3>1. class \in Seq(Parts) /\ name \in Seq(Parts)
      BY <1>1, EmptyTuple, PairTuple
    <3> HIDE DEF class, name
    <3>2. SkipFrame("crypto", class, name) \in Symbols
      BY <1>1, <3>1, SkipFrameIsSymbol
    <3>3. QED
      BY <3>2 DEF class, name
  <2>3. f.symbol = SinkFrame(hash, function) /\ f.injected[1] = ReportOf(hash, NoFrame)
    BY <1>3, HashSinkFields
  <2>4. Listed(ReportOf(hash, NoFrame)) =
          {SkipFrame("crypto", <<>>, <<"Hash", "New">>), SinkFrame(hash, "New"), SinkFrame(hash, "Sum")}
    BY HashListed
  <2>5. QED
    BY <2>1, <2>2, <2>3, <2>4
<1>4. ASSUME NEW hash \in DOMAIN HashPackage, f = HashNew(hash)
      PROVE  f.symbol \in Symbols /\ f.injected = <<>>
  <2>1. \A class \in Parts, function \in Parts : SkipFrame("crypto", <<class>>, <<function>>) \in Symbols
    BY <1>1, MethodSymbol
  <2>2. QED
    BY <1>1, <1>4, <2>1 DEF HashNew, Function
<1>5. ASSUME f \in {DESNewCipher, DESNewTripleDESCipher, RC4NewCipher, RC2New}
      PROVE  f.symbol \in Symbols /\ Listed(f.injected[1]) \in SUBSET Symbols
  <2>1. /\ f.injected[1] \in {ReportOf("DES", NoFrame), ReportOf("TripleDES", NoFrame), ReportOf("RC4", NoFrame),
                              ReportOf("RC2", NoFrame)}
    BY <1>5, SinkFields DEF DESNewCipher, DESNewTripleDESCipher, RC4NewCipher, RC2New
  <2>2. \A report \in {ReportOf("DES", NoFrame), ReportOf("TripleDES", NoFrame), ReportOf("RC4", NoFrame),
                       ReportOf("RC2", NoFrame)} : Listed(report) \in SUBSET Symbols
    BY <1>2, CipherFrames
  <2>3. f.symbol \in Symbols
    BY <1>2, <1>5, SinkFields DEF DESNewCipher, DESNewTripleDESCipher, RC4NewCipher, RC2New
  <2>4. QED
    BY <2>1, <2>2, <2>3
<1>6. ASSUME f \in {BlowfishNewCipher, BlowfishNewSaltedCipher(0), BlowfishNewSaltedCipher(1)}
      PROVE  f.symbol \in Symbols /\ (f.injected # <<>> => Listed(f.injected[1]) \in SUBSET Symbols)
  <2>1. f.injected # <<>> =>
          \E caller \in {NoFrame, SkipFrame(BlowfishPackage, <<>>, <<"NewSaltedCipher">>)} :
             f.injected[1] = ReportOf("Blowfish", caller)
    BY <1>6 DEF BlowfishNewCipher, BlowfishNewSaltedCipher, Function
  <2>2. \A caller \in {NoFrame, SkipFrame(BlowfishPackage, <<>>, <<"NewSaltedCipher">>)} :
          Listed(ReportOf("Blowfish", caller)) \in SUBSET Symbols
    BY <1>2, CipherFrames
  <2>3. f.symbol \in Symbols
    BY <1>2, <1>6 DEF BlowfishNewCipher, BlowfishNewSaltedCipher, Function
  <2>4. QED
    BY <2>1, <2>2, <2>3
<1>7. ASSUME NEW pbe \in PBEs, f = PBECreate(pbe[1], pbe[2])
      PROVE  f.symbol \in Symbols /\ Listed(f.injected[1]) \in SUBSET Symbols
  <2>1. \/ pbe[1] = "PBEWithSHAAnd3KeyTripleDESCBC" /\ pbe[2] = "shaWithTripleDESCBC"
        \/ pbe[1] = "PBEWithSHAAnd40BitRC2CBC" /\ pbe[2] = "shaWith40BitRC2CBC"
    BY DEF PBEs
  <2>2. SkipFrame(PKCS12Package, <<pbe[2]>>, <<"create">>) \in Symbols
    BY <1>2, <2>1
  <2>3. Listed(ReportOf(pbe[1], NoFrame)) \in SUBSET Symbols
    BY <1>2, <2>1, CipherFrames
  <2>4. f.symbol = SkipFrame(PKCS12Package, <<pbe[2]>>, <<"create">>) /\ f.injected[1] = ReportOf(pbe[1], NoFrame)
    BY <1>7, SinkFields DEF PBECreate
  <2>5. QED
    BY <2>2, <2>3, <2>4
<1>8. ASSUME NEW function \in {"Decode", "pbDecrypterFor"}, f = Helper(<<>>, function)
      PROVE  f.symbol \in Symbols /\ f.injected = <<>>
  <2>1. \A name \in Parts : SkipFrame(PKCS12Package, <<>>, <<name>>) \in Symbols
    BY <1>1, PackageSymbol
  <2>2. QED
    BY <1>1, <1>8, <2>1 DEF Helper, Function
<1>9. ASSUME NEW pbe \in PBEs, NEW function \in {"deriveKey", "deriveIV"}, f = Helper(<<pbe[2]>>, function)
      PROVE  f.symbol \in Symbols /\ f.injected = <<>>
  <2>1. \A class \in Parts, name \in Parts : SkipFrame(PKCS12Package, <<class>>, <<name>>) \in Symbols
    BY <1>1, MethodSymbol
  <2>2. pbe[2] \in {"shaWithTripleDESCBC", "shaWith40BitRC2CBC"}
    BY DEF PBEs
  <2>3. QED
    BY <1>1, <1>9, <2>1, <2>2 DEF Helper, Function
<1>10. \/ \E hash \in DOMAIN HashPackage, function \in {"New", "Sum"} : f = HashSink(hash, function)
       \/ \E hash \in DOMAIN HashPackage : f = HashNew(hash)
       \/ f \in {DESNewCipher, DESNewTripleDESCipher, RC4NewCipher, RC2New}
       \/ f \in {BlowfishNewCipher, BlowfishNewSaltedCipher(0), BlowfishNewSaltedCipher(1)}
       \/ \E pbe \in PBEs : f = PBECreate(pbe[1], pbe[2])
       \/ \E function \in {"Decode", "pbDecrypterFor"} : f = Helper(<<>>, function)
       \/ \E pbe \in PBEs, function \in {"deriveKey", "deriveIV"} : f = Helper(<<pbe[2]>>, function)
  BY DEF LibraryFunctions
<1>11. QED
  BY <1>3, <1>4, <1>5, <1>6, <1>7, <1>8, <1>9, <1>10

(* Every function of the libraries is in a package.                        *)
LEMMA LibraryNamespaces ==
  ASSUME NEW f \in LibraryFunctions
  PROVE  f.symbol.namespace # ""
<1>1. ASSUME NEW hash \in DOMAIN HashPackage, NEW function \in {"New", "Sum"}, f = HashSink(hash, function)
      PROVE  f.symbol.namespace # ""
  <2>1. function \in Parts
    BY DEF Parts
  <2>2. SinkFrame(hash, function).namespace # ""
    BY <2>1, SinkFrameIsSymbol
  <2>3. f.symbol = SinkFrame(hash, function)
    BY <1>1, HashSinkFields
  <2>4. QED
    BY <2>2, <2>3
<1>2. ASSUME NEW hash \in DOMAIN HashPackage, f = HashNew(hash)
      PROVE  f.symbol.namespace # ""
  BY <1>2 DEF HashNew, Function, SkipFrame
<1>3. ASSUME \/ f \in {DESNewCipher, DESNewTripleDESCipher, RC4NewCipher, RC2New, BlowfishNewCipher}
             \/ \E salt \in {0, 1} : f = BlowfishNewSaltedCipher(salt)
      PROVE  f.symbol.namespace # ""
  <2>1. f.symbol.namespace \in {DESPackage, RC4Package, RC2Package, BlowfishPackage}
    BY <1>3 DEF DESNewCipher, DESNewTripleDESCipher, RC4NewCipher, RC2New, BlowfishNewCipher, BlowfishNewSaltedCipher,
                Sink, Function, SkipFrame
  <2>2. QED
    BY <2>1 DEF DESPackage, RC4Package, RC2Package, BlowfishPackage
<1>4. ASSUME \/ \E pbe \in PBEs : f = PBECreate(pbe[1], pbe[2])
             \/ \E class, function : f = Helper(class, function)
      PROVE  f.symbol.namespace # ""
  <2>1. f.symbol.namespace = PKCS12Package
    BY <1>4 DEF PBECreate, Helper, Sink, Function, SkipFrame
  <2>2. QED
    BY <2>1 DEF PKCS12Package
<1>5. \/ \E hash \in DOMAIN HashPackage, function \in {"New", "Sum"} : f = HashSink(hash, function)
      \/ \E hash \in DOMAIN HashPackage : f = HashNew(hash)
      \/ f \in {DESNewCipher, DESNewTripleDESCipher, RC4NewCipher, RC2New, BlowfishNewCipher}
      \/ \E salt \in {0, 1} : f = BlowfishNewSaltedCipher(salt)
      \/ \E pbe \in PBEs : f = PBECreate(pbe[1], pbe[2])
      \/ \E function \in {"Decode", "pbDecrypterFor"} : f = Helper(<<>>, function)
      \/ \E pbe \in PBEs, function \in {"deriveKey", "deriveIV"} : f = Helper(<<pbe[2]>>, function)
  BY DEF LibraryFunctions
<1>6. QED
  BY <1>1, <1>2, <1>3, <1>4, <1>5

(* Every modelled call of the libraries is well formed.                    *)
LEMMA EveryCall ==
  ASSUME joined \in BOOLEAN, NEW c \in Calls
  PROVE  WellFormedCall(c)
<1>1. ASSUME NEW hash \in DOMAIN HashPackage, NEW function \in {"New", "Sum"}
      PROVE  WellFormedCall(Call(Nested(<<HashSink(hash, function)>>), <<hash>>))
  <2>1. HashSink(hash, function) \in LibraryFunctions /\ hash \in Algorithms
    BY DEF LibraryFunctions, Algorithms
  <2>2. /\ HashSink(hash, function).injected # <<>> /\ HashSink(hash, function).algorithm = hash
        /\ HashSink(hash, function).injected[1] = ReportOf(hash, NoFrame)
    BY HashSinkFields
  <2>3. HashSink(hash, function).injected[1].name = hash
    BY <2>2 DEF ReportOf
  <2>4. Covers(HashSink(hash, function).injected[1], HashSink(hash, function))
    BY <2>2, HashCovers
  <2>5. QED
    BY <2>1, <2>2, <2>3, <2>4, SinkCall
<1>2. ASSUME NEW hash \in DOMAIN HashPackage
      PROVE  WellFormedCall(Call(Nested(<<HashNew(hash), HashSink(hash, "New")>>), <<hash>>))
  <2> DEFINE sink == HashSink(hash, "New")
  <2>1. sink \in LibraryFunctions /\ HashNew(hash) \in LibraryFunctions /\ hash \in Algorithms
    BY DEF LibraryFunctions, Algorithms
  <2>2. sink.injected # <<>> /\ sink.algorithm = hash /\ sink.injected[1] = ReportOf(hash, NoFrame)
    BY HashSinkFields
  <2>3. sink.injected[1].name = hash
    BY <2>2 DEF ReportOf
  <2>4. HashNew(hash).injected = <<>> /\ HashNew(hash).algorithm = hash
    BY DEF HashNew, Function
  <2>5. Covers(sink.injected[1], sink) /\ Covers(sink.injected[1], HashNew(hash))
    BY <2>2, HashCovers
  <2> HIDE DEF sink
  <2>6. WellFormedCall(Call(Nested(<<HashNew(hash), sink>>), <<hash>>))
    BY <2>1, <2>2, <2>3, <2>4, <2>5, DelegatedCall
  <2>7. QED
    BY <2>6 DEF sink
<1>3. ASSUME NEW sink \in {DESNewCipher, DESNewTripleDESCipher, RC4NewCipher, BlowfishNewCipher}
      PROVE  WellFormedCall(Call(Nested(<<sink>>), <<sink.algorithm>>))
  <2>1. sink \in LibraryFunctions /\ sink.algorithm \in Algorithms
    BY DEF LibraryFunctions, Algorithms, SinkFrames,
           DESNewCipher, DESNewTripleDESCipher, RC4NewCipher, BlowfishNewCipher, Sink, Function
  <2>2. sink.injected # <<>> /\ sink.injected[1].name = sink.algorithm
    BY DEF DESNewCipher, DESNewTripleDESCipher, RC4NewCipher, BlowfishNewCipher, Sink, Function, ReportOf
  <2>3. Covers(sink.injected[1], sink)
    BY PackageCipherCovers, BlowfishCovers
  <2>4. QED
    BY <2>1, <2>2, <2>3, SinkCall
<1>4. /\ "Blowfish" \in Algorithms /\ BlowfishNewCipher \in LibraryFunctions
      /\ \A salt \in {0, 1} : BlowfishNewSaltedCipher(salt) \in LibraryFunctions
  BY DEF LibraryFunctions, Algorithms, SinkFrames
<1>5. WellFormedCall(Call(Nested(<<BlowfishNewSaltedCipher(1)>>), <<"Blowfish">>))
  <2> DEFINE sink == BlowfishNewSaltedCipher(1)
             algorithm == "Blowfish"
  <2>1. sink.injected # <<>> /\ sink.injected[1].name = algorithm /\ sink.algorithm = algorithm
    BY DEF BlowfishNewSaltedCipher, Function, ReportOf
  <2>2. sink \in LibraryFunctions /\ algorithm \in Algorithms /\ Covers(sink.injected[1], sink)
    BY <1>4, BlowfishCovers
  <2> HIDE DEF sink, algorithm
  <2>3. WellFormedCall(Call(Nested(<<sink>>), <<algorithm>>))
    BY <2>1, <2>2, SinkCall
  <2>4. QED
    BY <2>3 DEF sink, algorithm
<1>6. WellFormedCall(Call(Nested(<<BlowfishNewSaltedCipher(0), BlowfishNewCipher>>), <<"Blowfish">>))
  <2> DEFINE outer == BlowfishNewSaltedCipher(0)
             sink == BlowfishNewCipher
             algorithm == "Blowfish"
  <2>1. sink.injected # <<>> /\ sink.injected[1].name = algorithm /\ sink.algorithm = algorithm
    BY DEF BlowfishNewCipher, Function, ReportOf
  <2>2. outer.injected = <<>> /\ outer.algorithm = algorithm
    BY DEF BlowfishNewSaltedCipher, Function
  <2>3. /\ sink \in LibraryFunctions /\ outer \in LibraryFunctions /\ algorithm \in Algorithms
        /\ Covers(sink.injected[1], sink) /\ Covers(sink.injected[1], outer)
    BY <1>4, BlowfishCovers
  <2> HIDE DEF sink, outer, algorithm
  <2>4. WellFormedCall(Call(Nested(<<outer, sink>>), <<algorithm>>))
    BY <2>1, <2>2, <2>3, DelegatedCall
  <2>5. QED
    BY <2>4 DEF sink, outer, algorithm
<1>7. ASSUME NEW keys \in 1..MaxHashes, NEW vectors \in 1..MaxHashes
      PROVE  /\ WellFormedCall(PKCS12Decode("PBEWithSHAAnd3KeyTripleDESCBC", "shaWithTripleDESCBC",
                                            DESNewTripleDESCipher, keys, vectors))
             /\ WellFormedCall(PKCS12Decode("PBEWithSHAAnd40BitRC2CBC", "shaWith40BitRC2CBC", RC2New, keys, vectors))
  <2>0. keys \in Nat /\ vectors \in Nat
    BY SinksAssumption
  <2>1. \A pbe \in PBEs, cipher \in {DESNewTripleDESCipher, RC2New} :
          WellFormedCall(PKCS12Decode(pbe[1], pbe[2], cipher, keys, vectors))
    BY <2>0, DecodeCall
  <2> DEFINE triple == <<"PBEWithSHAAnd3KeyTripleDESCBC", "shaWithTripleDESCBC">>
             rc2 == <<"PBEWithSHAAnd40BitRC2CBC", "shaWith40BitRC2CBC">>
  <2>2. triple \in PBEs /\ rc2 \in PBEs
    BY DEF PBEs
  <2>3. WellFormedCall(PKCS12Decode(triple[1], triple[2], DESNewTripleDESCipher, keys, vectors))
        /\ WellFormedCall(PKCS12Decode(rc2[1], rc2[2], RC2New, keys, vectors))
    <3> HIDE DEF triple, rc2
    <3>1. QED
      BY <2>1, <2>2
  <2>4. QED
    BY <2>3
<1>8. {"MD5", "SHA1"} \subseteq DOMAIN HashPackage
  BY DEF HashPackage
<1>9. \/ \E hash \in DOMAIN HashPackage, function \in {"New", "Sum"} :
             c = Call(Nested(<<HashSink(hash, function)>>), <<hash>>)
      \/ \E hash \in DOMAIN HashPackage : c = Call(Nested(<<HashNew(hash), HashSink(hash, "New")>>), <<hash>>)
      \/ \E sink \in {DESNewCipher, DESNewTripleDESCipher, RC4NewCipher, BlowfishNewCipher} :
             c = Call(Nested(<<sink>>), <<sink.algorithm>>)
      \/ c = Call(Nested(<<BlowfishNewSaltedCipher(1)>>), <<"Blowfish">>)
      \/ c = Call(Nested(<<BlowfishNewSaltedCipher(0), BlowfishNewCipher>>), <<"Blowfish">>)
      \/ \E keys, vectors \in 1..MaxHashes :
             \/ c = PKCS12Decode("PBEWithSHAAnd3KeyTripleDESCBC", "shaWithTripleDESCBC",
                                 DESNewTripleDESCipher, keys, vectors)
             \/ c = PKCS12Decode("PBEWithSHAAnd40BitRC2CBC", "shaWith40BitRC2CBC", RC2New, keys, vectors)
  <2>1. c \in SinkCalls \/ c \in Decodings
    BY DEF Calls
  <2>2. c \in Decodings =>
          \E keys, vectors \in 1..MaxHashes :
             \/ c = PKCS12Decode("PBEWithSHAAnd3KeyTripleDESCBC", "shaWithTripleDESCBC",
                                 DESNewTripleDESCipher, keys, vectors)
             \/ c = PKCS12Decode("PBEWithSHAAnd40BitRC2CBC", "shaWith40BitRC2CBC", RC2New, keys, vectors)
    BY SMT DEF Decodings
  <2>3. CASE c \in SinkCalls
    BY <1>8, <2>3, Zenon DEF SinkCalls
  <2>4. QED
    BY <2>1, <2>2, <2>3
<1>10. QED
  BY <1>1, <1>2, <1>3, <1>5, <1>6, <1>7, <1>9

(***************************************************************************)
(* The inductive invariant                                                 *)
(***************************************************************************)

(* The parts of a name in a call stack.                                    *)
NameParts == Parts \union {"*", "Server", "Serve"}

(* The frames of a call stack.                                             *)
StackFramesSet ==
  [namespace : (Namespaces \ {""}) \union {"app"}, class : Seq(NameParts), function : Seq(NameParts),
   file : {"source", Generated}, hidden : BOOLEAN, algorithm : Algorithms \union {"none"}]

(* The parts of a name in a location.                                      *)
LocationParts == NameParts \union Namespaces \union {"app", "(", ")"}

(* A report: its algorithm, and no location or one.                        *)
ReportSet == [name : Algorithms, location : Seq([class : Seq(LocationParts), method : Seq(LocationParts)])]

(* The inputs: a call stack is four functions of a library at most, below  *)
(* the callers.                                                            *)
InputsOK ==
  /\ tool \in {"orchestrion", "otelc"}
  /\ joined \in BOOLEAN /\ enabled \in BOOLEAN /\ stackTraceEnabled \in BOOLEAN /\ captures \in BOOLEAN
  /\ callers \in Seq(CallerFrames) /\ Len(callers) \in 1..MaxCallers
  /\ call \in Calls
  /\ entered \in 0..Len(call.stacks)
  /\ stack \in Seq(StackFramesSet) /\ Len(stack) <= MaxCallers + 4

(* What is being located is the sink entered last: the skipped frames are  *)
(* those of the library's construction of the algorithm.                   *)
SkipsTheConstruction ==
  pc # "library" =>
    /\ enabled /\ entered \in 1..Len(call.stacks) /\ entered > FirstSink(call)
    /\ \A n \in 1..Len(stack) : ShouldSkipLocationFrame(stack[n]) <=>
                                  stack[n].file = Generated \/ stack[n].algorithm = Reported

(* The trace shows frames of the stack, numbered from the leaf.            *)
TraceOfTheStack ==
  /\ pc \in {"library", "skip", "recapture", "done"}
  /\ rawFramesSkipped \in 0..Len(stack)
  /\ attempts \in 0..MaxLocationRecaptureAttempts
  /\ trace \in Seq(CapturedFrame)
  /\ \A n \in 1..Len(trace) :
       /\ trace[n].raw \in 1..Len(stack) /\ ~stack[trace[n].raw].hidden
       /\ trace[n].index < trace[n].raw
       /\ pc = "skip" => trace[n].index = trace[n].raw - 1 /\ rawFramesSkipped < trace[n].raw
       /\ pc = "done" => trace[n].index = trace[n].raw - rawFramesSkipped - 1
  /\ \A n \in 1..Len(trace) : \A m \in 1..Len(trace) : m < n => trace[m].raw < trace[n].raw
  /\ pc = "skip" => attempts = 0
  /\ pc = "skip" /\ ~stackTraceEnabled /\ trace # <<>> => Len(trace) = 1 /\ rawFramesSkipped = 0
  /\ pc = "recapture" => trace = <<>>
  /\ pc = "done" /\ trace # <<>> => ~ShouldSkip(trace[1])

(* The sinks entered so far, but for the one being located, have reported. *)
Reports == IF pc = "library" THEN entered - FirstSink(call) ELSE entered - FirstSink(call) - 1

(* They have reported the uses of the call, in order; a disabled IAST has  *)
(* reported nothing.                                                       *)
ReportsOfTheUses ==
  /\ reports \in Seq(ReportSet)
  /\ enabled => IF Reports <= 0 THEN reports = <<>> ELSE Len(reports) = Reports
  /\ enabled => \A n \in 1..Len(reports) : reports[n].name = call.uses[n]
  /\ ~enabled => reports = <<>>

(* The nearest caller is still to be found: the deep trace shows it, or the*)
(* captures one by one have skipped one more visible frame than attempts.  *)
CallerAhead ==
  InReach /\ Candidates # {} /\ pc \in {"skip", "recapture"} =>
    IF stackTraceEnabled
      THEN /\ pc = "skip"
           /\ \E n \in 1..Len(trace) : trace[n].raw \in Candidates /\ \A c \in Candidates : trace[n].raw <= c
      ELSE /\ \A c \in Candidates : rawFramesSkipped < c
           /\ trace # <<>> => \A i \in Shown(stack, 0) : trace[1].raw <= i
           /\ trace = <<>> =>
                Cardinality({n \in 1..Len(stack) : ~stack[n].hidden /\ n <= rawFramesSkipped}) > attempts

(* The inductive invariant.                                                *)
SinksInv ==
  /\ InputsOK
  /\ SkipsTheConstruction
  /\ TraceOfTheStack
  /\ ReportsOfTheUses
  /\ CallerAhead
  /\ LocatedAtTheCaller
  /\ LocationNamesTheCaller

(***************************************************************************)
(* The call stacks of a call                                               *)
(***************************************************************************)

(* A function of a library constructs a weak algorithm, or none.           *)
LEMMA LibraryAlgorithms ==
  ASSUME NEW f \in LibraryFunctions
  PROVE  f.algorithm \in Algorithms \union {"none"}
<1>1. \A hash \in DOMAIN HashPackage : \A function : HashSink(hash, function).algorithm = hash
  BY HashSinkFields
<1>2. \A hash \in DOMAIN HashPackage : HashNew(hash).algorithm = hash
  BY DEF HashNew, Function
<1>3. {"DES", "TripleDES", "RC4", "RC2", "Blowfish", "PBEWithSHAAnd3KeyTripleDESCBC", "PBEWithSHAAnd40BitRC2CBC"}
        \subseteq Algorithms
  BY DEF Algorithms, SinkFrames
<1>4. /\ DESNewCipher.algorithm = "DES" /\ DESNewTripleDESCipher.algorithm = "TripleDES"
      /\ RC4NewCipher.algorithm = "RC4" /\ RC2New.algorithm = "RC2" /\ BlowfishNewCipher.algorithm = "Blowfish"
      /\ \A salt \in {0, 1} : BlowfishNewSaltedCipher(salt).algorithm = "Blowfish"
  BY DEF DESNewCipher, DESNewTripleDESCipher, RC4NewCipher, RC2New, BlowfishNewCipher, BlowfishNewSaltedCipher,
         Sink, Function
<1>5. \A pbe \in PBEs : PBECreate(pbe[1], pbe[2]).algorithm = pbe[1]
                          /\ pbe[1] \in {"PBEWithSHAAnd3KeyTripleDESCBC", "PBEWithSHAAnd40BitRC2CBC"}
  BY SinkFields DEF PBECreate, PBEs
<1>6. \A class, function : Helper(class, function).algorithm = "none"
  BY DEF Helper, Function
<1>7. DOMAIN HashPackage \subseteq Algorithms
  BY DEF Algorithms
<1>8. \/ \E hash \in DOMAIN HashPackage, function \in {"New", "Sum"} : f = HashSink(hash, function)
      \/ \E hash \in DOMAIN HashPackage : f = HashNew(hash)
      \/ f \in {DESNewCipher, DESNewTripleDESCipher, RC4NewCipher, RC2New, BlowfishNewCipher}
      \/ \E salt \in {0, 1} : f = BlowfishNewSaltedCipher(salt)
      \/ \E pbe \in PBEs : f = PBECreate(pbe[1], pbe[2])
      \/ \E function : f = Helper(<<>>, function)
      \/ \E pbe \in PBEs, function \in {"deriveKey", "deriveIV"} : f = Helper(<<pbe[2]>>, function)
  BY DEF LibraryFunctions
<1>9. ASSUME \E pbe \in PBEs : f = PBECreate(pbe[1], pbe[2])
      PROVE  f.algorithm \in Algorithms
  BY <1>3, <1>5, <1>9
<1>10. ASSUME f \in {DESNewCipher, DESNewTripleDESCipher, RC4NewCipher, RC2New, BlowfishNewCipher}
              \/ \E salt \in {0, 1} : f = BlowfishNewSaltedCipher(salt)
       PROVE  f.algorithm \in Algorithms
  BY <1>3, <1>4, <1>10
<1>11. ASSUME \/ \E hash \in DOMAIN HashPackage, function \in {"New", "Sum"} : f = HashSink(hash, function)
              \/ \E hash \in DOMAIN HashPackage : f = HashNew(hash)
       PROVE  f.algorithm \in Algorithms
  BY <1>1, <1>2, <1>7, <1>11
<1>12. QED
  BY <1>6, <1>8, <1>9, <1>10, <1>11

(* A frame without an algorithm is not part of a construction.             *)
LEMMA AlgorithmsAreNames ==
  "none" \notin Algorithms
BY DEF Algorithms, HashPackage, SinkFrames

(* Sequences of the parts of the libraries' names.                         *)
LEMMA SequencesOfParts ==
  ASSUME NEW a \in Seq(Parts), NEW b \in Seq(Parts)
  PROVE  a \in Seq(NameParts) /\ b \in Seq(NameParts) /\ a \o b \in Seq(NameParts) /\ <<>> \in Seq(NameParts)
<1>1. \A s \in Seq(Parts) : s \in Seq(NameParts)
  BY DEF NameParts
<1>2. a \o b \in Seq(Parts) /\ <<>> \in Seq(Parts)
  OBVIOUS
<1>3. QED
  BY <1>1, <1>2

(* A frame of a library has the type of a frame.                           *)
LEMMA FrameTyped ==
  ASSUME joined \in BOOLEAN, NEW symbol \in Symbols, symbol.namespace # "", NEW algorithm \in Algorithms \union {"none"},
         NEW file \in {"source", Generated}, NEW hidden \in BOOLEAN
  PROVE  Frame(symbol, algorithm, file, hidden) \in StackFramesSet
<1>1. symbol.class \in Seq(Parts) /\ symbol.function \in Seq(Parts) /\ symbol.namespace \in Namespaces
  BY DEF Symbols
<1>2. /\ symbol.class \in Seq(NameParts) /\ symbol.function \in Seq(NameParts) /\ <<>> \in Seq(NameParts)
      /\ symbol.class \o symbol.function \in Seq(NameParts)
  BY <1>1, SequencesOfParts
<1> DEFINE class == IF joined THEN <<>> ELSE symbol.class
           function == IF joined THEN symbol.class \o symbol.function ELSE symbol.function
<1>3. class \in Seq(NameParts) /\ function \in Seq(NameParts)
  BY <1>2
<1>4. symbol.namespace \in (Namespaces \ {""}) \union {"app"}
  BY <1>1
<1> HIDE DEF class, function
<1>5. [namespace |-> symbol.namespace, class |-> class, function |-> function,
       file |-> file, hidden |-> hidden, algorithm |-> algorithm] \in StackFramesSet
  BY <1>3, <1>4 DEF StackFramesSet
<1>6. QED
  BY <1>5 DEF Frame, class, function

(* A frame of the application has it too, and is of no library.            *)
LEMMA CallerFrameTyped ==
  ASSUME NEW frame \in CallerFrames
  PROVE  /\ frame \in StackFramesSet
         /\ frame.namespace = "app" /\ frame.algorithm = "none"
<1>1. PICK file \in {"source", Generated}, hidden \in BOOLEAN : frame = CallerFrame(file, hidden)
  BY DEF CallerFrames
<1>2. frame.namespace = "app" /\ frame.algorithm = "none"
  BY <1>1 DEF CallerFrame
<1> DEFINE class == <<"*", "Server">>
           function == <<"Serve">>
<1>3. class \in Seq(NameParts) /\ function \in Seq(NameParts)
  <2>1. "*" \in NameParts /\ "Server" \in NameParts /\ "Serve" \in NameParts
    BY DEF NameParts
  <2>2. QED
    BY <2>1, PairTuple, SingleTuple
<1> HIDE DEF class, function
<1>4. [namespace |-> "app", class |-> class, function |-> function,
       file |-> file, hidden |-> hidden, algorithm |-> "none"] \in StackFramesSet
  BY <1>3 DEF StackFramesSet
<1>5. QED
  BY <1>1, <1>2, <1>4 DEF CallerFrame, class, function

(* A call stack shows the functions of the library, and above them the     *)
(* callers.                                                                *)
LEMMA FramesOfStack ==
  ASSUME joined \in BOOLEAN, callers \in Seq(CallerFrames), NEW s \in Seq(LibraryFunctions)
  PROVE  /\ FramesOf(s) \in Seq(StackFramesSet)
         /\ Len(FramesOf(s)) = Len(s) + Len(callers)
         /\ \A n \in 1..Len(s) : \E file \in {"source", Generated} :
              FramesOf(s)[n] = Frame(s[n].symbol, s[n].algorithm, file, FALSE)
         /\ \A n \in 1..Len(callers) : FramesOf(s)[Len(s) + n] = callers[n]
<1> DEFINE library == [n \in DOMAIN s |->
                         Frame(s[n].symbol, s[n].algorithm,
                               IF n = 1 /\ tool = "orchestrion" THEN Generated ELSE "source", FALSE)]
<1>1. ASSUME NEW n \in 1..Len(s)
      PROVE  \E file \in {"source", Generated} : library[n] = Frame(s[n].symbol, s[n].algorithm, file, FALSE)
  <2> DEFINE file == IF n = 1 /\ tool = "orchestrion" THEN Generated ELSE "source"
  <2>1. library[n] = Frame(s[n].symbol, s[n].algorithm, file, FALSE)
    <3>1. n \in DOMAIN s
      OBVIOUS
    <3>2. QED
      BY <3>1, Zenon
  <2>2. file \in {"source", Generated}
    OBVIOUS
  <2> HIDE DEF file, library
  <2>3. QED
    BY <2>1, <2>2
<1>2. ASSUME NEW n \in 1..Len(s) PROVE library[n] \in StackFramesSet
  <2>1. s[n] \in LibraryFunctions
    OBVIOUS
  <2>2. s[n].symbol \in Symbols /\ s[n].algorithm \in Algorithms \union {"none"}
    BY <2>1, LibrarySymbols, LibraryAlgorithms
  <2>3. s[n].symbol.namespace # ""
    BY <2>1, LibraryNamespaces
  <2>4. QED
    BY <1>1, <2>2, <2>3, FrameTyped
<1>3. library \in [1..Len(s) -> StackFramesSet]
  <2>1. DOMAIN s = 1..Len(s)
    OBVIOUS
  <2>2. QED
    BY <1>2, <2>1
<1>4. Len(s) \in Nat
  OBVIOUS
<1> HIDE DEF library
<1>5. library \in Seq(StackFramesSet) /\ Len(library) = Len(s)
  BY <1>3, <1>4, FunctionOfPositions
<1>6. callers \in Seq(StackFramesSet)
  <2>1. \A n \in 1..Len(callers) : callers[n] \in StackFramesSet
    BY CallerFrameTyped
  <2>2. callers \in [1..Len(callers) -> StackFramesSet] /\ Len(callers) \in Nat
    BY <2>1
  <2>3. QED
    BY <2>2, FunctionOfPositions
<1>7. FramesOf(s) = library \o callers
  BY DEF FramesOf, library
<1>8. /\ library \o callers \in Seq(StackFramesSet) /\ Len(library \o callers) = Len(s) + Len(callers)
      /\ \A n \in 1..Len(s) : (library \o callers)[n] = library[n]
      /\ \A n \in 1..Len(callers) : (library \o callers)[Len(s) + n] = callers[n]
  BY <1>5, <1>6
<1>9. QED
  BY <1>1, <1>7, <1>8

(* A stack of the call being made.                                         *)
LEMMA CallStack ==
  ASSUME joined \in BOOLEAN, call \in Calls, NEW i \in 1..Len(call.stacks)
  PROVE  /\ call.stacks[i] \in Seq(LibraryFunctions) /\ Len(call.stacks[i]) \in 1..4
         /\ Head(call.stacks[i]) = call.stacks[i][1] /\ call.stacks[i][1] \in LibraryFunctions
         /\ FirstSink(call) \in Nat /\ Len(call.stacks) \in Nat
         /\ call.uses \in Seq(Algorithms) /\ Len(call.uses) = Len(call.stacks) - FirstSink(call)
         /\ Head(call.stacks[i]).injected # <<>> <=> i > FirstSink(call)
         /\ i > FirstSink(call) => SinkStack(call.stacks[i], call.uses[i - FirstSink(call)])
<1>1. WellFormedCall(call)
  BY EveryCall
<1>2. /\ call.stacks \in Seq(Seq(LibraryFunctions)) /\ call.uses \in Seq(Algorithms) /\ FirstSink(call) \in Nat
      /\ Len(call.stacks[i]) \in 1..4
      /\ i <= FirstSink(call) => call.stacks[i][1].injected = <<>>
      /\ i > FirstSink(call) => SinkStack(call.stacks[i], call.uses[i - FirstSink(call)])
  BY <1>1 DEF WellFormedCall
<1>3. call.stacks[i] \in Seq(LibraryFunctions)
  BY <1>2
<1>4. Head(call.stacks[i]) = call.stacks[i][1] /\ call.stacks[i][1] \in LibraryFunctions
  <2> DEFINE s == call.stacks[i]
  <2>1. s \in Seq(LibraryFunctions) /\ Len(s) \in 1..4
    BY <1>2, <1>3
  <2> HIDE DEF s
  <2>2. Head(s) = s[1] /\ s[1] \in LibraryFunctions
    BY <2>1
  <2>3. QED
    BY <2>2 DEF s
<1>5. Len(call.stacks) \in Nat /\ Len(call.uses) \in Nat /\ Len(call.uses) = Len(call.stacks) - FirstSink(call)
  BY <1>2 DEF FirstSink
<1>6. i > FirstSink(call) => call.stacks[i][1].injected # <<>>
  BY <1>2 DEF SinkStack
<1>7. i > FirstSink(call) \/ i <= FirstSink(call)
  BY <1>2
<1>8. QED
  BY <1>2, <1>3, <1>4, <1>5, <1>6, <1>7

(* At a sink the listed frames are those of the library's construction.    *)
LEMMA SinkSkips ==
  ASSUME joined \in BOOLEAN, callers \in Seq(CallerFrames), NEW s \in Seq(LibraryFunctions), Len(s) \in 1..4,
         NEW algorithm \in Algorithms, SinkStack(s, algorithm),
         NEW n \in 1..Len(FramesOf(s))
  PROVE  LET list == SkipList(s[1].injected[1])
         IN  (\E i \in DOMAIN list : Matches(list[i], FramesOf(s)[n])) <=> FramesOf(s)[n].algorithm = algorithm
<1> DEFINE report == s[1].injected[1]
           list == SkipList(report)
           frame == FramesOf(s)[n]
<1>1. (\E i \in DOMAIN list : Matches(list[i], frame)) <=> \E x \in Listed(report) : Matches(x, frame)
  BY DEF Listed, Range
<1>2. CASE n \in 1..Len(s)
  <2>1. PICK file \in {"source", Generated} : frame = Frame(s[n].symbol, s[n].algorithm, file, FALSE)
    BY <1>2, FramesOfStack
  <2> DEFINE f == s[n]
  <2>2. frame = Frame(f.symbol, f.algorithm, file, FALSE)
    BY <2>1
  <2> HIDE DEF frame, f, report
  <2>3. frame.algorithm = f.algorithm
    BY <2>2 DEF Frame
  <2>4. (\E x \in Listed(report) : Matches(x, frame)) <=> Covers(report, f)
    BY <2>2, CoversAnyFrame
  <2> USE DEF frame, f, report
  <2>5. Covers(report, s[n]) <=> s[n].algorithm = algorithm
    BY <1>2 DEF SinkStack
  <2>6. QED
    BY <1>1, <2>3, <2>4, <2>5
<1>3. CASE n \notin 1..Len(s)
  <2>1. Len(FramesOf(s)) = Len(s) + Len(callers) /\ Len(s) \in Nat /\ Len(callers) \in Nat
    <3>1. Len(FramesOf(s)) = Len(s) + Len(callers)
      BY FramesOfStack
    <3>2. QED
      BY <3>1
  <2>2. n - Len(s) \in 1..Len(callers) /\ n = Len(s) + (n - Len(s))
    BY <1>3, <2>1
  <2>3. frame = callers[n - Len(s)]
    BY <2>2, FramesOfStack
  <2>4. callers[n - Len(s)] \in CallerFrames
    BY <2>2
  <2>5. frame.namespace = "app" /\ frame.algorithm = "none"
    BY <2>3, <2>4, CallerFrameTyped
  <2>6. s[1] \in LibraryFunctions /\ s[1].injected # <<>>
    BY DEF SinkStack
  <2>7. Listed(report) \in SUBSET Symbols
    BY <2>6, LibrarySymbols
  <2>8. \A x \in Symbols : x.namespace # "app"
    BY DEF Symbols, Namespaces, DESPackage, RC4Package, BlowfishPackage, RC2Package, PKCS12Package
  <2>9. \A x \in Listed(report) : ~Matches(x, frame)
    BY <2>5, <2>7, <2>8, MatchesNamespace
  <2>10. frame.algorithm # algorithm
    BY <2>5, AlgorithmsAreNames
  <2>11. QED
    BY <1>1, <2>9, <2>10
<1>4. QED
  BY <1>2, <1>3

(***************************************************************************)
(* The steps of the library                                                *)
(***************************************************************************)

(* What the invariant says of the libraries' part when a function is       *)
(* entered without a report: nothing of the search moves.                  *)
LEMMA InitSinksInv ==
  Init => SinksInv
<1> SUFFICES ASSUME Init PROVE SinksInv
  OBVIOUS
<1> USE DEF Init
<1>1. InputsOK
  <2>1. callers \in Seq(CallerFrames) /\ Len(callers) \in 1..MaxCallers
    <3>1. PICK m \in 0..MaxCallers : callers \in [1..m -> CallerFrames]
      BY DEF BoundedSeq, SeqOf
    <3>2. callers \in Seq(CallerFrames) /\ Len(callers) = m
      BY <3>1, FunctionOfPositions
    <3>3. m # 0
      BY <3>2
    <3>4. QED
      BY <3>2, <3>3
  <2>2. Len(call.stacks) \in Nat
    <3>1. WellFormedCall(call)
      BY EveryCall
    <3>2. QED
      BY <3>1 DEF WellFormedCall
  <2>3. stack \in Seq(StackFramesSet) /\ Len(stack) <= MaxCallers + 4
    BY SinksAssumption
  <2>4. QED
    BY <2>1, <2>2, <2>3 DEF InputsOK
<1>2. TraceOfTheStack
  <2>1. Len(stack) = 0 /\ Len(trace) = 0 /\ trace \in Seq(CapturedFrame)
    OBVIOUS
  <2>2. 0 \in 0..MaxLocationRecaptureAttempts
    BY LocationAssumption
  <2>3. QED
    BY <2>1, <2>2 DEF TraceOfTheStack
<1>3. ReportsOfTheUses
  <2>1. FirstSink(call) \in Nat
    <3>1. WellFormedCall(call)
      BY EveryCall
    <3>2. QED
      BY <3>1 DEF WellFormedCall
  <2>2. Reports <= 0
    BY <2>1 DEF Reports
  <2>3. reports \in Seq(ReportSet) /\ Len(reports) = 0
    OBVIOUS
  <2>4. QED
    BY <2>2, <2>3 DEF ReportsOfTheUses
<1>4. SkipsTheConstruction /\ CallerAhead /\ LocatedAtTheCaller /\ LocationNamesTheCaller
  BY DEF SkipsTheConstruction, CallerAhead, LocatedAtTheCaller, LocationNamesTheCaller
<1>5. QED
  BY <1>1, <1>2, <1>3, <1>4 DEF SinksInv

(* The sinks of a call are as many as its uses.                            *)
LEMMA CallBounds ==
  ASSUME InputsOK
  PROVE  FirstSink(call) \in Nat /\ Len(call.stacks) \in Nat /\ Len(call.uses) = Len(call.stacks) - FirstSink(call)
         /\ call.uses \in Seq(Algorithms) /\ entered \in Nat
<1>1. WellFormedCall(call)
  BY EveryCall DEF InputsOK
<1>2. call.stacks \in Seq(Seq(LibraryFunctions)) /\ call.uses \in Seq(Algorithms) /\ FirstSink(call) \in Nat
  BY <1>1 DEF WellFormedCall
<1>3. QED
  BY <1>2 DEF FirstSink, InputsOK

(* A function without a report, or whose report IAST does not take.        *)
LEMMA EnterWithoutReport ==
  ASSUME SinksInv, EnterOther \/ EnterDisabledSink
  PROVE  SinksInv'
<1> USE DEF SinksInv
<1>1. /\ pc = "library" /\ entered < Len(call.stacks) /\ entered' = entered + 1
      /\ UNCHANGED <<stack, skipFrames, stackTraceEnabled, captures, pc, trace, rawFramesSkipped, attempts>>
      /\ UNCHANGED <<tool, joined, enabled, callers, call, reports>>
  BY DEF EnterOther, EnterDisabledSink, vars
<1>2. /\ FirstSink(call) \in Nat /\ Len(call.stacks) \in Nat /\ entered \in Nat /\ entered + 1 \in 1..Len(call.stacks)
  BY <1>1, CallBounds
<1>3. InputsOK'
  BY <1>1, <1>2 DEF InputsOK, CallerFrames, CallerFrame
<1>4. SkipsTheConstruction' /\ CallerAhead' /\ LocatedAtTheCaller'
  BY <1>1 DEF SkipsTheConstruction, CallerAhead, LocatedAtTheCaller
<1>5. TraceOfTheStack'
  BY <1>1 DEF TraceOfTheStack, ShouldSkip
<1>6. LocationNamesTheCaller'
  BY <1>1 DEF LocationNamesTheCaller
<1>7. ReportsOfTheUses'
  <2>1. enabled => entered + 1 <= FirstSink(call)
    <3>1. Head(Entered).injected # <<>> <=> entered + 1 > FirstSink(call)
      BY <1>2, CallStack DEF InputsOK, Entered
    <3>2. enabled => Head(Entered).injected = <<>>
      BY DEF EnterOther, EnterDisabledSink
    <3>3. QED
      BY <1>2, <3>1, <3>2
  <2>2. enabled => Reports <= 0 /\ Reports' <= 0
    <3>1. Reports = entered - FirstSink(call)
      BY <1>1 DEF Reports
    <3>2. Reports' = entered + 1 - FirstSink(call)
      <4>1. FirstSink(call)' = FirstSink(call)
        BY <1>1 DEF FirstSink
      <4>2. QED
        BY <1>1, <1>2, <4>1 DEF Reports
    <3>3. QED
      BY <1>2, <2>1, <3>1, <3>2
  <2>3. QED
    BY <1>1, <2>2 DEF ReportsOfTheUses
<1>8. QED
  BY <1>3, <1>4, <1>5, <1>6, <1>7

(* A sink is entered, and the stack captured: the trace shows the first    *)
(* candidate if it is in reach.                                            *)
LEMMA EnterSinkStep ==
  ASSUME SinksInv, EnterSink
  PROVE  SinksInv'
<1> USE DEF SinksInv
<1> DEFINE s == call.stacks[entered + 1]
           report == s[1].injected[1]
           frames == FramesOf(s)
<1>1. /\ joined \in BOOLEAN /\ callers \in Seq(CallerFrames) /\ call \in Calls /\ entered \in Nat
      /\ Len(callers) \in 1..MaxCallers /\ pc = "library" /\ entered < Len(call.stacks) /\ enabled
  BY CallBounds DEF InputsOK, EnterSink
<1>2. FirstSink(call) \in Nat /\ Len(call.stacks) \in Nat /\ entered + 1 \in 1..Len(call.stacks)
  BY <1>1, CallBounds
<1>3. /\ s \in Seq(LibraryFunctions) /\ Len(s) \in 1..4 /\ Head(s) = s[1] /\ s[1] \in LibraryFunctions
      /\ Head(s).injected # <<>> <=> entered + 1 > FirstSink(call)
      /\ entered + 1 > FirstSink(call) => SinkStack(s, call.uses[entered + 1 - FirstSink(call)])
      /\ call.uses \in Seq(Algorithms) /\ Len(call.uses) = Len(call.stacks) - FirstSink(call)
  BY <1>1, <1>2, CallStack
<1>4. /\ stack' = frames /\ skipFrames' = SkipList(report) /\ pc' = "skip"
      /\ trace' = IF stackTraceEnabled THEN Capture(frames) ELSE CaptureLeaf(frames, 0)
      /\ rawFramesSkipped' = 0 /\ attempts' = 0 /\ entered' = entered + 1
      /\ UNCHANGED <<stackTraceEnabled, captures, tool, joined, enabled, callers, call, reports>>
      /\ s[1].injected # <<>>
  BY <1>3 DEF EnterSink, Begin, Entered
<1>5. entered + 1 > FirstSink(call) /\ SinkStack(s, call.uses[entered + 1 - FirstSink(call)])
  BY <1>3, <1>4
<1>6. PICK algorithm \in Algorithms : SinkStack(s, algorithm) /\ s[1].algorithm = algorithm
  <2>1. entered + 1 - FirstSink(call) \in 1..Len(call.uses)
    <3>1. \A e, first, length \in Nat : e < length /\ e + 1 > first => e + 1 - first \in 1..(length - first)
      OBVIOUS
    <3>2. QED
      BY <1>1, <1>2, <1>3, <1>5, <3>1
  <2>2. call.uses[entered + 1 - FirstSink(call)] \in Algorithms
    BY <1>3, <2>1
  <2>3. QED
    BY <1>5, <2>2 DEF SinkStack
<1>7. frames \in Seq(StackFramesSet) /\ Len(frames) = Len(s) + Len(callers)
  BY <1>1, <1>3, FramesOfStack
<1> HIDE DEF s, frames
<1>8. InputsOK'
  <2>1. Len(frames) <= MaxCallers + 4
    <3>1. MaxCallers \in Nat
      BY SinksAssumption
    <3>2. \A a \in 1..4, b \in 1..MaxCallers : a + b <= MaxCallers + 4
      BY <3>1
    <3>3. QED
      BY <1>1, <1>3, <1>7, <3>2
  <2>2. CallerFrames' = CallerFrames /\ Calls' = Calls
    BY <1>4 DEF CallerFrames, CallerFrame
  <2>3. QED
    BY <1>2, <1>4, <1>7, <2>1, <2>2 DEF InputsOK
<1>9. Reported' = algorithm
  BY <1>3, <1>4, <1>6 DEF Reported, s
<1>10. \A n \in 1..Len(frames) : (ShouldSkipLocationFrame(stack[n]))' <=>
                                   frames[n].file = Generated \/ frames[n].algorithm = algorithm
  <2>1. \A n \in 1..Len(frames) :
          (\E i \in DOMAIN SkipList(report) : Matches(SkipList(report)[i], frames[n]))
             <=> frames[n].algorithm = algorithm
    BY <1>1, <1>3, <1>6, SinkSkips DEF frames
  <2>2. QED
    BY <1>4, <2>1 DEF ShouldSkipLocationFrame, IsGeneratedFile
<1>11. SkipsTheConstruction'
  <2>1. FirstSink(call)' = FirstSink(call)
    BY <1>4 DEF FirstSink
  <2>2. QED
    BY <1>1, <1>2, <1>4, <1>5, <1>9, <1>10, <2>1 DEF SkipsTheConstruction
<1>12. TraceOfTheStack'
  <2>1. /\ Captured(frames, 0, trace')
        /\ ~stackTraceEnabled => Len(trace') <= 1
    BY <1>4, <1>7, CaptureShape, CaptureLeafShape
  <2>2. /\ trace' \in Seq(CapturedFrame) /\ Len(trace') \in Nat
        /\ \A n \in 1..Len(trace') : trace'[n].raw \in 1..Len(frames) /\ ~frames[trace'[n].raw].hidden
                                       /\ trace'[n].index = trace'[n].raw - 1
        /\ \A n \in 1..Len(trace') : \A m \in 1..Len(trace') : m < n => trace'[m].raw < trace'[n].raw
    BY <2>1 DEF Captured, Shown
  <2>3. ~stackTraceEnabled /\ trace' # <<>> => Len(trace') = 1
    <3>1. trace' # <<>> => Len(trace') \in Nat \ {0}
      BY <2>2, EmptySeq
    <3>2. \A length \in Nat \ {0} : length <= 1 => length = 1
      OBVIOUS
    <3>3. QED
      BY <2>1, <3>1, <3>2, Zenon
  <2>4. 0 \in 0..Len(frames) /\ 0 \in 0..MaxLocationRecaptureAttempts
    BY <1>7, LocationAssumption
  <2>5. \A n \in 1..Len(trace') : trace'[n].index < trace'[n].raw /\ 0 < trace'[n].raw
    BY <2>2
  <2>6. QED
    BY <1>4, <2>2, <2>3, <2>4, <2>5 DEF TraceOfTheStack
<1>13. ReportsOfTheUses'
  <2>1. FirstSink(call)' = FirstSink(call)
    BY <1>4 DEF FirstSink
  <2>2. Reports = entered - FirstSink(call) /\ Reports' = entered + 1 - FirstSink(call) - 1
    BY <1>1, <1>2, <1>4, <2>1 DEF Reports
  <2>3. Reports' = Reports
    BY <1>1, <1>2, <2>2
  <2>4. QED
    BY <1>4, <2>3 DEF ReportsOfTheUses
<1>14. CallerAhead'
  <2> SUFFICES ASSUME InReach', Candidates' # {}
               PROVE  IF stackTraceEnabled
                        THEN \E n \in 1..Len(trace') :
                               trace'[n].raw \in Candidates' /\ \A c \in Candidates' : trace'[n].raw <= c
                        ELSE /\ \A c \in Candidates' : 0 < c
                             /\ trace' # <<>> => \A i \in Shown(frames, 0) : trace'[1].raw <= i
                             /\ trace' # <<>>
    BY <1>4 DEF CallerAhead
  <2>1. Candidates' = {n \in DOMAIN frames : ~frames[n].hidden /\ frames[n].file # Generated
                                               /\ frames[n].algorithm # algorithm}
    BY <1>4, <1>9 DEF Candidates
  <2>2. Candidates' \in SUBSET Shown(frames, 0) /\ \A c \in Candidates' : 0 < c
    BY <1>7, <2>1 DEF Shown
  <2>3. captures /\ (stackTraceEnabled =>
          Leading(frames, Candidates') < TraceDepth - TopFrames \/ Len(Visible(frames, 0)) <= TraceDepth)
    BY <1>4 DEF InReach, LeadingSkips, Leading
  <2> DEFINE C == Candidates'
  <2> HIDE DEF C
  <2>4. /\ Leading(frames, C) < TraceDepth - TopFrames \/ Len(Visible(frames, 0)) <= TraceDepth =>
              \E n \in 1..Len(Capture(frames)) :
                 Capture(frames)[n].raw \in C /\ \A c \in C : Capture(frames)[n].raw <= c
        /\ CaptureLeaf(frames, 0) # <<>>
    BY <1>7, <2>2, <2>3, CaptureReaches DEF C
  <2>5. CaptureLeaf(frames, 0) # <<>> => \A i \in Shown(frames, 0) : CaptureLeaf(frames, 0)[1].raw <= i
    BY <1>7, CaptureLeafShape
  <2>6. QED
    BY <1>4, <2>2, <2>3, <2>4, <2>5 DEF C
<1>15. LocatedAtTheCaller' /\ LocationNamesTheCaller'
  BY <1>4 DEF LocatedAtTheCaller, LocationNamesTheCaller
<1>16. QED
  BY <1>8, <1>11, <1>12, <1>13, <1>14, <1>15

(***************************************************************************)
(* The search for a location                                               *)
(***************************************************************************)

(* The frames to skip are those that are not candidates.                   *)
LEMMA CandidateFrames ==
  ASSUME InputsOK, SkipsTheConstruction, pc # "library"
  PROVE  /\ Candidates \in SUBSET Shown(stack, 0) /\ Shown(stack, 0) \in SUBSET (1..Len(stack))
         /\ \A n \in 1..Len(stack) : ~stack[n].hidden =>
              (n \in Candidates <=> ~ShouldSkipLocationFrame(stack[n])) /\ n \in Shown(stack, 0)
BY DEF InputsOK, SkipsTheConstruction, Candidates, Shown

(* What the search leaves alone.                                           *)
LEMMA SearchFrame ==
  ASSUME SinksInv, pc # "library", pc' # "library", UNCHANGED inputs, UNCHANGED sinkVars
  PROVE  /\ InputsOK' /\ SkipsTheConstruction' /\ ReportsOfTheUses' /\ LocationNamesTheCaller'
         /\ Candidates' = Candidates /\ InReach' = InReach
         /\ \A captured : ShouldSkip(captured)' = ShouldSkip(captured)
<1> USE DEF SinksInv
<1>1. /\ UNCHANGED <<stack, skipFrames, stackTraceEnabled, captures>>
      /\ UNCHANGED <<tool, joined, enabled, callers, call, entered, reports>>
  BY DEF inputs, sinkVars
<1>2. InputsOK'
  BY <1>1 DEF InputsOK, CallerFrames, CallerFrame
<1>3. SkipsTheConstruction'
  BY <1>1 DEF SkipsTheConstruction, ShouldSkipLocationFrame, Reported, FirstSink
<1>4. ReportsOfTheUses'
  <2>1. Reports' = Reports
    BY <1>1 DEF Reports, FirstSink
  <2>2. QED
    BY <1>1, <2>1 DEF ReportsOfTheUses
<1>5. LocationNamesTheCaller'
  BY DEF LocationNamesTheCaller
<1>6. Candidates' = Candidates /\ InReach' = InReach
  BY <1>1 DEF Candidates, Reported, InReach, LeadingSkips
<1>7. \A captured : ShouldSkip(captured)' = ShouldSkip(captured)
  BY <1>1 DEF ShouldSkip, ShouldSkipLocationFrame
<1>8. QED
  BY <1>2, <1>3, <1>4, <1>5, <1>6, <1>7

(* A leading frame of the trace is skipped: the frames that remain are     *)
(* beyond it, and no candidate is lost with it.                            *)
LEMMA SkipLeadingStep ==
  ASSUME SinksInv, SkipLeading, UNCHANGED sinkVars
  PROVE  SinksInv'
<1> USE DEF SinksInv
<1> DEFINE leaf == trace[1]
<1>1. /\ pc = "skip" /\ trace # <<>> /\ ShouldSkip(Head(trace)) /\ rawFramesSkipped' = Head(trace).index + 1
      /\ trace' = Tail(trace) /\ UNCHANGED inputs /\ pc' = pc /\ attempts' = attempts
      /\ stack' = stack /\ stackTraceEnabled' = stackTraceEnabled
  BY DEF SkipLeading, inputs
<1>2. /\ InputsOK' /\ SkipsTheConstruction' /\ ReportsOfTheUses' /\ LocationNamesTheCaller'
      /\ Candidates' = Candidates /\ InReach' = InReach
  BY <1>1, SearchFrame
<1>3. /\ Len(trace) \in Nat \ {0} /\ Head(trace) = leaf /\ leaf \in CapturedFrame
      /\ trace' \in Seq(CapturedFrame) /\ Len(trace') = Len(trace) - 1
      /\ \A n \in 1..Len(trace') : trace'[n] = trace[n + 1] /\ n + 1 \in 1..Len(trace)
  <2>1. trace \in Seq(CapturedFrame)
    BY DEF TraceOfTheStack
  <2>2. QED
    BY <1>1, <2>1, HeadAndTail
<1>4. /\ stack \in Seq(StackFramesSet) /\ Len(stack) \in Nat
      /\ leaf.raw \in 1..Len(stack) /\ ~stack[leaf.raw].hidden /\ rawFramesSkipped' = leaf.raw
  <2>1. stack \in Seq(StackFramesSet) /\ Len(stack) \in Nat
    BY DEF InputsOK
  <2>2. leaf.raw \in 1..Len(stack) /\ ~stack[leaf.raw].hidden /\ leaf.index = leaf.raw - 1
    BY <1>1, <1>3 DEF TraceOfTheStack
  <2>3. QED
    BY <1>1, <1>3, <2>1, <2>2
<1>5. leaf.raw \notin Candidates
  BY <1>1, <1>3, <1>4, CandidateFrames DEF ShouldSkip
<1>6. TraceOfTheStack'
  <2>1. /\ \A n \in 1..Len(trace) :
             /\ trace[n].raw \in 1..Len(stack) /\ ~stack[trace[n].raw].hidden
             /\ trace[n].index < trace[n].raw /\ trace[n].index = trace[n].raw - 1
        /\ \A n \in 1..Len(trace) : \A m \in 1..Len(trace) : m < n => trace[m].raw < trace[n].raw
        /\ attempts = 0 /\ 0 \in 0..MaxLocationRecaptureAttempts
        /\ ~stackTraceEnabled => Len(trace) = 1
    BY <1>1, LocationAssumption DEF TraceOfTheStack
  <2>2. ASSUME NEW n \in 1..Len(trace')
        PROVE  /\ trace'[n].raw \in 1..Len(stack) /\ ~stack[trace'[n].raw].hidden
               /\ trace'[n].index < trace'[n].raw /\ trace'[n].index = trace'[n].raw - 1 /\ leaf.raw < trace'[n].raw
    <3>1. n + 1 \in 1..Len(trace) /\ trace'[n] = trace[n + 1] /\ 1 \in 1..Len(trace) /\ 1 < n + 1
      BY <1>3
    <3>2. QED
      BY <2>1, <3>1
  <2>3. ASSUME NEW n \in 1..Len(trace'), NEW m \in 1..Len(trace'), m < n
        PROVE  trace'[m].raw < trace'[n].raw
    <3>1. n + 1 \in 1..Len(trace) /\ m + 1 \in 1..Len(trace) /\ m + 1 < n + 1
      BY <1>3, <2>3
    <3>2. trace'[n] = trace[n + 1] /\ trace'[m] = trace[m + 1]
      BY <1>3
    <3>3. QED
      BY <2>1, <3>1, <3>2
  <2>4. ~stackTraceEnabled => trace' = <<>>
    <3>1. Len(trace) = 1 => trace' = <<>>
      BY <1>3, EmptySeq
    <3>2. QED
      BY <2>1, <3>1
  <2>5. rawFramesSkipped' \in 0..Len(stack)
    BY <1>4
  <2>6. QED
    BY <1>1, <1>3, <1>4, <2>1, <2>2, <2>3, <2>4, <2>5 DEF TraceOfTheStack
<1>7. CallerAhead'
  <2> SUFFICES ASSUME InReach, Candidates # {}
               PROVE  IF stackTraceEnabled
                        THEN \E n \in 1..Len(trace') :
                               trace'[n].raw \in Candidates /\ \A c \in Candidates : trace'[n].raw <= c
                        ELSE /\ \A c \in Candidates : leaf.raw < c
                             /\ trace' = <<>>
                             /\ Cardinality({n \in 1..Len(stack) : ~stack[n].hidden /\ n <= leaf.raw}) > attempts
    BY <1>1, <1>2, <1>4 DEF CallerAhead
  <2>1. ASSUME stackTraceEnabled
        PROVE  \E n \in 1..Len(trace') :
                 trace'[n].raw \in Candidates /\ \A c \in Candidates : trace'[n].raw <= c
    <3>1. PICK n \in 1..Len(trace) : trace[n].raw \in Candidates /\ \A c \in Candidates : trace[n].raw <= c
      BY <1>1, <2>1 DEF CallerAhead
    <3>2. n # 1
      BY <1>5, <3>1
    <3>3. n - 1 \in 1..Len(trace') /\ n = (n - 1) + 1
      BY <1>3, <3>2
    <3>4. trace'[n - 1] = trace[n]
      BY <1>3, <3>3
    <3>5. QED
      BY <3>1, <3>3, <3>4
  <2>2. ASSUME ~stackTraceEnabled
        PROVE  /\ \A c \in Candidates : leaf.raw < c
               /\ trace' = <<>>
               /\ Cardinality({n \in 1..Len(stack) : ~stack[n].hidden /\ n <= leaf.raw}) > attempts
    <3>1. \A i \in Shown(stack, 0) : leaf.raw <= i
      BY <1>1, <2>2 DEF CallerAhead
    <3>2. Candidates \in SUBSET Shown(stack, 0) /\ Shown(stack, 0) \in SUBSET (1..Len(stack))
      BY <1>1, CandidateFrames
    <3>3. \A c \in Candidates : leaf.raw < c
      BY <1>4, <1>5, <3>1, <3>2
    <3>4. trace' = <<>>
      <4>1. Len(trace) = 1
        BY <1>1, <2>2 DEF TraceOfTheStack
      <4>2. QED
        BY <1>3, <4>1, EmptySeq
    <3>5. attempts = 0
      BY <1>1 DEF TraceOfTheStack
    <3>6. leaf.raw \in {n \in 1..Len(stack) : ~stack[n].hidden /\ n <= leaf.raw}
      BY <1>4
    <3>7. Cardinality({n \in 1..Len(stack) : ~stack[n].hidden /\ n <= leaf.raw}) > 0
      <4>1. leaf.raw \in Nat
        BY <1>4
      <4>2. QED
        BY <1>4, <3>6, <4>1, ShownUpTo
    <3>8. QED
      BY <3>3, <3>4, <3>5, <3>7
  <2>3. QED
    BY <2>1, <2>2
<1>8. LocatedAtTheCaller'
  BY <1>1 DEF LocatedAtTheCaller
<1>9. QED
  BY <1>2, <1>6, <1>7, <1>8

(* The trace is kept from the first frame that is not skipped, which is    *)
(* the first candidate.                                                    *)
LEMMA KeepTraceStep ==
  ASSUME SinksInv, KeepTrace, UNCHANGED sinkVars
  PROVE  SinksInv'
<1> USE DEF SinksInv
<1>1. /\ pc = "skip" /\ trace # <<>> /\ ~ShouldSkip(Head(trace)) /\ pc' = "done"
      /\ trace' = IF stackTraceEnabled /\ rawFramesSkipped > 0 THEN ShiftIndices(trace) ELSE trace
      /\ UNCHANGED inputs /\ rawFramesSkipped' = rawFramesSkipped /\ attempts' = attempts
      /\ stack' = stack /\ stackTraceEnabled' = stackTraceEnabled
  BY DEF KeepTrace, inputs
<1>2. /\ InputsOK' /\ SkipsTheConstruction' /\ ReportsOfTheUses' /\ LocationNamesTheCaller'
      /\ Candidates' = Candidates /\ InReach' = InReach
      /\ \A captured : ShouldSkip(captured)' = ShouldSkip(captured)
  BY <1>1, SearchFrame
<1>3. /\ trace \in Seq(CapturedFrame) /\ Len(trace) \in Nat \ {0} /\ Head(trace) = trace[1]
      /\ trace[1] \in CapturedFrame
  <2>1. trace \in Seq(CapturedFrame)
    BY DEF TraceOfTheStack
  <2>2. QED
    BY <1>1, <2>1, HeadAndTail
<1>4. Len(stack) \in Nat /\ Len(stack) <= Uint32
  <2>1. Len(stack) \in Nat /\ Len(stack) <= MaxCallers + 4
    BY DEF InputsOK
  <2>2. QED
    BY <2>1, SinksAssumption, LocationAssumption
<1>5. /\ \A n \in 1..Len(trace) :
           /\ trace[n].raw \in 1..Len(stack) /\ ~stack[trace[n].raw].hidden
           /\ trace[n].index = trace[n].raw - 1 /\ rawFramesSkipped < trace[n].raw
      /\ \A n \in 1..Len(trace) : \A m \in 1..Len(trace) : m < n => trace[m].raw < trace[n].raw
      /\ rawFramesSkipped \in 0..Len(stack) /\ rawFramesSkipped \in Nat
      /\ attempts \in 0..MaxLocationRecaptureAttempts
  BY <1>1, <1>4 DEF TraceOfTheStack
<1>6. /\ ShiftIndices(trace) \in Seq(CapturedFrame) /\ Len(ShiftIndices(trace)) = Len(trace)
      /\ \A n \in 1..Len(trace) : /\ ShiftIndices(trace)[n].raw = trace[n].raw
                                  /\ ShiftIndices(trace)[n].index = trace[n].raw - rawFramesSkipped - 1
  <2>1. \A n \in 1..Len(trace) : trace[n].index = trace[n].raw - 1 /\ rawFramesSkipped < trace[n].raw
                                   /\ trace[n].raw <= Uint32
    <3>1. \A raw \in 1..Len(stack) : raw <= Uint32
      BY <1>4, LocationAssumption
    <3>2. QED
      BY <1>5, <3>1
  <2>2. QED
    BY <1>3, <1>5, <2>1, ShiftedFrames
<1>7. (stackTraceEnabled /\ rawFramesSkipped > 0) \/ rawFramesSkipped = 0
  <2>1. ~stackTraceEnabled => rawFramesSkipped = 0
    BY <1>1 DEF TraceOfTheStack
  <2>2. rawFramesSkipped > 0 \/ rawFramesSkipped = 0
    BY <1>5
  <2>3. QED
    BY <2>1, <2>2
<1>8. /\ trace' \in Seq(CapturedFrame) /\ Len(trace') = Len(trace)
      /\ \A n \in 1..Len(trace) : /\ trace'[n].raw = trace[n].raw
                                  /\ trace'[n].index = trace[n].raw - rawFramesSkipped - 1
  <2>1. CASE stackTraceEnabled /\ rawFramesSkipped > 0
    BY <1>1, <1>6, <2>1
  <2>2. CASE rawFramesSkipped = 0
    <3>1. trace' = trace
      BY <1>1, <2>2
    <3>2. \A n \in 1..Len(trace) : trace[n].index = trace[n].raw - rawFramesSkipped - 1
      BY <1>5, <2>2
    <3>3. QED
      BY <1>3, <3>1, <3>2
  <2>3. QED
    BY <1>7, <2>1, <2>2
<1>9. trace' # <<>> /\ trace'[1].raw = trace[1].raw /\ trace[1].raw \in 1..Len(stack)
  <2>1. 1 \in 1..Len(trace) /\ Len(trace') # 0
    BY <1>3, <1>8
  <2>2. QED
    BY <1>5, <1>8, <2>1
<1>10. TraceOfTheStack'
  <2>1. \A n \in 1..Len(trace') : trace'[n].index < trace'[n].raw
    BY <1>5, <1>8
  <2>2. ~ShouldSkip(trace[1])'
    <3>1. ~ShouldSkipLocationFrame(stack[trace[1].raw])
      BY <1>1, <1>3 DEF ShouldSkip
    <3>2. skipFrames' = skipFrames /\ stack' = stack
      BY <1>1 DEF inputs
    <3>3. QED
      BY <1>9, <3>1, <3>2 DEF ShouldSkip, ShouldSkipLocationFrame
  <2>3. QED
    BY <1>1, <1>5, <1>8, <2>1, <2>2 DEF TraceOfTheStack
<1>11. CallerAhead'
  BY <1>1 DEF CallerAhead
<1>12. LocatedAtTheCaller'
  <2>1. trace[1].raw \in Candidates
    <3>1. ~stack[trace[1].raw].hidden
      BY <1>3, <1>5
    <3>2. QED
      BY <1>1, <1>3, <1>9, <3>1, CandidateFrames DEF ShouldSkip
  <2>2. ASSUME InReach, Candidates # {} PROVE \A c \in Candidates : trace[1].raw <= c
    <3>1. Candidates \in SUBSET Shown(stack, 0) /\ Shown(stack, 0) \in SUBSET (1..Len(stack))
      BY <1>1, CandidateFrames
    <3>2. CASE stackTraceEnabled
      <4>1. PICK n \in 1..Len(trace) : \A c \in Candidates : trace[n].raw <= c
        BY <1>1, <2>2, <3>2 DEF CallerAhead
      <4>2. trace[1].raw <= trace[n].raw
        <5>1. 1 \in 1..Len(trace) /\ (n = 1 \/ 1 < n)
          BY <1>3
        <5>2. trace[1].raw \in Nat /\ trace[n].raw \in Nat
          BY <1>5, <5>1
        <5>3. QED
          BY <1>5, <5>1, <5>2
      <4>3. trace[1].raw \in Nat /\ trace[n].raw \in Nat /\ Candidates \in SUBSET Nat
        BY <1>5, <1>9, <3>1
      <4>4. QED
        BY <4>1, <4>2, <4>3
    <3>3. CASE ~stackTraceEnabled
      BY <1>1, <2>2, <3>1, <3>3 DEF CallerAhead
    <3>4. QED
      BY <3>2, <3>3
  <2>3. QED
    BY <1>1, <1>2, <1>9, <2>1, <2>2 DEF LocatedAtTheCaller
<1>13. QED
  BY <1>2, <1>10, <1>11, <1>12

(* The trace has no frame left: a deep one has none only if the caller was *)
(* out of its reach.                                                       *)
LEMMA TraceExhaustedStep ==
  ASSUME SinksInv, TraceExhausted, UNCHANGED sinkVars
  PROVE  SinksInv'
<1> USE DEF SinksInv
<1>1. /\ pc = "skip" /\ trace = <<>> /\ pc' = "recapture" /\ UNCHANGED inputs /\ trace' = trace
      /\ rawFramesSkipped' = rawFramesSkipped /\ attempts' = attempts
      /\ stack' = stack /\ stackTraceEnabled' = stackTraceEnabled
  BY DEF TraceExhausted, inputs
<1>2. /\ InputsOK' /\ SkipsTheConstruction' /\ ReportsOfTheUses' /\ LocationNamesTheCaller'
      /\ Candidates' = Candidates /\ InReach' = InReach
  BY <1>1, SearchFrame
<1>3. Len(trace) = 0 /\ 1..Len(trace) = {}
  BY <1>1
<1>4. TraceOfTheStack'
  BY <1>1, <1>3 DEF TraceOfTheStack
<1>5. CallerAhead'
  <2> SUFFICES ASSUME InReach, Candidates # {}
               PROVE  /\ ~stackTraceEnabled /\ \A c \in Candidates : rawFramesSkipped < c
                      /\ Cardinality({n \in 1..Len(stack) : ~stack[n].hidden /\ n <= rawFramesSkipped}) > attempts
    BY <1>1, <1>2 DEF CallerAhead
  <2>1. QED
    BY <1>1, <1>3 DEF CallerAhead
<1>6. LocatedAtTheCaller'
  BY <1>1 DEF LocatedAtTheCaller
<1>7. QED
  BY <1>2, <1>4, <1>5, <1>6

(* No attempt is left: the visible frames skipped are more than the        *)
(* attempts, so the caller was out of reach.                               *)
LEMMA GiveUpStep ==
  ASSUME SinksInv, GiveUp, UNCHANGED sinkVars
  PROVE  SinksInv'
<1> USE DEF SinksInv
<1>1. /\ pc = "recapture" /\ attempts = MaxLocationRecaptureAttempts /\ pc' = "done" /\ UNCHANGED inputs
      /\ trace' = trace /\ rawFramesSkipped' = rawFramesSkipped /\ attempts' = attempts /\ stack' = stack
  BY DEF GiveUp, inputs
<1>2. /\ InputsOK' /\ SkipsTheConstruction' /\ ReportsOfTheUses' /\ LocationNamesTheCaller'
      /\ Candidates' = Candidates /\ InReach' = InReach
  BY <1>1, SearchFrame
<1>3. trace = <<>> /\ Len(trace) = 0 /\ 1..Len(trace) = {}
  BY <1>1 DEF TraceOfTheStack
<1>4. TraceOfTheStack'
  BY <1>1, <1>3 DEF TraceOfTheStack
<1>5. CallerAhead'
  BY <1>1 DEF CallerAhead
<1>6. ~(InReach /\ Candidates # {})
  <2> SUFFICES ASSUME InReach, Candidates # {}
               PROVE  FALSE
    OBVIOUS
  <2>1. /\ ~stackTraceEnabled /\ \A c \in Candidates : rawFramesSkipped < c
        /\ Cardinality({n \in 1..Len(stack) : ~stack[n].hidden /\ n <= rawFramesSkipped}) > attempts
    BY <1>1, <1>3 DEF CallerAhead
  <2>2. Candidates \in SUBSET (1..Len(stack))
    BY DEF Candidates, InputsOK
  <2>3. rawFramesSkipped \in Nat
    <3>1. rawFramesSkipped \in 0..Len(stack)
      BY DEF TraceOfTheStack
    <3>2. QED
      BY <3>1
  <2>4. /\ Leading(stack, Candidates) \in Nat
        /\ Cardinality({n \in 1..Len(stack) : ~stack[n].hidden /\ n <= rawFramesSkipped}) \in Nat
        /\ Cardinality({n \in 1..Len(stack) : ~stack[n].hidden /\ n <= rawFramesSkipped})
             <= Leading(stack, Candidates)
    BY <2>1, <2>2, <2>3, LeadingFrames DEF InputsOK
  <2>5. Leading(stack, Candidates) <= MaxLocationRecaptureAttempts
    BY <2>1 DEF InReach, LeadingSkips, Leading
  <2>6. QED
    BY <1>1, <2>1, <2>4, <2>5, LocationAssumption
<1>7. LocatedAtTheCaller'
  BY <1>1, <1>2, <1>3, <1>6 DEF LocatedAtTheCaller
<1>8. QED
  BY <1>2, <1>4, <1>5, <1>7

(* One more frame is captured: it is the next visible one, so each attempt *)
(* skips at least one more of the visible frames.                          *)
LEMMA RecaptureStep ==
  ASSUME SinksInv, Recapture, UNCHANGED sinkVars
  PROVE  SinksInv'
<1> USE DEF SinksInv
<1> DEFINE leaf == CaptureLeaf(stack, rawFramesSkipped)
<1>1. /\ pc = "recapture" /\ attempts < MaxLocationRecaptureAttempts /\ UNCHANGED inputs /\ pc' \in {"recapture", "done"}
      /\ stack' = stack /\ stackTraceEnabled' = stackTraceEnabled /\ skipFrames' = skipFrames
      /\ IF leaf = <<>> \/ ~ShouldSkip(leaf[1])
           THEN trace' = leaf /\ pc' = "done" /\ rawFramesSkipped' = rawFramesSkipped /\ attempts' = attempts
           ELSE rawFramesSkipped' = rawFramesSkipped + leaf[1].index + 1
                  /\ attempts' = attempts + 1 /\ trace' = trace /\ pc' = pc
  BY DEF Recapture, inputs
<1>2. /\ InputsOK' /\ SkipsTheConstruction' /\ ReportsOfTheUses' /\ LocationNamesTheCaller'
      /\ Candidates' = Candidates /\ InReach' = InReach
  BY <1>1, SearchFrame
<1>3. /\ stack \in Seq(StackFramesSet) /\ Len(stack) \in Nat /\ rawFramesSkipped \in Nat
      /\ attempts \in Nat /\ trace = <<>> /\ rawFramesSkipped \in 0..Len(stack)
  <2>1. stack \in Seq(StackFramesSet) /\ Len(stack) \in Nat
    BY DEF InputsOK
  <2>2. rawFramesSkipped \in 0..Len(stack) /\ attempts \in 0..MaxLocationRecaptureAttempts /\ trace = <<>>
    BY <1>1 DEF TraceOfTheStack
  <2>3. QED
    BY <2>1, <2>2, LocationAssumption
<1>4. /\ leaf \in Seq(CapturedFrame) /\ Len(leaf) <= 1 /\ Len(leaf) \in Nat
      /\ captures /\ leaf = <<>> => Shown(stack, rawFramesSkipped) = {}
      /\ leaf # <<>> => /\ Len(leaf) = 1 /\ leaf[1].raw \in Shown(stack, rawFramesSkipped)
                        /\ leaf[1].index = leaf[1].raw - rawFramesSkipped - 1
                        /\ \A i \in Shown(stack, rawFramesSkipped) : leaf[1].raw <= i
  <2>1. /\ Captured(stack, rawFramesSkipped, leaf) /\ Len(leaf) <= 1
        /\ captures /\ leaf = <<>> => Shown(stack, rawFramesSkipped) = {}
        /\ leaf # <<>> => Len(leaf) = 1 /\ \A i \in Shown(stack, rawFramesSkipped) : leaf[1].raw <= i
    BY <1>3, CaptureLeafShape
  <2> HIDE DEF leaf
  <2>2. QED
    BY <2>1 DEF Captured
<1> HIDE DEF leaf
<1>5. leaf # <<>> => /\ leaf[1].raw \in 1..Len(stack) /\ ~stack[leaf[1].raw].hidden
                     /\ rawFramesSkipped < leaf[1].raw /\ rawFramesSkipped + leaf[1].index + 1 = leaf[1].raw
                     /\ leaf[1].raw \in Nat
  <2>1. leaf # <<>> => leaf[1].raw \in (rawFramesSkipped + 1)..Len(stack) /\ ~stack[leaf[1].raw].hidden
    BY <1>4 DEF Shown
  <2>2. QED
    BY <1>3, <1>4, <2>1
<1>6. leaf # <<>> => (leaf[1].raw \in Candidates <=> ~ShouldSkip(leaf[1]))
  BY <1>1, <1>5, CandidateFrames DEF ShouldSkip
<1>7. InReach /\ Candidates # {} =>
        /\ ~stackTraceEnabled /\ captures /\ Candidates \in SUBSET Shown(stack, rawFramesSkipped)
        /\ Cardinality({n \in 1..Len(stack) : ~stack[n].hidden /\ n <= rawFramesSkipped}) > attempts
  <2> SUFFICES ASSUME InReach, Candidates # {}
               PROVE  /\ ~stackTraceEnabled /\ captures /\ Candidates \in SUBSET Shown(stack, rawFramesSkipped)
                      /\ Cardinality({n \in 1..Len(stack) : ~stack[n].hidden /\ n <= rawFramesSkipped}) > attempts
    OBVIOUS
  <2>1. /\ ~stackTraceEnabled /\ \A c \in Candidates : rawFramesSkipped < c
        /\ Cardinality({n \in 1..Len(stack) : ~stack[n].hidden /\ n <= rawFramesSkipped}) > attempts
    BY <1>1, <1>3 DEF CallerAhead
  <2>2. Candidates \in SUBSET Shown(stack, 0)
    BY <1>1, CandidateFrames
  <2>3. Candidates \in SUBSET Shown(stack, rawFramesSkipped)
    BY <1>3, <2>1, <2>2 DEF Shown
  <2>4. QED
    BY <2>1, <2>3 DEF InReach
<1>8. CASE leaf = <<>> \/ ~ShouldSkip(leaf[1])
  <2>1. trace' = leaf /\ pc' = "done" /\ rawFramesSkipped' = rawFramesSkipped /\ attempts' = attempts
    BY <1>1, <1>8
  <2>2. \A n \in 1..Len(leaf) : leaf # <<>> /\ n = 1
    <3>1. \A n \in 1..Len(leaf) : n = 1 /\ Len(leaf) # 0
      BY <1>4
    <3>2. Len(leaf) # 0 => leaf # <<>>
      OBVIOUS
    <3>3. QED
      BY <3>1, <3>2
  <2>3. TraceOfTheStack'
    <3>1. \A n \in 1..Len(leaf) : leaf[n].raw \in 1..Len(stack) /\ ~stack[leaf[n].raw].hidden
                                    /\ leaf[n].index = leaf[n].raw - rawFramesSkipped - 1
      BY <1>4, <1>5, <2>2
    <3>2. \A n \in 1..Len(leaf) : leaf[n].index < leaf[n].raw
      BY <1>3, <3>1
    <3>3. \A n \in 1..Len(leaf) : \A m \in 1..Len(leaf) : ~(m < n)
      BY <1>4
    <3>4. leaf # <<>> => ~ShouldSkip(leaf[1])
      BY <1>8
    <3>5. trace' # <<>> => ~ShouldSkip(trace[1])'
      BY <1>1, <2>1, <3>4 DEF ShouldSkip, ShouldSkipLocationFrame
    <3>6. attempts \in 0..MaxLocationRecaptureAttempts
      BY DEF TraceOfTheStack
    <3>7. QED
      BY <1>1, <1>3, <1>4, <2>1, <3>1, <3>2, <3>3, <3>5, <3>6 DEF TraceOfTheStack
  <2>4. CallerAhead'
    BY <2>1 DEF CallerAhead
  <2>5. LocatedAtTheCaller'
    <3>1. leaf # <<>> => leaf[1].raw \in Candidates
      BY <1>6, <1>8
    <3>2. InReach /\ Candidates # {} => leaf # <<>> /\ \A c \in Candidates : leaf[1].raw <= c
      BY <1>4, <1>7
    <3>3. QED
      BY <1>2, <2>1, <3>1, <3>2 DEF LocatedAtTheCaller
  <2>6. QED
    BY <1>2, <2>3, <2>4, <2>5
<1>9. CASE leaf # <<>> /\ ShouldSkip(leaf[1])
  <2>1. /\ rawFramesSkipped' = leaf[1].raw /\ attempts' = attempts + 1 /\ trace' = <<>> /\ pc' = "recapture"
    BY <1>1, <1>3, <1>5, <1>9
  <2>2. TraceOfTheStack'
    <3>1. leaf[1].raw \in 0..Len(stack) /\ attempts + 1 \in 0..MaxLocationRecaptureAttempts
      BY <1>1, <1>3, <1>5, <1>9, LocationAssumption
    <3>2. Len(<<>>) = 0 /\ <<>> \in Seq(CapturedFrame) /\ 1..Len(<<>>) = {}
      OBVIOUS
    <3>3. QED
      BY <1>1, <2>1, <3>1, <3>2 DEF TraceOfTheStack
  <2>3. CallerAhead'
    <3> SUFFICES ASSUME InReach, Candidates # {}
                 PROVE  /\ ~stackTraceEnabled /\ \A c \in Candidates : leaf[1].raw < c
                        /\ Cardinality({n \in 1..Len(stack) : ~stack[n].hidden /\ n <= leaf[1].raw}) > attempts + 1
      BY <1>1, <1>2, <2>1 DEF CallerAhead
    <3>1. leaf[1].raw \notin Candidates
      BY <1>6, <1>9
    <3>2. \A c \in Candidates : leaf[1].raw < c
      <4>1. Candidates \in SUBSET Nat
        BY <1>3, <1>7 DEF Shown
      <4>2. \A c \in Candidates : leaf[1].raw <= c /\ leaf[1].raw # c
        BY <1>4, <1>7, <1>9, <3>1
      <4>3. QED
        BY <1>5, <1>9, <4>1, <4>2
    <3>3. \A i : {n \in 1..Len(stack) : ~stack[n].hidden /\ n <= i} = UpTo(Shown(stack, 0), i)
      BY DEF UpTo, Shown
    <3>4. Shown(stack, 0) \in SUBSET Nat /\ IsFiniteSet(Shown(stack, 0))
      BY <1>3, ShownFinite
    <3>5. leaf[1].raw \in Shown(stack, 0)
      BY <1>5, <1>9 DEF Shown
    <3>6. Cardinality(UpTo(Shown(stack, 0), rawFramesSkipped)) < Cardinality(UpTo(Shown(stack, 0), leaf[1].raw))
      BY <1>3, <1>5, <1>9, <3>4, <3>5, RankIncreases
    <3>7. /\ Cardinality(UpTo(Shown(stack, 0), rawFramesSkipped)) \in Nat
          /\ Cardinality(UpTo(Shown(stack, 0), leaf[1].raw)) \in Nat
      <4>1. Cardinality(Shown(stack, 0)) \in Nat
        BY <3>4, FS_CardinalityType
      <4>2. \A i : Cardinality(UpTo(Shown(stack, 0), i)) \in 0..Cardinality(Shown(stack, 0))
        BY <3>4, UpToFinite
      <4>3. QED
        BY <4>1, <4>2
    <3>8. Cardinality(UpTo(Shown(stack, 0), rawFramesSkipped)) > attempts
      BY <1>7, <3>3
    <3>9. Cardinality(UpTo(Shown(stack, 0), leaf[1].raw)) > attempts + 1
      BY <1>3, <3>6, <3>7, <3>8
    <3>10. QED
      BY <1>7, <3>2, <3>3, <3>9
  <2>4. LocatedAtTheCaller'
    BY <2>1 DEF LocatedAtTheCaller
  <2>5. QED
    BY <1>2, <2>2, <2>3, <2>4
<1>10. QED
  BY <1>8, <1>9

(***************************************************************************)
(* The report                                                              *)
(***************************************************************************)

(* The location of a frame names it in full.                               *)
LEMMA LocationOfFrame ==
  ASSUME NEW frame \in StackFramesSet
  PROVE  LET location == LocationFromFrame(frame)
         IN  /\ location \in [class : Seq(LocationParts), method : Seq(LocationParts)]
             /\ Words(location.class) \o location.method = <<frame.namespace>> \o frame.class \o frame.function
<1> DEFINE location == LocationFromFrame(frame)
           namespace == frame.namespace
           class == frame.class
           function == frame.function
<1>1. /\ namespace \in LocationParts /\ "(" \in LocationParts /\ ")" \in LocationParts
      /\ class \in Seq(NameParts) /\ function \in Seq(NameParts)
  BY DEF StackFramesSet, LocationParts
<1>2. NameParts \in SUBSET LocationParts /\ "(" \notin NameParts
  BY DEF LocationParts, NameParts, Parts
<1>3. class \in Seq(LocationParts) /\ function \in Seq(LocationParts)
  BY <1>1, <1>2
<1>4. <<namespace>> \in Seq(LocationParts) /\ <<namespace>> \o function \in Seq(LocationParts)
      /\ <<namespace>> \o class \in Seq(LocationParts) /\ <<>> \in Seq(LocationParts)
  BY <1>1, <1>3
<1>5. class # <<>> => Len(class) \in Nat \ {0} /\ class[1] \in NameParts
  BY <1>1, EmptySeq
<1>0. namespace # ""
  BY DEF StackFramesSet
<1> HIDE DEF namespace, class, function
<1>6. CASE class = <<>>
  <2>1. location.class = <<>> /\ location.method = <<namespace>> \o function
    BY <1>0, <1>6 DEF LocationFromFrame, namespace, class, function
  <2>2. location \in [class : Seq(LocationParts), method : Seq(LocationParts)]
    BY <1>0, <1>4, <1>6 DEF LocationFromFrame, namespace, class, function
  <2>3. Words(<<>>) = <<>> /\ <<namespace>> \o class = <<namespace>>
    BY <1>4, <1>6 DEF Words
  <2>4. <<>> \o (<<namespace>> \o function) = <<namespace>> \o function
    BY <1>4, EmptyPrefix
  <2>5. QED
    BY <2>1, <2>2, <2>3, <2>4 DEF namespace, class, function
<1>7. CASE class # <<>> /\ class[1] = "*"
  <2> DEFINE name == <<namespace>> \o (<<"(">> \o class \o <<")">>)
  <2>1. name \in Seq(LocationParts) /\ Len(name) > 1 /\ name[1] = namespace /\ name[2] = "("
        /\ SubSeq(name, 3, Len(name) - 1) = class
    BY <1>1, <1>3, Unwrapped
  <2>2. location.class = name /\ location.method = function /\ location = [class |-> name, method |-> function]
    BY <1>0, <1>7 DEF LocationFromFrame, namespace, class, function
  <2> HIDE DEF name, location
  <2>3. location \in [class : Seq(LocationParts), method : Seq(LocationParts)]
    BY <1>3, <2>1, <2>2
  <2>4. Words(name) = <<namespace>> \o class
    BY <2>1 DEF Words
  <2>5. QED
    BY <2>2, <2>3, <2>4 DEF namespace, class, function, location
<1>8. CASE class # <<>> /\ class[1] # "*"
  <2> DEFINE name == <<namespace>> \o class
  <2>1. name \in Seq(LocationParts) /\ name[2] = class[1]
    BY <1>1, <1>3, <1>5, <1>8
  <2>2. location.class = name /\ location.method = function /\ location = [class |-> name, method |-> function]
    BY <1>0, <1>8 DEF LocationFromFrame, namespace, class, function
  <2> HIDE DEF name, location
  <2>3. location \in [class : Seq(LocationParts), method : Seq(LocationParts)]
    BY <1>3, <2>1, <2>2
  <2>4. Words(name) = name
    BY <1>2, <1>5, <1>8, <2>1 DEF Words
  <2>5. QED
    BY <2>2, <2>3, <2>4 DEF namespace, class, function, location, name
<1>9. QED
  BY <1>6, <1>7, <1>8

(* The chosen frame becomes the location of the report.                    *)
LEMMA LocateStep ==
  ASSUME SinksInv, Locate
  PROVE  SinksInv'
<1> USE DEF SinksInv
<1> DEFINE location == IF trace = <<>> THEN <<>> ELSE <<LocationFromFrame(stack[trace[1].raw])>>
           s == call.stacks[entered]
           report == [name |-> Head(s).injected[1].name, location |-> location]
<1>1. /\ pc = "done" /\ pc' = "library" /\ reports' = Append(reports, report)
      /\ UNCHANGED <<tool, joined, enabled, callers, call, entered>>
      /\ UNCHANGED <<stack, skipFrames, stackTraceEnabled, captures, trace, rawFramesSkipped, attempts>>
  BY DEF Locate
<1>2. SkipsTheConstruction' /\ CallerAhead' /\ LocatedAtTheCaller'
  BY <1>1 DEF SkipsTheConstruction, CallerAhead, LocatedAtTheCaller
<1>3. InputsOK'
  BY <1>1 DEF InputsOK, CallerFrames, CallerFrame
<1>4. TraceOfTheStack'
  BY <1>1 DEF TraceOfTheStack
<1>5. /\ enabled /\ entered \in 1..Len(call.stacks) /\ entered > FirstSink(call) /\ joined \in BOOLEAN /\ call \in Calls
      /\ FirstSink(call) \in Nat /\ entered \in Nat /\ Len(call.stacks) \in Nat
      /\ call.uses \in Seq(Algorithms) /\ Len(call.uses) = Len(call.stacks) - FirstSink(call)
  BY <1>1, CallBounds DEF SkipsTheConstruction, InputsOK
<1> DEFINE n == entered - FirstSink(call)
<1>6. n \in 1..Len(call.uses) /\ n \in Nat \ {0}
  BY <1>5
<1>7. report.name = call.uses[n] /\ report.name \in Algorithms
  <2>1. Head(s) = s[1] /\ SinkStack(s, call.uses[n])
    BY <1>5, CallStack
  <2>2. call.uses[n] \in Algorithms
    BY <1>5, <1>6
  <2>3. report.name = Head(s).injected[1].name
    OBVIOUS
  <2>4. QED
    BY <2>1, <2>2, <2>3 DEF SinkStack
<1>8. trace # <<>> =>
        /\ stack[trace[1].raw] \in StackFramesSet
        /\ location = <<LocationFromFrame(stack[trace[1].raw])>>
  <2>1. ASSUME trace # <<>> PROVE stack[trace[1].raw] \in StackFramesSet
    <3>1. trace \in Seq(CapturedFrame)
      BY DEF TraceOfTheStack
    <3>2. 1 \in 1..Len(trace)
      BY <2>1, <3>1, EmptySeq
    <3>3. trace[1].raw \in 1..Len(stack)
      BY <3>2 DEF TraceOfTheStack
    <3>4. stack \in Seq(StackFramesSet)
      BY DEF InputsOK
    <3>5. QED
      BY <3>3, <3>4
  <2>2. QED
    BY <2>1
<1> DEFINE Location == [class : Seq(LocationParts), method : Seq(LocationParts)]
<1>9. location \in Seq(Location)
  <2>1. \A x \in Location : <<x>> \in Seq(Location)
    <3> HIDE DEF Location
    <3>1. QED
      BY SingleTuple
  <2>2. \A frame \in StackFramesSet : LocationFromFrame(frame) \in Location
    BY LocationOfFrame
  <2>3. CASE trace = <<>>
    <3>1. location = <<>>
      BY <2>3
    <3> HIDE DEF location, Location
    <3>2. QED
      BY <3>1, EmptyTuple
  <2>4. CASE trace # <<>>
    <3> HIDE DEF location, Location
    <3>1. QED
      BY <1>8, <2>1, <2>2, <2>4
  <2>5. QED
    BY <2>3, <2>4
<1>10. report \in ReportSet
  <2> DEFINE name == report.name
  <2>1. name \in Algorithms /\ report = [name |-> name, location |-> location]
    BY <1>7
  <2> HIDE DEF name, report, location
  <2>2. QED
    BY <1>9, <2>1 DEF ReportSet
<1>11. ReportsOfTheUses'
  <2>1. Reports = n - 1 /\ Reports' = n
    BY <1>1, <1>5 DEF Reports, FirstSink
  <2>2. reports \in Seq(ReportSet) /\ Len(reports) = n - 1 /\ \A m \in 1..Len(reports) : reports[m].name = call.uses[m]
    <3>1. /\ reports \in Seq(ReportSet) /\ \A m \in 1..Len(reports) : reports[m].name = call.uses[m]
          /\ IF Reports <= 0 THEN reports = <<>> ELSE Len(reports) = Reports
      BY <1>5 DEF ReportsOfTheUses
    <3>2. n - 1 <= 0 => n - 1 = 0
      BY <1>6
    <3>3. Len(<<>>) = 0
      OBVIOUS
    <3> HIDE DEF n
    <3>4. QED
      BY <2>1, <3>1, <3>2, <3>3
  <2> HIDE DEF n, report
  <2>3. /\ Append(reports, report) \in Seq(ReportSet) /\ Len(Append(reports, report)) = n
        /\ Append(reports, report)[n] = report
        /\ \A m \in 1..Len(reports) : Append(reports, report)[m] = reports[m]
    <3>1. /\ Append(reports, report) \in Seq(ReportSet) /\ Len(Append(reports, report)) = Len(reports) + 1
          /\ Append(reports, report)[Len(reports) + 1] = report
          /\ \A m \in 1..Len(reports) : Append(reports, report)[m] = reports[m]
      BY <1>10, <2>2, AppendOf
    <3>2. Len(reports) + 1 = n
      BY <1>6, <2>2
    <3>3. QED
      BY <3>1, <3>2
  <2>4. \A m \in 1..n : reports'[m].name = call.uses[m]
    <3>1. \A m \in 1..n : m = n \/ m \in 1..Len(reports)
      BY <1>6, <2>2
    <3>2. QED
      BY <1>1, <1>7, <2>2, <2>3, <3>1
  <2>5. ~(n <= 0)
    BY <1>6
  <2>6. QED
    BY <1>1, <1>5, <2>1, <2>3, <2>4, <2>5 DEF ReportsOfTheUses
<1>12. LocationNamesTheCaller'
  <2> SUFFICES ASSUME trace # <<>>
               PROVE  LET frame    == stack[trace[1].raw]
                          found == Last(reports').location[1]
                      IN  Words(found.class) \o found.method = <<frame.namespace>> \o frame.class \o frame.function
    BY <1>1 DEF LocationNamesTheCaller
  <2>1. Last(reports') = report
    <3>1. reports \in Seq(ReportSet)
      BY DEF ReportsOfTheUses
    <3> HIDE DEF report
    <3>2. /\ Append(reports, report)[Len(Append(reports, report))] = report
      BY <1>10, <3>1, AppendOf
    <3>3. QED
      BY <1>1, <3>2 DEF Last
  <2>2. report.location = location
    OBVIOUS
  <2>3. location[1] = LocationFromFrame(stack[trace[1].raw])
    BY <1>8
  <2>4. QED
    BY <1>8, <2>1, <2>2, <2>3, LocationOfFrame
<1>13. QED
  BY <1>2, <1>3, <1>4, <1>11, <1>12

(* Nothing changes.                                                        *)
LEMMA StutteringStep ==
  ASSUME SinksInv, UNCHANGED <<vars, sinkVars>>
  PROVE  SinksInv'
<1> USE DEF SinksInv
<1>1. /\ UNCHANGED <<stack, skipFrames, stackTraceEnabled, captures, pc, trace, rawFramesSkipped, attempts>>
      /\ UNCHANGED <<tool, joined, enabled, callers, call, entered, reports>>
  BY DEF vars, sinkVars
<1>2. InputsOK'
  BY <1>1 DEF InputsOK, CallerFrames, CallerFrame
<1>3. SkipsTheConstruction' /\ LocatedAtTheCaller' /\ CallerAhead'
  BY <1>1 DEF SkipsTheConstruction, LocatedAtTheCaller, CallerAhead, ShouldSkipLocationFrame, Reported, FirstSink,
              Candidates, InReach, LeadingSkips
<1>4. TraceOfTheStack'
  BY <1>1 DEF TraceOfTheStack, ShouldSkip, ShouldSkipLocationFrame
<1>5. ReportsOfTheUses'
  <2>1. Reports' = Reports
    BY <1>1 DEF Reports, FirstSink
  <2>2. QED
    BY <1>1, <2>1 DEF ReportsOfTheUses
<1>6. LocationNamesTheCaller'
  BY <1>1 DEF LocationNamesTheCaller
<1>7. QED
  BY <1>2, <1>3, <1>4, <1>5, <1>6

(***************************************************************************)
(* The theorems                                                            *)
(***************************************************************************)

(* The invariant holds in every state, for call stacks and captures of any *)
(* depth.                                                                  *)
THEOREM SinksCorrect ==
  Spec => []SinksInv
<1>1. Init => SinksInv
  BY InitSinksInv
<1>2. SinksInv /\ [Next]_<<vars, sinkVars>> => SinksInv'
  <2> SUFFICES ASSUME SinksInv, [Next]_<<vars, sinkVars>>
               PROVE  SinksInv'
    OBVIOUS
  <2>1. CASE EnterOther \/ EnterDisabledSink
    BY <2>1, EnterWithoutReport
  <2>2. CASE EnterSink
    BY <2>2, EnterSinkStep
  <2>3. CASE SkipLeading /\ UNCHANGED sinkVars
    BY <2>3, SkipLeadingStep
  <2>4. CASE KeepTrace /\ UNCHANGED sinkVars
    BY <2>4, KeepTraceStep
  <2>5. CASE TraceExhausted /\ UNCHANGED sinkVars
    BY <2>5, TraceExhaustedStep
  <2>6. CASE Recapture /\ UNCHANGED sinkVars
    BY <2>6, RecaptureStep
  <2>7. CASE GiveUp /\ UNCHANGED sinkVars
    BY <2>7, GiveUpStep
  <2>8. CASE Locate
    BY <2>8, LocateStep
  <2>9. CASE UNCHANGED <<vars, sinkVars>>
    BY <2>9, StutteringStep
  <2>10. QED
    BY <2>1, <2>2, <2>3, <2>4, <2>5, <2>6, <2>7, <2>8, <2>9 DEF Next, SelectStep
<1>3. QED
  BY <1>1, <1>2, PTL DEF Spec

(* The search is bounded by the call stack and by its attempts, and every  *)
(* index it records fits (selectLocationTrace).                            *)
THEOREM SinksTypeOK ==
  Spec => []TypeOK
<1>1. SinksInv => TypeOK
  <2> SUFFICES ASSUME SinksInv
               PROVE  TypeOK
    OBVIOUS
  <2>1. /\ InputsOK /\ TraceOfTheStack
    BY DEF SinksInv
  <2>2. Len(stack) \in Nat /\ Len(stack) <= Uint32 /\ DOMAIN stack = 1..Len(stack)
    <3>1. Len(stack) \in Nat /\ Len(stack) <= MaxCallers + 4 /\ DOMAIN stack = 1..Len(stack)
      BY <2>1 DEF InputsOK
    <3>2. QED
      BY <3>1, SinksAssumption, LocationAssumption
  <2>3. ASSUME NEW n \in DOMAIN trace
        PROVE  trace[n].raw \in DOMAIN stack /\ trace[n].index \in 0..(Uint32 - 1)
    <3>1. trace \in Seq(CapturedFrame) /\ n \in 1..Len(trace)
      BY <2>1 DEF TraceOfTheStack
    <3>2. trace[n].index \in Nat
      <4>1. trace[n] \in CapturedFrame
        BY <3>1
      <4>2. QED
        BY <4>1 DEF CapturedFrame
    <3>3. trace[n].raw \in 1..Len(stack) /\ trace[n].index < trace[n].raw
      BY <2>1, <3>1 DEF TraceOfTheStack
    <3>4. QED
      BY <2>2, <3>2, <3>3, LocationAssumption
  <2>4. entered \in 0..Len(call.stacks)
    BY <2>1 DEF InputsOK
  <2>5. QED
    BY <2>1, <2>3, <2>4 DEF TypeOK, TraceOfTheStack
<1>2. QED
  BY <1>1, SinksCorrect, PTL

(* A finished call has reported each weak algorithm it uses once and in    *)
(* order, and nothing when IAST is disabled (ReportWeakHash,               *)
(* ReportWeakCipher and the injection rules).                              *)
THEOREM EveryUseIsReportedOnce ==
  Spec => []OneReportPerUse
<1>1. SinksInv => OneReportPerUse
  <2> SUFFICES ASSUME SinksInv, Finished
               PROVE  [n \in DOMAIN reports |-> reports[n].name] = IF enabled THEN call.uses ELSE <<>>
    BY DEF OneReportPerUse
  <2> DEFINE names == [n \in DOMAIN reports |-> reports[n].name]
  <2>1. /\ InputsOK /\ ReportsOfTheUses /\ enabled \in BOOLEAN
    BY DEF SinksInv, InputsOK
  <2>2. reports \in Seq(ReportSet) /\ DOMAIN reports = 1..Len(reports) /\ Len(reports) \in Nat
    BY <2>1 DEF ReportsOfTheUses
  <2>3. names \in Seq(Algorithms) /\ Len(names) = Len(reports)
    <3>1. ASSUME NEW n \in 1..Len(reports) PROVE reports[n].name \in Algorithms
      <4>1. reports[n] \in ReportSet
        BY <2>2
      <4>2. QED
        BY <4>1 DEF ReportSet
    <3>2. names \in [1..Len(reports) -> Algorithms]
      BY <2>2, <3>1
    <3> HIDE DEF names
    <3>3. QED
      BY <2>2, <3>2, FunctionOfPositions
  <2>4. CASE enabled
    <3>1. FirstSink(call) \in Nat /\ Len(call.uses) = Len(call.stacks) - FirstSink(call)
          /\ call.uses \in Seq(Algorithms) /\ entered \in Nat
      BY <2>1, CallBounds
    <3>2. Reports = Len(call.uses) /\ Len(call.uses) \in Nat
      BY <3>1 DEF Reports, Finished
    <3>3. Len(reports) = Len(call.uses)
      <4>1. IF Reports <= 0 THEN reports = <<>> ELSE Len(reports) = Reports
        BY <2>1, <2>4 DEF ReportsOfTheUses
      <4>2. Len(<<>>) = 0
        OBVIOUS
      <4>3. QED
        BY <3>2, <4>1, <4>2
    <3>4. \A n \in 1..Len(reports) : names[n] = call.uses[n]
      BY <2>1, <2>2, <2>4 DEF ReportsOfTheUses
    <3> HIDE DEF names
    <3>5. names = call.uses
      BY <2>3, <3>1, <3>3, <3>4, SeqEqual
    <3>6. QED
      BY <2>4, <3>5 DEF names
  <2>5. CASE ~enabled
    <3>1. reports = <<>>
      BY <2>1, <2>5 DEF ReportsOfTheUses
    <3>2. Len(names) = 0
      <4>1. Len(<<>>) = 0
        OBVIOUS
      <4> HIDE DEF names
      <4>2. QED
        BY <2>3, <3>1, <4>1
    <3> HIDE DEF names
    <3>3. names = <<>>
      BY <2>3, <3>2, EmptySeq
    <3>4. QED
      BY <2>5, <3>3 DEF names
  <2>6. QED
    BY <2>1, <2>4, <2>5
<1>2. QED
  BY <1>1, SinksCorrect, PTL

(* A report is located at the call of the library nearest to it whenever   *)
(* the captures reach that far, and never at a frame of the library's      *)
(* construction or of generated code (selectLocationTrace and the lists of *)
(* skipped frames).                                                        *)
THEOREM ReportsAreLocatedAtTheCaller ==
  Spec => []LocatedAtTheCaller
<1>1. SinksInv => LocatedAtTheCaller
  BY DEF SinksInv
<1>2. QED
  BY <1>1, SinksCorrect, PTL

(* The frames of a recorded trace are numbered from the one it is located  *)
(* at: the unsigned subtraction never wraps (selectLocationTrace).         *)
THEOREM IndicesStartAtTheLocation ==
  Spec => []IndicesFromTheLeaf
<1>1. SinksInv => IndicesFromTheLeaf
  BY DEF SinksInv, TraceOfTheStack, IndicesFromTheLeaf
<1>2. QED
  BY <1>1, SinksCorrect, PTL

(* The location of a report names its frame in full (LocationFromFrame).   *)
THEOREM LocationsNameTheCaller ==
  Spec => []LocationNamesTheCaller
<1>1. SinksInv => LocationNamesTheCaller
  BY DEF SinksInv
<1>2. QED
  BY <1>1, SinksCorrect, PTL
=============================================================================
