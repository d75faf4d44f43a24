------------------------------ MODULE Readers -------------------------------
(***************************************************************************)
(* What the generated readers have in common, for a ReadField that reads   *)
(* the fields of a map and an Unmarshal that reads the elements of an      *)
(* array, whatever they are.                                               *)
(***************************************************************************)
EXTENDS MessagePack, FiniteSetTheorems, SequenceTheorems, TLAPS

CONSTANTS ReadField(_, _, _),   \* (z, key, b): z with the field that b begins with
          Unmarshal(_, _),      \* (z, b): the value that b begins with, read into z
          NewerKey, NewerValue  \* a field that is not known, and its value

NewerField == Token("name", NewerKey) \o NewerValue

IsSequence(s) == \E T : s \in Seq(T)

-----------------------------------------------------------------------------
(* Sequences of tokens                                                     *)

LEMMA Joined ==
  ASSUME NEW a, NEW b, IsSequence(a), IsSequence(b)
  PROVE  /\ IsSequence(a \o b)
         /\ Len(a) \in Nat /\ Len(b) \in Nat /\ Len(a \o b) = Len(a) + Len(b)
         /\ a \o <<>> = a /\ <<>> \o a = a
<1>1. PICK S, T : a \in Seq(S) /\ b \in Seq(T)
  BY DEF IsSequence
<1> DEFINE U == S \union T
<1>2. a \in Seq(U) /\ b \in Seq(U)
  BY <1>1, SeqMonotonic
<1> HIDE DEF U
<1>3. a \o b \in Seq(U) /\ Len(a \o b) = Len(a) + Len(b)
  BY <1>2, ConcatProperties
<1>4. Len(a) \in Nat /\ Len(b) \in Nat
  BY <1>2, LenProperties
<1>5. a \o <<>> = a /\ <<>> \o a = a
  BY <1>2, ConcatEmptySeq
<1>6. QED
  BY <1>3, <1>4, <1>5 DEF IsSequence

(* Joining is associative.                                                 *)
LEMMA JoinedAnyhow ==
  ASSUME NEW a, NEW b, NEW c, IsSequence(a), IsSequence(b), IsSequence(c)
  PROVE  (a \o b) \o c = a \o (b \o c)
<1>1. PICK S, T, R : a \in Seq(S) /\ b \in Seq(T) /\ c \in Seq(R)
  BY DEF IsSequence
<1> DEFINE U == S \union T \union R
<1>2. a \in Seq(U) /\ b \in Seq(U) /\ c \in Seq(U)
  BY <1>1, SeqMonotonic
<1> HIDE DEF U
<1>3. QED
  BY <1>2, ConcatAssociative

(* The same for sequences that have names.                                 *)
LEMMA Regrouped ==
  ASSUME NEW a, NEW b, NEW c, IsSequence(a), IsSequence(b), IsSequence(c),
         NEW ab, ab = a \o b, NEW bc, bc = b \o c
  PROVE  ab \o c = a \o bc
<1>1. (a \o b) \o c = a \o (b \o c)
  BY JoinedAnyhow
<1>2. QED
  BY Zenon, <1>1

(* The elements of a join.                                                 *)
LEMMA Elements ==
  ASSUME NEW a, NEW b, IsSequence(a), IsSequence(b)
  PROVE  /\ DOMAIN a = 1..Len(a) /\ Len(a) \in Nat
         /\ \A i \in 1..(Len(a) + Len(b)) :
              (a \o b)[i] = IF i <= Len(a) THEN a[i] ELSE b[i - Len(a)]
<1>1. PICK S, T : a \in Seq(S) /\ b \in Seq(T)
  BY DEF IsSequence
<1> DEFINE U == S \union T
<1>2. a \in Seq(U) /\ b \in Seq(U)
  BY <1>1, SeqMonotonic
<1> HIDE DEF U
<1>3. \A i \in 1..(Len(a) + Len(b)) : (a \o b)[i] = IF i <= Len(a) THEN a[i] ELSE b[i - Len(a)]
  BY <1>2, ConcatProperties
<1>4. DOMAIN a = 1..Len(a) /\ Len(a) \in Nat
  BY <1>2, LenProperties
<1>5. QED
  BY <1>3, <1>4

(* A sequence that begins with one token: its head and its tail.           *)
LEMMA OneToken ==
  ASSUME NEW t, NEW b, IsSequence(b)
  PROVE  /\ IsSequence(<<t>>) /\ IsSequence(<<t>> \o b) /\ IsSequence(<<>>)
         /\ Len(<<t>>) = 1
         /\ <<t>> \o b # <<>>
         /\ (<<t>> \o b)[1] = t
         /\ Tail(<<t>> \o b) = b
<1>1. PICK S : b \in Seq(S)
  BY DEF IsSequence
<1> DEFINE T == S \union {t}
<1>2. b \in Seq(T) /\ t \in T
  BY <1>1, SeqMonotonic
<1> HIDE DEF T
<1>3. <<t>> \in Seq(T) /\ <<t>> \o b \in Seq(T) /\ <<>> \in Seq(T)
  BY <1>2
<1>4. Len(<<t>> \o b) = 1 + Len(b) /\ Len(b) \in Nat /\ Len(<<t>>) = 1
  BY <1>2, <1>3, ConcatProperties
<1>5. \A i \in 1..(1 + Len(b)) : (<<t>> \o b)[i] = IF i <= 1 THEN t ELSE b[i - 1]
  BY <1>2, <1>3, <1>4, ConcatProperties
<1> DEFINE m == <<t>> \o b
<1>6. m # <<>> /\ m[1] = t
  BY <1>4, <1>5
<1>7. Tail(m) \in Seq(T) /\ Len(Tail(m)) = Len(b) /\
        \A i \in 1..Len(Tail(m)) : Tail(m)[i] = m[i + 1]
  <2>1. m \in Seq(T) /\ Len(m) = 1 + Len(b)
    BY <1>3, <1>4
  <2> HIDE DEF m
  <2>2. QED
    BY <1>4, <1>6, <2>1, HeadTailProperties
<1>8. Tail(m) = b
  <2>1. \A i \in 1..Len(b) : m[i + 1] = b[i]
    BY <1>4, <1>5
  <2> HIDE DEF m
  <2>2. \A i \in 1..Len(Tail(m)) : Tail(m)[i] = b[i]
    BY <1>7, <2>1
  <2>3. QED
    BY <1>2, <1>7, <2>2, SeqEqual
<1>9. QED
  BY <1>3, <1>4, <1>6, <1>8 DEF IsSequence

-----------------------------------------------------------------------------
(* Loops: functions that are defined position by position, each value from *)
(* the one before it, by the codecs and by the operators on sequences.     *)

(* A sequence of sequences, joined from its first on and from its last on. *)
NextHead(seqs, i, before) == before \o seqs[i]

NextTail(seqs, i, before) == seqs[Len(seqs) + 1 - i] \o before

(* One more field of a map, and one more element of an array.              *)
NextField(about, i, before) ==
  IF before.ok
    THEN LET key == Read("name", before.rest) IN
           IF key.ok THEN ReadField(before.v, key.v, key.rest) ELSE Failure
    ELSE before

NextElement(about, i, before) ==
  IF before.ok
    THEN LET e == Unmarshal(before.v.items[i], before.rest) IN
           IF e.ok THEN Success(SliceOf([before.v.items EXCEPT ![i] = e.v]), e.rest) ELSE Failure
    ELSE before

(* How many values are still to come in b.                                 *)
NextDue(b, i, before) ==
  before - 1 + CASE b[i][1] = "map"   -> 2 * b[i][2]
                 [] b[i][1] = "array" -> b[i][2]
                 [] OTHER             -> 0

(* The value at i of a loop about something, from the one before it.       *)
Following(loop, about, i, before) ==
  CASE loop = "heads"  -> NextHead(about, i, before)
    [] loop = "tails"  -> NextTail(about, i, before)
    [] loop = "fields" -> NextField(about, i, before)
    [] loop = "items"  -> NextElement(about, i, before)
    [] OTHER           -> NextDue(about, i, before)

IsRun(run, loop, about, first, m, n) ==
  run = [i \in m..n |-> IF i = m THEN first ELSE Following(loop, about, i, run[i - 1])]

(* A set of natural numbers has a smallest element.                        *)
LEMMA SmallestNumber ==
  ASSUME NEW S \in SUBSET Nat, S # {}
  PROVE  \E m \in S : \A n \in S : m <= n
<1> DEFINE upTo == {0..m : m \in S}
<1>1. upTo \subseteq FiniteSubsetsOf(Nat) /\ upTo # {}
  <2>1. ASSUME NEW m \in S PROVE 0..m \in FiniteSubsetsOf(Nat)
    <3>1. 0 \in Int /\ m \in Int /\ 0..m \subseteq Nat
      OBVIOUS
    <3>2. IsFiniteSet(0..m)
      BY <3>1, FS_Interval
    <3>3. QED
      BY <3>1, <3>2 DEF FiniteSubsetsOf
  <2>2. QED
    BY <2>1
<1>2. PICK x \in upTo : \A y \in upTo : ~(<<y, x>> \in StrictSubsetOrdering(Nat))
  <2> HIDE DEF upTo
  <2>1. QED
    BY <1>1, WFMin, FS_StrictSubsetOrderingWellFounded
<1>3. PICK m \in S : x = 0..m
  BY <1>2
<1>4. ASSUME NEW n \in S, n < m PROVE FALSE
  <2>1. 0..n \in upTo /\ ~(<<0..n, x>> \in StrictSubsetOrdering(Nat))
    BY <1>2
  <2>2. <<0..n, 0..m>> \in (SUBSET Nat) \X (SUBSET Nat)
    OBVIOUS
  <2>3. 0..n \subseteq 0..m /\ 0..n # 0..m
    BY <1>4
  <2>4. QED
    BY <1>3, <2>1, <2>2, <2>3 DEF StrictSubsetOrdering
<1>5. QED
  BY <1>4

(* What holds at m and is handed on from each number to the next holds of  *)
(* all numbers up to n: no smallest one is left out.                       *)
LEMMA Induction ==
  ASSUME NEW m \in Nat, NEW n \in Nat, NEW S, m \in S,
         \A i \in (m + 1)..n : i - 1 \in S => i \in S
  PROVE  \A i \in m..n : i \in S
<1> DEFINE left == {i \in m..n : i \notin S}
<1>1. SUFFICES ASSUME left # {} PROVE FALSE
  OBVIOUS
<1>2. PICK i \in left : \A j \in left : i <= j
  <2>1. left \in SUBSET Nat
    OBVIOUS
  <2> HIDE DEF left
  <2>2. QED
    BY <1>1, <2>1, SmallestNumber
<1>3. i \in (m + 1)..n
  BY <1>2
<1>4. i - 1 \in S
  BY <1>2, <1>3
<1>5. QED
  BY <1>2, <1>3, <1>4

(* Such a function exists, however long it is.                             *)
THEOREM RunExists ==
  ASSUME NEW loop, NEW about, NEW first, NEW m \in Nat, NEW n \in Nat
  PROVE  \E run : IsRun(run, loop, about, first, m, n)
<1>1. CASE n < m
  <2>1. IsRun([i \in m..n |-> first], loop, about, first, m, n)
    <3>1. m..n = {}
      BY <1>1
    <3>2. QED
      BY <3>1 DEF IsRun
  <2>2. QED
    BY <2>1
<1>2. CASE m <= n
  <2> DEFINE S == {i \in m..n : \E run : IsRun(run, loop, about, first, m, i)}
  <2>1. m \in S
    <3>1. IsRun([i \in m..m |-> first], loop, about, first, m, m)
      BY DEF IsRun
    <3>2. QED
      BY <1>2, <3>1
  <2>2. ASSUME NEW i \in (m + 1)..n, i - 1 \in S PROVE i \in S
    <3>1. PICK run : IsRun(run, loop, about, first, m, i - 1)
      BY <2>2
    <3> DEFINE longer == [j \in m..i |->
                 IF j = i THEN Following(loop, about, i, run[i - 1]) ELSE run[j]]
    <3>2. \A j \in m..(i - 1) : run[j] =
            IF j = m THEN first ELSE Following(loop, about, j, run[j - 1])
      BY <3>1 DEF IsRun
    <3>3. \A j \in m..i : longer[j] =
            IF j = m THEN first ELSE Following(loop, about, j, longer[j - 1])
      <4>1. ASSUME NEW j \in m..i, j # i
            PROVE  longer[j] = IF j = m THEN first ELSE Following(loop, about, j, longer[j - 1])
        <5>1. j \in m..(i - 1) /\ longer[j] = run[j]
          BY <4>1
        <5>2. j # m => longer[j - 1] = run[j - 1]
          BY <4>1
        <5>3. QED
          BY <3>2, <5>1, <5>2
      <4>2. longer[i] = Following(loop, about, i, longer[i - 1]) /\ i # m
        BY <2>2
      <4>3. QED
        BY <4>1, <4>2
    <3>4. longer = [j \in m..i |->
            IF j = m THEN first ELSE Following(loop, about, j, longer[j - 1])]
      <4>1. longer = [j \in m..i |-> longer[j]]
        OBVIOUS
      <4> HIDE DEF longer
      <4>2. QED
        BY <3>3, <4>1
    <3>5. IsRun(longer, loop, about, first, m, i)
      <4> HIDE DEF longer
      <4>1. QED
        BY <3>4 DEF IsRun
    <3>6. QED
      BY <2>2, <3>5
  <2> HIDE DEF S
  <2>3. \A i \in m..n : i \in S
    BY <2>1, <2>2, Induction
  <2>4. QED
    BY <1>2, <2>3 DEF S
<1>3. QED
  BY <1>1, <1>2

HeadsRun(run, about, first, m, n) ==
  run = [i \in m..n |-> IF i = m THEN first ELSE NextHead(about, i, run[i - 1])]

TailsRun(run, about, first, m, n) ==
  run = [i \in m..n |-> IF i = m THEN first ELSE NextTail(about, i, run[i - 1])]

FieldsRun(run, about, first, m, n) ==
  run = [i \in m..n |-> IF i = m THEN first ELSE NextField(about, i, run[i - 1])]

ItemsRun(run, about, first, m, n) ==
  run = [i \in m..n |-> IF i = m THEN first ELSE NextElement(about, i, run[i - 1])]

DuesRun(run, about, first, m, n) ==
  run = [i \in m..n |-> IF i = m THEN first ELSE NextDue(about, i, run[i - 1])]

(* Each kind of run has a solution: the recursion behind a fold is well defined. *)
LEMMA HeadsRunExists ==
  ASSUME NEW about, NEW first, NEW m \in Nat, NEW n \in Nat
  PROVE  \E run : HeadsRun(run, about, first, m, n)
<1>1. PICK run : IsRun(run, "heads", about, first, m, n)
  BY RunExists
<1>2. \A i, before : Following("heads", about, i, before) = NextHead(about, i, before)
  BY DEF Following
<1>3. run = [i \in m..n |-> IF i = m THEN first ELSE NextHead(about, i, run[i - 1])]
  BY <1>1, <1>2 DEF IsRun
<1>4. QED
  BY <1>3 DEF HeadsRun

LEMMA TailsRunExists ==
  ASSUME NEW about, NEW first, NEW m \in Nat, NEW n \in Nat
  PROVE  \E run : TailsRun(run, about, first, m, n)
<1>1. PICK run : IsRun(run, "tails", about, first, m, n)
  BY RunExists
<1>2. \A i, before : Following("tails", about, i, before) = NextTail(about, i, before)
  BY DEF Following
<1>3. run = [i \in m..n |-> IF i = m THEN first ELSE NextTail(about, i, run[i - 1])]
  BY <1>1, <1>2 DEF IsRun
<1>4. QED
  BY <1>3 DEF TailsRun

LEMMA FieldsRunExists ==
  ASSUME NEW about, NEW first, NEW m \in Nat, NEW n \in Nat
  PROVE  \E run : FieldsRun(run, about, first, m, n)
<1>1. PICK run : IsRun(run, "fields", about, first, m, n)
  BY RunExists
<1>2. \A i, before : Following("fields", about, i, before) = NextField(about, i, before)
  BY DEF Following
<1>3. run = [i \in m..n |-> IF i = m THEN first ELSE NextField(about, i, run[i - 1])]
  BY <1>1, <1>2 DEF IsRun
<1>4. QED
  BY <1>3 DEF FieldsRun

LEMMA ItemsRunExists ==
  ASSUME NEW about, NEW first, NEW m \in Nat, NEW n \in Nat
  PROVE  \E run : ItemsRun(run, about, first, m, n)
<1>1. PICK run : IsRun(run, "items", about, first, m, n)
  BY RunExists
<1>2. \A i, before : Following("items", about, i, before) = NextElement(about, i, before)
  BY DEF Following
<1>3. run = [i \in m..n |-> IF i = m THEN first ELSE NextElement(about, i, run[i - 1])]
  BY <1>1, <1>2 DEF IsRun
<1>4. QED
  BY <1>3 DEF ItemsRun

LEMMA DuesRunExists ==
  ASSUME NEW about, NEW first, NEW m \in Nat, NEW n \in Nat
  PROVE  \E run : DuesRun(run, about, first, m, n)
<1>1. PICK run : IsRun(run, "dues", about, first, m, n)
  BY RunExists
<1>2. \A i, before : Following("dues", about, i, before) = NextDue(about, i, before)
  BY DEF Following
<1>3. run = [i \in m..n |-> IF i = m THEN first ELSE NextDue(about, i, run[i - 1])]
  BY <1>1, <1>2 DEF IsRun
<1>4. QED
  BY <1>3 DEF DuesRun

(* What is due after a token depends on those before it, and on no other.  *)
LEMMA SameDues ==
  ASSUME NEW n \in Nat, NEW k \in Nat, n <= k, NEW about, NEW other, NEW first,
         NEW run, DuesRun(run, about, first, 0, n), NEW more, DuesRun(more, other, first, 0, k),
         \A i \in 1..n : \A x : NextDue(other, i, x) = NextDue(about, i, x)
  PROVE  \A i \in 0..n : more[i] = run[i]
<1> DEFINE S == {i \in 0..n : more[i] = run[i]}
<1>1. run[0] = first /\ \A i \in 1..n : run[i] = NextDue(about, i, run[i - 1])
  BY DEF DuesRun
<1>2. more[0] = first /\ \A i \in 1..k : more[i] = NextDue(other, i, more[i - 1])
  BY DEF DuesRun
<1>3. 0 \in S
  BY <1>1, <1>2
<1>4. ASSUME NEW i \in (0 + 1)..n, i - 1 \in S PROVE i \in S
  <2>1. i \in 1..n /\ i \in 1..k /\ more[i - 1] = run[i - 1]
    BY <1>4
  <2>2. run[i] = NextDue(about, i, run[i - 1]) /\ more[i] = NextDue(other, i, more[i - 1])
    BY <1>1, <1>2, <2>1
  <2>3. more[i] = run[i]
    BY Zenon, <2>1, <2>2
  <2>4. QED
    BY <2>1, <2>3
<1>5. \A i \in 0..n : i \in S
  <2> HIDE DEF S
  <2>1. 0 \in Nat
    OBVIOUS
  <2>2. QED
    BY <1>3, <1>4, <2>1, Induction
<1>6. QED
  BY <1>5
-----------------------------------------------------------------------------
(* Sequences joined end to end: one after the other, or the first before   *)
(* what the others make.                                                   *)

AreSequences(seqs, n) ==
  /\ seqs = [i \in 1..n |-> seqs[i]]
  /\ \A i \in 1..n : IsSequence(seqs[i])

AreTails(tail, seqs, n) ==
  /\ tail[n] = <<>>
  /\ \A i \in 0..n : IsSequence(tail[i])
  /\ \A i \in 1..n : tail[i - 1] = seqs[i] \o tail[i]

AreHeads(head, seqs, n) ==
  /\ head[1] = seqs[1]
  /\ \A i \in 2..n : head[i] = head[i - 1] \o seqs[i]

(* The empty payload is a sequence of tokens.                              *)
LEMMA NoTokens == IsSequence(<<>>)
<1>1. <<>> \in Seq({})
  BY EmptySeq
<1>2. QED
  BY <1>1 DEF IsSequence

(* A list of sequences is itself a sequence.                               *)
LEMMA LengthOfSequences ==
  ASSUME NEW n \in Nat, NEW seqs, AreSequences(seqs, n)
  PROVE  Len(seqs) = n /\ DOMAIN seqs = 1..n /\ IsSequence(seqs)
<1> DEFINE S == {seqs[i] : i \in 1..n}
<1>1. DOMAIN seqs = 1..n /\ seqs \in [1..n -> S]
  BY DEF AreSequences
<1> HIDE DEF S
<1>2. seqs \in Seq(S)
  BY <1>1, SeqDef
<1>3. Len(seqs) \in Nat /\ DOMAIN seqs = 1..Len(seqs)
  BY <1>2, LenProperties
<1>4. Len(seqs) = n
  BY <1>1, <1>3
<1>5. QED
  BY <1>1, <1>2, <1>4 DEF IsSequence

(* The tails of a list of sequences exist.                                 *)
LEMMA TailsExist ==
  ASSUME NEW n \in Nat, NEW seqs, AreSequences(seqs, n)
  PROVE  \E tail : AreTails(tail, seqs, n)
<1>1. Len(seqs) = n
  BY LengthOfSequences
<1>2. PICK run : TailsRun(run, seqs, <<>>, 0, n)
  BY TailsRunExists
<1>3. /\ run[0] = <<>>
      /\ \A i \in 1..n : run[i] = seqs[n + 1 - i] \o run[i - 1]
  BY <1>1, <1>2 DEF TailsRun, NextTail
<1> DEFINE S == {i \in 0..n : IsSequence(run[i])}
<1>4. \A i \in 0..n : i \in S
  <2>1. 0 \in S
    BY <1>3, NoTokens
  <2>2. ASSUME NEW i \in (0 + 1)..n, i - 1 \in S PROVE i \in S
    <3>1. i \in 1..n /\ n + 1 - i \in 1..n
      OBVIOUS
    <3>2. IsSequence(seqs[n + 1 - i]) /\ IsSequence(run[i - 1])
      BY <2>2, <3>1 DEF AreSequences
    <3>3. run[i] = seqs[n + 1 - i] \o run[i - 1]
      BY <1>3, <3>1
    <3>4. IsSequence(run[i])
      BY <3>2, <3>3, Joined
    <3>5. QED
      BY <3>1, <3>4
  <2> HIDE DEF S
  <2>3. QED
    BY <2>1, <2>2, Induction
<1> DEFINE tail == [i \in 0..n |-> run[n - i]]
<1>5. tail[n] = <<>>
  BY <1>3
<1>6. \A i \in 0..n : IsSequence(tail[i])
  BY <1>4
<1>7. ASSUME NEW i \in 1..n PROVE tail[i - 1] = seqs[i] \o tail[i]
  <2>1. PICK k \in 1..n : k = n + 1 - i
    OBVIOUS
  <2>2. run[k] = seqs[n + 1 - k] \o run[k - 1]
    BY <1>3
  <2>3. n + 1 - k = i /\ k - 1 = n - i /\ n - (i - 1) = k
    BY <2>1
  <2>4. i \in 0..n /\ i - 1 \in 0..n
    OBVIOUS
  <2>5. tail[i - 1] = run[k] /\ tail[i] = run[k - 1]
    BY <2>3, <2>4
  <2>6. QED
    BY <2>2, <2>3, <2>5
<1>8. AreTails(tail, seqs, n)
  BY <1>5, <1>6, <1>7 DEF AreTails
<1>9. QED
  BY <1>8

(* The sequence FlattenSeq makes of the first of them, and so on.          *)
LEMMA FlatIsHead ==
  ASSUME NEW n \in Nat, n # 0, NEW seqs, Len(seqs) = n
  PROVE  \E head : FlattenSeq(seqs) = head[n] /\ AreHeads(head, seqs, n)
<1> DEFINE IsHead(f) == f = [i \in 1..n |-> IF i = 1 THEN seqs[i] ELSE f[i - 1] \o seqs[i]]
<1>1. \E f : IsHead(f)
  <2>1. PICK f : HeadsRun(f, seqs, seqs[1], 1, n)
    <3>1. 1 \in Nat
      OBVIOUS
    <3>2. QED
      BY <3>1, HeadsRunExists
  <2>2. f = [i \in 1..n |-> IF i = 1 THEN seqs[1] ELSE f[i - 1] \o seqs[i]]
    BY <2>1 DEF HeadsRun, NextHead
  <2>3. \A i \in 1..n : (IF i = 1 THEN seqs[1] ELSE f[i - 1] \o seqs[i])
                          = IF i = 1 THEN seqs[i] ELSE f[i - 1] \o seqs[i]
    OBVIOUS
  <2>4. IsHead(f)
    BY Zenon, <2>2, <2>3
  <2>5. QED
    BY <2>4
<1>2. PICK head : IsHead(head) /\ FlattenSeq(seqs) = head[n]
  <2>1. IsHead(CHOOSE f : IsHead(f))
    BY <1>1
  <2>2. FlattenSeq(seqs) = (CHOOSE f : IsHead(f))[n]
    BY Zenon DEF FlattenSeq
  <2>3. QED
    BY <2>1, <2>2
<1>3. \A i \in 1..n : head[i] = IF i = 1 THEN seqs[i] ELSE head[i - 1] \o seqs[i]
  BY <1>2
<1>4. head[1] = seqs[1]
  <2>1. 1 \in 1..n
    OBVIOUS
  <2>2. QED
    BY <1>3, <2>1
<1>5. ASSUME NEW i \in 2..n PROVE head[i] = head[i - 1] \o seqs[i]
  <2>1. i \in 1..n /\ i # 1
    OBVIOUS
  <2>2. QED
    BY <1>3, <2>1
<1>6. QED
  BY <1>2, <1>4, <1>5 DEF AreHeads

(* It is what all of them make, from the first one on.                     *)
LEMMA FlatIsTail ==
  ASSUME NEW n \in Nat, NEW seqs, AreSequences(seqs, n), NEW tail, AreTails(tail, seqs, n)
  PROVE  FlattenSeq(seqs) = tail[0] /\ IsSequence(FlattenSeq(seqs))
<1>1. Len(seqs) = n /\ IsSequence(seqs)
  BY LengthOfSequences
<1>2. /\ \A i \in 1..n : IsSequence(seqs[i])
      /\ tail[n] = <<>>
      /\ \A i \in 0..n : IsSequence(tail[i])
      /\ \A i \in 1..n : tail[i - 1] = seqs[i] \o tail[i]
  BY DEF AreSequences, AreTails
<1>3. CASE n = 0
  <2>1. FlattenSeq(seqs) = <<>>
    <3>1. seqs = <<>>
      BY <1>1, <1>3 DEF IsSequence
    <3>2. QED
      BY <1>1, <1>3, <3>1 DEF FlattenSeq
  <2>2. QED
    BY <1>2, <1>3, <2>1
<1>4. CASE n # 0
  <2>1. PICK head : FlattenSeq(seqs) = head[n] /\ AreHeads(head, seqs, n)
    BY <1>1, <1>4, FlatIsHead
  <2> DEFINE S == {i \in 1..n : IsSequence(head[i]) /\ head[i] \o tail[i] = tail[0]}
  <2>2. 1 \in S
    <3>1. 1 \in 1..n /\ 1 - 1 = 0
      BY <1>4
    <3>2. IsSequence(seqs[1]) /\ tail[0] = seqs[1] \o tail[1]
      BY <1>2, <3>1
    <3>3. QED
      BY <1>4, <2>1, <3>1, <3>2 DEF AreHeads
  <2>3. ASSUME NEW i \in (1 + 1)..n, i - 1 \in S PROVE i \in S
    <3>1. i \in 1..n /\ i \in 2..n /\ i \in 0..n
      OBVIOUS
    <3>2. IsSequence(seqs[i]) /\ IsSequence(tail[i]) /\ tail[i - 1] = seqs[i] \o tail[i]
      BY <1>2, <3>1
    <3>3. IsSequence(head[i - 1]) /\ head[i - 1] \o tail[i - 1] = tail[0]
      BY <2>3
    <3>4. head[i] = head[i - 1] \o seqs[i]
      BY <2>1, <3>1 DEF AreHeads
    <3>5. IsSequence(head[i])
      BY <3>2, <3>3, <3>4, Joined
    <3>6. (head[i - 1] \o seqs[i]) \o tail[i] = head[i - 1] \o (seqs[i] \o tail[i])
      <4> DEFINE a == head[i - 1]
                 b == seqs[i]
                 c == tail[i]
      <4>1. IsSequence(a) /\ IsSequence(b) /\ IsSequence(c)
        BY <3>2, <3>3
      <4> HIDE DEF a, b, c, S
      <4>2. (a \o b) \o c = a \o (b \o c)
        BY <4>1, JoinedAnyhow
      <4>3. QED
        BY <4>2 DEF a, b, c
    <3>7. head[i] \o tail[i] = tail[0]
      BY <3>2, <3>3, <3>4, <3>6
    <3>8. QED
      BY <3>1, <3>5, <3>7
  <2>4. \A i \in 1..n : i \in S
    <3>1. 1 \in Nat
      OBVIOUS
    <3> HIDE DEF S
    <3>2. QED
      BY <2>2, <2>3, <3>1, Induction
  <2>5. n \in S
    <3>1. n \in 1..n
      BY <1>4
    <3> HIDE DEF S
    <3>2. QED
      BY <2>4, <3>1
  <2>6. IsSequence(head[n]) /\ head[n] \o <<>> = tail[0]
    BY <1>2, <2>5
  <2>7. head[n] \o <<>> = head[n]
    BY <2>6, NoTokens, Joined
  <2>8. QED
    BY <2>1, <2>6, <2>7
<1>5. QED
  BY <1>3, <1>4

-----------------------------------------------------------------------------
(* The loops of ReadMap and ReadArray                                      *)

LEMMA Succeeded ==
  ASSUME NEW v, NEW rest
  PROVE  Success(v, rest).ok = TRUE /\ Success(v, rest).v = v /\ Success(v, rest).rest = rest
BY DEF Success

(* A reader of a kind takes the token of that kind and leaves what follows. *)
LEMMA ReadToken ==
  ASSUME NEW kind, NEW v, NEW b, IsSequence(b)
  PROVE  /\ Read(kind, Token(kind, v) \o b) = Success(v, b)
         /\ IsSequence(Token(kind, v)) /\ IsSequence(Token(kind, v) \o b)
<1> DEFINE t == <<kind, v>>
<1>1. t[1] = kind /\ t[2] = v
  OBVIOUS
<1> HIDE DEF t
<1>2. /\ IsSequence(<<t>>) /\ IsSequence(<<t>> \o b)
      /\ <<t>> \o b # <<>> /\ (<<t>> \o b)[1] = t /\ Tail(<<t>> \o b) = b
  BY OneToken
<1> DEFINE m == <<t>> \o b
<1>3. Read(kind, m) = Success(m[1][2], Tail(m))
  <2>1. m # <<>> /\ m[1][1] = kind
    BY <1>1, <1>2
  <2> HIDE DEF m
  <2>2. QED
    BY <2>1 DEF Read
<1>4. Token(kind, v) = <<t>>
  BY DEF Token, t
<1>5. QED
  BY <1>1, <1>2, <1>3, <1>4

(* Once the header is read, the loop of ReadMap is a run of NextField.     *)
LEMMA MapIsRun ==
  ASSUME NEW z, NEW b, NEW n \in Nat, NEW rest, Read("map", b) = Success(n, rest)
  PROVE  \E run : /\ FieldsRun(run, <<>>, Success(z, rest), 0, n)
                  /\ ReadMap(z, b, ReadField) = run[n]
<1> DEFINE IsLoop(f) == FieldsRun(f, <<>>, Success(z, rest), 0, n)
<1>1. ReadMap(z, b, ReadField) = (CHOOSE f : IsLoop(f))[n]
  <2> DEFINE header == Read("map", b)
  <2>1. header.ok /\ header.v = n /\ header.rest = rest
    <3>1. Success(n, rest).ok = TRUE /\ Success(n, rest).v = n /\ Success(n, rest).rest = rest
      BY ZenonT(30), Succeeded
    <3>2. header = Success(n, rest)
      OBVIOUS
    <3> HIDE DEF header
    <3>3. QED
      BY Zenon, <3>1, <3>2
  <2>2. ReadMap(z, b, ReadField)
          = (CHOOSE f : f = [i \in 0..n |-> IF i = 0 THEN Success(z, rest) ELSE
               LET before == f[i - 1] IN
                 IF before.ok
                   THEN LET key == Read("name", before.rest) IN
                          IF key.ok THEN ReadField(before.v, key.v, key.rest) ELSE Failure
                   ELSE before])[n]
    BY Zenon, <2>1 DEF ReadMap, Repeat
  <2>3. QED
    BY Zenon, <2>2 DEF FieldsRun, NextField
<1>2. \E f : IsLoop(f)
  <2>1. 0 \in Nat
    OBVIOUS
  <2>2. QED
    BY <2>1, FieldsRunExists
<1>3. IsLoop(CHOOSE f : IsLoop(f))
  BY <1>2
<1>4. QED
  BY <1>1, <1>3

(* Once the header is read, the loop of ReadArray is a run of NextElement. *)
LEMMA ArrayIsRun ==
  ASSUME NEW slice, NEW b, NEW zero, NEW n \in Nat, NEW rest, Read("array", b) = Success(n, rest)
  PROVE  LET target == IF Len(slice.items) >= n
                         THEN [made |-> slice.made, items |-> SubSeq(slice.items, 1, n)]
                         ELSE SliceOf([i \in 1..n |-> zero])
         IN  \E run : /\ ItemsRun(run, <<>>, Success(target, rest), 0, n)
                      /\ ReadArray(slice, b, zero, Unmarshal) = run[n]
<1> DEFINE target == IF Len(slice.items) >= n
                       THEN [made |-> slice.made, items |-> SubSeq(slice.items, 1, n)]
                       ELSE SliceOf([i \in 1..n |-> zero])
           IsLoop(f) == ItemsRun(f, <<>>, Success(target, rest), 0, n)
<1>1. ReadArray(slice, b, zero, Unmarshal) = (CHOOSE f : IsLoop(f))[n]
  <2> DEFINE header == Read("array", b)
  <2>1. header.ok /\ header.v = n /\ header.rest = rest
    <3>1. Success(n, rest).ok = TRUE /\ Success(n, rest).v = n /\ Success(n, rest).rest = rest
      BY ZenonT(30), Succeeded
    <3>2. header = Success(n, rest)
      OBVIOUS
    <3> HIDE DEF header
    <3>3. QED
      BY Zenon, <3>1, <3>2
  <2>2. ReadArray(slice, b, zero, Unmarshal)
          = (CHOOSE f : f = [i \in 0..n |-> IF i = 0 THEN Success(target, rest) ELSE
               LET before == f[i - 1] IN
                 IF before.ok
                   THEN LET e == Unmarshal(before.v.items[i], before.rest) IN
                          IF e.ok
                            THEN Success(SliceOf([before.v.items EXCEPT ![i] = e.v]), e.rest)
                            ELSE Failure
                   ELSE before])[n]
    BY ZenonT(60), <2>1 DEF ReadArray, Repeat
  <2>3. QED
    BY Zenon, <2>2 DEF ItemsRun, NextElement
<1>2. \E f : IsLoop(f)
  <2>1. 0 \in Nat
    OBVIOUS
  <2> HIDE DEF target
  <2>2. QED
    BY <2>1, ItemsRunExists
<1>3. IsLoop(CHOOSE f : IsLoop(f))
  BY <1>2
<1>4. QED
  BY <1>1, <1>3

-----------------------------------------------------------------------------
(* A map that is read                                                      *)

(* The map of these fields, with another one in front or none.             *)
MapMessage(extra, front, fields) ==
  Token("map", extra + Cardinality(Present(fields))) \o (front \o AppendFields(fields))

(* The field in front of the others leaves what is read as it is.          *)
IsFront(extra, front, zero) ==
  \/ extra = 0 /\ front = <<>>
  \/ /\ extra = 1
     /\ \E key, value :
          /\ IsSequence(value)
          /\ front = Token("name", key) \o value
          /\ \A c : IsSequence(c) => ReadField(zero, key, value \o c) = Success(zero, c)

With(z, g, v) == [z EXCEPT ![g] = v]

(* The value of f gives field g what it has in target.                     *)
IsRead(f, g, zero, target) ==
  IF f.isOmitted THEN target[g] = zero[g]
  ELSE /\ IsSequence(f.value)
       /\ \A z, c : IsSequence(c) /\ z[g] = zero[g] =>
            ReadField(z, f.key, f.value \o c) = Success(With(z, g, target[g]), c)

PartlyRead(zero, target, done) ==
  [g \in DOMAIN zero |-> IF g \in done THEN target[g] ELSE zero[g]]

CountUpTo(fields, i) == Cardinality({j \in 1..i : ~fields[j].isOmitted})

(* The number of fields present among the first i grows by one at each that is not left out. *)
LEMMA Counting ==
  ASSUME NEW fields, NEW n \in Nat
  PROVE  /\ CountUpTo(fields, 0) = 0
         /\ CountUpTo(fields, n) \in Nat
         /\ \A i \in 1..n :
              /\ CountUpTo(fields, i) <= CountUpTo(fields, n)
              /\ CountUpTo(fields, i - 1) \in Nat
              /\ CountUpTo(fields, i) =
                   CountUpTo(fields, i - 1) + IF fields[i].isOmitted THEN 0 ELSE 1
<1> DEFINE upTo(i) == {j \in 1..i : ~fields[j].isOmitted}
<1>1. ASSUME NEW i \in Nat PROVE IsFiniteSet(upTo(i)) /\ Cardinality(upTo(i)) \in Nat
  <2>1. IsFiniteSet(1..i)
    <3>1. 1 \in Int /\ i \in Int
      OBVIOUS
    <3>2. QED
      BY <3>1, FS_Interval
  <2>2. IsFiniteSet(upTo(i))
    BY <2>1, FS_Subset
  <2> HIDE DEF upTo
  <2>3. QED
    BY <2>2, FS_CardinalityType
<1>2. CountUpTo(fields, 0) = 0
  <2>1. {j \in 1..0 : ~fields[j].isOmitted} = {}
    OBVIOUS
  <2>2. QED
    BY <2>1, FS_EmptySet DEF CountUpTo
<1>3. ASSUME NEW i \in 1..n
      PROVE  /\ CountUpTo(fields, i) <= CountUpTo(fields, n)
             /\ CountUpTo(fields, i - 1) \in Nat
             /\ CountUpTo(fields, i) =
                  CountUpTo(fields, i - 1) + IF fields[i].isOmitted THEN 0 ELSE 1
  <2>1. i \in Nat /\ i - 1 \in Nat /\ 1..i \subseteq 1..n
    OBVIOUS
  <2>2. upTo(i) \subseteq upTo(n)
    BY <2>1
  <2>3. IsFiniteSet(upTo(n)) /\ IsFiniteSet(upTo(i - 1)) /\ Cardinality(upTo(i - 1)) \in Nat
    BY <1>1, <2>1
  <2>4. upTo(i) = IF fields[i].isOmitted THEN upTo(i - 1) ELSE upTo(i - 1) \union {i}
    <3>1. \A j : j \in 1..i <=> j \in 1..(i - 1) \/ j = i
      BY <2>1
    <3>2. QED
      BY <3>1
  <2>5. i \notin upTo(i - 1)
    BY <2>1
  <2> HIDE DEF upTo
  <2>6. Cardinality(upTo(i)) <= Cardinality(upTo(n))
    BY <2>2, <2>3, FS_Subset
  <2>7. Cardinality(upTo(i)) = Cardinality(upTo(i - 1)) + IF fields[i].isOmitted THEN 0 ELSE 1
    <3>1. CASE fields[i].isOmitted
      BY <2>3, <2>4, <3>1
    <3>2. CASE ~fields[i].isOmitted
      <4>1. Cardinality(upTo(i - 1) \union {i}) = Cardinality(upTo(i - 1)) + 1
        BY <2>3, <2>5, FS_AddElement
      <4>2. QED
        BY <2>4, <3>2, <4>1
    <3>3. QED
      BY <3>1, <3>2
  <2>8. QED
    BY <2>3, <2>6, <2>7 DEF CountUpTo, upTo
<1>4. QED
  BY <1>1, <1>2, <1>3 DEF CountUpTo

(* One round of the loop reads a name and hands what follows it to ReadField. *)
LEMMA NextFieldRead ==
  ASSUME NEW z, NEW b, NEW key, NEW after, Read("name", b) = Success(key, after), NEW i
  PROVE  NextField(<<>>, i, Success(z, b)) = ReadField(z, key, after)
<1>1. \A v, rest : Success(v, rest).ok = TRUE /\ Success(v, rest).v = v /\
        Success(v, rest).rest = rest
  BY Succeeded
<1>2. Success(key, after).ok = TRUE /\ Success(key, after).v = key /\
        Success(key, after).rest = after
  BY Zenon, <1>1
<1>3. Success(z, b).ok = TRUE /\ Success(z, b).v = z /\ Success(z, b).rest = b
  BY Zenon, <1>1
<1>4. NextField(<<>>, i, Success(z, b)) =
        IF Success(z, b).ok
          THEN IF Read("name", Success(z, b).rest).ok
                 THEN ReadField(Success(z, b).v, Read("name", Success(z, b).rest).v,
                                Read("name", Success(z, b).rest).rest)
                 ELSE Failure
          ELSE Success(z, b)
  BY Zenon DEF NextField
<1>5. QED
  BY Zenon, <1>2, <1>3, <1>4

(* One field more.                                                         *)
LEMMA FieldStep ==
  ASSUME NEW f, NEW g, NEW zero, NEW target, IsRead(f, g, zero, target), ~f.isOmitted,
         NEW z, z[g] = zero[g], NEW d, IsSequence(d), NEW i
  PROVE  NextField(<<>>, i, Success(z, AppendField(f) \o d)) = Success(With(z, g, target[g]), d)
<1> DEFINE after == f.value \o d
           b == AppendField(f) \o d
           key == Read("name", b)
<1>1. IsSequence(f.value)
        /\ \A y, c : IsSequence(c) /\ y[g] = zero[g] =>
             ReadField(y, f.key, f.value \o c) = Success(With(y, g, target[g]), c)
  BY DEF IsRead
<1>2. ReadField(z, f.key, after) = Success(With(z, g, target[g]), d)
  BY Zenon, <1>1
<1>3. IsSequence(after)
  BY <1>1, Joined
<1>4. b = Token("name", f.key) \o after
  <2> DEFINE t == Token("name", f.key)
             v == f.value
  <2>1. IsSequence(t) /\ IsSequence(v)
    BY <1>1, ReadToken
  <2>2. AppendField(f) = t \o v
    BY DEF AppendField
  <2> HIDE DEF t, v
  <2>3. (t \o v) \o d = t \o (v \o d)
    BY <2>1, JoinedAnyhow
  <2>4. QED
    BY <2>2, <2>3 DEF t, v
<1>5. key = Success(f.key, after)
  <2> HIDE DEF after
  <2>1. QED
    BY <1>3, <1>4, ReadToken
<1>6. NextField(<<>>, i, Success(z, b)) = ReadField(z, f.key, after)
  <2> HIDE DEF after, b
  <2>1. QED
    BY <1>5, NextFieldRead
<1>7. QED
  BY <1>2, <1>6

(* The fields give every field of zero what it has in target, once.        *)
ReadsInto(fields, n, attr, zero, target) ==
  /\ DOMAIN fields = 1..n
  /\ zero = [g \in DOMAIN zero |-> zero[g]] /\ target = [g \in DOMAIN zero |-> target[g]]
  /\ \A i \in 1..n : attr[i] \in DOMAIN zero
  /\ \A g \in DOMAIN zero : \E i \in 1..n : attr[i] = g
  /\ \A i, j \in 1..n : attr[i] = attr[j] => i = j
  /\ \A i \in 1..n : IsRead(fields[i], attr[i], zero, target)

(* A field that was not read has its zero value,                           *)
LEMMA NotYetRead ==
  ASSUME NEW zero, NEW target, NEW done, NEW g, g \in DOMAIN zero, g \notin done
  PROVE  PartlyRead(zero, target, done)[g] = zero[g]
BY DEF PartlyRead

(* reading a field adds it to those read,                                  *)
LEMMA ReadOneMore ==
  ASSUME NEW zero, NEW target, NEW done, NEW g, g \in DOMAIN zero
  PROVE  With(PartlyRead(zero, target, done), g, target[g])
           = PartlyRead(zero, target, done \union {g})
<1> DEFINE z == PartlyRead(zero, target, done)
<1>1. DOMAIN z = DOMAIN zero
        /\ \A f \in DOMAIN zero : z[f] = IF f \in done THEN target[f] ELSE zero[f]
  BY DEF PartlyRead
<1> HIDE DEF z
<1>2. [z EXCEPT ![g] = target[g]] = [f \in DOMAIN z |-> IF f = g THEN target[g] ELSE z[f]]
  OBVIOUS
<1>3. \A f \in DOMAIN zero : (IF f = g THEN target[g] ELSE z[f])
                              = IF f \in done \union {g} THEN target[f] ELSE zero[f]
  BY <1>1
<1>4. QED
  BY <1>1, <1>2, <1>3 DEF PartlyRead, With, z

(* a field left out changes nothing, if it is zero,                        *)
LEMMA NothingToRead ==
  ASSUME NEW zero, NEW target, NEW done, NEW g, target[g] = zero[g]
  PROVE  PartlyRead(zero, target, done) = PartlyRead(zero, target, done \union {g})
BY DEF PartlyRead

(* and after all of them, the value is the one that was written.           *)
LEMMA AllRead ==
  ASSUME NEW zero, NEW target,
         zero = [g \in DOMAIN zero |-> zero[g]], target = [g \in DOMAIN zero |-> target[g]]
  PROVE  PartlyRead(zero, target, {}) = zero /\ PartlyRead(zero, target, DOMAIN zero) = target
<1>1. PartlyRead(zero, target, {}) = [g \in DOMAIN zero |-> zero[g]]
  BY DEF PartlyRead
<1>2. PartlyRead(zero, target, DOMAIN zero) = [g \in DOMAIN zero |-> target[g]]
  BY DEF PartlyRead
<1>3. QED
  BY Zenon, <1>1, <1>2

(* The fields as a list of sequences, an empty one for each field left out. *)
LEMMA AppendedFields ==
  ASSUME NEW n \in Nat, NEW fields, DOMAIN fields = 1..n,
         \A i \in 1..n : fields[i].isOmitted \/ IsSequence(fields[i].value)
  PROVE  AreSequences([i \in DOMAIN fields |-> AppendField(fields[i])], n)
<1>1. ASSUME NEW i \in 1..n PROVE IsSequence(AppendField(fields[i]))
  <2>1. CASE fields[i].isOmitted
    BY <2>1, NoTokens DEF AppendField
  <2>2. CASE ~fields[i].isOmitted
    <3> DEFINE v == fields[i].value
               t == Token("name", fields[i].key)
    <3>1. IsSequence(v)
      BY <2>2
    <3>2. IsSequence(t)
      BY <3>1, ReadToken
    <3>3. AppendField(fields[i]) = t \o v
      BY <2>2 DEF AppendField
    <3> HIDE DEF t, v
    <3>4. QED
      BY <3>1, <3>2, <3>3, Joined
  <2>3. QED
    BY <2>1, <2>2
<1>2. QED
  BY <1>1 DEF AreSequences

(* What is put before the fields is a sequence of tokens.                  *)
LEMMA FrontIsSequence ==
  ASSUME NEW extra, NEW front, NEW zero, IsFront(extra, front, zero)
  PROVE  IsSequence(front)
<1>1. CASE front = <<>>
  BY <1>1, NoTokens
<1>2. CASE \E key, value : IsSequence(value) /\ front = Token("name", key) \o value
  <2>1. PICK key, value : IsSequence(value) /\ front = Token("name", key) \o value
    BY <1>2
  <2>2. QED
    BY <2>1, ReadToken
<1>3. QED
  BY <1>1, <1>2 DEF IsFront

(* The values of fields that can be read are sequences of tokens,          *)
LEMMA FieldsAreSequences ==
  ASSUME NEW n \in Nat, NEW fields, NEW attr, NEW zero, NEW target,
         ReadsInto(fields, n, attr, zero, target)
  PROVE  /\ DOMAIN fields = 1..n
         /\ \A i \in 1..n : fields[i].isOmitted \/ IsSequence(fields[i].value)
BY DEF ReadsInto, IsRead

(* so the fields together are one,                                         *)
LEMMA FlatFields ==
  ASSUME NEW n \in Nat, NEW fields, NEW attr, NEW zero, NEW target,
         ReadsInto(fields, n, attr, zero, target)
  PROVE  IsSequence(AppendFields(fields))
<1> DEFINE pieces == [i \in DOMAIN fields |-> AppendField(fields[i])]
           flat == AppendFields(fields)
<1>1. AreSequences(pieces, n)
  BY FieldsAreSequences, AppendedFields
<1>2. flat = FlattenSeq(pieces)
  BY DEF AppendFields
<1> HIDE DEF pieces, flat
<1>3. IsSequence(flat)
  BY <1>1, <1>2, TailsExist, FlatIsTail
<1>4. QED
  BY <1>3 DEF flat

(* and so is the whole map.                                                *)
LEMMA MapMessageIsSequence ==
  ASSUME NEW fields, IsSequence(AppendFields(fields)), NEW extra, NEW front, IsSequence(front)
  PROVE  IsSequence(MapMessage(extra, front, fields))
<1> DEFINE flat == AppendFields(fields)
           t == Token("map", extra + Cardinality(Present(fields)))
<1>1. IsSequence(t) /\ IsSequence(flat)
  BY ReadToken
<1>2. MapMessage(extra, front, fields) = t \o (front \o flat)
  BY DEF MapMessage
<1> HIDE DEF t, flat
<1>3. IsSequence(front \o flat)
  BY <1>1, Joined
<1>4. QED
  BY <1>1, <1>2, <1>3, Joined

(* The header of a map tells how many fields follow, one more if there is a newer one. *)
LEMMA MapHeader ==
  ASSUME NEW n \in Nat, NEW fields, DOMAIN fields = 1..n, IsSequence(AppendFields(fields)),
         NEW extra, NEW front, IsSequence(front), NEW c, IsSequence(c)
  PROVE  Read("map", MapMessage(extra, front, fields) \o c)
           = Success(extra + CountUpTo(fields, n), front \o (AppendFields(fields) \o c))
<1> DEFINE flat == AppendFields(fields)
           t == Token("map", extra + CountUpTo(fields, n))
           ff == front \o flat
           fc == flat \o c
           after == front \o fc
           m == t \o ff
           b == m \o c
<1>1. IsSequence(t) /\ IsSequence(flat)
  BY ReadToken
<1>2. MapMessage(extra, front, fields) = m
  BY DEF MapMessage, CountUpTo, Present
<1>3. after = ff \o c /\ IsSequence(ff) /\ IsSequence(after)
  <2>1. ff = front \o flat /\ fc = flat \o c
    OBVIOUS
  <2> HIDE DEF flat, ff, fc
  <2>2. ff \o c = front \o fc
    BY <1>1, <2>1, Regrouped
  <2>3. IsSequence(ff)
    BY <1>1, <2>1, Joined
  <2>4. IsSequence(ff \o c)
    BY <2>3, Joined
  <2>5. QED
    BY Zenon, <2>2, <2>3, <2>4
<1>4. b = t \o after
  <2>1. m = t \o ff /\ after = ff \o c
    BY Zenon, <1>3
  <2> HIDE DEF t, ff, m, after
  <2>2. m \o c = t \o after
    BY <1>1, <1>3, <2>1, Regrouped
  <2>3. QED
    BY Zenon, <2>2
<1>5. Read("map", b) = Success(extra + CountUpTo(fields, n), after)
  <2> HIDE DEF b, after
  <2>1. QED
    BY <1>3, <1>4, ReadToken DEF t
<1>6. QED
  BY Zenon, <1>2, <1>5

(* The map is read into zero as target, whatever follows it.               *)
THEOREM MapRoundTrip ==
  ASSUME NEW n \in Nat, NEW fields, NEW attr, NEW zero, NEW target,
         ReadsInto(fields, n, attr, zero, target),
         NEW extra \in 0..1, NEW front, IsFront(extra, front, zero), NEW c, IsSequence(c)
  PROVE  ReadMap(zero, MapMessage(extra, front, fields) \o c, ReadField) = Success(target, c)
<1> DEFINE pieces == [i \in DOMAIN fields |-> AppendField(fields[i])]
           flat == AppendFields(fields)
           count(i) == extra + CountUpTo(fields, i)
           b == MapMessage(extra, front, fields) \o c
           after == front \o (flat \o c)
<1>1. DOMAIN fields = 1..n /\ AreSequences(pieces, n)
  BY FieldsAreSequences, AppendedFields
<1>2. PICK tail : AreTails(tail, pieces, n) /\ flat = tail[0]
  <2>1. flat = FlattenSeq(pieces)
    BY DEF AppendFields
  <2> HIDE DEF pieces, flat
  <2>2. QED
    BY <1>1, <2>1, TailsExist, FlatIsTail
<1>3. Read("map", b) = Success(count(n), after)
  <2>1. IsSequence(front) /\ IsSequence(AppendFields(fields)) /\ DOMAIN fields = 1..n
    BY <1>1, FlatFields, FrontIsSequence
  <2>2. Read("map", MapMessage(extra, front, fields) \o c)
          = Success(extra + CountUpTo(fields, n), front \o (AppendFields(fields) \o c))
    BY <2>1, MapHeader
  <2>3. QED
    BY Zenon, <2>2
<1>4. /\ CountUpTo(fields, 0) = 0 /\ CountUpTo(fields, n) \in Nat
      /\ \A i \in 1..n : /\ CountUpTo(fields, i) <= CountUpTo(fields, n)
                         /\ CountUpTo(fields, i - 1) \in Nat
                         /\ CountUpTo(fields, i) = CountUpTo(fields, i - 1)
                              + IF fields[i].isOmitted THEN 0 ELSE 1
  BY Counting
<1>5. PICK run : /\ FieldsRun(run, <<>>, Success(zero, after), 0, count(n))
                 /\ ReadMap(zero, b, ReadField) = run[count(n)]
  <2>1. count(n) \in Nat
    BY <1>4
  <2> HIDE DEF b, after, count
  <2>2. QED
    BY <1>3, <2>1, MapIsRun
<1>6. /\ run[0] = Success(zero, after)
      /\ \A i \in 1..count(n) : run[i] = NextField(<<>>, i, run[i - 1])
  <2>1. count(n) \in Nat
    BY <1>4
  <2> HIDE DEF after, count
  <2>2. QED
    BY <1>5, <2>1 DEF FieldsRun
<1> DEFINE done(i) == {attr[j] : j \in 1..i}
           z(i) == PartlyRead(zero, target, done(i))
           S == {i \in 0..n : run[count(i)] = Success(z(i), tail[i] \o c)}
<1>7. 0 \in S
  <2>1. z(0) = zero
    <3>1. done(0) = {}
      OBVIOUS
    <3>2. zero = [g \in DOMAIN zero |-> zero[g]] /\ target = [g \in DOMAIN zero |-> target[g]]
      BY DEF ReadsInto
    <3> HIDE DEF done
    <3>3. QED
      BY <3>1, <3>2, AllRead
  <2>2. IsSequence(tail[0])
    <3>1. 0 \in 0..n
      OBVIOUS
    <3> HIDE DEF pieces, flat
    <3>2. QED
      BY <1>2, <3>1 DEF AreTails
  <2> DEFINE d == flat \o c
  <2>3. IsSequence(d) /\ d = tail[0] \o c
    <3> HIDE DEF flat
    <3>1. IsSequence(d)
      BY <1>2, <2>2, Joined
    <3>2. QED
      BY <1>2, <3>1
  <2>4. run[count(0)] = Success(zero, d)
    <3>1. CASE extra = 0 /\ front = <<>>
      <4>1. after = d
        <5>1. after = <<>> \o d
          BY <3>1
        <5> HIDE DEF d, after
        <5>2. QED
          BY <2>3, <5>1, Joined
      <4>2. count(0) = 0
        BY <1>4, <3>1
      <4> HIDE DEF after, d, count
      <4>3. QED
        BY <1>6, <4>1, <4>2
    <3>2. CASE extra = 1 /\ \E key, value :
                 /\ IsSequence(value)
                 /\ front = Token("name", key) \o value
                 /\ \A e : IsSequence(e) => ReadField(zero, key, value \o e) = Success(zero, e)
      <4>1. PICK key, value :
                 /\ IsSequence(value)
                 /\ front = Token("name", key) \o value
                 /\ \A e : IsSequence(e) => ReadField(zero, key, value \o e) = Success(zero, e)
        BY <3>2
      <4> DEFINE name == Token("name", key)
                 vd == value \o d
      <4> HIDE DEF d
      <4>2. IsSequence(vd) /\ IsSequence(name)
        BY <2>3, <4>1, Joined, ReadToken
      <4>3. after = name \o vd
        <5> HIDE DEF name
        <5>1. (name \o value) \o d = name \o (value \o d)
          <6>1. IsSequence(name) /\ IsSequence(value) /\ IsSequence(d)
            BY <2>3, <4>1, <4>2
          <6> HIDE DEF S, vd, z, done, count, b, after, flat, pieces
          <6>2. QED
            BY SMTT(30), <6>1, JoinedAnyhow
        <5>2. QED
          BY Zenon, <4>1, <5>1 DEF name, d
      <4>4. Read("name", after) = Success(key, vd)
        <5> HIDE DEF vd, after
        <5>1. QED
          BY <4>2, <4>3, ReadToken
      <4>5. NextField(<<>>, 1, Success(zero, after)) = ReadField(zero, key, vd)
        <5> HIDE DEF vd, after
        <5>1. QED
          BY <4>4, NextFieldRead
      <4>6. ReadField(zero, key, vd) = Success(zero, d)
        BY Zenon, <2>3, <4>1
      <4>7. count(0) = 1 /\ 1 \in 1..count(n) /\ 1 - 1 = 0
        BY <1>4, <3>2
      <4> HIDE DEF vd, after, count
      <4>8. run[1] = NextField(<<>>, 1, run[0])
        BY <1>6, <4>7
      <4>9. QED
        BY Zenon, <1>6, <4>5, <4>6, <4>7, <4>8
    <3>3. QED
      BY <3>1, <3>2 DEF IsFront
  <2>5. run[count(0)] = Success(z(0), tail[0] \o c)
    <3> HIDE DEF d, z, count
    <3>1. QED
      BY Zenon, <2>1, <2>3, <2>4
  <2> HIDE DEF count, z
  <2>6. QED
    BY <2>5
<1>8. ASSUME NEW i \in (0 + 1)..n, i - 1 \in S PROVE i \in S
  <2> DEFINE f == fields[i]
             g == attr[i]
             y == z(i - 1)
             d == tail[i] \o c
  <2>1. i \in 1..n /\ i \in 0..n /\ i - 1 \in 0..n
    OBVIOUS
  <2>2. /\ IsRead(f, g, zero, target) /\ g \in DOMAIN zero
        /\ g \notin done(i - 1)
    <3>1. \A j \in 1..(i - 1) : j \in 1..n /\ j # i
      BY <2>1
    <3>2. QED
      BY <2>1, <3>1 DEF ReadsInto
  <2>3. done(i) = done(i - 1) \union {g}
    <3>1. \A j : j \in 1..i <=> j \in 1..(i - 1) \/ j = i
      BY <2>1
    <3>2. QED
      BY <3>1
  <2>4. /\ y[g] = zero[g]
        /\ With(y, g, target[g]) = z(i)
        /\ target[g] = zero[g] => y = z(i)
    <3> DEFINE before == done(i - 1)
               now == done(i)
    <3>1. g \in DOMAIN zero /\ g \notin before /\ now = before \union {g}
      BY <2>2, <2>3
    <3>2. y = PartlyRead(zero, target, before) /\ z(i) = PartlyRead(zero, target, now)
      OBVIOUS
    <3> HIDE DEF before, now, g, y, z, done
    <3>3. PartlyRead(zero, target, before)[g] = zero[g]
      BY <3>1, NotYetRead
    <3>4. With(PartlyRead(zero, target, before), g, target[g])
            = PartlyRead(zero, target, before \union {g})
      BY <3>1, ReadOneMore
    <3>5. target[g] = zero[g] =>
            PartlyRead(zero, target, before) = PartlyRead(zero, target, before \union {g})
      BY NothingToRead
    <3>6. QED
      BY Zenon, <3>1, <3>2, <3>3, <3>4, <3>5
  <2>5. run[count(i - 1)] = Success(y, tail[i - 1] \o c)
    BY <1>8
  <2>6. IsSequence(tail[i]) /\ tail[i - 1] = AppendField(f) \o tail[i] /\ IsSequence(AppendField(f))
    <3>1. pieces[i] = AppendField(f)
      BY <1>1, <2>1
    <3>2. IsSequence(pieces[i])
      BY <1>1, <2>1 DEF AreSequences
    <3> HIDE DEF pieces, f
    <3>3. QED
      BY <1>2, <2>1, <3>1, <3>2 DEF AreTails
  <2>7. IsSequence(d) /\ tail[i - 1] \o c = AppendField(f) \o d
    <3> DEFINE p == AppendField(f)
               t == tail[i]
    <3>1. IsSequence(p) /\ IsSequence(t) /\ tail[i - 1] = p \o t
      BY <2>6
    <3> HIDE DEF p, t
    <3>2. IsSequence(t \o c) /\ (p \o t) \o c = p \o (t \o c)
      BY SMTT(30), <3>1, Joined, JoinedAnyhow
    <3>3. QED
      BY Zenon, <3>1, <3>2 DEF p, t
  <2>8. run[count(i)] = Success(z(i), d)
    <3>1. CASE f.isOmitted
      <4>1. target[g] = zero[g]
        BY <2>2, <3>1 DEF IsRead
      <4>2. count(i) = count(i - 1)
        BY <1>4, <2>1, <3>1
      <4>3. AppendField(f) \o d = d
        <5>1. AppendField(f) = <<>>
          BY <3>1 DEF AppendField
        <5> HIDE DEF d, f
        <5>2. QED
          BY <2>7, <5>1, Joined
      <4> HIDE DEF count, z, d, f, g, y
      <4>4. QED
        BY Zenon, <2>4, <2>5, <2>7, <4>1, <4>2, <4>3
    <3>2. CASE ~f.isOmitted
      <4>1. count(i) = count(i - 1) + 1 /\ count(i) \in 1..count(n) /\ count(i) - 1 = count(i - 1)
        BY <1>4, <2>1, <3>2
      <4> HIDE DEF d, f, g, y
      <4>2. NextField(<<>>, count(i), Success(y, AppendField(f) \o d))
              = Success(With(y, g, target[g]), d)
        <5> HIDE DEF count
        <5>1. IsRead(f, g, zero, target) /\ y[g] = zero[g] /\ IsSequence(d)
          BY Zenon, <2>2, <2>4, <2>7
        <5>2. QED
          BY SMT, <3>2, <5>1, FieldStep
      <4>3. run[count(i)] = NextField(<<>>, count(i), run[count(i - 1)])
        <5> HIDE DEF count
        <5>1. QED
          BY <1>6, <4>1
      <4> HIDE DEF count, z
      <4>4. QED
        BY Zenon, <2>4, <2>5, <2>7, <4>2, <4>3
    <3>3. QED
      BY <3>1, <3>2
  <2> HIDE DEF count, z
  <2>9. QED
    BY <2>1, <2>8
<1>9. n \in S
  <2> HIDE DEF S
  <2>1. \A i \in 0..n : i \in S
    <3>1. 0 \in Nat
      OBVIOUS
    <3>2. QED
      BY <1>7, <1>8, <3>1, Induction
  <2>2. n \in 0..n
    OBVIOUS
  <2>3. QED
    BY <2>1, <2>2
<1>10. z(n) = target
  <2>1. done(n) = DOMAIN zero
    BY DEF ReadsInto
  <2>2. zero = [g \in DOMAIN zero |-> zero[g]] /\ target = [g \in DOMAIN zero |-> target[g]]
    BY DEF ReadsInto
  <2> HIDE DEF done
  <2>3. QED
    BY <2>1, <2>2, AllRead
<1>11. tail[n] \o c = c
  <2>1. tail[n] = <<>>
    BY <1>2 DEF AreTails
  <2>2. QED
    BY <2>1, Joined
<1>12. run[count(n)] = Success(target, c)
  <2>1. run[count(n)] = Success(z(n), tail[n] \o c)
    BY <1>9
  <2> HIDE DEF count, z
  <2>2. QED
    BY Zenon, <1>10, <1>11, <2>1
<1>13. QED
  <2> HIDE DEF b, count
  <2>1. QED
    BY Zenon, <1>5, <1>12 DEF b

-----------------------------------------------------------------------------
(* An array that is read                                                   *)

ArrayMessage(elements, n) == Token("array", n) \o FlattenSeq(elements)

(* Each element is read into zero as its value.                            *)
AreElements(elements, values, zero, n) ==
  /\ AreSequences(elements, n)
  /\ values = [i \in 1..n |-> values[i]]
  /\ \A i \in 1..n : \A c : IsSequence(c) =>
       Unmarshal(zero, elements[i] \o c) = Success(values[i], c)

ItemsRead(values, zero, n, i) == [j \in 1..n |-> IF j <= i THEN values[j] ELSE zero]

(* One round of the loop reads an element into its place.                  *)
LEMMA NextElementRead ==
  ASSUME NEW items, NEW b, NEW v, NEW after, NEW i, Unmarshal(items[i], b) = Success(v, after)
  PROVE  NextElement(<<>>, i, Success(SliceOf(items), b)) =
           Success(SliceOf(With(items, i, v)), after)
<1>1. \A x, rest : Success(x, rest).ok = TRUE /\ Success(x, rest).v = x /\
        Success(x, rest).rest = rest
  BY Succeeded
<1>2. Success(v, after).ok = TRUE /\ Success(v, after).v = v /\ Success(v, after).rest = after
  BY Zenon, <1>1
<1> DEFINE r == Success(SliceOf(items), b)
<1>3. r.ok = TRUE /\ r.v = SliceOf(items) /\ r.rest = b
  BY Zenon, <1>1
<1>4. SliceOf(items).items = items
  BY DEF SliceOf
<1>5. NextElement(<<>>, i, r) =
        IF r.ok
          THEN IF Unmarshal(r.v.items[i], r.rest).ok
                 THEN Success(SliceOf(With(r.v.items, i, Unmarshal(r.v.items[i], r.rest).v)),
                              Unmarshal(r.v.items[i], r.rest).rest)
                 ELSE Failure
          ELSE r
  <2> HIDE DEF r
  <2>1. QED
    BY Zenon DEF NextElement, With
<1>6. r.v.items = items
  <2> HIDE DEF r
  <2>1. QED
    BY Zenon, <1>3, <1>4
<1> HIDE DEF r
<1>7. NextElement(<<>>, i, r) = Success(SliceOf(With(items, i, v)), after)
  BY Zenon, <1>2, <1>3, <1>5, <1>6
<1>8. QED
  BY Zenon, <1>7 DEF r

(* Reading the i-th element adds it to those read.                         *)
LEMMA ReadOneMoreItem ==
  ASSUME NEW values, NEW zero, NEW n \in Nat, NEW i \in 1..n
  PROVE  With(ItemsRead(values, zero, n, i - 1), i, values[i]) = ItemsRead(values, zero, n, i)
<1> DEFINE items == ItemsRead(values, zero, n, i - 1)
<1>1. DOMAIN items = 1..n /\ \A j \in 1..n : items[j] = IF j <= i - 1 THEN values[j] ELSE zero
  BY DEF ItemsRead
<1> HIDE DEF items
<1>2. [items EXCEPT ![i] = values[i]] =
        [j \in DOMAIN items |-> IF j = i THEN values[i] ELSE items[j]]
  OBVIOUS
<1>3. \A j \in 1..n : (IF j = i THEN values[i] ELSE items[j]) = IF j <= i THEN values[j] ELSE zero
  BY <1>1
<1>4. QED
  BY <1>1, <1>2, <1>3 DEF With, ItemsRead, items

(* The array is read into a nil slice, whatever follows it; none of its    *)
(* elements leave the slice nil.                                           *)
THEOREM ArrayRoundTrip ==
  ASSUME NEW n \in Nat, NEW elements, NEW values, NEW zero, AreElements(elements, values, zero, n),
         NEW c, IsSequence(c)
  PROVE  ReadArray(NilSlice, ArrayMessage(elements, n) \o c, zero, Unmarshal)
           = Success(IF n = 0 THEN NilSlice ELSE SliceOf(values), c)
<1> DEFINE flat == FlattenSeq(elements)
           header == Token("array", n)
           m == header \o flat
           b == m \o c
           after == flat \o c
           target == IF Len(NilSlice.items) >= n
                       THEN [made |-> NilSlice.made, items |-> SubSeq(NilSlice.items, 1, n)]
                       ELSE SliceOf([i \in 1..n |-> zero])
           result == IF n = 0 THEN NilSlice ELSE SliceOf(values)
<1>1. AreSequences(elements, n) /\ values = [i \in 1..n |-> values[i]]
  BY DEF AreElements
<1>2. PICK tail : AreTails(tail, elements, n) /\ flat = tail[0]
  <2> HIDE DEF flat
  <2>1. QED
    BY <1>1, TailsExist, FlatIsTail DEF flat
<1>3. /\ tail[n] = <<>>
      /\ \A i \in 0..n : IsSequence(tail[i])
      /\ \A i \in 1..n : tail[i - 1] = elements[i] \o tail[i]
  BY <1>2 DEF AreTails
<1>4. IsSequence(flat) /\ IsSequence(header)
  <2>1. IsSequence(tail[0])
    BY <1>3
  <2> HIDE DEF flat
  <2>2. QED
    BY <1>2, <2>1, ReadToken
<1>5. Read("array", b) = Success(n, after)
  <2>1. m = header \o flat /\ after = flat \o c
    OBVIOUS
  <2> HIDE DEF m, header, flat, after
  <2>2. m \o c = header \o after
    BY <1>4, <2>1, Regrouped
  <2>3. IsSequence(after)
    BY <1>4, <2>1, Joined
  <2>4. Read("array", header \o after) = Success(n, after)
    BY <2>3, ReadToken DEF header
  <2>5. QED
    BY Zenon, <2>2, <2>4
<1>6. PICK run : /\ ItemsRun(run, <<>>, Success(target, after), 0, n)
                 /\ ReadArray(NilSlice, b, zero, Unmarshal) = run[n]
  <2> HIDE DEF b, after
  <2>1. QED
    BY Zenon, <1>5, ArrayIsRun
<1>7. /\ run[0] = Success(target, after)
      /\ \A i \in 1..n : run[i] = NextElement(<<>>, i, run[i - 1])
  <2> HIDE DEF after, target
  <2>1. QED
    BY <1>6 DEF ItemsRun
<1>8. run[n] = Success(result, c)
  <2>1. CASE n = 0
    <3>1. target = NilSlice
      <4>1. NilSlice.items = <<>> /\ NilSlice.made = FALSE /\ Len(<<>>) = 0 /\
              SubSeq(<<>>, 1, 0) = <<>>
        BY DEF NilSlice
      <4>2. Len(NilSlice.items) >= n
        BY <2>1, <4>1
      <4>3. target = [made |-> FALSE, items |-> <<>>]
        BY Zenon, <2>1, <4>1, <4>2
      <4>4. QED
        BY <4>3 DEF NilSlice
    <3>2. after = c
      <4>1. flat = <<>>
        <5> HIDE DEF flat
        <5>1. QED
          BY <1>2, <1>3, <2>1
      <4> HIDE DEF flat
      <4>2. QED
        BY <4>1, Joined
    <3> HIDE DEF target, after
    <3>3. QED
      BY Zenon, <1>7, <2>1, <3>1, <3>2
  <2>2. CASE n # 0
    <3> DEFINE slice(i) == SliceOf(ItemsRead(values, zero, n, i))
               S == {i \in 0..n : run[i] = Success(slice(i), tail[i] \o c)}
    <3>1. 0 \in S
      <4>1. target = slice(0)
        <5>1. Len(NilSlice.items) = 0
          BY DEF NilSlice
        <5>2. ~(Len(NilSlice.items) >= n)
          BY <2>2, <5>1
        <5>3. [i \in 1..n |-> zero] = ItemsRead(values, zero, n, 0)
          BY DEF ItemsRead
        <5>4. QED
          BY Zenon, <5>2, <5>3
      <4>2. run[0] = Success(slice(0), tail[0] \o c)
        <5> HIDE DEF target, slice, flat
        <5>1. QED
          BY Zenon, <1>2, <1>7, <4>1
      <4> HIDE DEF slice
      <4>3. QED
        BY <4>2
    <3>2. ASSUME NEW i \in (0 + 1)..n, i - 1 \in S PROVE i \in S
      <4>1. i \in 1..n /\ i \in 0..n
        OBVIOUS
      <4> DEFINE e == elements[i]
                 t == tail[i]
                 d == t \o c
                 items == ItemsRead(values, zero, n, i - 1)
      <4>2. IsSequence(e) /\ IsSequence(t) /\ tail[i - 1] = e \o t
        BY <1>1, <1>3, <4>1 DEF AreSequences
      <4>3. run[i - 1] = Success(SliceOf(items), tail[i - 1] \o c)
        BY <3>2
      <4>4. tail[i - 1] \o c = e \o d /\ IsSequence(d)
        <5> DEFINE before == tail[i - 1]
        <5>1. before = e \o t /\ d = t \o c
          BY <4>2
        <5> HIDE DEF before, e, t, d
        <5>2. before \o c = e \o d
          BY <4>2, <5>1, Regrouped
        <5>3. IsSequence(d)
          BY <4>2, <5>1, Joined
        <5>4. QED
          BY <5>2, <5>3 DEF before
      <4>5. Unmarshal(items[i], e \o d) = Success(values[i], d)
        <5>1. items[i] = zero
          BY <4>1 DEF ItemsRead
        <5>2. Unmarshal(zero, e \o d) = Success(values[i], d)
          <6>1. \A x : IsSequence(x) => Unmarshal(zero, e \o x) = Success(values[i], x)
            <7>1. \A j \in 1..n : \A x : IsSequence(x) =>
                    Unmarshal(zero, elements[j] \o x) = Success(values[j], x)
              BY Zenon DEF AreElements
            <7>2. QED
              BY Zenon, <4>1, <7>1
          <6> HIDE DEF d
          <6>2. QED
            BY Zenon, <4>4, <6>1
        <5> HIDE DEF items, d, e
        <5>3. QED
          BY Zenon, <5>1, <5>2
      <4>6. NextElement(<<>>, i, Success(SliceOf(items), e \o d))
              = Success(SliceOf(With(items, i, values[i])), d)
        <5> DEFINE ed == e \o d
        <5> HIDE DEF items, e, d
        <5>1. Unmarshal(items[i], ed) = Success(values[i], d)
          BY Zenon, <4>5
        <5> HIDE DEF ed
        <5>2. NextElement(<<>>, i, Success(SliceOf(items), ed))
                = Success(SliceOf(With(items, i, values[i])), d)
          BY <5>1, NextElementRead
        <5>3. QED
          BY Zenon, <5>2 DEF ed
      <4>7. With(items, i, values[i]) = ItemsRead(values, zero, n, i)
        BY <4>1, ReadOneMoreItem
      <4>8. run[i] = Success(slice(i), d)
        <5>1. run[i] = NextElement(<<>>, i, run[i - 1])
          BY <1>7, <4>1
        <5> HIDE DEF items, e, d
        <5>2. QED
          BY Zenon, <4>3, <4>4, <4>6, <4>7, <5>1
      <4> HIDE DEF slice
      <4>9. QED
        BY <4>1, <4>8
    <3>3. n \in S
      <4> HIDE DEF S
      <4>1. \A i \in 0..n : i \in S
        <5>1. 0 \in Nat
          OBVIOUS
        <5>2. QED
          BY <3>1, <3>2, <5>1, Induction
      <4>2. n \in 0..n
        OBVIOUS
      <4>3. QED
        BY <4>1, <4>2
    <3>4. slice(n) = SliceOf(values)
      <4>1. ItemsRead(values, zero, n, n) = values
        BY <1>1 DEF ItemsRead
      <4>2. QED
        BY <4>1
    <3>5. tail[n] \o c = c
      BY <1>3, Joined
    <3>6. run[n] = Success(slice(n), tail[n] \o c)
      <4> HIDE DEF slice
      <4>1. QED
        BY <3>3
    <3> HIDE DEF slice
    <3>7. QED
      BY Zenon, <2>2, <3>4, <3>5, <3>6
  <2>3. QED
    BY <2>1, <2>2
<1>9. QED
  <2> HIDE DEF result
  <2>1. QED
    BY Zenon, <1>6, <1>8 DEF ArrayMessage, result

-----------------------------------------------------------------------------
(* A reader that succeeds has not seen what follows the value it read      *)

(* The tokens of maps and arrays tell how many fields or elements follow.  *)
IsCounted(b) ==
  /\ IsSequence(b)
  /\ \A i \in 1..Len(b) : b[i][1] \in {"map", "array"} => b[i][2] \in Nat

(* r is the result for some tokens, and s for these tokens and c.          *)
IsLocal(r, s, c) ==
  \/ r = Failure
  \/ \E v, rest : IsCounted(rest) /\ r = Success(v, rest) /\ s = Success(v, rest \o c)

(* The part of a sequence from i on.                                       *)
LEMMA Part ==
  ASSUME NEW U, NEW s \in Seq(U), NEW n, n = Len(s), NEW i \in 1..(n + 1)
  PROVE  /\ SubSeq(s, i, n) \in Seq(U) /\ Len(SubSeq(s, i, n)) = n - i + 1
         /\ \A j \in 1..(n - i + 1) : SubSeq(s, i, n)[j] = s[i + j - 1]
<1>1. n \in Nat /\ \A j \in 1..n : s[j] \in U
  BY ElementOfSeq, LenProperties
<1>2. i \in Int /\ n \in Int /\ \A j \in i..n : s[j] \in U
  BY <1>1
<1>3. SubSeq(s, i, n) \in Seq(U) /\ Len(SubSeq(s, i, n)) = (IF i <= n THEN n - i + 1 ELSE 0)
        /\ \A j \in 1..(n - i + 1) : SubSeq(s, i, n)[j] = s[i + j - 1]
  BY <1>2, SubSeqProperties
<1>4. (IF i <= n THEN n - i + 1 ELSE 0) = n - i + 1
  BY <1>1
<1>5. QED
  BY <1>3, <1>4

(* A part of a counted payload is counted, whatever follows the payload.   *)
LEMMA CountedPart ==
  ASSUME NEW b, IsCounted(b), NEW i \in 1..(Len(b) + 1), NEW c, IsSequence(c)
  PROVE  /\ IsCounted(SubSeq(b, i, Len(b)))
         /\ SubSeq(b \o c, i, Len(b) + Len(c)) = SubSeq(b, i, Len(b)) \o c
<1>1. PICK S, T : b \in Seq(S) /\ c \in Seq(T)
  BY DEF IsCounted, IsSequence
<1> DEFINE U == S \union T
<1>2. b \in Seq(U) /\ c \in Seq(U)
  BY <1>1, SeqMonotonic
<1> HIDE DEF U
<1> DEFINE n == Len(b)
           k == Len(c)
           bc == b \o c
           p == SubSeq(b, i, n)
<1>0. PICK nk : nk = n + k
  OBVIOUS
<1> DEFINE q == SubSeq(bc, i, nk)
<1>3. n \in Nat /\ k \in Nat /\ \A j \in 1..n : b[j] \in U
  BY <1>2, LenProperties
<1>4. bc \in Seq(U) /\ Len(bc) = n + k
        /\ \A j \in 1..(n + k) : bc[j] = IF j <= n THEN b[j] ELSE c[j - n]
  BY <1>2, ConcatProperties
<1>5. p \in Seq(U) /\ Len(p) = n - i + 1 /\ \A j \in 1..(n - i + 1) : p[j] = b[i + j - 1]
  BY <1>2, Part
<1>6. q \in Seq(U) /\ Len(q) = nk - i + 1 /\ \A j \in 1..(nk - i + 1) : q[j] = bc[i + j - 1]
  <2>1. i \in 1..(nk + 1)
    BY <1>0, <1>3
  <2>2. Len(bc) = nk /\ bc \in Seq(U)
    BY <1>0, <1>4
  <2> HIDE DEF bc
  <2>3. QED
    BY <2>1, <2>2, Part
<1>7. IsCounted(p)
  <2>1. \A j \in 1..n : b[j][1] \in {"map", "array"} => b[j][2] \in Nat
    BY DEF IsCounted
  <2>2. \A j \in 1..(n - i + 1) : i + j - 1 \in 1..n
    BY <1>3
  <2> HIDE DEF p, n
  <2>3. \A j \in 1..Len(p) : p[j][1] \in {"map", "array"} => p[j][2] \in Nat
    BY <1>5, <2>1, <2>2
  <2>4. QED
    BY <1>5, <2>3 DEF IsCounted, IsSequence
<1>8. q = p \o c
  <2> DEFINE pc == p \o c
             m == n - i + 1
  <2>1. m \in Nat /\ Len(p) = m
    BY <1>3, <1>5
  <2>2. pc \in Seq(U) /\ Len(pc) = m + k
          /\ \A j \in 1..(m + k) : pc[j] = IF j <= m THEN p[j] ELSE c[j - m]
    <3> HIDE DEF p, m
    <3>1. QED
      BY <1>2, <1>5, <2>1, ConcatProperties
  <2>3. Len(q) = m + k
    BY <1>0, <1>3, <1>6
  <2>4. ASSUME NEW j \in 1..(m + k) PROVE q[j] = pc[j]
    <3>1. q[j] = bc[i + j - 1] /\ i + j - 1 \in 1..(n + k)
      BY <1>0, <1>3, <1>6
    <3>2. CASE j <= m
      <4>1. bc[i + j - 1] = b[i + j - 1] /\ p[j] = b[i + j - 1] /\ pc[j] = p[j]
        <5>1. i + j - 1 <= n /\ j \in 1..(n - i + 1)
          BY <1>3, <3>2
        <5> HIDE DEF bc, p, pc
        <5>2. QED
          BY <1>4, <1>5, <2>2, <3>1, <3>2, <5>1
      <4> HIDE DEF bc, p, pc, q
      <4>2. QED
        BY <3>1, <4>1
    <3>3. CASE ~(j <= m)
      <4>1. PICK x : x = i + j - 1
        OBVIOUS
      <4>2. x - n = j - m /\ ~(x <= n)
        BY <1>3, <3>3, <4>1
      <4> HIDE DEF bc, p, pc, q, m, n, k
      <4>3. bc[x] = c[x - n]
        BY <1>4, <3>1, <4>1, <4>2
      <4>4. pc[j] = c[j - m]
        BY <2>2, <3>3
      <4>5. q[j] = bc[x]
        BY <3>1, <4>1
      <4>6. QED
        BY Zenon, <4>2, <4>3, <4>4, <4>5
    <3>4. QED
      BY <3>2, <3>3
  <2> HIDE DEF q, pc, m, k
  <2>5. QED
    BY <1>6, <2>2, <2>3, <2>4, SeqEqual DEF pc
<1>9. QED
  BY <1>0, <1>7, <1>8

Ends(due, n) == {i \in 0..n : due[i] = 0}
IsFirst(i, S) == i \in S /\ \A j \in S : i <= j

SkipWith(due, b) ==
  IF Ends(due, Len(b)) = {} THEN Failure
  ELSE Success(<<>>, SubSeq(b, 1 + CHOOSE i \in Ends(due, Len(b)) :
                                     \A j \in Ends(due, Len(b)) : i <= j, Len(b)))

(* Skip counts what is due as a run over the payload,                      *)
LEMMA SkipIsRun ==
  ASSUME NEW b, Len(b) \in Nat
  PROVE  \E due : DuesRun(due, b, 1, 0, Len(b)) /\ Skip(b) = SkipWith(due, b)
<1> DEFINE IsDue(f) == DuesRun(f, b, 1, 0, Len(b))
<1>1. Skip(b) = SkipWith(CHOOSE f : IsDue(f), b)
  BY Zenon DEF Skip, SkipWith, Ends, DuesRun, NextDue
<1>2. \E f : IsDue(f)
  <2>1. 0 \in Nat
    OBVIOUS
  <2>2. QED
    BY <2>1, DuesRunExists
<1>3. IsDue(CHOOSE f : IsDue(f))
  BY <1>2
<1>4. QED
  BY <1>1, <1>3

(* ends where nothing is due for the first time,                           *)
LEMMA FirstEnd ==
  ASSUME NEW due, NEW b, NEW e, IsFirst(e, Ends(due, Len(b)))
  PROVE  SkipWith(due, b) = Success(<<>>, SubSeq(b, 1 + e, Len(b)))
<1> DEFINE S == Ends(due, Len(b))
           m == CHOOSE i \in S : \A j \in S : i <= j
<1>1. S # {} /\ e \in S /\ \A j \in S : e <= j
  BY DEF IsFirst
<1>2. S \subseteq Int
  BY DEF Ends
<1> HIDE DEF S
<1>3. m \in S /\ \A j \in S : m <= j
  BY <1>1
<1>4. m = e
  <2>1. m <= e /\ e <= m
    BY <1>1, <1>3
  <2>2. m \in Int /\ e \in Int
    BY <1>1, <1>2, <1>3
  <2> HIDE DEF m
  <2>3. QED
    BY <2>1, <2>2
<1>5. SkipWith(due, b) = Success(<<>>, SubSeq(b, 1 + m, Len(b)))
  BY Zenon, <1>1 DEF SkipWith, S
<1> HIDE DEF m
<1>6. QED
  BY Zenon, <1>4, <1>5

(* and does not depend on what comes after that.                           *)
LEMMA SkipLocal ==
  ASSUME NEW b, IsCounted(b), NEW c, IsSequence(c)
  PROVE  IsLocal(Skip(b), Skip(b \o c), c)
<1>1. IsSequence(b)
  BY DEF IsCounted
<1> DEFINE d == b \o c
           n == Len(b)
           k == Len(d)
<1>2. n \in Nat /\ Len(c) \in Nat /\ k = n + Len(c)
  BY <1>1, Joined
<1>3. PICK due : DuesRun(due, b, 1, 0, n) /\ Skip(b) = SkipWith(due, b)
  BY <1>2, SkipIsRun
<1>4. k \in Nat /\ n <= k
  BY <1>2
<1>5. PICK more : DuesRun(more, d, 1, 0, k) /\ Skip(d) = SkipWith(more, d)
  <2> HIDE DEF d
  <2>1. QED
    BY <1>4, SkipIsRun
<1>6. \A i \in 0..n : more[i] = due[i]
  <2>1. \A i \in 1..n : d[i] = b[i]
    BY <1>1, Elements
  <2>2. \A i \in 1..n : \A x : NextDue(d, i, x) = NextDue(b, i, x)
    BY Zenon, <2>1 DEF NextDue
  <2>3. DuesRun(due, b, 1, 0, n)
    BY <1>3
  <2>4. DuesRun(more, d, 1, 0, k)
    BY <1>5
  <2>5. n \in Nat
    BY <1>2
  <2> HIDE DEF d, n, k
  <2>6. QED
    BY <1>4, <2>2, <2>3, <2>4, <2>5, SameDues
<1>7. CASE Ends(due, n) = {}
  <2>1. Skip(b) = Failure
    BY <1>3, <1>7 DEF SkipWith
  <2>2. QED
    BY <2>1 DEF IsLocal
<1>8. CASE Ends(due, n) # {}
  <2>1. PICK e \in Ends(due, n) : \A i \in Ends(due, n) : e <= i
    <3>1. Ends(due, n) \in SUBSET Nat
      BY <1>2 DEF Ends
    <3>2. QED
      BY <1>8, <3>1, SmallestNumber
  <2>2. e \in 0..n /\ IsFirst(e, Ends(due, n))
    BY <2>1 DEF Ends, IsFirst
  <2>3. IsFirst(e, Ends(more, k))
    <3>1. e \in Ends(more, k)
      <4> HIDE DEF k, n
      <4>1. QED
        BY <1>2, <1>4, <1>6, <2>1 DEF Ends
    <3>2. ASSUME NEW i \in Ends(more, k) PROVE e <= i
      <4> HIDE DEF k, n
      <4>1. i \in 0..k /\ more[i] = 0 /\ e \in 0..n
        BY <2>2 DEF Ends
      <4>2. CASE i <= n
        <5>1. i \in Ends(due, n)
          BY <1>2, <1>6, <4>1, <4>2 DEF Ends
        <5>2. QED
          BY <2>1, <5>1
      <4>3. CASE ~(i <= n)
        BY <1>2, <1>4, <4>1, <4>3
      <4>4. QED
        BY <4>2, <4>3
    <3>3. QED
      BY <3>1, <3>2 DEF IsFirst
  <2> DEFINE rest == SubSeq(b, 1 + e, n)
  <2>4. Skip(b) = Success(<<>>, rest)
    BY <1>3, <2>2, FirstEnd
  <2>5. Skip(d) = Success(<<>>, SubSeq(d, 1 + e, k))
    <3> HIDE DEF d
    <3>1. QED
      BY <1>5, <2>3, FirstEnd
  <2>6. IsCounted(rest) /\ SubSeq(d, 1 + e, n + Len(c)) = rest \o c
    <3>1. PICK i : i = 1 + e
      OBVIOUS
    <3>2. i \in 1..(Len(b) + 1)
      BY <1>2, <2>2, <3>1
    <3>3. IsCounted(SubSeq(b, i, Len(b))) /\
            SubSeq(b \o c, i, Len(b) + Len(c)) = SubSeq(b, i, Len(b)) \o c
      BY <3>2, CountedPart
    <3>4. QED
      BY <3>1, <3>3
  <2>7. SubSeq(d, 1 + e, k) = rest \o c
    BY Zenon, <1>2, <2>6
  <2> HIDE DEF rest, d
  <2>8. QED
    BY Zenon, <2>4, <2>5, <2>6, <2>7 DEF IsLocal, d
<1>9. QED
  BY <1>7, <1>8

-----------------------------------------------------------------------------
(* Messages with a field more                                              *)

LEMMA FirstPart ==
  ASSUME NEW a, NEW b, IsSequence(a), IsSequence(b)
  PROVE  SubSeq(a \o b, 1, Len(a)) = a
<1>1. PICK S, T : a \in Seq(S) /\ b \in Seq(T)
  BY DEF IsSequence
<1> DEFINE U == S \union T
<1>2. a \in Seq(U) /\ b \in Seq(U)
  BY <1>1, SeqMonotonic
<1> HIDE DEF U
<1> DEFINE d == a \o b
           n == Len(a)
           s == SubSeq(d, 1, n)
<1>3. n \in Nat /\ \A i \in 1..n : d[i] = a[i]
  BY Elements
<1>4. \A i \in 1..n : d[i] \in U
  BY <1>2, <1>3, ElementOfSeq
<1>5. s \in Seq(U) /\ Len(s) = (IF 1 <= n THEN n - 1 + 1 ELSE 0)
        /\ \A i \in 1..(n - 1 + 1) : s[i] = d[1 + i - 1]
  <2> HIDE DEF d, n
  <2>1. 1 \in Int /\ n \in Int
    BY <1>3
  <2>2. QED
    BY <1>4, <2>1, SubSeqProperties
<1>6. Len(s) = n /\ \A i \in 1..n : s[i] = a[i]
  <2> HIDE DEF d, s
  <2>1. QED
    BY <1>3, <1>5
<1>7. QED
  <2> HIDE DEF s
  <2>1. QED
    BY <1>2, <1>5, <1>6, SeqEqual DEF s

(* Behind the first of two joined sequences is the second.                 *)
LEMMA LastPart ==
  ASSUME NEW a, NEW b, IsSequence(a), IsSequence(b)
  PROVE  SubSeq(a \o b, Len(a) + 1, Len(a \o b)) = b
<1>1. PICK S, T : a \in Seq(S) /\ b \in Seq(T)
  BY DEF IsSequence
<1> DEFINE U == S \union T
<1>2. a \in Seq(U) /\ b \in Seq(U)
  BY <1>1, SeqMonotonic
<1> HIDE DEF U
<1> DEFINE d == a \o b
           n == Len(a)
           l == Len(d)
           s == SubSeq(d, n + 1, l)
<1>3. n \in Nat /\ Len(b) \in Nat /\ l = n + Len(b)
  BY Joined
<1>4. d \in Seq(U) /\ \A i \in 1..(n + Len(b)) : d[i] = IF i <= n THEN a[i] ELSE b[i - n]
  BY <1>2, <1>3, ConcatProperties
<1>5. s \in Seq(U) /\ Len(s) = l - (n + 1) + 1 /\
        \A i \in 1..(l - (n + 1) + 1) : s[i] = d[n + 1 + i - 1]
  <2>1. n + 1 \in 1..(l + 1)
    BY <1>3
  <2>2. PICK i : i = n + 1
    OBVIOUS
  <2>3. l = Len(d)
    OBVIOUS
  <2> HIDE DEF d, n, l
  <2>4. SubSeq(d, i, l) \in Seq(U) /\ Len(SubSeq(d, i, l)) = l - i + 1
          /\ \A j \in 1..(l - i + 1) : SubSeq(d, i, l)[j] = d[i + j - 1]
    BY <1>4, <2>1, <2>2, <2>3, Part
  <2>5. QED
    BY Zenon, <2>2, <2>4
<1>6. Len(s) = Len(b) /\ \A i \in 1..Len(b) : s[i] = b[i]
  <2>1. l - (n + 1) + 1 = Len(b)
    BY <1>3
  <2>2. \A i \in 1..Len(b) : d[n + 1 + i - 1] = b[i]
    <3> HIDE DEF d, n
    <3>1. ASSUME NEW i \in 1..Len(b) PROVE d[n + 1 + i - 1] = b[i]
      <4>1. PICK j : j = n + 1 + i - 1
        OBVIOUS
      <4>2. j \in 1..(n + Len(b)) /\ ~(j <= n) /\ j - n = i
        BY <1>3, <4>1
      <4>3. d[j] = b[j - n]
        BY <1>4, <4>2
      <4>4. QED
        BY Zenon, <4>1, <4>2, <4>3
    <3>2. QED
      BY <3>1
  <2> HIDE DEF d, n, l, s
  <2>3. QED
    BY <1>5, <2>1, <2>2
<1>7. QED
  <2> HIDE DEF s
  <2>1. s = b
    BY <1>2, <1>5, <1>6, SeqEqual
  <2>2. QED
    BY <2>1 DEF s

(* Every token has tokens before it and tokens after it.                   *)
LEMMA Around ==
  ASSUME NEW a, IsSequence(a), NEW i \in 1..Len(a)
  PROVE  \E p, q : /\ IsSequence(p) /\ IsSequence(q) /\ Len(p) = i - 1
                   /\ a = p \o (<<a[i]>> \o q)
<1>1. PICK U : a \in Seq(U)
  BY DEF IsSequence
<1> DEFINE n == Len(a)
           t == a[i]
           p == SubSeq(a, 1, i - 1)
           q == SubSeq(a, i + 1, n)
           r == <<t>> \o q
           b == p \o r
<1>2. n \in Nat /\ \A j \in 1..n : a[j] \in U
  BY <1>1, ElementOfSeq, LenProperties
<1>3. p \in Seq(U) /\ Len(p) = i - 1 /\ \A j \in 1..(i - 1) : p[j] = a[j]
  <2>1. 1 \in Int /\ i - 1 \in Int /\ \A j \in 1..(i - 1) : a[j] \in U
    BY <1>2
  <2>2. p \in Seq(U) /\ Len(p) = (IF 1 <= i - 1 THEN i - 1 - 1 + 1 ELSE 0)
          /\ \A j \in 1..(i - 1 - 1 + 1) : p[j] = a[1 + j - 1]
    BY <2>1, SubSeqProperties
  <2> HIDE DEF p
  <2>3. QED
    BY <1>2, <2>2
<1>4. q \in Seq(U) /\ Len(q) = n - i /\ \A j \in 1..(n - i) : q[j] = a[i + j]
  <2>1. PICK k : k = i + 1
    OBVIOUS
  <2>2. k \in 1..(n + 1)
    BY <1>2, <2>1
  <2>3. SubSeq(a, k, n) \in Seq(U) /\ Len(SubSeq(a, k, n)) = n - k + 1
          /\ \A j \in 1..(n - k + 1) : SubSeq(a, k, n)[j] = a[k + j - 1]
    <3>1. n = Len(a)
      OBVIOUS
    <3> HIDE DEF n, t, p, q, r, b
    <3>2. QED
      BY <1>1, <2>2, <3>1, Part
  <2>4. q = SubSeq(a, k, n)
    BY <2>1
  <2> HIDE DEF q
  <2>5. q \in Seq(U) /\ Len(q) = n - k + 1 /\ \A j \in 1..(n - k + 1) : q[j] = a[k + j - 1]
    BY Zenon, <2>3, <2>4
  <2>6. \A j \in 1..(n - i) : k + j - 1 = i + j
    BY <1>2, <2>1
  <2>7. n - k + 1 = n - i
    BY <1>2, <2>1
  <2> HIDE DEF n
  <2>8. QED
    BY <2>5, <2>6, <2>7
<1>5. t \in U /\ <<t>> \in Seq(U) /\ Len(<<t>>) = 1 /\ <<t>>[1] = t
  <2>1. t \in U
    BY <1>2
  <2> HIDE DEF t
  <2>2. QED
    BY <2>1
<1>6. r \in Seq(U) /\ Len(r) = 1 + (n - i)
        /\ \A j \in 1..(1 + (n - i)) : r[j] = IF j <= 1 THEN t ELSE q[j - 1]
  <2> HIDE DEF p, q, t, n
  <2>1. r \in Seq(U) /\ Len(r) = Len(<<t>>) + Len(q)
          /\ \A j \in 1..(Len(<<t>>) + Len(q)) : r[j] =
               IF j <= Len(<<t>>) THEN <<t>>[j] ELSE q[j - Len(<<t>>)]
    BY <1>4, <1>5, ConcatProperties
  <2> HIDE DEF r
  <2>2. \A j \in 1..(1 + (n - i)) : j <= 1 => j = 1
    OBVIOUS
  <2>3. QED
    BY <1>4, <1>5, <2>1, <2>2
<1>7. b \in Seq(U) /\ Len(b) = n /\
        \A j \in 1..n : b[j] = IF j <= i - 1 THEN p[j] ELSE r[j - (i - 1)]
  <2> HIDE DEF p, r
  <2>1. b \in Seq(U) /\ Len(b) = Len(p) + Len(r)
          /\ \A j \in 1..(Len(p) + Len(r)) : b[j] = IF j <= Len(p) THEN p[j] ELSE r[j - Len(p)]
    BY <1>3, <1>6, ConcatProperties
  <2> HIDE DEF b
  <2>2. Len(p) + Len(r) = n /\ Len(p) = i - 1
    BY <1>2, <1>3, <1>6
  <2> HIDE DEF n
  <2>3. QED
    BY Zenon, <2>1, <2>2
<1>8. ASSUME NEW j \in 1..n PROVE b[j] = a[j]
  <2> HIDE DEF b, p, q, r
  <2>1. CASE j <= i - 1
    BY <1>3, <1>7, <2>1
  <2>2. CASE j = i
    <3>1. j - (i - 1) = 1 /\ ~(j <= i - 1) /\ 1 \in 1..(1 + (n - i))
      BY <1>2, <2>2
    <3>2. r[1] = t
      BY <1>6, <3>1
    <3>3. QED
      BY <1>7, <2>2, <3>1, <3>2
  <2>3. CASE j > i
    <3>1. PICK k : k = j - (i - 1)
      OBVIOUS
    <3>2. k \in 1..(1 + (n - i)) /\ ~(k <= 1) /\ ~(j <= i - 1) /\ k - 1 \in 1..(n - i) /\
            i + (k - 1) = j
      BY <1>2, <2>3, <3>1
    <3>3. r[k] = q[k - 1]
      BY <1>6, <3>2
    <3>4. q[k - 1] = a[j]
      BY <1>4, <3>2
    <3>5. b[j] = r[k]
      BY <1>7, <3>1, <3>2
    <3>6. QED
      BY Zenon, <3>3, <3>4, <3>5
  <2>4. QED
    BY <1>2, <2>1, <2>2, <2>3
<1>9. a = b
  <2> HIDE DEF b
  <2>1. QED
    BY <1>1, <1>7, <1>8, SeqEqual
<1>10. QED
  <2>1. IsSequence(p) /\ IsSequence(q)
    BY <1>3, <1>4 DEF IsSequence
  <2> HIDE DEF p, q, t
  <2>2. QED
    BY <1>3, <1>9, <2>1 DEF t

(* At i in a, t is between p and q.                                        *)
AreAround(a, i, p, t, q) ==
  /\ a[i] = t /\ i \in DOMAIN a
  /\ SubSeq(a, 1, i - 1) = p /\ SubSeq(a, i + 1, Len(a)) = q

(* A token in a sequence, with what is before it and behind it,            *)
LEMMA Surrounded ==
  ASSUME NEW p, NEW q, IsSequence(p), IsSequence(q), NEW t,
         NEW a, a = p \o (<<t>> \o q), NEW i, i = Len(p) + 1
  PROVE  AreAround(a, i, p, t, q)
<1> DEFINE r == <<t>> \o q
           pt == p \o <<t>>
<1>1. IsSequence(<<t>>) /\ Len(<<t>>) = 1 /\ IsSequence(r) /\ r[1] = t
  BY OneToken
<1>2. Len(p) \in Nat /\ Len(q) \in Nat /\ Len(r) = 1 + Len(q) /\ Len(a) = Len(p) + Len(r)
  <2>1. Len(p) \in Nat /\ Len(q) \in Nat /\ Len(r) = 1 + Len(q)
    BY <1>1, Joined
  <2> HIDE DEF r
  <2>2. Len(p \o r) = Len(p) + Len(r)
    BY <1>1, Joined
  <2>3. QED
    BY <2>1, <2>2 DEF r
<1>3. a[i] = t /\ i \in DOMAIN a
  <2>1. a = p \o r /\ IsSequence(a)
    BY <1>1, Joined
  <2> HIDE DEF r
  <2>2. \A j \in 1..Len(r) : (p \o r)[Len(p) + j] = r[j]
    BY <1>1, Elements
  <2>3. 1 \in 1..Len(r)
    BY <1>2
  <2>4. a[Len(p) + 1] = t
    BY <1>1, <2>1, <2>2, <2>3
  <2>5. DOMAIN a = 1..Len(a)
    BY <2>1 DEF IsSequence
  <2>6. Len(p) + 1 \in 1..Len(a)
    BY <1>2
  <2>7. QED
    BY <2>4, <2>5, <2>6
<1>4. SubSeq(a, 1, i - 1) = p
  <2>1. SubSeq(p \o r, 1, Len(p)) = p
    <3> HIDE DEF r
    <3>1. QED
      BY <1>1, FirstPart
  <2>2. i - 1 = Len(p)
    BY <1>2
  <2>3. QED
    BY Zenon, <2>1, <2>2
<1>5. SubSeq(a, i + 1, Len(a)) = q
  <2>1. a = pt \o q /\ IsSequence(pt)
    <3>1. IsSequence(pt)
      BY <1>1, Joined
    <3>2. pt = p \o <<t>> /\ r = <<t>> \o q
      OBVIOUS
    <3> HIDE DEF pt, r
    <3>3. pt \o q = p \o r
      BY <1>1, <3>2, Regrouped
    <3>4. QED
      BY Zenon, <3>1, <3>2, <3>3
  <2>2. Len(pt) = i
    BY <1>1, Joined
  <2> HIDE DEF pt
  <2>3. SubSeq(pt \o q, Len(pt) + 1, Len(pt \o q)) = q
    BY <2>1, LastPart
  <2>4. QED
    BY Zenon, <2>1, <2>2, <2>3
<1>6. QED
  BY Zenon, <1>3, <1>4, <1>5 DEF AreAround

(* which are unique.                                                       *)
LEMMA OnePlace ==
  ASSUME NEW a, NEW i, NEW p, NEW t, NEW q, NEW x, NEW u, NEW y,
         AreAround(a, i, p, t, q), AreAround(a, i, x, u, y)
  PROVE  p = x /\ t = u /\ q = y
BY Zenon DEF AreAround

(* p, a map with the header t and one more field f, and q.                 *)
Extended(p, t, f, q) == p \o (Token("map", t[2] + 1) \o (f \o q))

IsExtended(a, i, p, t, f, q) ==
  /\ a[i] = t /\ i \in DOMAIN a
  /\ WithField(a, i, f) = Extended(p, t, f, q)

(* WithField puts the newer field behind the header at that place.         *)
LEMMA WithFieldAt ==
  ASSUME NEW p, NEW q, NEW f, IsSequence(p), IsSequence(q), IsSequence(f), NEW t,
         NEW a, a = p \o (<<t>> \o q), NEW i, i = Len(p) + 1
  PROVE  IsExtended(a, i, p, t, f, q)
<1> DEFINE h == Token("map", t[2] + 1)
<1>1. AreAround(a, i, p, t, q)
  BY Surrounded
<1>2. WithField(a, i, f) = ((p \o h) \o f) \o q
  BY Zenon, <1>1 DEF WithField, AreAround
<1>3. ((p \o h) \o f) \o q = p \o (h \o (f \o q))
  <2>1. IsSequence(h)
    BY NoTokens, OneToken DEF Token
  <2> HIDE DEF h
  <2>2. IsSequence(p \o h) /\ IsSequence(f \o q)
    BY <2>1, Joined
  <2>3. ((p \o h) \o f) \o q = (p \o h) \o (f \o q)
    BY SMTT(30), <2>2, JoinedAnyhow
  <2>4. (p \o h) \o (f \o q) = p \o (h \o (f \o q))
    <3>1. PICK x : x = f \o q
      OBVIOUS
    <3>2. IsSequence(x)
      BY <2>2, <3>1
    <3>3. (p \o h) \o x = p \o (h \o x)
      BY SMTT(30), <2>1, <3>2, JoinedAnyhow
    <3>4. QED
      BY Zenon, <3>1, <3>3
  <2>5. QED
    BY Zenon, <2>3, <2>4
<1>4. QED
  BY Zenon, <1>1, <1>2, <1>3 DEF Extended, IsExtended, AreAround

(* A payload with a newer field is a sequence of tokens.                   *)
LEMMA ExtendedIsSequence ==
  ASSUME NEW p, NEW q, NEW f, IsSequence(p), IsSequence(q), IsSequence(f), NEW t
  PROVE  IsSequence(Extended(p, t, f, q))
<1> DEFINE h == Token("map", t[2] + 1)
           fq == f \o q
           hfq == h \o fq
<1>1. IsSequence(h)
  BY NoTokens, OneToken DEF Token
<1>2. IsSequence(fq)
  BY Joined
<1> HIDE DEF h, fq
<1>3. IsSequence(hfq)
  BY <1>1, <1>2, Joined
<1> HIDE DEF hfq
<1>4. IsSequence(p \o hfq)
  BY <1>3, Joined
<1>5. QED
  BY Zenon, <1>4 DEF Extended, h, fq, hfq

(* m is a with the field f in one of its maps.                             *)
IsExtension(m, a, f) ==
  \E p, t, q : /\ IsSequence(p) /\ IsSequence(q) /\ t[1] = "map"
               /\ a = p \o (<<t>> \o q)
               /\ m = Extended(p, t, f, q)

(* An encoding of a message is the message, or has a field in a map of it. *)
LEMMA EncodingsAre ==
  ASSUME NEW a, IsSequence(a), NEW f, IsSequence(f), NEW m \in Encodings(a, f)
  PROVE  m = a \/ IsExtension(m, a, f)
<1>1. CASE m = a
  BY <1>1
<1>2. CASE m # a
  <2>1. PICK i \in DOMAIN a : a[i][1] = "map" /\ m = WithField(a, i, f)
    BY <1>2, Zenon DEF Encodings
  <2>2. i \in 1..Len(a)
    BY <2>1 DEF IsSequence
  <2>3. PICK p, q : IsSequence(p) /\ IsSequence(q) /\ Len(p) = i - 1 /\ a = p \o (<<a[i]>> \o q)
    BY <2>2, Around
  <2>4. PICK t : t = a[i]
    OBVIOUS
  <2>5. a = p \o (<<t>> \o q) /\ t[1] = "map"
    BY Zenon, <2>1, <2>3, <2>4
  <2>6. i = Len(p) + 1
    <3>1. Len(p) = i - 1 /\ i \in Int
      BY <2>2, <2>3
    <3>2. QED
      BY <3>1
  <2>7. IsExtended(a, i, p, t, f, q)
    BY <2>3, <2>5, <2>6, WithFieldAt
  <2>8. QED
    BY Zenon, <2>1, <2>3, <2>5, <2>7 DEF IsExtended, IsExtension
<1>3. QED
  BY <1>1, <1>2

(* And the other way around.                                               *)
LEMMA ExtendedIsEncoding ==
  ASSUME NEW a, NEW f, IsSequence(f), NEW m, IsExtension(m, a, f)
  PROVE  m \in Encodings(a, f)
<1>0. PICK p, t, q : /\ IsSequence(p) /\ IsSequence(q) /\ t[1] = "map"
                     /\ a = p \o (<<t>> \o q)
                     /\ m = Extended(p, t, f, q)
  BY Zenon DEF IsExtension
<1>1. PICK i : i = Len(p) + 1
  OBVIOUS
<1>2. IsExtended(a, i, p, t, f, q)
  BY <1>0, <1>1, WithFieldAt
<1>3. i \in {j \in DOMAIN a : a[j][1] = "map"}
  BY Zenon, <1>0, <1>2 DEF IsExtended
<1>4. QED
  BY Zenon, <1>0, <1>2, <1>3 DEF Encodings, IsExtended

(* Every encoding is a sequence of tokens.                                 *)
LEMMA EncodingIsSequence ==
  ASSUME NEW a, IsSequence(a), NEW f, IsSequence(f), NEW m \in Encodings(a, f)
  PROVE  IsSequence(m)
<1>1. CASE m = a
  BY <1>1
<1>2. CASE m # a
  <2>1. IsExtension(m, a, f)
    BY <1>2, EncodingsAre
  <2>2. PICK p, t, q : IsSequence(p) /\ IsSequence(q) /\ m = Extended(p, t, f, q)
    BY Zenon, <2>1 DEF IsExtension
  <2>3. QED
    BY <2>2, ExtendedIsSequence
<1>3. QED
  BY <1>1, <1>2

(* m is an encoding of one of two messages, before or behind the other.    *)
IsJoined(m, a, b, f) ==
  \/ \E x \in Encodings(a, f) : m = x \o b
  \/ \E x \in Encodings(b, f) : m = a \o x

IsAround(a, p, t, q) == a = p \o (<<t>> \o q)

IsInTheFirst(a, b, f, p, t, q) ==
  /\ a \o b = p \o (<<t>> \o (q \o b))
  /\ \E x \in Encodings(a, f) : Extended(p, t, f, q \o b) = x \o b
IsInTheSecond(a, b, f, p, t, q) ==
  /\ a \o b = (a \o p) \o (<<t>> \o q)
  /\ \E x \in Encodings(b, f) : Extended(a \o p, t, f, q) = a \o x

(* A newer field in the first of two joined payloads is one in their join, *)
LEMMA InTheFirst ==
  ASSUME NEW a, NEW b, NEW f, IsSequence(a), IsSequence(b), IsSequence(f),
         NEW p, NEW q, NEW t, IsSequence(p), IsSequence(q), t[1] = "map",
         IsAround(a, p, t, q)
  PROVE  IsInTheFirst(a, b, f, p, t, q)
<1>1. IsSequence(<<t>>)
  BY OneToken
<1> DEFINE tq == <<t>> \o q
           qb == q \o b
           tqb == tq \o b
<1>2. IsSequence(tq) /\ IsSequence(qb)
  BY <1>1, Joined
<1>3. tqb = <<t>> \o qb
  BY <1>1, JoinedAnyhow
<1>4. a \o b = p \o tqb
  <2>1. PICK w : w = tq
    OBVIOUS
  <2>2. IsSequence(w)
    BY <1>2, <2>1
  <2>3. (p \o w) \o b = p \o (w \o b)
    BY SMTT(30), <2>2, JoinedAnyhow
  <2>4. QED
    BY Zenon, <2>1, <2>3 DEF IsAround
<1>5. PICK x : x = Extended(p, t, f, q)
  OBVIOUS
<1>6. x \in Encodings(a, f)
  <2>1. IsExtension(x, a, f)
    BY Zenon, <1>5 DEF IsExtension, IsAround
  <2>2. QED
    BY <2>1, ExtendedIsEncoding
<1> DEFINE h == Token("map", t[2] + 1)
           fq == f \o q
           hfq == h \o fq
           fqb == fq \o b
           hfqb == hfq \o b
<1>7. IsSequence(h)
  BY NoTokens, OneToken DEF Token
<1>8. IsSequence(fq)
  BY Joined
<1>9. IsSequence(hfq)
  <2> HIDE DEF h, fq
  <2>1. QED
    BY <1>7, <1>8, Joined
<1>10. x = p \o hfq
  BY Zenon, <1>5 DEF Extended
<1>11. fqb = f \o qb
  <2>1. (f \o q) \o b = f \o (q \o b)
    BY SMT, JoinedAnyhow
  <2>2. QED
    BY Zenon, <2>1
<1>12. hfqb = h \o fqb
  <2>1. hfqb = hfq \o b /\ hfq = h \o fq /\ fqb = fq \o b
    OBVIOUS
  <2> HIDE DEF h, fq, hfq, fqb, hfqb
  <2>2. hfq \o b = h \o fqb
    BY SMTT(30), <1>7, <1>8, <2>1, Regrouped
  <2>3. QED
    BY Zenon, <2>1, <2>2
<1>13. x \o b = p \o hfqb
  <2>1. hfqb = hfq \o b
    OBVIOUS
  <2> HIDE DEF hfq, hfqb
  <2>2. QED
    BY <1>9, <1>10, <2>1, Regrouped
<1>14. Extended(p, t, f, qb) = p \o (h \o (f \o qb))
  BY Zenon DEF Extended
<1> HIDE DEF fqb, hfqb, qb, h
<1>15. Extended(p, t, f, qb) = x \o b
  BY Zenon, <1>11, <1>12, <1>13, <1>14
<1>16. QED
  BY Zenon, <1>3, <1>4, <1>6, <1>15 DEF qb, IsInTheFirst

(* and so is one in the second.                                            *)
LEMMA InTheSecond ==
  ASSUME NEW a, NEW b, NEW f, IsSequence(a), IsSequence(b), IsSequence(f),
         NEW p, NEW q, NEW t, IsSequence(p), IsSequence(q), t[1] = "map",
         IsAround(b, p, t, q)
  PROVE  IsInTheSecond(a, b, f, p, t, q)
<1>1. IsSequence(<<t>>)
  BY OneToken
<1> DEFINE tq == <<t>> \o q
           ap == a \o p
           h == Token("map", t[2] + 1)
           fq == f \o q
           hfq == h \o fq
<1>2. IsSequence(tq) /\ IsSequence(fq)
  BY <1>1, Joined
<1>3. ap \o tq = a \o b
  <2>1. (a \o p) \o tq = a \o (p \o tq)
    <3> HIDE DEF tq
    <3>1. QED
      BY SMTT(30), <1>2, JoinedAnyhow
  <2>2. QED
    BY Zenon, <2>1 DEF IsAround
<1>4. PICK x : x = Extended(p, t, f, q)
  OBVIOUS
<1>5. x \in Encodings(b, f)
  <2>1. IsExtension(x, b, f)
    BY Zenon, <1>4 DEF IsExtension, IsAround
  <2>2. QED
    BY <2>1, ExtendedIsEncoding
<1>6. IsSequence(h)
  BY NoTokens, OneToken DEF Token
<1>7. IsSequence(hfq)
  <2> HIDE DEF h, fq
  <2>1. QED
    BY <1>2, <1>6, Joined
<1>8. x = p \o hfq
  BY Zenon, <1>4 DEF Extended
<1>9. ap \o hfq = a \o x
  <2>1. ap = a \o p
    OBVIOUS
  <2> HIDE DEF ap, hfq
  <2>2. QED
    BY <1>7, <1>8, <2>1, Regrouped
<1>10. Extended(ap, t, f, q) = ap \o hfq
  BY Zenon DEF Extended
<1> HIDE DEF ap, tq, hfq
<1>11. Extended(ap, t, f, q) = a \o x
  BY Zenon, <1>9, <1>10
<1>12. QED
  BY Zenon, <1>3, <1>5, <1>11 DEF ap, tq, IsInTheSecond

(* Conversely, an encoding of a join is the join of an encoding of one part with the other. *)
LEMMA EncodingOfJoin ==
  ASSUME NEW a, NEW b, NEW f, IsSequence(a), IsSequence(b), IsSequence(f),
         NEW m \in Encodings(a \o b, f)
  PROVE  IsJoined(m, a, b, f)
<1> DEFINE ab == a \o b
<1>1. IsSequence(ab) /\ Len(a) \in Nat /\ Len(b) \in Nat /\ Len(ab) = Len(a) + Len(b)
  BY Joined
<1>2. CASE m = ab
  <2>1. a \in Encodings(a, f)
    BY Zenon DEF Encodings
  <2>2. QED
    BY Zenon, <1>2, <2>1 DEF IsJoined
<1>3. CASE m # ab
  <2>1. IsExtension(m, ab, f)
    <3>1. m \in Encodings(ab, f)
      OBVIOUS
    <3> HIDE DEF ab
    <3>2. QED
      BY <1>1, <1>3, <3>1, EncodingsAre
  <2>2. PICK p, t, q : /\ IsSequence(p) /\ IsSequence(q) /\ t[1] = "map"
                       /\ IsAround(ab, p, t, q)
                       /\ m = Extended(p, t, f, q)
    <3> HIDE DEF ab
    <3>1. QED
      BY Zenon, <2>1 DEF IsExtension, IsAround
  <2>3. PICK i : i = Len(p) + 1
    OBVIOUS
  <2>4. AreAround(ab, i, p, t, q)
    <3>1. ab = p \o (<<t>> \o q)
      BY Zenon, <2>2 DEF IsAround
    <3> HIDE DEF ab
    <3>2. QED
      BY <2>2, <2>3, <3>1, Surrounded
  <2>5. i \in 1..Len(ab)
    <3>1. i \in DOMAIN ab
      BY Zenon, <2>4 DEF AreAround
    <3> HIDE DEF ab
    <3>2. QED
      BY <1>1, <3>1 DEF IsSequence
  <2>6. CASE i <= Len(a)
    <3>1. i \in 1..Len(a)
      BY <1>1, <2>5, <2>6
    <3>2. PICK x, y : IsSequence(x) /\ IsSequence(y) /\ Len(x) = i - 1 /\ a = x \o (<<a[i]>> \o y)
      BY <3>1, Around
    <3>3. PICK u : u = a[i]
      OBVIOUS
    <3>4. IsAround(a, x, u, y)
      BY Zenon, <3>2, <3>3 DEF IsAround
    <3>5. ab[i] = a[i]
      BY <3>1, Elements
    <3>6. ab[i] = t
      BY Zenon, <2>4 DEF AreAround
    <3>7. u[1] = "map"
      BY Zenon, <2>2, <3>3, <3>5, <3>6
    <3>0. IsInTheFirst(a, b, f, x, u, y)
      <4> HIDE DEF ab
      <4>1. QED
        BY <3>2, <3>4, <3>7, InTheFirst
    <3>8. /\ ab = x \o (<<u>> \o (y \o b))
          /\ \E e \in Encodings(a, f) : Extended(x, u, f, y \o b) = e \o b
      BY Zenon, <3>0 DEF IsInTheFirst
    <3>9. AreAround(ab, i, x, u, y \o b)
      <4>1. i = Len(x) + 1
        BY <3>1, <3>2
      <4>2. PICK yb : yb = y \o b
        OBVIOUS
      <4>3. IsSequence(yb)
        BY <3>2, <4>2, Joined
      <4>4. ab = x \o (<<u>> \o yb)
        BY Zenon, <3>8, <4>2
      <4> HIDE DEF ab
      <4>5. AreAround(ab, i, x, u, yb)
        BY <3>2, <4>1, <4>3, <4>4, Surrounded
      <4>6. QED
        BY Zenon, <4>2, <4>5
    <3> HIDE DEF ab
    <3>10. p = x /\ t = u /\ q = y \o b
      BY Zenon, <2>4, <3>9 DEF AreAround
    <3>11. QED
      BY Zenon, <2>2, <3>8, <3>10 DEF IsJoined
  <2>7. CASE ~(i <= Len(a))
    <3>1. PICK j : j = i - Len(a)
      OBVIOUS
    <3>2. j \in 1..Len(b) /\ Len(a) + j = i
      <4> HIDE DEF ab
      <4>1. QED
        BY <1>1, <2>5, <2>7, <3>1
    <3>3. PICK x, y : IsSequence(x) /\ IsSequence(y) /\ Len(x) = j - 1 /\ b = x \o (<<b[j]>> \o y)
      BY <3>2, Around
    <3>4. PICK u : u = b[j]
      OBVIOUS
    <3>5. IsAround(b, x, u, y)
      BY Zenon, <3>3, <3>4 DEF IsAround
    <3>6. ab[i] = b[j]
      <4>1. ab[Len(a) + j] = b[j]
        BY <3>2, Elements
      <4>2. QED
        BY Zenon, <3>2, <4>1
    <3>7. ab[i] = t
      BY Zenon, <2>4 DEF AreAround
    <3>8. u[1] = "map"
      BY Zenon, <2>2, <3>4, <3>6, <3>7
    <3>0. IsInTheSecond(a, b, f, x, u, y)
      <4> HIDE DEF ab
      <4>1. QED
        BY <3>3, <3>5, <3>8, InTheSecond
    <3>9. /\ ab = (a \o x) \o (<<u>> \o y)
          /\ \E e \in Encodings(b, f) : Extended(a \o x, u, f, y) = a \o e
      BY Zenon, <3>0 DEF IsInTheSecond
    <3>10. AreAround(ab, i, a \o x, u, y)
      <4>1. PICK ax : ax = a \o x
        OBVIOUS
      <4>2. IsSequence(ax) /\ Len(ax) = Len(a) + (j - 1)
        BY <3>3, <4>1, Joined
      <4>3. i = Len(ax) + 1
        BY <1>1, <3>2, <4>2
      <4>4. ab = ax \o (<<u>> \o y)
        BY Zenon, <3>9, <4>1
      <4> HIDE DEF ab
      <4>5. AreAround(ab, i, ax, u, y)
        BY <3>3, <4>2, <4>3, <4>4, Surrounded
      <4>6. QED
        BY Zenon, <4>1, <4>5
    <3> HIDE DEF ab
    <3>11. p = a \o x /\ t = u /\ q = y
      BY Zenon, <2>4, <3>10 DEF AreAround
    <3>12. QED
      BY Zenon, <2>2, <3>9, <3>11 DEF IsJoined
  <2>8. QED
    BY <2>6, <2>7
<1>4. QED
  BY <1>2, <1>3

(* A token that is not the header of a map has one encoding: itself.       *)
LEMMA EncodingOfToken ==
  ASSUME NEW t, t[1] # "map", NEW f, NEW m \in Encodings(<<t>>, f)
  PROVE  m = <<t>>
<1>1. DOMAIN <<t>> = {1} /\ <<t>>[1] = t
  OBVIOUS
<1>2. PICK a : a = <<t>>
  OBVIOUS
<1>3. \A j \in DOMAIN a : a[j] = t
  BY <1>1, <1>2
<1>4. QED
  BY Zenon, <1>2, <1>3 DEF Encodings

(* Nothing has one encoding.                                               *)
LEMMA EncodingOfNothing ==
  ASSUME NEW f, NEW m \in Encodings(<<>>, f)
  PROVE  m = <<>>
<1>1. PICK a : a = <<>>
  OBVIOUS
<1>2. \A j \in DOMAIN a : FALSE
  BY <1>1
<1>3. QED
  BY Zenon, <1>1, <1>2 DEF Encodings

IsMapEncoding(m, n, body, f) ==
  \/ m = Token("map", n + 1) \o (f \o body)
  \/ \E x \in Encodings(body, f) : m = Token("map", n) \o x

(* An encoding of a map has a newer field in front, or somewhere in its body. *)
LEMMA EncodingOfMap ==
  ASSUME NEW n, NEW body, IsSequence(body), NEW f, IsSequence(f),
         NEW m \in Encodings(Token("map", n) \o body, f)
  PROVE  IsMapEncoding(m, n, body, f)
<1> DEFINE t == <<"map", n>>
           h == Token("map", n)
           k == Token("map", n + 1)
<1>1. IsSequence(h) /\ IsSequence(k) /\ h = <<t>>
  BY NoTokens, OneToken DEF Token
<1>2. IsJoined(m, h, body, f)
  <2> HIDE DEF h
  <2>1. m \in Encodings(h \o body, f)
    BY DEF h
  <2>2. QED
    BY <1>1, <2>1, EncodingOfJoin
<1>3. CASE \E x \in Encodings(body, f) : m = h \o x
  BY Zenon, <1>3 DEF IsMapEncoding
<1>4. CASE \E x \in Encodings(h, f) : m = x \o body
  <2>1. PICK x \in Encodings(h, f) : m = x \o body
    BY <1>4
  <2>2. CASE x = h
    <3>1. body \in Encodings(body, f)
      BY Zenon DEF Encodings
    <3>2. QED
      BY Zenon, <2>1, <2>2, <3>1 DEF IsMapEncoding
  <2>3. CASE x # h
    <3>1. PICK j \in DOMAIN h : x = WithField(h, j, f)
      BY Zenon, <2>3 DEF Encodings
    <3>2. j = 1
      BY <1>1, <3>1
    <3>3. PICK e : e = <<>>
      OBVIOUS
    <3>4. IsSequence(e) /\ Len(e) = 0
      BY <3>3, NoTokens
    <3>5. h = e \o (<<t>> \o e)
      <4>1. h \o e = h /\ e \o h = h
        <5> HIDE DEF h
        <5>1. QED
          BY <1>1, <3>3, <3>4, Joined
      <4>2. QED
        BY Zenon, <1>1, <4>1
    <3>6. IsExtended(h, 1, e, t, f, e)
      <4>1. 1 = Len(e) + 1
        BY <3>4
      <4>2. PICK u, l : u = t /\ l = h
        OBVIOUS
      <4>3. l = e \o (<<u>> \o e)
        BY Zenon, <3>5, <4>2
      <4>4. IsExtended(l, 1, e, u, f, e)
        BY <3>4, <4>1, <4>3, WithFieldAt
      <4>5. QED
        BY Zenon, <4>2, <4>4
    <3>7. x = Extended(e, t, f, e)
      <4> HIDE DEF h, t
      <4>1. QED
        BY Zenon, <3>1, <3>2, <3>6 DEF IsExtended
    <3>8. t[2] = n
      OBVIOUS
    <3>9. x = e \o (k \o (f \o e))
      <4> HIDE DEF t
      <4>1. QED
        BY Zenon, <3>7, <3>8 DEF Extended
    <3>10. x = k \o f
      <4> HIDE DEF k
      <4>1. f \o e = f
        BY <3>3, <3>4, Joined
      <4>2. PICK kf : kf = k \o f
        OBVIOUS
      <4>3. IsSequence(kf)
        BY <1>1, <4>2, Joined
      <4>4. e \o kf = kf
        BY <3>3, <3>4, <4>3, Joined
      <4>5. QED
        BY Zenon, <3>9, <4>1, <4>2, <4>4
    <3>11. x \o body = k \o (f \o body)
      <4> HIDE DEF k
      <4>1. (k \o f) \o body = k \o (f \o body)
        BY SMTT(30), <1>1, JoinedAnyhow
      <4>2. QED
        BY Zenon, <3>10, <4>1
    <3>12. QED
      BY Zenon, <2>1, <3>11 DEF IsMapEncoding
  <2>4. QED
    BY <2>2, <2>3
<1>5. QED
  BY Zenon, <1>2, <1>3, <1>4 DEF IsJoined

(* Encodings of sequences, one by one, and what they make from i on.       *)
AreEncodings(coded, seqs, n, f) ==
  /\ coded = [i \in 1..n |-> coded[i]]
  /\ \A i \in 1..n : coded[i] \in Encodings(seqs[i], f)
AreTailsFrom(tail, seqs, n, i) ==
  /\ tail[n] = <<>>
  /\ \A j \in i..n : IsSequence(tail[j])
  /\ \A j \in (i + 1)..n : tail[j - 1] = seqs[j] \o tail[j]
IsCoded(m, seqs, n, f, i) ==
  \E coded, tail : /\ AreEncodings(coded, seqs, n, f)
                   /\ AreTailsFrom(tail, coded, n, i)
                   /\ tail[i] = m

(* An encoding of one more sequence of a list.                             *)
LEMMA CodedStep ==
  ASSUME NEW n \in Nat, NEW i \in 1..n, NEW seqs, NEW f,
         NEW e \in Encodings(seqs[i], f), IsSequence(e),
         NEW r, IsCoded(r, seqs, n, f, i)
  PROVE  IsCoded(e \o r, seqs, n, f, i - 1)
<1>1. PICK coded, tail : /\ AreEncodings(coded, seqs, n, f)
                         /\ AreTailsFrom(tail, coded, n, i)
                         /\ tail[i] = r
  BY Zenon DEF IsCoded
<1>2. IsSequence(r)
  <2>1. i \in i..n
    OBVIOUS
  <2>2. QED
    BY <1>1, <2>1 DEF AreTailsFrom
<1> DEFINE er == e \o r
           c == [j \in 1..n |-> IF j = i THEN e ELSE coded[j]]
           t == [j \in 0..n |-> IF j = i - 1 THEN er ELSE tail[j]]
<1>3. IsSequence(er)
  BY <1>2, Joined
<1>4. AreEncodings(c, seqs, n, f)
  <2>1. \A j \in 1..n : coded[j] \in Encodings(seqs[j], f)
    BY Zenon, <1>1 DEF AreEncodings
  <2>2. \A j \in 1..n : c[j] = IF j = i THEN e ELSE coded[j]
    OBVIOUS
  <2>3. c = [j \in 1..n |-> c[j]]
    OBVIOUS
  <2> HIDE DEF c
  <2>4. \A j \in 1..n : c[j] \in Encodings(seqs[j], f)
    BY Zenon, <2>1, <2>2
  <2>5. QED
    BY Zenon, <2>3, <2>4 DEF AreEncodings
<1>5. AreTailsFrom(t, c, n, i - 1)
  <2>1. tail[n] = <<>> /\ (\A j \in i..n : IsSequence(tail[j]))
          /\ \A j \in (i + 1)..n : tail[j - 1] = coded[j] \o tail[j]
    BY Zenon, <1>1 DEF AreTailsFrom
  <2>2. /\ t[i - 1] = er /\ \A j \in i..n : t[j] = tail[j]
        /\ c[i] = e /\ \A j \in (i + 1)..n : c[j] = coded[j]
    <3> HIDE DEF er
    <3>1. QED
      OBVIOUS
  <2> HIDE DEF t, c
  <2>3. t[n] = <<>>
    BY <2>1, <2>2
  <2>4. \A j \in (i - 1)..n : IsSequence(t[j])
    <3> HIDE DEF er
    <3>1. \A j \in (i - 1)..n : j = i - 1 \/ j \in i..n
      OBVIOUS
    <3>2. QED
      BY Zenon, <1>3, <2>1, <2>2, <3>1
  <2>5. ASSUME NEW j \in ((i - 1) + 1)..n PROVE t[j - 1] = c[j] \o t[j]
    <3>1. CASE j = i
      <4>1. t[i] = r /\ i \in i..n
        BY <1>1, <2>2
      <4>2. QED
        BY Zenon, <2>2, <3>1, <4>1
    <3>2. CASE j # i
      <4>1. j \in (i + 1)..n /\ j - 1 \in i..n /\ j \in i..n
        BY <3>2
      <4>2. t[j - 1] = tail[j - 1] /\ t[j] = tail[j] /\ c[j] = coded[j]
        BY <2>2, <4>1
      <4>3. tail[j - 1] = coded[j] \o tail[j]
        BY <2>1, <4>1
      <4>4. QED
        BY Zenon, <4>2, <4>3
    <3>3. QED
      BY <3>1, <3>2
  <2>6. QED
    BY Zenon, <2>3, <2>4, <2>5 DEF AreTailsFrom
<1>6. t[i - 1] = er
  <2> HIDE DEF er
  <2>1. i - 1 \in 0..n
    OBVIOUS
  <2>2. QED
    BY <2>1
<1> HIDE DEF t, c
<1>7. QED
  BY Zenon, <1>4, <1>5, <1>6 DEF IsCoded

(* An encoding of a flattened list is a flattened list of encodings.       *)
LEMMA EncodingOfFlat ==
  ASSUME NEW n \in Nat, NEW seqs, AreSequences(seqs, n), NEW f, IsSequence(f),
         NEW m \in Encodings(FlattenSeq(seqs), f)
  PROVE  \E coded : /\ AreEncodings(coded, seqs, n, f) /\ AreSequences(coded, n)
                    /\ m = FlattenSeq(coded)
<1>1. PICK tail : AreTails(tail, seqs, n)
  BY TailsExist
<1>2. FlattenSeq(seqs) = tail[0]
  BY <1>1, FlatIsTail
<1>3. \A i \in 1..n : IsSequence(seqs[i])
  BY DEF AreSequences
<1>4. (\A i \in 0..n : IsSequence(tail[i])) /\ \A i \in 1..n : tail[i - 1] = seqs[i] \o tail[i]
  BY Zenon, <1>1 DEF AreTails
<1> DEFINE Coded(i) == \A x \in Encodings(tail[i], f) : IsCoded(x, seqs, n, f, i)
           S == {k \in 0..n : Coded(n - k)}
<1>5. 0 \in S
  <2>1. tail[n] = <<>>
    BY Zenon, <1>1 DEF AreTails
  <2> DEFINE t == [i \in 0..n |-> <<>>]
  <2>2. AreTailsFrom(t, seqs, n, n) /\ t[n] = <<>>
    <3>1. t[n] = <<>> /\ n..n = {n} /\ (n + 1)..n = {}
      OBVIOUS
    <3> HIDE DEF t
    <3>2. QED
      BY Zenon, <3>1, NoTokens DEF AreTailsFrom
  <2>3. AreEncodings(seqs, seqs, n, f)
    BY Zenon DEF AreEncodings, AreSequences, Encodings
  <2> HIDE DEF t
  <2>4. \A x \in Encodings(<<>>, f) : x = <<>>
    BY EncodingOfNothing
  <2>5. Coded(n)
    BY Zenon, <2>1, <2>2, <2>3, <2>4 DEF IsCoded
  <2>6. n - 0 = n /\ 0 \in 0..n
    OBVIOUS
  <2> HIDE DEF Coded
  <2>7. QED
    BY <2>5, <2>6
<1>6. ASSUME NEW k \in (0 + 1)..n, k - 1 \in S PROVE k \in S
  <2>1. PICK i : i = n - (k - 1)
    OBVIOUS
  <2>2. Coded(i)
    <3> HIDE DEF Coded
    <3>1. QED
      BY <1>6, <2>1
  <2>3. i \in 1..n /\ i \in 0..n /\ n - k = i - 1 /\ k \in 0..n
    BY <2>1
  <2>4. ASSUME NEW x \in Encodings(tail[i - 1], f) PROVE IsCoded(x, seqs, n, f, i - 1)
    <3>1. PICK s, r : s = seqs[i] /\ r = tail[i]
      OBVIOUS
    <3>2. IsSequence(s) /\ IsSequence(r)
      BY Zenon, <1>3, <1>4, <2>3, <3>1
    <3>3. x \in Encodings(s \o r, f)
      BY Zenon, <1>4, <2>3, <3>1
    <3>4. IsJoined(x, s, r, f)
      BY <3>2, <3>3, EncodingOfJoin
    <3>5. PICK e \in Encodings(s, f), d \in Encodings(r, f) : x = e \o d
      <4>1. s \in Encodings(s, f) /\ r \in Encodings(r, f)
        BY Zenon DEF Encodings
      <4>2. QED
        BY Zenon, <3>4, <4>1 DEF IsJoined
    <3>6. IsSequence(e)
      BY <3>2, EncodingIsSequence
    <3>7. IsCoded(d, seqs, n, f, i) /\ e \in Encodings(seqs[i], f)
      BY Zenon, <2>2, <3>1, <3>5
    <3>8. IsCoded(e \o d, seqs, n, f, i - 1)
      BY <2>3, <3>6, <3>7, CodedStep
    <3>9. QED
      BY Zenon, <3>5, <3>8
  <2>5. Coded(n - k)
    BY Zenon, <2>3, <2>4
  <2> HIDE DEF Coded
  <2>6. QED
    BY <2>3, <2>5
<1>7. Coded(0)
  <2> HIDE DEF S
  <2>1. 0 \in Nat
    OBVIOUS
  <2>2. \A k \in 0..n : k \in S
    BY <1>5, <1>6, <2>1, Induction
  <2>3. n \in S /\ n - n = 0
    BY <2>2
  <2> HIDE DEF Coded
  <2>4. QED
    BY <2>3 DEF S
<1>8. IsCoded(m, seqs, n, f, 0)
  BY Zenon, <1>2, <1>7
<1>9. PICK coded, t : /\ AreEncodings(coded, seqs, n, f)
                      /\ AreTailsFrom(t, coded, n, 0)
                      /\ t[0] = m
  BY Zenon, <1>8 DEF IsCoded
<1>10. AreSequences(coded, n)
  <2>1. ASSUME NEW i \in 1..n PROVE IsSequence(coded[i])
    <3>1. PICK s, e : s = seqs[i] /\ e = coded[i]
      OBVIOUS
    <3>2. IsSequence(s) /\ e \in Encodings(s, f)
      BY Zenon, <1>3, <1>9, <3>1 DEF AreEncodings
    <3>3. IsSequence(e)
      BY <3>2, EncodingIsSequence
    <3>4. QED
      BY <3>1, <3>3
  <2>2. QED
    BY Zenon, <1>9, <2>1 DEF AreSequences, AreEncodings
<1>11. AreTails(t, coded, n)
  <2>1. 0 + 1 = 1
    OBVIOUS
  <2>2. QED
    BY Zenon, <1>9, <2>1 DEF AreTails, AreTailsFrom
<1>12. FlattenSeq(coded) = t[0]
  BY <1>10, <1>11, FlatIsTail
<1>13. QED
  BY Zenon, <1>9, <1>10, <1>12

-----------------------------------------------------------------------------
(* Every encoding of a value is read as the value                          *)

(* As IsRead, of a field that a newer writer may have added to.            *)
IsWritten(f, g, zero, target) ==
  IF f.isOmitted THEN target[g] = zero[g]
  ELSE /\ IsSequence(f.value)
       /\ \A x \in Encodings(f.value, NewerField) : \A z, c : IsSequence(c) /\ z[g] = zero[g] =>
            ReadField(z, f.key, x \o c) = Success(With(z, g, target[g]), c)

AreWritten(fields, n, attr, zero, target) ==
  /\ DOMAIN fields = 1..n
  /\ zero = [g \in DOMAIN zero |-> zero[g]] /\ target = [g \in DOMAIN zero |-> target[g]]
  /\ \A i \in 1..n : attr[i] \in DOMAIN zero
  /\ \A g \in DOMAIN zero : \E i \in 1..n : attr[i] = g
  /\ \A i, j \in 1..n : attr[i] = attr[j] => i = j
  /\ \A i \in 1..n : IsWritten(fields[i], attr[i], zero, target)

IsPassedOver(zero) ==
  /\ IsSequence(NewerValue)
  /\ \A c : IsSequence(c) => ReadField(zero, NewerKey, NewerValue \o c) = Success(zero, c)

(* The newer field is a sequence of tokens.                                *)
LEMMA NewerFieldIsSequence ==
  ASSUME IsSequence(NewerValue)
  PROVE  IsSequence(NewerField)
<1> DEFINE k == Token("name", NewerKey)
<1>1. IsSequence(k)
  BY NoTokens, OneToken DEF Token
<1> HIDE DEF k
<1>2. IsSequence(k \o NewerValue)
  BY <1>1, Joined
<1>3. QED
  BY Zenon, <1>2 DEF NewerField, k

(* g is f with an encoding of its value, which it adds to a map as e.      *)
IsRecoded(g, f, e) ==
  /\ g.key = f.key /\ g.isOmitted = f.isOmitted
  /\ f.isOmitted \/ g.value \in Encodings(f.value, NewerField)
  /\ AppendField(g) = e

(* An encoding of a field is a field again, with an encoding of its value, *)
LEMMA RecodedField ==
  ASSUME IsSequence(NewerValue), NEW f, f.isOmitted \/ IsSequence(f.value),
         NEW e \in Encodings(AppendField(f), NewerField)
  PROVE  \E g : IsRecoded(g, f, e)
<1>1. CASE f.isOmitted
  <2>1. AppendField(f) = <<>>
    BY Zenon, <1>1 DEF AppendField
  <2>2. e = <<>>
    BY <2>1, EncodingOfNothing
  <2>3. IsRecoded(f, f, e)
    BY Zenon, <1>1, <2>1, <2>2 DEF IsRecoded
  <2>4. QED
    BY Zenon, <2>3
<1>2. CASE ~f.isOmitted
  <2> DEFINE k == Token("name", f.key)
  <2>1. AppendField(f) = k \o f.value
    BY Zenon, <1>2 DEF AppendField
  <2>2. PICK v : v = f.value
    OBVIOUS
  <2>3. IsSequence(v) /\ IsSequence(k)
    BY <1>2, <2>2, NoTokens, OneToken DEF Token
  <2>4. PICK x \in Encodings(v, NewerField) : e = k \o x
    <3>1. IsJoined(e, k, v, NewerField)
      <4>1. e \in Encodings(k \o v, NewerField)
        BY Zenon, <2>1, <2>2
      <4> HIDE DEF k
      <4>2. QED
        BY <2>3, <4>1, NewerFieldIsSequence, EncodingOfJoin
    <3>2. \A y \in Encodings(k, NewerField) : y = k
      <4>1. PICK t : t = <<"name", f.key>>
        OBVIOUS
      <4>2. t[1] # "map"
        BY <4>1
      <4>3. k = <<t>>
        BY <4>1 DEF Token
      <4> HIDE DEF k
      <4>4. \A y \in Encodings(<<t>>, NewerField) : y = <<t>>
        BY <4>2, EncodingOfToken
      <4>5. QED
        BY Zenon, <4>3, <4>4
    <3>3. v \in Encodings(v, NewerField)
      BY Zenon DEF Encodings
    <3> HIDE DEF k
    <3>4. QED
      BY Zenon, <3>1, <3>2, <3>3 DEF IsJoined
  <2> DEFINE g == Field(f.key, f.isOmitted, x)
  <2>5. g.key = f.key /\ g.isOmitted = f.isOmitted /\ g.value = x
    BY DEF Field
  <2> HIDE DEF g
  <2>6. AppendField(g) = e
    BY Zenon, <1>2, <2>4, <2>5 DEF AppendField
  <2>7. QED
    BY Zenon, <2>2, <2>4, <2>5, <2>6 DEF IsRecoded
<1>3. QED
  BY <1>1, <1>2

(* and an encoding of a list of fields is the list of such fields.         *)
LEMMA RecodedFields ==
  ASSUME IsSequence(NewerValue), NEW n \in Nat, NEW fields, DOMAIN fields = 1..n,
         \A i \in 1..n : fields[i].isOmitted \/ IsSequence(fields[i].value),
         NEW x \in Encodings(AppendFields(fields), NewerField)
  PROVE  \E recoded : /\ DOMAIN recoded = 1..n
                      /\ \A i \in 1..n : \E e : IsRecoded(recoded[i], fields[i], e)
                      /\ AppendFields(recoded) = x
<1> DEFINE seqs == [i \in DOMAIN fields |-> AppendField(fields[i])]
<1>1. AreSequences(seqs, n)
  BY AppendedFields
<1>2. x \in Encodings(FlattenSeq(seqs), NewerField)
  BY Zenon DEF AppendFields
<1>3. \A i \in 1..n : seqs[i] = AppendField(fields[i])
  OBVIOUS
<1>4. PICK coded : /\ AreEncodings(coded, seqs, n, NewerField) /\ AreSequences(coded, n)
                   /\ x = FlattenSeq(coded)
  <2> HIDE DEF seqs
  <2>1. QED
    BY <1>1, <1>2, NewerFieldIsSequence, EncodingOfFlat
<1> DEFINE recoded == [i \in 1..n |-> CHOOSE g : IsRecoded(g, fields[i], coded[i])]
<1>5. ASSUME NEW i \in 1..n PROVE IsRecoded(recoded[i], fields[i], coded[i])
  <2>1. coded[i] \in Encodings(AppendField(fields[i]), NewerField)
    BY Zenon, <1>3, <1>4 DEF AreEncodings
  <2>2. PICK f, e : f = fields[i] /\ e = coded[i]
    OBVIOUS
  <2>3. e \in Encodings(AppendField(f), NewerField) /\ (f.isOmitted \/ IsSequence(f.value))
    BY Zenon, <2>1, <2>2
  <2>4. \E g : IsRecoded(g, f, e)
    BY <2>3, RecodedField
  <2>5. recoded[i] = CHOOSE g : IsRecoded(g, f, e)
    BY <2>2
  <2> HIDE DEF recoded
  <2>6. IsRecoded(recoded[i], f, e)
    BY Zenon, <2>4, <2>5
  <2>7. QED
    BY Zenon, <2>2, <2>6
<1>6. DOMAIN recoded = 1..n
  OBVIOUS
<1>7. [i \in DOMAIN recoded |-> AppendField(recoded[i])] = coded
  <2> HIDE DEF recoded
  <2>1. \A i \in 1..n : AppendField(recoded[i]) = coded[i]
    BY Zenon, <1>5 DEF IsRecoded
  <2>2. coded = [i \in 1..n |-> coded[i]]
    BY Zenon, <1>4 DEF AreEncodings
  <2>3. [i \in 1..n |-> AppendField(recoded[i])] = [i \in 1..n |-> coded[i]]
    BY <2>1
  <2>4. QED
    BY Zenon, <1>6, <2>2, <2>3
<1> HIDE DEF recoded
<1>8. AppendFields(recoded) = x
  BY Zenon, <1>4, <1>7 DEF AppendFields
<1>9. QED
  BY Zenon, <1>5, <1>6, <1>8

(* A message of what is read into target, with a field in front or without.*)
IsMapMessage(m, n, attr, zero, target) ==
  \E extra, front, fields :
    /\ m = MapMessage(extra, front, fields)
    /\ extra \in 0..1 /\ IsFront(extra, front, zero)
    /\ ReadsInto(fields, n, attr, zero, target)

(* A field that can be read from every encoding can be read from the one at hand. *)
LEMMA WrittenIsRead ==
  ASSUME NEW f, NEW g, NEW zero, NEW target, IsWritten(f, g, zero, target),
         NEW r, NEW e, IsSequence(NewerValue), IsRecoded(r, f, e)
  PROVE  IsRead(r, g, zero, target)
<1>1. CASE f.isOmitted
  BY Zenon, <1>1 DEF IsWritten, IsRead, IsRecoded
<1>2. CASE ~f.isOmitted
  <2>1. IsSequence(f.value) /\ r.value \in Encodings(f.value, NewerField)
    BY Zenon, <1>2 DEF IsWritten, IsRecoded
  <2>2. IsSequence(r.value)
    <3>1. PICK a, b : a = f.value /\ b = r.value
      OBVIOUS
    <3>2. IsSequence(a) /\ b \in Encodings(a, NewerField)
      BY Zenon, <2>1, <3>1
    <3>3. IsSequence(b)
      BY <3>2, NewerFieldIsSequence, EncodingIsSequence
    <3>4. QED
      BY Zenon, <3>1, <3>3
  <2>3. QED
    BY ZenonT(60), <1>2, <2>1, <2>2 DEF IsWritten, IsRead, IsRecoded
<1>3. QED
  BY <1>1, <1>2

(* A value is one of its encodings.                                        *)
LEMMA WrittenReadsInto ==
  ASSUME NEW n, NEW fields, NEW attr, NEW zero, NEW target,
         AreWritten(fields, n, attr, zero, target)
  PROVE  ReadsInto(fields, n, attr, zero, target)
<1>1. ASSUME NEW i \in 1..n PROVE IsRead(fields[i], attr[i], zero, target)
  <2>1. IsWritten(fields[i], attr[i], zero, target)
    BY Zenon DEF AreWritten
  <2>2. \A a : a \in Encodings(a, NewerField)
    BY Zenon DEF Encodings
  <2>3. QED
    BY Zenon, <2>1, <2>2 DEF IsWritten, IsRead
<1>2. QED
  BY Zenon, <1>1 DEF ReadsInto, AreWritten

(* Every encoding of a map of such fields is a message the loop can read. *)
LEMMA EncodingIsMapMessage ==
  ASSUME NEW n \in Nat, NEW fields, NEW attr, NEW zero, NEW target,
         AreWritten(fields, n, attr, zero, target), IsPassedOver(zero),
         NEW m \in Encodings(AppendMap(fields), NewerField)
  PROVE  IsMapMessage(m, n, attr, zero, target)
<1>0. IsSequence(NewerValue) /\ IsSequence(NewerField) /\ DOMAIN fields = 1..n
  <2>1. IsSequence(NewerValue)
    BY Zenon DEF IsPassedOver
  <2>2. QED
    BY <2>1, NewerFieldIsSequence DEF AreWritten
<1>1. ReadsInto(fields, n, attr, zero, target)
  BY WrittenReadsInto
<1>2. IsSequence(AppendFields(fields)) /\
        \A i \in 1..n : fields[i].isOmitted \/ IsSequence(fields[i].value)
  BY <1>1, FlatFields, FieldsAreSequences
<1> DEFINE count == Cardinality(Present(fields))
           body == AppendFields(fields)
<1>3. IsMapEncoding(m, count, body, NewerField)
  <2>1. m \in Encodings(Token("map", count) \o body, NewerField)
    BY Zenon DEF AppendMap
  <2> HIDE DEF count, body
  <2>2. IsSequence(body)
    BY <1>2 DEF body
  <2>3. QED
    BY <1>0, <2>1, <2>2, EncodingOfMap
<1>4. count \in Nat
  <2>1. IsFiniteSet(1..n)
    <3>1. 1 \in Int /\ n \in Int
      OBVIOUS
    <3>2. QED
      BY <3>1, FS_Interval
  <2>2. Present(fields) \subseteq 1..n
    BY <1>0 DEF Present
  <2>3. IsFiniteSet(Present(fields))
    BY <2>1, <2>2, FS_Subset
  <2>4. QED
    BY <2>3, FS_CardinalityType
<1>5. CASE m = Token("map", count + 1) \o (NewerField \o body)
  <2>1. count + 1 = 1 + count
    BY <1>4
  <2> HIDE DEF count
  <2>2. m = MapMessage(1, NewerField, fields)
    BY Zenon, <1>5, <2>1 DEF MapMessage, count
  <2>3. IsFront(1, NewerField, zero)
    BY Zenon DEF IsFront, NewerField, IsPassedOver
  <2>4. 1 \in 0..1
    OBVIOUS
  <2>5. QED
    BY Zenon, <1>1, <2>2, <2>3, <2>4 DEF IsMapMessage
<1>6. CASE \E x \in Encodings(body, NewerField) : m = Token("map", count) \o x
  <2>1. PICK x \in Encodings(body, NewerField) : m = Token("map", count) \o x
    BY <1>6
  <2>2. PICK recoded : /\ DOMAIN recoded = 1..n
                       /\ \A i \in 1..n : \E e : IsRecoded(recoded[i], fields[i], e)
                       /\ AppendFields(recoded) = x
    <3> HIDE DEF count
    <3>1. QED
      BY ZenonT(30), <1>0, <1>2, RecodedFields
  <2>3. ReadsInto(recoded, n, attr, zero, target)
    <3>1. ASSUME NEW i \in 1..n PROVE IsRead(recoded[i], attr[i], zero, target)
      <4>1. PICK f, r, g, e : f = fields[i] /\ r = recoded[i] /\ g = attr[i] /\ IsRecoded(r, f, e)
        BY Zenon, <2>2
      <4>2. IsWritten(f, g, zero, target)
        BY Zenon, <4>1 DEF AreWritten
      <4>3. IsRead(r, g, zero, target)
        BY <1>0, <4>1, <4>2, WrittenIsRead
      <4>4. QED
        BY Zenon, <4>1, <4>3
    <3>2. QED
      BY Zenon, <2>2, <3>1 DEF ReadsInto, AreWritten
  <2>4. Present(recoded) = Present(fields)
    <3>1. \A i \in 1..n : recoded[i].isOmitted = fields[i].isOmitted
      BY Zenon, <2>2 DEF IsRecoded
    <3>2. QED
      BY <1>0, <2>2, <3>1 DEF Present
  <2>5. 0 + count = count
    BY <1>4
  <2>6. <<>> \o x = x
    <3>1. IsSequence(x)
      <4>1. IsSequence(body)
        BY <1>2
      <4> HIDE DEF body
      <4>2. QED
        BY <1>0, <4>1, EncodingIsSequence
    <3>2. QED
      BY <3>1, NoTokens, Joined
  <2> HIDE DEF count, body
  <2>7. m = MapMessage(0, <<>>, recoded)
    BY Zenon, <2>1, <2>2, <2>4, <2>5, <2>6 DEF MapMessage, count
  <2>8. IsFront(0, <<>>, zero)
    BY Zenon DEF IsFront
  <2>9. 0 \in 0..1
    OBVIOUS
  <2>10. QED
    BY Zenon, <2>3, <2>7, <2>8, <2>9 DEF IsMapMessage
<1>7. QED
  BY Zenon, <1>3, <1>5, <1>6 DEF IsMapEncoding

(* Every encoding of a map is read as what the map was written from, and   *)
(* nothing of what follows it is (the generated UnmarshalMsg methods).     *)
THEOREM MapEncodingRoundTrip ==
  ASSUME NEW n \in Nat, NEW fields, NEW attr, NEW zero, NEW target,
         AreWritten(fields, n, attr, zero, target), IsPassedOver(zero),
         NEW m \in Encodings(AppendMap(fields), NewerField), NEW c, IsSequence(c)
  PROVE  ReadMap(zero, m \o c, ReadField) = Success(target, c)
<1>1. PICK extra, front, read :
        /\ m = MapMessage(extra, front, read)
        /\ extra \in 0..1 /\ IsFront(extra, front, zero)
        /\ ReadsInto(read, n, attr, zero, target)
  BY Zenon, EncodingIsMapMessage DEF IsMapMessage
<1>2. ReadMap(zero, MapMessage(extra, front, read) \o c, ReadField) = Success(target, c)
  BY <1>1, MapRoundTrip
<1>3. QED
  BY Zenon, <1>1, <1>2

AreWrittenElements(elements, values, zero, n) ==
  /\ AreSequences(elements, n)
  /\ values = [i \in 1..n |-> values[i]]
  /\ \A i \in 1..n : \A x \in Encodings(elements[i], NewerField) : \A c : IsSequence(c) =>
       Unmarshal(zero, x \o c) = Success(values[i], c)

(* Likewise for an array, which is nil again if it has no elements.        *)
THEOREM ArrayEncodingRoundTrip ==
  ASSUME NEW n \in Nat, NEW elements, NEW values, NEW zero, IsSequence(NewerValue),
         AreWrittenElements(elements, values, zero, n),
         NEW m \in Encodings(ArrayMessage(elements, n), NewerField), NEW c, IsSequence(c)
  PROVE  ReadArray(NilSlice, m \o c, zero, Unmarshal)
           = Success(IF n = 0 THEN NilSlice ELSE SliceOf(values), c)
<1> DEFINE h == Token("array", n)
           body == FlattenSeq(elements)
<1>1. IsSequence(NewerField) /\ IsSequence(h) /\ AreSequences(elements, n)
  BY NewerFieldIsSequence, NoTokens, OneToken DEF Token, AreWrittenElements
<1>2. IsSequence(body)
  <2>1. PICK tail : AreTails(tail, elements, n)
    BY <1>1, TailsExist
  <2>2. QED
    BY <1>1, <2>1, FlatIsTail
<1>3. IsJoined(m, h, body, NewerField)
  <2>1. m \in Encodings(h \o body, NewerField)
    BY Zenon DEF ArrayMessage
  <2> HIDE DEF h, body
  <2>2. QED
    BY <1>1, <1>2, <2>1, EncodingOfJoin
<1>4. \A x \in Encodings(h, NewerField) : x = h
  <2>1. PICK t : t = <<"array", n>>
    OBVIOUS
  <2>2. t[1] # "map"
    BY <2>1
  <2>3. h = <<t>>
    BY <2>1 DEF Token
  <2> HIDE DEF h
  <2>4. \A x \in Encodings(<<t>>, NewerField) : x = <<t>>
    BY <2>2, EncodingOfToken
  <2>5. QED
    BY Zenon, <2>3, <2>4
<1>5. PICK x \in Encodings(body, NewerField) : m = h \o x
  <2>1. body \in Encodings(body, NewerField)
    BY Zenon DEF Encodings
  <2> HIDE DEF h, body
  <2>2. QED
    BY Zenon, <1>3, <1>4, <2>1 DEF IsJoined
<1>6. PICK coded : /\ AreEncodings(coded, elements, n, NewerField) /\ AreSequences(coded, n)
                   /\ x = FlattenSeq(coded)
  BY <1>1, EncodingOfFlat
<1>7. AreElements(coded, values, zero, n)
  BY Zenon, <1>6 DEF AreElements, AreWrittenElements, AreEncodings
<1>8. m = ArrayMessage(coded, n)
  BY Zenon, <1>5, <1>6 DEF ArrayMessage
<1>9. ReadArray(NilSlice, ArrayMessage(coded, n) \o c, zero, Unmarshal)
        = Success(IF n = 0 THEN NilSlice ELSE SliceOf(values), c)
  BY <1>7, ArrayRoundTrip
<1>10. QED
  BY Zenon, <1>8, <1>9

(* What a type has to show of its fields.                                  *)
LEMMA WrittenValue ==
  ASSUME NEW key, NEW omitted, NEW value, NEW g, NEW zero, NEW target,
         omitted => target[g] = zero[g], omitted \/ IsSequence(value),
         \A x \in Encodings(value, NewerField) : \A z, c : IsSequence(c) /\ z[g] = zero[g] =>
           ReadField(z, key, x \o c) = SetField(z, g, Success(target[g], c))
  PROVE  IsWritten(Field(key, omitted, value), g, zero, target)
<1> DEFINE f == Field(key, omitted, value)
<1>1. f.key = key /\ f.isOmitted = omitted /\ f.value = value
  BY DEF Field
<1>2. \A v, c : Success(v, c).ok = TRUE /\ Success(v, c).v = v /\ Success(v, c).rest = c
  BY Succeeded
<1> HIDE DEF f
<1>4. ASSUME NEW x \in Encodings(f.value, NewerField), NEW z, NEW c, IsSequence(c), z[g] = zero[g]
      PROVE  ReadField(z, f.key, x \o c) = Success(With(z, g, target[g]), c)
  <2>1. x \in Encodings(value, NewerField)
    BY Zenon, <1>1
  <2>2. ReadField(z, key, x \o c) = SetField(z, g, Success(target[g], c))
    BY Zenon, <1>4, <2>1
  <2>3. SetField(z, g, Success(target[g], c)) = Success(With(z, g, target[g]), c)
    <3>1. PICK r : r = Success(target[g], c)
      OBVIOUS
    <3>2. r.ok = TRUE /\ r.v = target[g] /\ r.rest = c
      BY Zenon, <1>2, <3>1
    <3>3. SetField(z, g, r) = Success(With(z, g, target[g]), c)
      BY Zenon, <3>2 DEF SetField, With
    <3>4. QED
      BY Zenon, <3>1, <3>3
  <2>4. QED
    BY Zenon, <1>1, <2>2, <2>3
<1>5. f.isOmitted => target[g] = zero[g]
  BY Zenon, <1>1
<1>6. f.isOmitted \/ IsSequence(f.value)
  BY Zenon, <1>1
<1>7. IsWritten(f, g, zero, target)
  BY Zenon, <1>4, <1>5, <1>6 DEF IsWritten
<1>8. QED
  BY Zenon, <1>7 DEF f

(* A field whose value is one token is read if its reader takes that token. *)
LEMMA WrittenToken ==
  ASSUME NEW key, NEW omitted, NEW kind, kind # "map", NEW s, NEW g, NEW zero, NEW target,
         omitted => target[g] = zero[g],
         \A z, c : IsSequence(c) /\ z[g] = zero[g] =>
           ReadField(z, key, Token(kind, s) \o c) = SetField(z, g, Success(target[g], c))
  PROVE  IsWritten(Field(key, omitted, Token(kind, s)), g, zero, target)
<1> DEFINE value == Token(kind, s)
<1>1. IsSequence(value)
  BY NoTokens, OneToken DEF Token
<1>2. \A x \in Encodings(value, NewerField) : x = value
  <2>1. PICK t : t = <<kind, s>>
    OBVIOUS
  <2>2. t[1] # "map"
    BY <2>1
  <2>3. value = <<t>>
    BY <2>1 DEF Token
  <2> HIDE DEF value
  <2>4. \A x \in Encodings(<<t>>, NewerField) : x = <<t>>
    BY <2>2, EncodingOfToken
  <2>5. QED
    BY Zenon, <2>3, <2>4
<1>3. \A x \in Encodings(value, NewerField) : \A z, c : IsSequence(c) /\ z[g] = zero[g] =>
        ReadField(z, key, x \o c) = SetField(z, g, Success(target[g], c))
  BY Zenon, <1>2
<1> HIDE DEF value
<1>4. IsWritten(Field(key, omitted, value), g, zero, target)
  BY <1>1, <1>3, WrittenValue
<1>5. QED
  BY Zenon, <1>4 DEF value

(* A map is a sequence of tokens,                                          *)
LEMMA MapIsSequence ==
  ASSUME NEW n \in Nat, NEW fields, NEW attr, NEW zero, NEW target,
         AreWritten(fields, n, attr, zero, target)
  PROVE  IsSequence(AppendMap(fields))
<1> DEFINE h == Token("map", Cardinality(Present(fields)))
           seqs == [i \in DOMAIN fields |-> AppendField(fields[i])]
<1>1. DOMAIN fields = 1..n /\ \A i \in 1..n : fields[i].isOmitted \/ IsSequence(fields[i].value)
  BY Zenon DEF AreWritten, IsWritten
<1>2. AreSequences(seqs, n)
  BY <1>1, AppendedFields
<1>3. PICK tail : AreTails(tail, seqs, n)
  <2> HIDE DEF seqs
  <2>1. QED
    BY <1>2, TailsExist
<1>4. IsSequence(FlattenSeq(seqs))
  <2> HIDE DEF seqs
  <2>1. QED
    BY <1>2, <1>3, FlatIsTail
<1>5. IsSequence(AppendFields(fields))
  BY Zenon, <1>4 DEF AppendFields
<1>6. IsSequence(h)
  BY NoTokens, OneToken DEF Token
<1> HIDE DEF h, seqs
<1>7. IsSequence(h \o AppendFields(fields))
  BY <1>5, <1>6, Joined
<1>8. QED
  BY Zenon, <1>7 DEF AppendMap, h

(* and so is an array.                                                     *)
LEMMA ArrayIsSequence ==
  ASSUME NEW n \in Nat, NEW elements, AreSequences(elements, n)
  PROVE  IsSequence(ArrayMessage(elements, n))
<1> DEFINE h == Token("array", n)
<1>1. IsSequence(h)
  BY NoTokens, OneToken DEF Token
<1>2. PICK tail : AreTails(tail, elements, n)
  BY TailsExist
<1>3. IsSequence(FlattenSeq(elements))
  BY <1>2, FlatIsTail
<1> HIDE DEF h
<1>4. IsSequence(h \o FlattenSeq(elements))
  BY <1>1, <1>3, Joined
<1>5. QED
  BY Zenon, <1>4 DEF ArrayMessage, h

(* A value that is not nil is read through a pointer.                      *)
LEMMA PointerIsRead ==
  ASSUME NEW zero, NEW b, NEW v, NEW c, Unmarshal(zero, b) = Success(v, c), b[1] # <<"nil">>
  PROVE  ReadPointer(NilPointer, b, zero, Unmarshal) = Success(NewPointer(v), c)
<1>1. Success(v, c).ok = TRUE /\ Success(v, c).v = v /\ Success(v, c).rest = c
  BY ZenonT(30), Succeeded
<1>2. QED
  BY Zenon, <1>1 DEF ReadPointer

(* What is read as a map does not begin with nil.                          *)
LEMMA MapIsNotNil ==
  ASSUME NEW z, NEW b, NEW v, NEW c, ReadMap(z, b, ReadField) = Success(v, c)
  PROVE  b[1] # <<"nil">>
<1>1. Success(v, c).ok = TRUE /\ Failure.ok = FALSE
  BY Succeeded DEF Failure
<1>2. Success(v, c) # Failure
  BY Zenon, <1>1
<1>3. Read("map", b) # Failure
  <2>1. Read("map", b) = Failure => ReadMap(z, b, ReadField) = Failure
    BY Zenon, <1>1 DEF ReadMap
  <2>2. QED
    BY Zenon, <1>2, <2>1
<1>4. b[1][1] = "map"
  BY Zenon, <1>3 DEF Read
<1>5. b[1] = <<"nil">> => b[1][1] = "nil"
  OBVIOUS
<1>6. QED
  BY <1>4, <1>5

-----------------------------------------------------------------------------
(* Messages that are cut short                                             *)

(* p is m without its last tokens, one or more.                            *)
IsCutOf(p, m) == IsSequence(p) /\ \E c : IsSequence(c) /\ c # <<>> /\ m = p \o c

(* A sequence of no tokens is empty.                                       *)
LEMMA Shortest ==
  ASSUME NEW s, IsSequence(s)
  PROVE  Len(s) \in Nat /\ (Len(s) = 0 => s = <<>>)
<1>1. PICK T : s \in Seq(T)
  BY DEF IsSequence
<1>2. QED
  BY <1>1, EmptySeq, LenProperties

(* What follows the same beginning is the same.                            *)
LEMMA SameEnd ==
  ASSUME NEW a, NEW b, NEW d, IsSequence(a), IsSequence(b), IsSequence(d), a \o b = a \o d
  PROVE  b = d
<1>1. SubSeq(a \o b, Len(a) + 1, Len(a \o b)) = b
  BY LastPart
<1>2. SubSeq(a \o d, Len(a) + 1, Len(a \o d)) = d
  BY LastPart
<1>3. QED
  BY Zenon, <1>1, <1>2

(* What begins with p and with the shorter a.                              *)
IsBegunBy(p, c, a, b) == \E q : IsSequence(q) /\ p = a \o q /\ b = q \o c

(* Of two beginnings of a payload, the longer one begins with the shorter one. *)
LEMMA LongerBeginning ==
  ASSUME NEW p, NEW c, NEW a, NEW b,
         IsSequence(p), IsSequence(c), IsSequence(a), IsSequence(b),
         a \o b = p \o c, Len(a) <= Len(p)
  PROVE  IsBegunBy(p, c, a, b)
<1>1. PICK S, T : p \in Seq(S) /\ a \in Seq(T)
  BY DEF IsSequence
<1> DEFINE U == S \union T
<1>2. p \in Seq(U) /\ a \in Seq(U)
  BY <1>1, SeqMonotonic
<1> HIDE DEF U
<1>3. PICK n, k : n = Len(a) /\ k = Len(p)
  OBVIOUS
<1>4. n \in Nat /\ k \in Nat /\ n <= k
  BY <1>2, <1>3, LenProperties
<1>5. PICK i : i = n + 1
  OBVIOUS
<1>6. PICK q : q = SubSeq(p, i, k)
  OBVIOUS
<1>7. q \in Seq(U) /\ Len(q) = k - n /\ \A j \in 1..(k - n) : q[j] = p[n + j]
  <2>1. i \in 1..(k + 1)
    BY <1>4, <1>5
  <2>2. q \in Seq(U) /\ Len(q) = k - i + 1 /\ \A j \in 1..(k - i + 1) : q[j] = p[i + j - 1]
    BY <1>2, <1>3, <1>6, <2>1, Part
  <2>3. k - i + 1 = k - n /\ \A j \in 1..(k - n) : i + j - 1 = n + j
    BY <1>4, <1>5
  <2>4. QED
    BY <2>2, <2>3
<1>8. \A j \in 1..n : a[j] = p[j]
  <2>1. /\ Len(b) \in Nat /\ Len(c) \in Nat
        /\ \A j \in 1..(n + Len(b)) : (a \o b)[j] = IF j <= n THEN a[j] ELSE b[j - n]
        /\ \A j \in 1..(k + Len(c)) : (p \o c)[j] = IF j <= k THEN p[j] ELSE c[j - k]
    BY <1>3, Elements
  <2>2. ASSUME NEW j \in 1..n PROVE a[j] = p[j]
    <3>1. j \in 1..(n + Len(b)) /\ j \in 1..(k + Len(c)) /\ j <= n /\ j <= k
      BY <1>4, <2>1
    <3>2. (a \o b)[j] = a[j] /\ (p \o c)[j] = p[j]
      BY <2>1, <3>1
    <3>3. QED
      BY Zenon, <3>2
  <2>3. QED
    BY <2>2
<1>9. p = a \o q
  <2>1. PICK r : r = a \o q
    OBVIOUS
  <2>2. r \in Seq(U) /\ Len(r) = n + (k - n) /\
          \A j \in 1..(n + (k - n)) : r[j] = IF j <= n THEN a[j] ELSE q[j - n]
    BY <1>2, <1>3, <1>7, <2>1, ConcatProperties
  <2>3. n + (k - n) = k
    BY <1>4
  <2>4. ASSUME NEW j \in 1..k PROVE r[j] = p[j]
    <3>1. r[j] = IF j <= n THEN a[j] ELSE q[j - n]
      BY <2>2, <2>3
    <3>2. CASE j <= n
      BY <1>4, <1>8, <3>1, <3>2
    <3>3. CASE ~(j <= n)
      <4>1. PICK x : x = j - n
        OBVIOUS
      <4>2. x \in 1..(k - n) /\ n + x = j
        BY <1>4, <3>3, <4>1
      <4>3. q[x] = p[j]
        BY <1>7, <4>2
      <4>4. QED
        BY Zenon, <3>1, <3>3, <4>1, <4>3
    <3>4. QED
      BY <3>2, <3>3
  <2>5. Len(r) = Len(p)
    BY <1>3, <2>2, <2>3
  <2>6. r = p
    BY <1>2, <1>3, <2>2, <2>4, <2>5, SeqEqual
  <2>7. QED
    BY Zenon, <2>1, <2>6
<1>10. IsSequence(q)
  BY <1>7 DEF IsSequence
<1>11. b = q \o c
  <2>1. PICK d : d = q \o c
    OBVIOUS
  <2>2. IsSequence(d)
    BY <1>10, <2>1, Joined
  <2>3. p \o c = a \o d
    BY <1>9, <1>10, <2>1, Regrouped
  <2>4. a \o b = a \o d
    BY Zenon, <2>3
  <2>5. b = d
    BY <2>2, <2>4, SameEnd
  <2>6. QED
    BY Zenon, <2>1, <2>5
<1>12. QED
  BY Zenon, <1>9, <1>10, <1>11 DEF IsBegunBy

(* A cut through a and b goes through a or through b.                      *)
IsCutOfSecond(p, a, b) == \E q : IsCutOf(q, b) /\ p = a \o q

(* A cut of two joined payloads is a cut of the first, or leaves it whole and cuts the second. *)
LEMMA CutOfJoin ==
  ASSUME NEW a, NEW b, NEW p, IsSequence(a), IsSequence(b), IsCutOf(p, a \o b)
  PROVE  IsCutOf(p, a) \/ IsCutOfSecond(p, a, b)
<1>1. PICK c : IsSequence(c) /\ c # <<>> /\ a \o b = p \o c
  BY DEF IsCutOf
<1>2. IsSequence(p)
  BY DEF IsCutOf
<1>3. Len(a) \in Nat /\ Len(p) \in Nat
  BY <1>2, Shortest
<1>4. CASE Len(a) <= Len(p)
  <2>1. IsBegunBy(p, c, a, b)
    BY <1>1, <1>2, <1>4, LongerBeginning
  <2>2. QED
    BY Zenon, <1>1, <2>1 DEF IsBegunBy, IsCutOf, IsCutOfSecond
<1>5. CASE Len(p) < Len(a)
  <2>1. Len(p) <= Len(a)
    BY <1>3, <1>5
  <2>2. p \o c = a \o b
    BY Zenon, <1>1
  <2>3. IsBegunBy(a, b, p, c)
    BY <1>1, <1>2, <2>1, <2>2, LongerBeginning
  <2>4. PICK q : IsSequence(q) /\ a = p \o q /\ c = q \o b
    BY <2>3 DEF IsBegunBy
  <2>5. q # <<>>
    <3>1. p \o <<>> = p
      BY <1>2, NoTokens, Joined
    <3>2. q = <<>> => a = p
      BY Zenon, <2>4, <3>1
    <3>3. QED
      BY <1>3, <1>5, <3>2
  <2>6. QED
    BY Zenon, <1>2, <2>4, <2>5 DEF IsCutOf
<1>6. QED
  BY <1>3, <1>4, <1>5

(* What is cut is shorter,                                                 *)
LEMMA CutIsShorter ==
  ASSUME NEW m, NEW p, IsCutOf(p, m)
  PROVE  Len(p) \in Nat /\ Len(m) \in Nat /\ Len(p) < Len(m)
<1>1. PICK c : IsSequence(c) /\ c # <<>> /\ m = p \o c
  BY DEF IsCutOf
<1>2. IsSequence(p)
  BY DEF IsCutOf
<1>3. Len(c) \in Nat /\ Len(c) # 0
  BY <1>1, Shortest
<1>4. Len(p) \in Nat /\ Len(m) = Len(p) + Len(c)
  BY <1>1, <1>2, Joined
<1>5. QED
  BY <1>3, <1>4

(* so that nothing cannot be cut.                                          *)
LEMMA NothingToCut ==
  ASSUME NEW p
  PROVE  ~IsCutOf(p, <<>>)
<1>1. Len(<<>>) = 0
  OBVIOUS
<1>2. QED
  BY <1>1, CutIsShorter

(* Nothing is left of a token.                                             *)
LEMMA CutOfToken ==
  ASSUME NEW kind, NEW v, NEW p, IsCutOf(p, Token(kind, v))
  PROVE  p = <<>>
<1>1. PICK t : t = <<kind, v>>
  OBVIOUS
<1>2. Token(kind, v) = <<t>>
  BY Zenon, <1>1 DEF Token
<1>3. Len(<<t>>) = 1
  BY NoTokens, OneToken
<1>4. IsCutOf(p, <<t>>)
  BY Zenon, <1>2
<1>5. Len(p) \in Nat /\ Len(p) < 1
  BY <1>3, <1>4, CutIsShorter
<1>6. IsSequence(p)
  BY Zenon DEF IsCutOf
<1>7. Len(p) = 0
  BY <1>5
<1>8. QED
  BY <1>6, <1>7, Shortest

(* The first token of what is left.                                        *)
LEMMA CutBegins ==
  ASSUME NEW m, NEW p, IsCutOf(p, m), p # <<>>
  PROVE  p[1] = m[1]
<1>1. PICK c : IsSequence(c) /\ c # <<>> /\ m = p \o c
  BY DEF IsCutOf
<1>2. IsSequence(p)
  BY DEF IsCutOf
<1>3. Len(p) \in Nat /\ Len(p) # 0 /\ Len(c) \in Nat
  BY <1>1, <1>2, Shortest
<1>4. \A i \in 1..(Len(p) + Len(c)) : (p \o c)[i] = IF i <= Len(p) THEN p[i] ELSE c[i - Len(p)]
  BY <1>1, <1>2, Elements
<1>5. 1 \in 1..(Len(p) + Len(c)) /\ 1 <= Len(p)
  BY <1>3
<1>6. (p \o c)[1] = p[1]
  BY <1>4, <1>5
<1>7. QED
  BY Zenon, <1>1, <1>6

(* The first tokens of a message, but not all of them, are a cut of it.    *)
LEMMA FirstPartIsCut ==
  ASSUME NEW m, IsSequence(m), NEW n \in 0..(Len(m) - 1)
  PROVE  IsCutOf(SubSeq(m, 1, n), m)
<1>1. PICK i : i = n + 1
  OBVIOUS
<1>2. i \in 1..Len(m) /\ i - 1 = n
  BY <1>1, Shortest
<1>3. PICK p, q : IsSequence(p) /\ IsSequence(q) /\ Len(p) = i - 1 /\ m = p \o (<<m[i]>> \o q)
  BY <1>2, Around
<1>4. PICK t, c : t = m[i] /\ c = <<t>> \o q
  OBVIOUS
<1>5. IsSequence(c) /\ c # <<>>
  BY <1>3, <1>4, OneToken
<1>6. m = p \o c /\ Len(p) = n
  BY Zenon, <1>2, <1>3, <1>4
<1>7. SubSeq(p \o c, 1, Len(p)) = p
  BY <1>3, <1>5, FirstPart
<1>8. SubSeq(m, 1, n) = p
  BY Zenon, <1>6, <1>7
<1>9. QED
  BY Zenon, <1>3, <1>5, <1>6, <1>8 DEF IsCutOf

(* There is nothing to read in an empty payload.                           *)
LEMMA ReadNothing ==
  ASSUME NEW kind
  PROVE  Read(kind, <<>>) = Failure
BY Zenon DEF Read

(* A failure is not a success,                                             *)
LEMMA FailureIsNotOk == Failure.ok = FALSE
BY DEF Failure

(* A field whose value is cut short is not read.                           *)
IsCutRejected(f, g, zero) ==
  ~f.isOmitted =>
    \A z, p : z[g] = zero[g] /\ IsCutOf(p, f.value) => ReadField(z, f.key, p) = Failure

(* A loop has failed, or is still to come to the cut.                      *)
IsFailedOrLeft(r, z, d) == r = Failure \/ \E q : IsCutOf(q, d) /\ r = Success(z, q)

(* a loop that failed stays failed,                                        *)
LEMMA NextAfterFailure ==
  ASSUME NEW i
  PROVE  NextField(<<>>, i, Failure) = Failure /\ NextElement(<<>>, i, Failure) = Failure
BY Zenon, FailureIsNotOk DEF NextField, NextElement

(* and fails when it runs out of tokens.                                   *)
LEMMA NoNextField ==
  ASSUME NEW i, NEW z
  PROVE  NextField(<<>>, i, Success(z, <<>>)) = Failure
<1>1. PICK r : r = Success(z, <<>>)
  OBVIOUS
<1>2. r.ok = TRUE /\ r.rest = <<>>
  BY ZenonT(30), <1>1, Succeeded
<1>3. ~Read("name", r.rest).ok
  BY Zenon, <1>2, ReadNothing, FailureIsNotOk
<1>4. NextField(<<>>, i, r) = Failure
  BY Zenon, <1>2, <1>3 DEF NextField
<1>5. QED
  BY Zenon, <1>1, <1>4

(* The cut is in the field, which fails, or after it.                      *)
LEMMA FieldCut ==
  ASSUME NEW f, NEW g, NEW zero, NEW target, IsRead(f, g, zero, target), ~f.isOmitted,
         IsCutRejected(f, g, zero), NEW z, z[g] = zero[g], NEW d, IsSequence(d), NEW i,
         NEW a, IsCutOf(a, AppendField(f) \o d)
  PROVE  IsFailedOrLeft(NextField(<<>>, i, Success(z, a)), With(z, g, target[g]), d)
<1>1. PICK t, v : t = Token("name", f.key) /\ v = f.value
  OBVIOUS
<1>2. IsSequence(v)
  BY Zenon, <1>1 DEF IsRead
<1>3. IsSequence(t)
  BY <1>1, NoTokens, ReadToken
<1>4. PICK h : h = t \o v
  OBVIOUS
<1>5. AppendField(f) = h
  BY Zenon, <1>1, <1>4 DEF AppendField
<1>6. IsSequence(h)
  BY <1>2, <1>3, <1>4, Joined
<1>7. IsCutOf(a, h \o d)
  BY Zenon, <1>5
<1>8. IsCutOf(a, h) \/ IsCutOfSecond(a, h, d)
  BY <1>6, <1>7, CutOfJoin
<1>9. CASE IsCutOf(a, h)
  <2>1. IsCutOf(a, t \o v)
    BY Zenon, <1>4, <1>9
  <2>2. IsCutOf(a, t) \/ IsCutOfSecond(a, t, v)
    BY <1>2, <1>3, <2>1, CutOfJoin
  <2>3. CASE IsCutOf(a, t)
    <3>1. a = <<>>
      BY <1>1, <2>3, CutOfToken
    <3>2. NextField(<<>>, i, Success(z, <<>>)) = Failure
      BY NoNextField
    <3>3. QED
      BY Zenon, <3>1, <3>2 DEF IsFailedOrLeft
  <2>4. CASE IsCutOfSecond(a, t, v)
    <3>1. PICK q : IsCutOf(q, v) /\ a = t \o q
      BY Zenon, <2>4 DEF IsCutOfSecond
    <3>2. IsSequence(q)
      BY Zenon, <3>1 DEF IsCutOf
    <3>3. PICK key : key = f.key
      OBVIOUS
    <3>4. Read("name", a) = Success(key, q)
      BY <1>1, <3>1, <3>2, <3>3, ReadToken
    <3>5. NextField(<<>>, i, Success(z, a)) = ReadField(z, key, q)
      BY <3>4, NextFieldRead
    <3>6. ReadField(z, key, q) = Failure
      BY Zenon, <1>1, <3>1, <3>3 DEF IsCutRejected
    <3>7. QED
      BY Zenon, <3>5, <3>6 DEF IsFailedOrLeft
  <2>5. QED
    BY <2>2, <2>3, <2>4
<1>10. CASE IsCutOfSecond(a, h, d)
  <2>1. PICK q : IsCutOf(q, d) /\ a = h \o q
    BY Zenon, <1>10 DEF IsCutOfSecond
  <2>2. IsSequence(q)
    BY Zenon, <2>1 DEF IsCutOf
  <2>3. NextField(<<>>, i, Success(z, AppendField(f) \o q)) = Success(With(z, g, target[g]), q)
    BY SMT, <2>2, FieldStep
  <2>4. NextField(<<>>, i, Success(z, a)) = Success(With(z, g, target[g]), q)
    BY Zenon, <1>5, <2>1, <2>3
  <2>5. QED
    BY Zenon, <2>1, <2>4 DEF IsFailedOrLeft
<1>11. QED
  BY <1>8, <1>9, <1>10

(* A map that is cut short is not read.                                    *)
THEOREM MapCutRejected ==
  ASSUME NEW n \in Nat, NEW fields, NEW attr, NEW zero, NEW target,
         ReadsInto(fields, n, attr, zero, target),
         \A i \in 1..n : IsCutRejected(fields[i], attr[i], zero),
         NEW p, IsCutOf(p, AppendMap(fields))
  PROVE  ReadMap(zero, p, ReadField) = Failure
<1> DEFINE pieces == [i \in DOMAIN fields |-> AppendField(fields[i])]
           count(i) == CountUpTo(fields, i)
<1>1. DOMAIN fields = 1..n /\ AreSequences(pieces, n)
  BY FieldsAreSequences, AppendedFields
<1>2. PICK flat : flat = AppendFields(fields)
  OBVIOUS
<1>3. PICK tail : AreTails(tail, pieces, n) /\ flat = tail[0]
  <2>1. flat = FlattenSeq(pieces)
    BY <1>2 DEF AppendFields
  <2> HIDE DEF pieces
  <2>2. QED
    BY <1>1, <2>1, TailsExist, FlatIsTail
<1>4. /\ CountUpTo(fields, 0) = 0 /\ CountUpTo(fields, n) \in Nat
      /\ \A i \in 1..n : /\ CountUpTo(fields, i) <= CountUpTo(fields, n)
                         /\ CountUpTo(fields, i - 1) \in Nat
                         /\ CountUpTo(fields, i) = CountUpTo(fields, i - 1)
                              + IF fields[i].isOmitted THEN 0 ELSE 1
  BY Counting
<1>5. Cardinality(Present(fields)) = count(n)
  BY <1>1 DEF Present, CountUpTo
<1>6. PICK h : h = Token("map", count(n))
  OBVIOUS
<1>7. IsSequence(h)
  BY <1>6, NoTokens, ReadToken
<1>8. IsSequence(flat)
  <2>1. 0 \in 0..n
    OBVIOUS
  <2> HIDE DEF pieces
  <2>2. QED
    BY <1>3, <2>1 DEF AreTails
<1>9. IsCutOf(p, h) \/ IsCutOfSecond(p, h, flat)
  <2>1. IsCutOf(p, h \o flat)
    BY Zenon, <1>2, <1>5, <1>6 DEF AppendMap
  <2> HIDE DEF pieces, count
  <2>2. QED
    BY <1>7, <1>8, <2>1, CutOfJoin
<1>10. CASE IsCutOf(p, h)
  <2> HIDE DEF count
  <2>1. p = <<>>
    BY <1>6, <1>10, CutOfToken
  <2>2. ~Read("map", p).ok
    BY Zenon, <2>1, ReadNothing, FailureIsNotOk
  <2>3. QED
    BY Zenon, <2>2 DEF ReadMap
<1>11. CASE IsCutOfSecond(p, h, flat)
  <2>1. PICK after : IsCutOf(after, flat) /\ p = h \o after
    BY Zenon, <1>11 DEF IsCutOfSecond
  <2>2. IsSequence(after)
    BY Zenon, <2>1 DEF IsCutOf
  <2>3. PICK k \in Nat : k = count(n)
    BY <1>4
  <2>4. Read("map", p) = Success(k, after)
    <3> HIDE DEF count
    <3>1. QED
      BY <1>6, <2>1, <2>2, <2>3, ReadToken
  <2>5. PICK run : /\ FieldsRun(run, <<>>, Success(zero, after), 0, k)
                   /\ ReadMap(zero, p, ReadField) = run[k]
    <3> HIDE DEF pieces, count
    <3>1. QED
      BY <2>4, MapIsRun
  <2>6. run[0] = Success(zero, after) /\ \A i \in 1..k : run[i] = NextField(<<>>, i, run[i - 1])
    <3> HIDE DEF pieces, count
    <3>1. QED
      BY <2>5 DEF FieldsRun
  <2> DEFINE done(i) == {attr[j] : j \in 1..i}
             z(i) == PartlyRead(zero, target, done(i))
             S == {i \in 0..n : IsFailedOrLeft(run[count(i)], z(i), tail[i])}
  <2>7. 0 \in S
    <3>1. z(0) = zero
      <4>1. done(0) = {}
        OBVIOUS
      <4>2. zero = [g \in DOMAIN zero |-> zero[g]] /\ target = [g \in DOMAIN zero |-> target[g]]
        BY DEF ReadsInto
      <4> HIDE DEF done
      <4>3. QED
        BY <4>1, <4>2, AllRead
    <3>2. count(0) = 0
      BY <1>4
    <3> HIDE DEF z, count
    <3>3. IsFailedOrLeft(run[count(0)], z(0), tail[0])
      BY Zenon, <1>3, <2>1, <2>6, <3>1, <3>2 DEF IsFailedOrLeft
    <3>4. QED
      BY <3>3
  <2>8. ASSUME NEW i \in (0 + 1)..n, i - 1 \in S PROVE i \in S
    <3>1. PICK f, g, y, d : f = fields[i] /\ g = attr[i] /\ y = z(i - 1) /\ d = tail[i]
      OBVIOUS
    <3>2. i \in 1..n /\ i \in 0..n /\ i - 1 \in 0..n
      OBVIOUS
    <3>3. /\ IsRead(f, g, zero, target) /\ g \in DOMAIN zero /\ IsCutRejected(f, g, zero)
          /\ g \notin done(i - 1)
      <4>1. \A j \in 1..(i - 1) : j \in 1..n /\ j # i
        BY <3>2
      <4>2. QED
        BY <3>1, <3>2, <4>1 DEF ReadsInto
    <3>4. done(i) = done(i - 1) \union {g}
      <4>1. \A j : j \in 1..i <=> j \in 1..(i - 1) \/ j = i
        BY <3>2
      <4>2. QED
        BY <3>1, <4>1
    <3>5. y[g] = zero[g] /\ With(y, g, target[g]) = z(i) /\ (target[g] = zero[g] => y = z(i))
      <4>1. PICK before, now : before = done(i - 1) /\ now = done(i)
        OBVIOUS
      <4>2. g \in DOMAIN zero /\ g \notin before /\ now = before \union {g}
        BY Zenon, <3>3, <3>4, <4>1
      <4>3. y = PartlyRead(zero, target, before) /\ z(i) = PartlyRead(zero, target, now)
        BY <3>1, <4>1
      <4> HIDE DEF z, done
      <4>4. PartlyRead(zero, target, before)[g] = zero[g]
        BY <4>2, NotYetRead
      <4>5. With(PartlyRead(zero, target, before), g, target[g])
              = PartlyRead(zero, target, before \union {g})
        BY <4>2, ReadOneMore
      <4>6. target[g] = zero[g] =>
              PartlyRead(zero, target, before) = PartlyRead(zero, target, before \union {g})
        BY NothingToRead
      <4>7. QED
        BY Zenon, <4>2, <4>3, <4>4, <4>5, <4>6
    <3>6. IsFailedOrLeft(run[count(i - 1)], y, tail[i - 1])
      BY <2>8, <3>1
    <3>7. IsSequence(d) /\ tail[i - 1] = AppendField(f) \o d /\ IsSequence(AppendField(f))
      <4>1. pieces[i] = AppendField(f)
        BY <1>1, <3>1, <3>2
      <4>2. IsSequence(pieces[i])
        BY <1>1, <3>2 DEF AreSequences
      <4> HIDE DEF pieces
      <4>3. QED
        BY <1>3, <3>1, <3>2, <4>1, <4>2 DEF AreTails
    <3>8. IsFailedOrLeft(run[count(i)], z(i), d)
      <4>1. CASE f.isOmitted
        <5>1. target[g] = zero[g]
          BY <3>3, <4>1 DEF IsRead
        <5>2. count(i) = count(i - 1)
          BY <1>4, <3>1, <3>2, <4>1
        <5>3. AppendField(f) \o d = d
          <6>1. AppendField(f) = <<>>
            BY <4>1 DEF AppendField
          <6>2. QED
            BY <3>7, <6>1, Joined
        <5> HIDE DEF count, z
        <5>4. QED
          BY Zenon, <3>5, <3>6, <3>7, <5>1, <5>2, <5>3
      <4>2. CASE ~f.isOmitted
        <5>1. count(i) = count(i - 1) + 1 /\ count(i) \in 1..k /\ count(i) - 1 = count(i - 1)
          BY <1>4, <2>3, <3>1, <3>2, <4>2
        <5>2. PICK c : c = count(i)
          OBVIOUS
        <5>3. PICK r : r = run[count(i - 1)]
          OBVIOUS
        <5>4. run[c] = NextField(<<>>, c, r)
          <6> HIDE DEF count
          <6>1. QED
            BY <2>6, <5>1, <5>2, <5>3
        <5>5. PICK w : w = With(y, g, target[g])
          OBVIOUS
        <5> HIDE DEF z, count, S, done, pieces
        <5>6. IsFailedOrLeft(NextField(<<>>, c, r), w, d)
          <6>1. CASE r = Failure
            <7>1. NextField(<<>>, c, Failure) = Failure
              BY NextAfterFailure
            <7>2. QED
              BY Zenon, <6>1, <7>1 DEF IsFailedOrLeft
          <6>2. CASE r # Failure
            <7>1. PICK a : IsCutOf(a, AppendField(f) \o d) /\ r = Success(y, a)
              BY Zenon, <3>6, <3>7, <5>3, <6>2 DEF IsFailedOrLeft
            <7>2. IsFailedOrLeft(NextField(<<>>, c, Success(y, a)), With(y, g, target[g]), d)
              BY SMT, <3>3, <3>5, <3>7, <4>2, <7>1, FieldCut
            <7>3. QED
              BY Zenon, <5>5, <7>1, <7>2
          <6>3. QED
            BY <6>1, <6>2
        <5>7. QED
          BY Zenon, <3>5, <5>2, <5>4, <5>5, <5>6
      <4>3. QED
        BY <4>1, <4>2
    <3> HIDE DEF count, z
    <3>9. QED
      BY <3>1, <3>2, <3>8
  <2>9. n \in S
    <3> HIDE DEF S
    <3>1. \A i \in 0..n : i \in S
      <4>1. 0 \in Nat
        OBVIOUS
      <4>2. QED
        BY <2>7, <2>8, <4>1, Induction
    <3>2. n \in 0..n
      OBVIOUS
    <3>3. QED
      BY <3>1, <3>2
  <2>10. tail[n] = <<>>
    <3> HIDE DEF pieces
    <3>1. QED
      BY <1>3 DEF AreTails
  <2>11. IsFailedOrLeft(run[k], z(n), <<>>)
    <3>1. IsFailedOrLeft(run[count(n)], z(n), tail[n])
      BY <2>9
    <3> HIDE DEF count, z
    <3>2. QED
      BY Zenon, <2>3, <2>10, <3>1
  <2>12. run[k] = Failure
    <3> HIDE DEF z
    <3>1. QED
      BY Zenon, <2>11, NothingToCut DEF IsFailedOrLeft
  <2>13. QED
    BY Zenon, <2>5, <2>12
<1>12. QED
  BY <1>9, <1>10, <1>11

-----------------------------------------------------------------------------
(* Arrays and pointers that are cut short                                  *)

LEMMA NextElementFails ==
  ASSUME NEW items, NEW b, NEW i, Unmarshal(items[i], b) = Failure
  PROVE  NextElement(<<>>, i, Success(SliceOf(items), b)) = Failure
<1>1. PICK s, r : s = SliceOf(items) /\ r = Success(s, b)
  OBVIOUS
<1>2. r.ok = TRUE /\ r.v = s /\ r.rest = b
  BY ZenonT(30), <1>1, Succeeded
<1>3. s.items = items
  BY <1>1 DEF SliceOf
<1>4. ~Unmarshal(r.v.items[i], r.rest).ok
  BY Zenon, <1>2, <1>3, FailureIsNotOk
<1>5. NextElement(<<>>, i, r) = Failure
  BY Zenon, <1>2, <1>4 DEF NextElement
<1>6. QED
  BY Zenon, <1>1, <1>5

(* The cut is in the element, which fails, or after it.                    *)
LEMMA ElementCut ==
  ASSUME NEW e, NEW v, NEW zero, NEW items, NEW i, items[i] = zero, IsSequence(e),
         \A c : IsSequence(c) => Unmarshal(zero, e \o c) = Success(v, c),
         \A p : IsCutOf(p, e) => Unmarshal(zero, p) = Failure,
         NEW d, IsSequence(d), NEW a, IsCutOf(a, e \o d)
  PROVE  IsFailedOrLeft(NextElement(<<>>, i, Success(SliceOf(items), a)),
                        SliceOf(With(items, i, v)), d)
<1>1. IsCutOf(a, e) \/ IsCutOfSecond(a, e, d)
  BY CutOfJoin
<1>2. CASE IsCutOf(a, e)
  <2>1. Unmarshal(items[i], a) = Failure
    BY Zenon, <1>2
  <2>2. NextElement(<<>>, i, Success(SliceOf(items), a)) = Failure
    BY <2>1, NextElementFails
  <2>3. QED
    BY Zenon, <2>2 DEF IsFailedOrLeft
<1>3. CASE IsCutOfSecond(a, e, d)
  <2>1. PICK q : IsCutOf(q, d) /\ a = e \o q
    BY Zenon, <1>3 DEF IsCutOfSecond
  <2>2. IsSequence(q)
    BY Zenon, <2>1 DEF IsCutOf
  <2>3. Unmarshal(items[i], a) = Success(v, q)
    BY Zenon, <2>1, <2>2
  <2>4. NextElement(<<>>, i, Success(SliceOf(items), a)) = Success(SliceOf(With(items, i, v)), q)
    BY SMTT(30), <2>3, NextElementRead
  <2>5. QED
    BY Zenon, <2>1, <2>4 DEF IsFailedOrLeft
<1>4. QED
  BY <1>1, <1>2, <1>3

AreCutRejected(elements, zero, n) ==
  \A i \in 1..n : \A p : IsCutOf(p, elements[i]) => Unmarshal(zero, p) = Failure

(* An array that is cut short is not read.                                 *)
THEOREM ArrayCutRejected ==
  ASSUME NEW n \in Nat, NEW elements, NEW values, NEW zero, AreElements(elements, values, zero, n),
         AreCutRejected(elements, zero, n), NEW p, IsCutOf(p, ArrayMessage(elements, n))
  PROVE  ReadArray(NilSlice, p, zero, Unmarshal) = Failure
<1> DEFINE target == IF Len(NilSlice.items) >= n
                       THEN [made |-> NilSlice.made, items |-> SubSeq(NilSlice.items, 1, n)]
                       ELSE SliceOf([i \in 1..n |-> zero])
<1>1. AreSequences(elements, n) /\ values = [i \in 1..n |-> values[i]]
  BY DEF AreElements
<1>2. PICK h, flat : h = Token("array", n) /\ flat = FlattenSeq(elements)
  OBVIOUS
<1>3. PICK tail : AreTails(tail, elements, n) /\ flat = tail[0]
  BY <1>1, <1>2, TailsExist, FlatIsTail
<1>4. /\ tail[n] = <<>>
      /\ \A i \in 0..n : IsSequence(tail[i])
      /\ \A i \in 1..n : tail[i - 1] = elements[i] \o tail[i]
  BY <1>3 DEF AreTails
<1>5. IsSequence(flat) /\ IsSequence(h)
  <2>1. IsSequence(tail[0])
    BY <1>4
  <2>2. IsSequence(h)
    BY <1>2, NoTokens, ReadToken
  <2>3. QED
    BY Zenon, <1>3, <2>1, <2>2
<1>6. IsCutOf(p, h) \/ IsCutOfSecond(p, h, flat)
  <2>1. IsCutOf(p, h \o flat)
    BY Zenon, <1>2 DEF ArrayMessage
  <2>2. QED
    BY <1>5, <2>1, CutOfJoin
<1>7. CASE IsCutOf(p, h)
  <2>1. p = <<>>
    BY <1>2, <1>7, CutOfToken
  <2>2. ~Read("array", p).ok
    BY Zenon, <2>1, ReadNothing, FailureIsNotOk
  <2>3. QED
    BY Zenon, <2>2 DEF ReadArray
<1>8. CASE IsCutOfSecond(p, h, flat)
  <2>1. PICK after : IsCutOf(after, flat) /\ p = h \o after
    BY Zenon, <1>8 DEF IsCutOfSecond
  <2>2. IsSequence(after)
    BY Zenon, <2>1 DEF IsCutOf
  <2>3. Read("array", p) = Success(n, after)
    BY <1>2, <2>1, <2>2, ReadToken
  <2>4. n # 0
    <3>1. n = 0 => flat = <<>>
      BY <1>3, <1>4
    <3>2. QED
      BY Zenon, <2>1, <3>1, NothingToCut
  <2>5. PICK run : /\ ItemsRun(run, <<>>, Success(target, after), 0, n)
                   /\ ReadArray(NilSlice, p, zero, Unmarshal) = run[n]
    BY Zenon, <2>3, ArrayIsRun
  <2>6. /\ run[0] = Success(target, after)
        /\ \A i \in 1..n : run[i] = NextElement(<<>>, i, run[i - 1])
    <3> HIDE DEF target
    <3>1. QED
      BY <2>5 DEF ItemsRun
  <2> DEFINE slice(i) == SliceOf(ItemsRead(values, zero, n, i))
             S == {i \in 0..n : IsFailedOrLeft(run[i], slice(i), tail[i])}
  <2>7. 0 \in S
    <3>1. target = slice(0)
      <4>1. Len(NilSlice.items) = 0
        BY DEF NilSlice
      <4>2. ~(Len(NilSlice.items) >= n)
        BY <2>4, <4>1
      <4>3. [i \in 1..n |-> zero] = ItemsRead(values, zero, n, 0)
        BY DEF ItemsRead
      <4>4. QED
        BY Zenon, <4>2, <4>3
    <3>2. IsFailedOrLeft(run[0], slice(0), tail[0])
      <4> HIDE DEF target, slice
      <4>1. QED
        BY Zenon, <1>3, <2>1, <2>6, <3>1 DEF IsFailedOrLeft
    <3> HIDE DEF slice
    <3>3. QED
      BY <3>2
  <2>8. ASSUME NEW i \in (0 + 1)..n, i - 1 \in S PROVE i \in S
    <3>1. i \in 1..n /\ i \in 0..n
      OBVIOUS
    <3>2. PICK e, d, items, v, r :
            /\ e = elements[i] /\ d = tail[i] /\ items = ItemsRead(values, zero, n, i - 1)
            /\ v = values[i] /\ r = run[i - 1]
      OBVIOUS
    <3>3. IsSequence(e) /\ IsSequence(d) /\ tail[i - 1] = e \o d
      BY <1>1, <1>4, <3>1, <3>2 DEF AreSequences
    <3>4. IsFailedOrLeft(r, SliceOf(items), e \o d)
      <4>1. IsFailedOrLeft(run[i - 1], slice(i - 1), tail[i - 1])
        BY <2>8
      <4>2. QED
        BY Zenon, <3>2, <3>3, <4>1
    <3>5. items[i] = zero
      BY <3>1, <3>2 DEF ItemsRead
    <3>6. /\ \A c : IsSequence(c) => Unmarshal(zero, e \o c) = Success(v, c)
          /\ \A q : IsCutOf(q, e) => Unmarshal(zero, q) = Failure
      BY Zenon, <3>1, <3>2 DEF AreElements, AreCutRejected
    <3>7. SliceOf(With(items, i, v)) = slice(i)
      <4>1. With(ItemsRead(values, zero, n, i - 1), i, values[i]) = ItemsRead(values, zero, n, i)
        BY <3>1, ReadOneMoreItem
      <4>2. QED
        BY Zenon, <3>2, <4>1
    <3>8. run[i] = NextElement(<<>>, i, r)
      BY <2>6, <3>1, <3>2
    <3>9. IsFailedOrLeft(NextElement(<<>>, i, r), SliceOf(With(items, i, v)), d)
      <4> HIDE DEF slice, S, target
      <4>1. CASE r = Failure
        <5>1. NextElement(<<>>, i, Failure) = Failure
          BY NextAfterFailure
        <5>2. QED
          BY Zenon, <4>1, <5>1 DEF IsFailedOrLeft
      <4>2. CASE r # Failure
        <5>1. PICK a : IsCutOf(a, e \o d) /\ r = Success(SliceOf(items), a)
          BY Zenon, <3>4, <4>2 DEF IsFailedOrLeft
        <5>2. IsFailedOrLeft(NextElement(<<>>, i, Success(SliceOf(items), a)),
                             SliceOf(With(items, i, v)), d)
          BY SMTT(30), <3>3, <3>5, <3>6, <5>1, ElementCut
        <5>3. QED
          BY Zenon, <5>1, <5>2
      <4>3. QED
        BY <4>1, <4>2
    <3>10. IsFailedOrLeft(run[i], slice(i), tail[i])
      <4> HIDE DEF slice
      <4>1. QED
        BY Zenon, <3>2, <3>7, <3>8, <3>9
    <3> HIDE DEF slice
    <3>11. QED
      BY <3>1, <3>10
  <2>9. n \in S
    <3> HIDE DEF S
    <3>1. \A i \in 0..n : i \in S
      <4>1. 0 \in Nat
        OBVIOUS
      <4>2. QED
        BY <2>7, <2>8, <4>1, Induction
    <3>2. n \in 0..n
      OBVIOUS
    <3>3. QED
      BY <3>1, <3>2
  <2>10. run[n] = Failure
    <3>1. IsFailedOrLeft(run[n], slice(n), tail[n])
      BY <2>9
    <3> HIDE DEF slice
    <3>2. QED
      BY Zenon, <1>4, <3>1, NothingToCut DEF IsFailedOrLeft
  <2>11. QED
    BY Zenon, <2>5, <2>10
<1>9. QED
  BY <1>6, <1>7, <1>8

(* A value behind a pointer that is cut short is not read.                 *)
LEMMA PointerCutRejected ==
  ASSUME NEW zero, NEW m, NEW p, IsCutOf(p, m), m[1] # <<"nil">>, Unmarshal(zero, p) = Failure
  PROVE  ReadPointer(NilPointer, p, zero, Unmarshal) = Failure
<1>1. p = <<>> \/ p[1] # <<"nil">>
  BY Zenon, CutBegins
<1>2. QED
  BY Zenon, <1>1, FailureIsNotOk DEF ReadPointer

(* What a type has to show of its fields.                                  *)
LEMMA TokenCutRejected ==
  ASSUME NEW key, NEW omitted, NEW kind, NEW s, NEW g, NEW zero,
         \A z : ReadField(z, key, <<>>) = Failure
  PROVE  IsCutRejected(Field(key, omitted, Token(kind, s)), g, zero)
<1>1. PICK f, v : f = Field(key, omitted, Token(kind, s)) /\ v = Token(kind, s)
  OBVIOUS
<1>2. f.key = key /\ f.value = v
  BY <1>1 DEF Field
<1>3. \A p : IsCutOf(p, v) => p = <<>>
  BY Zenon, <1>1, CutOfToken
<1>4. IsCutRejected(f, g, zero)
  BY Zenon, <1>2, <1>3 DEF IsCutRejected
<1>5. QED
  BY Zenon, <1>1, <1>4

(* A field is rejected if it is cut, provided its value is.                *)
LEMMA ValueCutRejected ==
  ASSUME NEW key, NEW omitted, NEW value, NEW g, NEW zero,
         omitted \/ \A z, p : z[g] = zero[g] /\ IsCutOf(p, value) => ReadField(z, key, p) = Failure
  PROVE  IsCutRejected(Field(key, omitted, value), g, zero)
<1>1. PICK f : f = Field(key, omitted, value)
  OBVIOUS
<1>2. f.key = key /\ f.value = value /\ f.isOmitted = omitted
  BY <1>1 DEF Field
<1>3. IsCutRejected(f, g, zero)
  BY Zenon, <1>2 DEF IsCutRejected
<1>4. QED
  BY Zenon, <1>1, <1>3

(* A map of fields that can be read is rejected wherever it is cut, if the *)
(* reader of each field rejects the field when it is cut: by that reader,  *)
(* or by the loop, which finds fewer fields than the header announces.     *)
THEOREM WrittenMapCutRejected ==
  ASSUME NEW n \in Nat, NEW fields, NEW attr, NEW zero, NEW target,
         AreWritten(fields, n, attr, zero, target),
         \A i \in 1..n : IsCutRejected(fields[i], attr[i], zero),
         NEW p, IsCutOf(p, AppendMap(fields))
  PROVE  ReadMap(zero, p, ReadField) = Failure
<1>1. ReadsInto(fields, n, attr, zero, target)
  BY WrittenReadsInto
<1>2. QED
  BY <1>1, MapCutRejected

(* The same for an array: cut anywhere, it is rejected, if its elements    *)
(* are.                                                                    *)
THEOREM WrittenArrayCutRejected ==
  ASSUME NEW n \in Nat, NEW elements, NEW values, NEW zero,
         AreWrittenElements(elements, values, zero, n), AreCutRejected(elements, zero, n),
         NEW p, IsCutOf(p, ArrayMessage(elements, n))
  PROVE  ReadArray(NilSlice, p, zero, Unmarshal) = Failure
<1>1. \A a : a \in Encodings(a, NewerField)
  BY Zenon DEF Encodings
<1>2. AreElements(elements, values, zero, n)
  BY Zenon, <1>1 DEF AreElements, AreWrittenElements
<1>3. QED
  BY <1>2, ArrayCutRejected
=============================================================================
