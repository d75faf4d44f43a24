------------------------ MODULE EventTransportProofs -------------------------
(***************************************************************************)
(* Theorems about EventTransport, for any inputs of its constructors and   *)
(* any limit of the length of a text: what an event retains of the texts   *)
(* it is given, and that a message that is cut short is rejected.          *)
(***************************************************************************)
EXTENDS RoundTripProofs, FunctionTheorems, FiniteSetTheorems, SequenceTheorems,
  WellFoundedInduction, TLAPS

-----------------------------------------------------------------------------
(* The bytes of a text                                                     *)

(* The fold that Bytes is, from the sum of no characters on.               *)
IsSum(sum, text) ==
  sum = [s \in SUBSET DOMAIN text |->
           IF s = {} THEN 0 ELSE text[CHOOSE i \in s : TRUE] + sum[s \ {CHOOSE i \in s : TRUE}]]

(* Bytes is such a fold, over all characters.                              *)
LEMMA BytesIsASum ==
  ASSUME NEW text
  PROVE  Bytes(text) = (CHOOSE sum : IsSum(sum, text))[DOMAIN text]
BY Zenon DEF Bytes, FoldSeq, FoldFunction, FoldFunctionOnSet, MapThenFoldSet, IsSum

(* The bytes of the characters in s, one by one.                           *)
BytesAt(text, s) == {b \in s \X (1..4) : b[2] <= text[b[1]]}

(* A character has as many bytes as its width,                             *)
LEMMA BytesOfOneCharacter ==
  ASSUME NEW text \in Texts, NEW i \in DOMAIN text
  PROVE  /\ IsFiniteSet(BytesAt(text, {i}))
         /\ Cardinality(BytesAt(text, {i})) = text[i]
<1>1. text[i] \in 1..4
  BY DEF Texts
<1> DEFINE f == [k \in 1..text[i] |-> <<i, k>>]
<1>2. f \in Bijection(1..text[i], BytesAt(text, {i}))
  <2>1. \A k \in 1..text[i] : f[k] \in BytesAt(text, {i})
    BY <1>1 DEF BytesAt
  <2>2. \A b \in BytesAt(text, {i}) : b[2] \in 1..text[i] /\ f[b[2]] = b
    BY <1>1 DEF BytesAt
  <2>3. \A j, k \in 1..text[i] : f[j] = f[k] => j = k
    OBVIOUS
  <2>4. f \in [1..text[i] -> BytesAt(text, {i})]
    BY <2>1
  <2>5. QED
    BY <2>2, <2>3, <2>4 DEF Bijection, Injection, Surjection, IsInjective
<1>3. ExistsBijection(1..text[i], BytesAt(text, {i}))
  BY <1>2 DEF ExistsBijection
<1>4. IsFiniteSet(1..text[i]) /\ Cardinality(1..text[i]) = text[i]
  BY <1>1, FS_Interval
<1>5. QED
  BY <1>3, <1>4, FS_Bijection

(* and one more character adds its width.                                  *)
LEMMA BytesOfOneMore ==
  ASSUME NEW text \in Texts, NEW s \in SUBSET DOMAIN text, NEW i \in s
  PROVE  Cardinality(BytesAt(text, s)) = text[i] + Cardinality(BytesAt(text, s \ {i}))
<1>1. DOMAIN text = 1..Len(text) /\ Len(text) \in Nat
  BY DEF Texts
<1>2. IsFiniteSet(BytesAt(text, s \ {i}))
  <2>1. IsFiniteSet(1..Len(text)) /\ IsFiniteSet(1..4)
    <3>1. 1 \in Int /\ 4 \in Int /\ Len(text) \in Int
      BY <1>1
    <3>2. QED
      BY <3>1, FS_Interval
  <2>2. IsFiniteSet(s \ {i})
    BY <1>1, <2>1, FS_Subset
  <2>3. IsFiniteSet((s \ {i}) \X (1..4))
    BY <2>1, <2>2, FS_Product
  <2>4. QED
    BY <2>3, FS_Subset DEF BytesAt
<1>3. BytesAt(text, s) = BytesAt(text, s \ {i}) \union BytesAt(text, {i})
  BY DEF BytesAt
<1>4. BytesAt(text, s \ {i}) \cap BytesAt(text, {i}) = {}
  BY DEF BytesAt
<1>5. IsFiniteSet(BytesAt(text, {i})) /\ Cardinality(BytesAt(text, {i})) = text[i]
  BY BytesOfOneCharacter
<1>6. Cardinality(BytesAt(text, s \ {i}) \union BytesAt(text, {i}))
        = Cardinality(BytesAt(text, s \ {i})) + Cardinality(BytesAt(text, {i}))
            - Cardinality(BytesAt(text, s \ {i}) \cap BytesAt(text, {i}))
  BY <1>2, <1>5, FS_Union
<1>7. Cardinality(BytesAt(text, s \ {i})) \in Nat /\ text[i] \in Nat
  BY <1>2, FS_CardinalityType DEF Texts
<1>8. QED
  <2>1. Cardinality(BytesAt(text, s \ {i}) \cap BytesAt(text, {i})) = 0
    BY <1>4, FS_EmptySet
  <2>2. Cardinality(BytesAt(text, s)) = Cardinality(BytesAt(text, s \ {i})) + text[i] - 0
    BY <1>3, <1>5, <1>6, <2>1
  <2>3. QED
    BY <1>7, <2>2

(* The recursion behind the fold has a solution.                           *)
LEMMA ASumExists ==
  ASSUME NEW text \in Texts
  PROVE  IsSum(CHOOSE sum : IsSum(sum, text), text)
<1> DEFINE bytes == [s \in SUBSET DOMAIN text |-> Cardinality(BytesAt(text, s))]
<1>1. ASSUME NEW s \in SUBSET DOMAIN text
      PROVE  Cardinality(BytesAt(text, s)) =
               IF s = {} THEN 0
               ELSE text[CHOOSE i \in s : TRUE]
                      + bytes[s \ {CHOOSE i \in s : TRUE}]
  <2>1. CASE s = {}
    BY <2>1, FS_EmptySet DEF BytesAt
  <2>2. CASE s # {}
    <3>1. (CHOOSE i \in s : TRUE) \in s
      BY <2>2
    <3>2. bytes[s \ {CHOOSE i \in s : TRUE}]
            = Cardinality(BytesAt(text, s \ {CHOOSE i \in s : TRUE}))
      OBVIOUS
    <3>3. QED
      BY <2>2, <3>1, <3>2, BytesOfOneMore
  <2>3. QED
    BY <2>1, <2>2
<1>2. IsSum(bytes, text)
  BY <1>1 DEF IsSum
<1>3. QED
  BY <1>2

(* No character takes no bytes: a text has no more characters than bytes.  *)
LEMMA BytesBound ==
  ASSUME NEW text \in Texts
  PROVE  Bytes(text) \in Nat /\ Len(text) <= Bytes(text)
<1> DEFINE sum == CHOOSE sum : IsSum(sum, text)
           wrong == {s \in SUBSET DOMAIN text : ~(sum[s] \in Nat /\ Cardinality(s) <= sum[s])}
<1>1. DOMAIN text = 1..Len(text) /\ Len(text) \in Nat
  BY DEF Texts
<1>2. IsFiniteSet(DOMAIN text) /\ Cardinality(DOMAIN text) = Len(text)
  <2>1. IsFiniteSet(1..Len(text)) /\ Cardinality(1..Len(text)) = Len(text)
    <3>1. 1 \in Int /\ Len(text) \in Int
      BY <1>1
    <3>2. IsFiniteSet(1..Len(text))
            /\ Cardinality(1..Len(text)) = IF 1 > Len(text) THEN 0 ELSE Len(text) - 1 + 1
      BY <3>1, FS_Interval
    <3>3. QED
      BY <1>1, <3>2
  <2>2. QED
    BY <1>1, <2>1
<1>3. IsSum(sum, text)
  BY ASumExists
<1> HIDE DEF sum
<1>4. wrong = {}
  <2>1. SUFFICES ASSUME wrong # {} PROVE FALSE
    OBVIOUS
  <2>2. wrong \subseteq FiniteSubsetsOf(DOMAIN text)
    BY <1>2, FS_FiniteSubsetsOfFinite
  <2>3. PICK s \in wrong : \A r \in wrong : ~(<<r, s>> \in StrictSubsetOrdering(DOMAIN text))
    <3> HIDE DEF wrong
    <3>1. QED
      BY <2>1, <2>2, WFMin, FS_StrictSubsetOrderingWellFounded
  <2>4. s \in SUBSET DOMAIN text /\ IsFiniteSet(s)
    BY <1>2, FS_Subset
  <2>5. s # {}
    <3>1. sum[{}] = 0
      BY <1>3 DEF IsSum
    <3>2. QED
      BY <2>3, <3>1, FS_EmptySet
  <2> DEFINE i == CHOOSE i \in s : TRUE
  <2>6. i \in s
    BY <2>5
  <2>7. sum[s] = text[i] + sum[s \ {i}]
    BY <1>3, <2>4, <2>5 DEF IsSum
  <2> HIDE DEF i
  <2>8. s \ {i} \notin wrong
    <3>1. <<s \ {i}, s>> \in StrictSubsetOrdering(DOMAIN text)
      BY <2>4, <2>6 DEF StrictSubsetOrdering
    <3>2. QED
      BY <2>3, <3>1
  <2>9. sum[s \ {i}] \in Nat /\ Cardinality(s \ {i}) <= sum[s \ {i}]
    BY <2>4, <2>8
  <2>10. Cardinality(s \ {i}) = Cardinality(s) - 1 /\ Cardinality(s) \in Nat
    BY <2>4, <2>6, FS_RemoveElement, FS_CardinalityType
  <2>11. text[i] \in Nat /\ 1 <= text[i]
    BY <2>4, <2>6 DEF Texts
  <2>12. sum[s] \in Nat /\ Cardinality(s) <= sum[s]
    BY <2>7, <2>9, <2>10, <2>11
  <2>13. QED
    BY <2>3, <2>12
<1>5. sum[DOMAIN text] \in Nat /\ Cardinality(DOMAIN text) <= sum[DOMAIN text]
  BY <1>4
<1>6. QED
  BY <1>2, <1>5, BytesIsASum DEF sum

-----------------------------------------------------------------------------
(* What the constructors retain                                            *)

(* A text that is cut is as long as allowed, any other not longer.         *)
LEMMA TruncateStringRetains ==
  ASSUME NEW text \in Texts
  PROVE  LET t == TruncateString(text) IN
           /\ t.text \in Texts
           /\ t.truncated \in BOOLEAN
           /\ t.truncated => Len(t.text) = TruncationMaxValue
           /\ ~t.truncated => Len(t.text) <= TruncationMaxValue
<1>1. TruncationMaxValue \in Nat /\ Len(text) \in Nat
  BY TruncationAssumption DEF Texts
<1>2. Bytes(text) \in Nat /\ Len(text) <= Bytes(text)
  BY BytesBound
<1>3. CASE Bytes(text) <= TruncationMaxValue \/ Len(text) <= TruncationMaxValue
  <2>1. Len(text) <= TruncationMaxValue
    BY <1>1, <1>2, <1>3
  <2>2. TruncateString(text) = [text |-> text, truncated |-> FALSE]
    BY <1>3 DEF TruncateString
  <2>3. QED
    BY <2>1, <2>2
<1>4. CASE ~(Bytes(text) <= TruncationMaxValue \/ Len(text) <= TruncationMaxValue)
  <2>1. TruncateString(text) = [text |-> SubSeq(text, 1, TruncationMaxValue), truncated |-> TRUE]
    BY <1>4 DEF TruncateString
  <2>2. TruncationMaxValue <= Len(text)
    BY <1>1, <1>4
  <2> DEFINE cut == SubSeq(text, 1, TruncationMaxValue)
  <2>3. cut \in Texts /\ Len(cut) = TruncationMaxValue
    BY <1>1, <2>2 DEF Texts
  <2> HIDE DEF cut
  <2>4. TruncateString(text) = [text |-> cut, truncated |-> TRUE]
    BY <2>1 DEF cut
  <2>5. QED
    BY <2>3, <2>4
<1>5. QED
  BY <1>3, <1>4

(* The side a value is cut on says whether it is.                          *)
LEMMA TruncateStringIfNeededRetains ==
  ASSUME NEW text \in Texts
  PROVE  LET t == TruncateStringIfNeeded(text) IN
           /\ t.text \in Texts
           /\ t.side = TruncatedSideRight => Len(t.text) = TruncationMaxValue
           /\ t.side # TruncatedSideRight => Len(t.text) <= TruncationMaxValue
<1> DEFINE t == TruncateString(text)
<1>1. /\ t.text \in Texts
      /\ t.truncated \in BOOLEAN
      /\ t.truncated => Len(t.text) = TruncationMaxValue
      /\ ~t.truncated => Len(t.text) <= TruncationMaxValue
  BY TruncateStringRetains
<1>2. TruncateStringIfNeeded(text) =
        [text |-> t.text, side |-> IF t.truncated THEN TruncatedSideRight ELSE TruncatedSideNone]
  BY DEF TruncateStringIfNeeded
<1> HIDE DEF t
<1>3. QED
  BY <1>1, <1>2 DEF TruncatedSideRight, TruncatedSideNone

(* A value that has the text and no pattern, or the other way around.      *)
LEMMA OneTextIsRetained ==
  ASSUME NEW text \in Texts, NEW z,
         z.truncated = TruncateStringIfNeeded(text).side,
         \/ z.value = TruncateStringIfNeeded(text).text /\ z.pattern = <<>>
         \/ z.value = <<>> /\ z.pattern = TruncateStringIfNeeded(text).text
  PROVE  IsRetained(z)
<1> DEFINE t == TruncateStringIfNeeded(text)
<1>1. /\ t.text \in Texts
      /\ t.side = TruncatedSideRight => Len(t.text) = TruncationMaxValue
      /\ t.side # TruncatedSideRight => Len(t.text) <= TruncationMaxValue
  BY TruncateStringIfNeededRetains
<1> HIDE DEF t
<1>2. t.text \o <<>> = t.text /\ <<>> \o t.text = t.text
  BY <1>1 DEF Texts
<1>3. z.value \o z.pattern = t.text /\ z.truncated = t.side
  BY <1>2 DEF t
<1>4. QED
  BY <1>1, <1>3 DEF IsRetained

(* What each constructor makes of its texts is retained: of a source,      *)
LEMMA SourceIsRetained ==
  ASSUME NEW s \in SourceInputs
  PROVE  IsRetained(NewSource(s))
<1>1. s.text \in Texts
  BY DEF SourceInputs
<1> DEFINE t == TruncateStringIfNeeded(s.text)
<1>2. CASE s.redacted
  <2>1. NewSource(s) = [origin |-> s.origin, name |-> s.name, value |-> <<>>, pattern |-> t.text,
                        redacted |-> TRUE, truncated |-> t.side]
    BY <1>2 DEF NewSource, NewSourceRedactedString, WithPattern, ZeroSource
  <2>2. QED
    BY <1>1, <2>1, OneTextIsRetained
<1>3. CASE ~s.redacted
  <2>1. NewSource(s) = [origin |-> s.origin, name |-> s.name, value |-> t.text, pattern |-> <<>>,
                        redacted |-> FALSE, truncated |-> t.side]
    BY <1>3 DEF NewSource, NewSourceString, WithValue, ZeroSource
  <2>2. QED
    BY <1>1, <2>1, OneTextIsRetained
<1>4. QED
  BY <1>2, <1>3

(* of a part of a value,                                                   *)
LEMMA ValuePartIsRetained ==
  ASSUME NEW p \in PartInputs
  PROVE  IsRetained(NewValuePart(p))
<1>1. p.text \in Texts
  BY DEF PartInputs
<1> DEFINE t == TruncateStringIfNeeded(p.text)
           plain == IF p.redacted THEN NewValuePartRedactedString(p.text)
                    ELSE NewValuePartString(p.text)
           part == NewValuePart(p)
<1>2. /\ {"value", "pattern", "truncated"} \subseteq DOMAIN plain
      /\ plain.truncated = t.side
      /\ \/ plain.value = t.text /\ plain.pattern = <<>>
         \/ plain.value = <<>> /\ plain.pattern = t.text
  <2>1. CASE p.redacted
    BY <2>1 DEF NewValuePartRedactedString, WithPattern, ZeroValuePart
  <2>2. CASE ~p.redacted
    BY <2>2 DEF NewValuePartString, WithValue, ZeroValuePart
  <2>3. QED
    BY <2>1, <2>2
<1>3. part = plain \/ part = Tainted(plain, p.sourceIndex, p.secureMarks)
  BY DEF NewValuePart, NewValuePartTaintedString, NewValuePartTaintedRedactedString
<1> HIDE DEF plain, part
<1>4. part.value = plain.value /\ part.pattern = plain.pattern /\ part.truncated = plain.truncated
  BY <1>2, <1>3 DEF Tainted
<1>5. QED
  BY <1>1, <1>2, <1>4, OneTextIsRetained DEF part

(* What an evidence retains, its parts included.                           *)
EvidenceIsRetained(e) ==
  /\ IsRetained(e)
  /\ \A k \in DOMAIN e.valueParts.items : IsRetained(e.valueParts.items[k])

(* of evidence that has parts and no text of its own,                      *)
LEMMA NoTextIsRetained ==
  ASSUME NEW z, z.value = <<>>, z.pattern = <<>>, z.truncated = TruncatedSideNone
  PROVE  IsRetained(z)
<1>1. z.value \o z.pattern = <<>>
  OBVIOUS
<1>2. QED
  BY <1>1, TruncationAssumption DEF IsRetained, TruncatedSideNone, TruncatedSideRight

(* and of evidence of any kind.                                            *)
LEMMA NewEvidenceIsRetained ==
  ASSUME NEW e \in EvidenceInputs
  PROVE  EvidenceIsRetained(NewEvidenceOf(e))
<1>1. e.text \in Texts /\ e.parts \in Seq(PartInputs)
  BY DEF EvidenceInputs
<1> DEFINE t == TruncateStringIfNeeded(e.text)
<1>2. CASE e.kind = "string"
  <2>1. NewEvidenceOf(e) = [value |-> t.text, pattern |-> <<>>, redacted |-> FALSE,
                            truncated |-> t.side, valueParts |-> NilSlice]
    BY <1>2 DEF NewEvidenceOf, NewEvidenceString, WithValue, ZeroEvidence
  <2>2. IsRetained(NewEvidenceOf(e))
    BY <1>1, <2>1, OneTextIsRetained
  <2>3. QED
    BY <2>1, <2>2 DEF EvidenceIsRetained, NilSlice
<1>3. CASE e.kind # "string" /\ e.kind = "redacted"
  <2>1. NewEvidenceOf(e) = [value |-> <<>>, pattern |-> t.text, redacted |-> TRUE,
                            truncated |-> t.side, valueParts |-> NilSlice]
    BY <1>3 DEF NewEvidenceOf, NewEvidenceRedactedString, WithPattern, ZeroEvidence
  <2>2. IsRetained(NewEvidenceOf(e))
    BY <1>1, <2>1, OneTextIsRetained
  <2>3. QED
    BY <2>1, <2>2 DEF EvidenceIsRetained, NilSlice
<1>4. CASE e.kind # "string" /\ e.kind # "redacted" /\ e.kind = "tainted"
  <2> DEFINE parts == [k \in DOMAIN e.parts |-> NewValuePart(e.parts[k])]
  <2>1. NewEvidenceOf(e) = [value |-> <<>>, pattern |-> <<>>, redacted |-> FALSE,
                            truncated |-> TruncatedSideNone,
                            valueParts |-> [made |-> TRUE, items |-> parts]]
    BY <1>4 DEF NewEvidenceOf, NewEvidenceTaintedValue, ZeroEvidence, SliceOf
  <2>2. IsRetained(NewEvidenceOf(e))
    BY <2>1, NoTextIsRetained
  <2>3. \A k \in DOMAIN parts : IsRetained(parts[k])
    BY <1>1, ValuePartIsRetained
  <2> HIDE DEF parts
  <2>4. QED
    BY <2>1, <2>2, <2>3 DEF EvidenceIsRetained
<1>5. CASE e.kind # "string" /\ e.kind # "redacted" /\ e.kind # "tainted"
  <2>1. NewEvidenceOf(e) = ZeroEvidence
    BY <1>5 DEF NewEvidenceOf, NewEvidenceEmpty
  <2>2. IsRetained(NewEvidenceOf(e))
    BY <2>1, NoTextIsRetained DEF ZeroEvidence
  <2>3. QED
    BY <2>1, <2>2 DEF EvidenceIsRetained, ZeroEvidence, NilSlice
<1>6. QED
  BY <1>2, <1>3, <1>4, <1>5

-----------------------------------------------------------------------------
(* The event                                                               *)

IsSlice(slice, S) ==
  /\ slice = [made |-> slice.made, items |-> slice.items]
  /\ slice.items \in Seq(S)

Retained(e) ==
  /\ \A i \in DOMAIN e.sources.items : IsRetained(e.sources.items[i])
  /\ \A i \in DOMAIN e.vulnerabilities.items :
       \A j \in DOMAIN e.vulnerabilities.items[i].evidence :
         EvidenceIsRetained(e.vulnerabilities.items[i].evidence[j])

(* Values of what a constructor made; the event is the two slices of them. *)
EventOK(e) ==
  /\ e = [sources |-> e.sources, vulnerabilities |-> e.vulnerabilities]
  /\ IsSlice(e.sources, Range(e.sources.items))
  /\ IsSlice(e.vulnerabilities, Range(e.vulnerabilities.items))
  /\ Retained(e)

EventInv == EventOK(event)

(* An element of a slice with one more is one of before or the new one.    *)
LEMMA AppendedSlice ==
  ASSUME NEW items, items \in Seq(Range(items)), NEW v
  PROVE  /\ Append(items, v) \in Seq(Range(Append(items, v)))
         /\ \A i \in DOMAIN Append(items, v) :
              \/ i \in DOMAIN items /\ Append(items, v)[i] = items[i]
              \/ Append(items, v)[i] = v
<1> DEFINE S == Range(items) \union {v}
<1>1. items \in Seq(S) /\ v \in S
  BY DEF Range
<1> HIDE DEF S
<1>2. /\ Append(items, v) \in Seq(S)
      /\ Append(items, v) \in [1..(Len(items) + 1) -> S]
      /\ DOMAIN Append(items, v) = 1..(Len(items) + 1) /\ DOMAIN items = 1..Len(items) /\
           Len(items) \in Nat
      /\ \A i \in 1..Len(items) : Append(items, v)[i] = items[i]
      /\ Append(items, v)[Len(items) + 1] = v
  <2>1. Append(items, v) \in Seq(S) /\ Len(Append(items, v)) = Len(items) + 1
    BY <1>1, AppendProperties
  <2>2. \A i \in 1..Len(items) : Append(items, v)[i] = items[i]
    BY <1>1, AppendProperties
  <2>3. Append(items, v)[Len(items) + 1] = v
    BY <1>1, AppendProperties
  <2>4. DOMAIN items = 1..Len(items) /\ Len(items) \in Nat
    BY <1>1
  <2> DEFINE a == Append(items, v)
  <2> HIDE DEF a
  <2>5. DOMAIN a = 1..Len(a) /\ a \in [1..Len(a) -> S]
    <3>1. a \in Seq(S)
      BY <2>1 DEF a
    <3>2. QED
      BY <3>1, LenProperties
  <2>6. QED
    BY <2>1, <2>2, <2>3, <2>4, <2>5 DEF a
<1>3. Append(items, v) \in Seq(Range(Append(items, v)))
  <2> DEFINE a == Append(items, v)
             n == Len(items) + 1
  <2>1. a \in [1..n -> S] /\ n \in Nat
    BY <1>2
  <2> HIDE DEF a, n
  <2>2. a \in [1..n -> Range(a)]
    BY <2>1 DEF Range
  <2>3. a \in Seq(Range(a))
    BY <2>1, <2>2, SeqDef
  <2>4. QED
    BY <2>3 DEF a
<1>4. QED
  BY <1>2, <1>3

(* The empty event has no text that is too long.                           *)
LEMMA NewEventOK == EventOK(NewEvent)
<1>1. NewEvent = [sources |-> [made |-> FALSE, items |-> <<>>],
                  vulnerabilities |-> [made |-> TRUE, items |-> <<>>]]
  <2>1. NewEvent = [sources |-> NilSlice, vulnerabilities |-> SliceOf(<<>>)]
    <3>1. [ZeroEvent EXCEPT !.vulnerabilities = SliceOf(<<>>)]
            = [sources |-> NilSlice, vulnerabilities |-> SliceOf(<<>>)]
      BY DEF ZeroEvent
    <3>2. QED
      BY <3>1 DEF NewEvent
  <2>2. QED
    BY <2>1 DEF NilSlice, SliceOf
<1>2. <<>> \in Seq(Range(<<>>)) /\ DOMAIN <<>> = {}
  BY EmptySeq
<1>3. QED
  BY <1>1, <1>2 DEF EventOK, IsSlice, Retained

(* Adding a source keeps every text of the event retained,                 *)
LEMMA AddSourceInv ==
  ASSUME EventInv, AddSource
  PROVE  EventInv'
<1>1. PICK s \in Sources :
        event' = [event EXCEPT !.sources = SliceOf(Append(@.items, NewSource(s)))]
  BY DEF AddSource
<1> DEFINE items == Append(event.sources.items, NewSource(s))
<1>2. event' = [sources |-> [made |-> TRUE, items |-> items],
                vulnerabilities |-> event.vulnerabilities]
  BY <1>1 DEF EventInv, EventOK, SliceOf
<1>3. /\ items \in Seq(Range(items))
      /\ \A i \in DOMAIN items :
           \/ i \in DOMAIN event.sources.items /\ items[i] = event.sources.items[i]
           \/ items[i] = NewSource(s)
  BY AppendedSlice DEF EventInv, EventOK, IsSlice
<1>4. IsRetained(NewSource(s))
  BY InputsAssumption, SourceIsRetained
<1> HIDE DEF items
<1>5. \A i \in DOMAIN items : IsRetained(items[i])
  BY <1>3, <1>4 DEF EventInv, EventOK, Retained
<1>6. QED
  BY <1>2, <1>3, <1>5 DEF EventInv, EventOK, IsSlice, Retained

(* and so does adding a vulnerability.                                     *)
LEMMA AddVulnerabilityInv ==
  ASSUME EventInv, AddVulnerability
  PROVE  EventInv'
<1>1. PICK f \in Findings :
        event' = [event EXCEPT !.vulnerabilities.items =
                    Append(@, NewVulnerability(f.type, NewEvidence(f.evidence), f.location))]
  BY DEF AddVulnerability
<1> DEFINE v == NewVulnerability(f.type, NewEvidence(f.evidence), f.location)
           items == Append(event.vulnerabilities.items, v)
<1>2. event' = [sources |-> event.sources,
                vulnerabilities |-> [made |-> event.vulnerabilities.made, items |-> items]]
  BY <1>1 DEF EventInv, EventOK, IsSlice
<1>3. /\ items \in Seq(Range(items))
      /\ \A i \in DOMAIN items :
           \/ i \in DOMAIN event.vulnerabilities.items /\ items[i] = event.vulnerabilities.items[i]
           \/ items[i] = v
  <2> HIDE DEF v
  <2>1. QED
    BY AppendedSlice DEF EventInv, EventOK, IsSlice
<1>4. \A j \in DOMAIN v.evidence : EvidenceIsRetained(v.evidence[j])
  <2>1. f.evidence \in Seq(EvidenceInputs)
    BY InputsAssumption
  <2>2. v.evidence = [j \in DOMAIN f.evidence |-> NewEvidenceOf(f.evidence[j])]
    BY DEF NewVulnerability, NewEvidence
  <2>3. QED
    BY <2>1, <2>2, NewEvidenceIsRetained
<1> HIDE DEF items, v
<1>5. \A i \in DOMAIN items : \A j \in DOMAIN items[i].evidence : EvidenceIsRetained(items[i].evidence[j])
  BY <1>3, <1>4 DEF EventInv, EventOK, Retained
<1>6. QED
  BY <1>2, <1>3, <1>5 DEF EventInv, EventOK, IsSlice, Retained

(* EventInv holds, and it is kept by every step: a constructor's value     *)
(* enters the event as it is, and nothing else does.                       *)
THEOREM EventCorrect == Spec => []EventInv
<1>1. Init => EventInv
  BY NewEventOK DEF Init, EventInv
<1>2. EventInv /\ [Next]_vars => EventInv'
  <2>1. SUFFICES ASSUME EventInv, [Next]_vars PROVE EventInv'
    OBVIOUS
  <2>2. CASE AddSource
    BY <2>1, <2>2, AddSourceInv
  <2>3. CASE AddVulnerability
    BY <2>1, <2>3, AddVulnerabilityInv
  <2>4. CASE Send
    BY <2>4, NewEventOK DEF Send, EventInv
  <2>5. CASE Receive
    BY <2>1, <2>5 DEF Receive, EventInv
  <2>6. CASE UNCHANGED vars
    BY <2>1, <2>6 DEF vars, EventInv
  <2>7. QED
    BY <2>1, <2>2, <2>3, <2>4, <2>5, <2>6 DEF Next
<1>3. QED
  BY <1>1, <1>2, PTL DEF Spec

(* No value or pattern an event retains is longer than the configured      *)
(* limit, and a truncated one is exactly as long (truncation.go:13-26).    *)
THEOREM RetainedTextBounded == Spec => []RetainedText
<1>1. EventInv => RetainedText
  BY DEF EventInv, EventOK, Retained, EvidenceIsRetained, RetainedText
<1>2. QED
  BY <1>1, EventCorrect, PTL

-----------------------------------------------------------------------------
(* Messages that are cut short                                             *)

(* p is m without its last tokens, one or more.                            *)
IsCutOf(p, m) == IsSequence(p) /\ \E c : IsSequence(c) /\ c # <<>> /\ m = p \o c

-----------------------------------------------------------------------------
(* Tokens and enumerations                                                 *)

(* Nothing is left of a token, and nothing is read from that.              *)
LEMMA TokenCut ==
  ASSUME NEW kind, NEW v, NEW p, IsCutOf(p, Token(kind, v))
  PROVE  p = <<>>
<1>1. \A s : SourceReader!IsSequence(s) = IsSequence(s)
  BY Zenon, SourceTerms
<1>2. SourceReader!IsCutOf(p, SourceReader!Token(kind, v))
  BY Zenon, <1>1, SourceTerms DEF IsCutOf, SourceReader!IsCutOf
<1>3. QED
  BY <1>2, SourceReader!CutOfToken

(* No reader of a single token reads an empty payload.                     *)
LEMMA NothingToUnmarshal ==
  /\ \A kind : Read(kind, <<>>) = Failure
  /\ \A z : UnmarshalOrigin(z, <<>>) = Failure
  /\ \A z : UnmarshalTruncatedSide(z, <<>>) = Failure
  /\ \A z : UnmarshalVulnerabilityType(z, <<>>) = Failure
<1>1. \A kind : Read(kind, <<>>) = Failure
  BY Zenon DEF Read
<1>2. ~Failure.ok
  BY DEF Failure
<1>3. \A z : UnmarshalOrigin(z, <<>>) = Failure
  BY Zenon, <1>1, <1>2 DEF UnmarshalOrigin, UnmarshalShim
<1>4. \A z : UnmarshalTruncatedSide(z, <<>>) = Failure
  BY Zenon, <1>1, <1>2 DEF UnmarshalTruncatedSide, UnmarshalShim
<1>5. \A z : UnmarshalVulnerabilityType(z, <<>>) = Failure
  BY Zenon, <1>1, <1>2 DEF UnmarshalVulnerabilityType, UnmarshalShim
<1>6. QED
  BY Zenon, <1>1, <1>3, <1>4, <1>5

(* A field that cannot be read fails the whole map.                        *)
LEMMA FailureIsKept ==
  ASSUME NEW z, NEW g
  PROVE  SetField(z, g, Failure) = Failure
<1>1. ~Failure.ok
  BY DEF Failure
<1>2. QED
  BY Zenon, <1>1 DEF SetField

(* A type of vulnerabilities cut is rejected.                              *)
LEMMA VulnerabilityTypeCut ==
  ASSUME NEW z, NEW p, IsCutOf(p, MarshalVulnerabilityType(z))
  PROVE  UnmarshalVulnerabilityType(0, p) = Failure
<1>1. p = <<>>
  BY TokenCut DEF MarshalVulnerabilityType
<1>2. QED
  BY Zenon, <1>1, NothingToUnmarshal

-----------------------------------------------------------------------------
(* Source                                                                   *)

LEMMA SourceCutTerms ==
  /\ \A p, m : SourceReader!IsCutOf(p, m) = IsCutOf(p, m)
  /\ SourceReader!Failure = Failure
<1>1. \A s : SourceReader!IsSequence(s) = IsSequence(s)
  BY Zenon, SourceTerms
<1>2. \A p, m : SourceReader!IsCutOf(p, m) = IsCutOf(p, m)
  BY Zenon, <1>1 DEF IsCutOf, SourceReader!IsCutOf
<1>3. SourceReader!Failure = Failure
  BY Zenon DEF Failure, SourceReader!Failure
<1>4. QED
  BY Zenon, <1>2, <1>3

(* A field that is one token is not read from nothing.                     *)
LEMMA SourceTokenCut ==
  ASSUME NEW key, NEW omitted, NEW kind, NEW s, NEW g, NEW zero,
         \A y : UnmarshalSourceField(y, key, <<>>) = Failure
  PROVE  SourceReader!IsCutRejected(Field(key, omitted, Token(kind, s)), g, zero)
<1>1. \A y : UnmarshalSourceField(y, key, <<>>) = SourceReader!Failure
  BY Zenon, SourceCutTerms
<1>2. SourceReader!IsCutRejected(SourceReader!Field(key, omitted, SourceReader!Token(kind, s)),
        g, zero)
  BY SMTT(30), <1>1, SourceReader!TokenCutRejected
<1>3. QED
  BY Zenon, <1>2, SourceTerms

(* No message that is cut short is read.                                   *)
LEMMA SourceCut ==
  ASSUME NEW z, IsSource(z), NEW p, IsCutOf(p, MarshalSource(z))
  PROVE  UnmarshalSource(ZeroSource, p) = Failure
<1>1. PICK t : t = z
  BY Zenon
<1>2. SourceReader!AreWritten(SourceFields(z), 6, SourceAttr, ZeroSource, t)
  BY <1>1, SourceIsWritten
<1>3. SourceReader!IsCutRejected(SourceFields(z)[1], "origin", ZeroSource)
  <2>1. ASSUME NEW y PROVE UnmarshalSourceField(y, "origin", <<>>) = Failure
    <3>1. UnmarshalSourceField(y, "origin", <<>>) =
            SetField(y, "origin", UnmarshalOrigin(y.origin, <<>>))
      BY Zenon, SourceFieldRead
    <3>2. UnmarshalOrigin(y.origin, <<>>) = Failure
      BY Zenon, NothingToUnmarshal
    <3>3. QED
      BY Zenon, <3>1, <3>2, FailureIsKept
  <2>2. SourceReader!IsCutRejected(Field("origin", FALSE,
          Token("name", OriginString(z.origin))), "origin", ZeroSource)
    BY <2>1, SourceTokenCut
  <2>3. QED
    BY <2>2 DEF SourceFields
<1>4. SourceReader!IsCutRejected(SourceFields(z)[2], "name", ZeroSource)
  <2>1. ASSUME NEW y PROVE UnmarshalSourceField(y, "name", <<>>) = Failure
    <3>1. UnmarshalSourceField(y, "name", <<>>) = SetField(y, "name", Read("str", <<>>))
      BY Zenon, SourceFieldRead
    <3>2. Read("str", <<>>) = Failure
      BY Zenon, NothingToUnmarshal
    <3>3. QED
      BY Zenon, <3>1, <3>2, FailureIsKept
  <2>2. SourceReader!IsCutRejected(Field("name", z.name = <<>>, Token("str", z.name)), "name",
          ZeroSource)
    BY <2>1, SourceTokenCut
  <2>3. QED
    BY <2>2 DEF SourceFields
<1>5. SourceReader!IsCutRejected(SourceFields(z)[3], "value", ZeroSource)
  <2>1. ASSUME NEW y PROVE UnmarshalSourceField(y, "value", <<>>) = Failure
    <3>1. UnmarshalSourceField(y, "value", <<>>) = SetField(y, "value", Read("str", <<>>))
      BY Zenon, SourceFieldRead
    <3>2. Read("str", <<>>) = Failure
      BY Zenon, NothingToUnmarshal
    <3>3. QED
      BY Zenon, <3>1, <3>2, FailureIsKept
  <2>2. SourceReader!IsCutRejected(Field("value", z.value = <<>>, Token("str", z.value)),
          "value", ZeroSource)
    BY <2>1, SourceTokenCut
  <2>3. QED
    BY <2>2 DEF SourceFields
<1>6. SourceReader!IsCutRejected(SourceFields(z)[4], "pattern", ZeroSource)
  <2>1. ASSUME NEW y PROVE UnmarshalSourceField(y, "pattern", <<>>) = Failure
    <3>1. UnmarshalSourceField(y, "pattern", <<>>) = SetField(y, "pattern", Read("str", <<>>))
      BY Zenon, SourceFieldRead
    <3>2. Read("str", <<>>) = Failure
      BY Zenon, NothingToUnmarshal
    <3>3. QED
      BY Zenon, <3>1, <3>2, FailureIsKept
  <2>2. SourceReader!IsCutRejected(Field("pattern", z.pattern = <<>>, Token("str", z.pattern)),
          "pattern", ZeroSource)
    BY <2>1, SourceTokenCut
  <2>3. QED
    BY <2>2 DEF SourceFields
<1>7. SourceReader!IsCutRejected(SourceFields(z)[5], "redacted", ZeroSource)
  <2>1. ASSUME NEW y PROVE UnmarshalSourceField(y, "redacted", <<>>) = Failure
    <3>1. UnmarshalSourceField(y, "redacted", <<>>) = SetField(y, "redacted", Read("bool", <<>>))
      BY Zenon, SourceFieldRead
    <3>2. Read("bool", <<>>) = Failure
      BY Zenon, NothingToUnmarshal
    <3>3. QED
      BY Zenon, <3>1, <3>2, FailureIsKept
  <2>2. SourceReader!IsCutRejected(Field("redacted", ~z.redacted, Token("bool", z.redacted)),
          "redacted", ZeroSource)
    BY <2>1, SourceTokenCut
  <2>3. QED
    BY <2>2 DEF SourceFields
<1>8. SourceReader!IsCutRejected(SourceFields(z)[6], "truncated", ZeroSource)
  <2>1. ASSUME NEW y PROVE UnmarshalSourceField(y, "truncated", <<>>) = Failure
    <3>1. UnmarshalSourceField(y, "truncated", <<>>) =
            SetField(y, "truncated", UnmarshalTruncatedSide(y.truncated, <<>>))
      BY Zenon, SourceFieldRead
    <3>2. UnmarshalTruncatedSide(y.truncated, <<>>) = Failure
      BY Zenon, NothingToUnmarshal
    <3>3. QED
      BY Zenon, <3>1, <3>2, FailureIsKept
  <2>2. SourceReader!IsCutRejected(Field("truncated", z.truncated = TruncatedSideNone,
          Token("name", TruncatedSideString(z.truncated))), "truncated", ZeroSource)
    BY <2>1, SourceTokenCut
  <2>3. QED
    BY <2>2 DEF SourceFields
<1>9. \A i \in 1..6 : SourceReader!IsCutRejected(SourceFields(z)[i], SourceAttr[i], ZeroSource)
  BY <1>3, <1>4, <1>5, <1>6, <1>7, <1>8 DEF SourceAttr
<1>10. SourceReader!IsCutOf(p, SourceReader!AppendMap(SourceFields(z)))
  BY Zenon, SourceCutTerms, SourceTerms, MarshalledSource
<1>11. SourceReader!ReadMap(ZeroSource, p, UnmarshalSourceField) = SourceReader!Failure
  BY <1>2, <1>9, <1>10, SourceReader!WrittenMapCutRejected
<1>12. QED
  BY Zenon, <1>11, SourceTerms, SourceCutTerms

(* An array of sources cut anywhere is rejected.                           *)
LEMMA SourcesCut ==
  ASSUME NEW slice, AreSources(slice.items), NEW p, IsCutOf(p, AppendArray(slice, MarshalSource))
  PROVE  ReadArray(NilSlice, p, ZeroSource, UnmarshalSource) = Failure
<1>1. PICK elements : elements = [i \in DOMAIN slice.items |-> MarshalSource(slice.items[i])]
  BY Zenon
<1>2. PICK values : values = [i \in DOMAIN slice.items |-> slice.items[i]]
  BY Zenon
<1>3. PICK n \in Nat : n = Len(slice.items)
  BY SequenceDomain DEF AreSources
<1>4. SourceReader!AreWrittenElements(elements, values, ZeroSource, n)
  BY <1>1, <1>2, <1>3, SourcesAreWritten
<1>5. SourceReader!AreCutRejected(elements, ZeroSource, n)
  <2>1. DOMAIN slice.items = 1..n
    BY <1>3, SequenceDomain DEF AreSources
  <2>2. ASSUME NEW i \in 1..n, NEW q, IsCutOf(q, elements[i])
        PROVE  UnmarshalSource(ZeroSource, q) = Failure
    <3>1. PICK x : x = slice.items[i]
      BY Zenon
    <3>2. IsSource(x)
      BY Zenon, <2>1, <3>1 DEF AreSources
    <3>3. IsCutOf(q, MarshalSource(x))
      BY Zenon, <1>1, <2>1, <2>2, <3>1
    <3>4. QED
      BY <3>2, <3>3, SourceCut
  <2>3. QED
    BY Zenon, <2>2, SourceCutTerms DEF SourceReader!AreCutRejected
<1>6. SourceReader!IsCutOf(p, SourceReader!ArrayMessage(elements, n))
  BY Zenon, <1>1, <1>3, SourcesTerms, SourceCutTerms DEF AppendArray
<1>7. SourceReader!ReadArray(SourceReader!NilSlice, p, ZeroSource, UnmarshalSource) =
        SourceReader!Failure
  BY <1>3, <1>4, <1>5, <1>6, SourceReader!WrittenArrayCutRejected
<1>8. QED
  BY Zenon, <1>7, SourcesTerms, SourceCutTerms

-----------------------------------------------------------------------------
(* Location                                                                 *)

LEMMA LocationCutTerms ==
  /\ \A p, m : LocationReader!IsCutOf(p, m) = IsCutOf(p, m)
  /\ LocationReader!Failure = Failure
<1>1. \A s : LocationReader!IsSequence(s) = IsSequence(s)
  BY Zenon, LocationTerms
<1>2. \A p, m : LocationReader!IsCutOf(p, m) = IsCutOf(p, m)
  BY Zenon, <1>1 DEF IsCutOf, LocationReader!IsCutOf
<1>3. LocationReader!Failure = Failure
  BY Zenon DEF Failure, LocationReader!Failure
<1>4. QED
  BY Zenon, <1>2, <1>3

(* A field that is one token is not read from nothing.                     *)
LEMMA LocationTokenCut ==
  ASSUME NEW key, NEW omitted, NEW kind, NEW s, NEW g, NEW zero,
         \A y : UnmarshalLocationField(y, key, <<>>) = Failure
  PROVE  LocationReader!IsCutRejected(Field(key, omitted, Token(kind, s)), g, zero)
<1>1. \A y : UnmarshalLocationField(y, key, <<>>) = LocationReader!Failure
  BY Zenon, LocationCutTerms
<1>2. LocationReader!IsCutRejected(LocationReader!Field(key, omitted,
        LocationReader!Token(kind, s)), g, zero)
  BY SMTT(30), <1>1, LocationReader!TokenCutRejected
<1>3. QED
  BY Zenon, <1>2, LocationTerms

(* No message that is cut short is read.                                   *)
LEMMA LocationCut ==
  ASSUME NEW z, IsLocation(z), NEW p, IsCutOf(p, MarshalLocation(z))
  PROVE  UnmarshalLocation(ZeroLocation, p) = Failure
<1>1. PICK t : t = z
  BY Zenon
<1>2. LocationReader!AreWritten(LocationFields(z), 6, LocationAttr, ZeroLocation, t)
  BY <1>1, LocationIsWritten
<1>3. LocationReader!IsCutRejected(LocationFields(z)[1], "spanId", ZeroLocation)
  <2>1. ASSUME NEW y PROVE UnmarshalLocationField(y, "spanId", <<>>) = Failure
    <3>1. UnmarshalLocationField(y, "spanId", <<>>) = SetField(y, "spanId", Read("uint", <<>>))
      BY Zenon, LocationFieldRead
    <3>2. Read("uint", <<>>) = Failure
      BY Zenon, NothingToUnmarshal
    <3>3. QED
      BY Zenon, <3>1, <3>2, FailureIsKept
  <2>2. LocationReader!IsCutRejected(Field("spanId", FALSE, Token("uint", z.spanId)), "spanId",
          ZeroLocation)
    BY <2>1, LocationTokenCut
  <2>3. QED
    BY <2>2 DEF LocationFields
<1>4. LocationReader!IsCutRejected(LocationFields(z)[2], "path", ZeroLocation)
  <2>1. ASSUME NEW y PROVE UnmarshalLocationField(y, "path", <<>>) = Failure
    <3>1. UnmarshalLocationField(y, "path", <<>>) = SetField(y, "path", Read("str", <<>>))
      BY Zenon, LocationFieldRead
    <3>2. Read("str", <<>>) = Failure
      BY Zenon, NothingToUnmarshal
    <3>3. QED
      BY Zenon, <3>1, <3>2, FailureIsKept
  <2>2. LocationReader!IsCutRejected(Field("path", z.path = <<>>, Token("str", z.path)),
          "path", ZeroLocation)
    BY <2>1, LocationTokenCut
  <2>3. QED
    BY <2>2 DEF LocationFields
<1>5. LocationReader!IsCutRejected(LocationFields(z)[3], "class", ZeroLocation)
  <2>1. ASSUME NEW y PROVE UnmarshalLocationField(y, "class", <<>>) = Failure
    <3>1. UnmarshalLocationField(y, "class", <<>>) = SetField(y, "class", Read("str", <<>>))
      BY Zenon, LocationFieldRead
    <3>2. Read("str", <<>>) = Failure
      BY Zenon, NothingToUnmarshal
    <3>3. QED
      BY Zenon, <3>1, <3>2, FailureIsKept
  <2>2. LocationReader!IsCutRejected(Field("class", z.class = <<>>, Token("str", z.class)),
          "class", ZeroLocation)
    BY <2>1, LocationTokenCut
  <2>3. QED
    BY <2>2 DEF LocationFields
<1>6. LocationReader!IsCutRejected(LocationFields(z)[4], "line", ZeroLocation)
  <2>1. ASSUME NEW y PROVE UnmarshalLocationField(y, "line", <<>>) = Failure
    <3>1. UnmarshalLocationField(y, "line", <<>>) = SetField(y, "line", Read("uint", <<>>))
      BY Zenon, LocationFieldRead
    <3>2. Read("uint", <<>>) = Failure
      BY Zenon, NothingToUnmarshal
    <3>3. QED
      BY Zenon, <3>1, <3>2, FailureIsKept
  <2>2. LocationReader!IsCutRejected(Field("line", z.line = 0, Token("uint", z.line)), "line",
          ZeroLocation)
    BY <2>1, LocationTokenCut
  <2>3. QED
    BY <2>2 DEF LocationFields
<1>7. LocationReader!IsCutRejected(LocationFields(z)[5], "method", ZeroLocation)
  <2>1. ASSUME NEW y PROVE UnmarshalLocationField(y, "method", <<>>) = Failure
    <3>1. UnmarshalLocationField(y, "method", <<>>) = SetField(y, "method", Read("str", <<>>))
      BY Zenon, LocationFieldRead
    <3>2. Read("str", <<>>) = Failure
      BY Zenon, NothingToUnmarshal
    <3>3. QED
      BY Zenon, <3>1, <3>2, FailureIsKept
  <2>2. LocationReader!IsCutRejected(Field("method", z.method = <<>>, Token("str", z.method)),
          "method", ZeroLocation)
    BY <2>1, LocationTokenCut
  <2>3. QED
    BY <2>2 DEF LocationFields
<1>8. LocationReader!IsCutRejected(LocationFields(z)[6], "stackId", ZeroLocation)
  <2>1. ASSUME NEW y PROVE UnmarshalLocationField(y, "stackId", <<>>) = Failure
    <3>1. UnmarshalLocationField(y, "stackId", <<>>) = SetField(y, "stackId", Read("str", <<>>))
      BY Zenon, LocationFieldRead
    <3>2. Read("str", <<>>) = Failure
      BY Zenon, NothingToUnmarshal
    <3>3. QED
      BY Zenon, <3>1, <3>2, FailureIsKept
  <2>2. LocationReader!IsCutRejected(Field("stackId", z.stackId = <<>>,
          Token("str", z.stackId)), "stackId", ZeroLocation)
    BY <2>1, LocationTokenCut
  <2>3. QED
    BY <2>2 DEF LocationFields
<1>9. \A i \in 1..6 : LocationReader!IsCutRejected(LocationFields(z)[i], LocationAttr[i],
        ZeroLocation)
  BY <1>3, <1>4, <1>5, <1>6, <1>7, <1>8 DEF LocationAttr
<1>10. LocationReader!IsCutOf(p, LocationReader!AppendMap(LocationFields(z)))
  BY Zenon, LocationCutTerms, LocationTerms, MarshalledLocation
<1>11. LocationReader!ReadMap(ZeroLocation, p, UnmarshalLocationField) = LocationReader!Failure
  BY <1>2, <1>9, <1>10, LocationReader!WrittenMapCutRejected
<1>12. QED
  BY Zenon, <1>11, LocationTerms, LocationCutTerms

-----------------------------------------------------------------------------
(* The marks of a part                                                     *)

LEMMA EventCutTerms ==
  /\ \A p, m : EventReader!IsCutOf(p, m) = IsCutOf(p, m)
  /\ EventReader!Failure = Failure
<1>1. \A s : EventReader!IsSequence(s) = IsSequence(s)
  BY Zenon, EventTerms
<1>2. \A p, m : EventReader!IsCutOf(p, m) = IsCutOf(p, m)
  BY Zenon, <1>1 DEF IsCutOf, EventReader!IsCutOf
<1>3. EventReader!Failure = Failure
  BY Zenon DEF Failure, EventReader!Failure
<1>4. QED
  BY Zenon, <1>2, <1>3

(* An array of secure marks cut anywhere is rejected.                      *)
LEMMA MarksCut ==
  ASSUME NEW slice, AreMarks(slice.items), NEW p,
           IsCutOf(p, AppendArray(slice, MarshalVulnerabilityType))
  PROVE  ReadArray(NilSlice, p, 0, UnmarshalVulnerabilityType) = Failure
<1>1. PICK elements : elements =
             [i \in DOMAIN slice.items |-> MarshalVulnerabilityType(slice.items[i])]
  BY Zenon
<1>2. PICK values : values = [i \in DOMAIN slice.items |-> slice.items[i]]
  BY Zenon
<1>3. PICK n \in Nat : n = Len(slice.items)
  BY SequenceDomain DEF AreMarks
<1>4. EventReader!AreWrittenElements(elements, values, 0, n)
  BY <1>1, <1>2, <1>3, MarksAreWritten
<1>5. EventReader!AreCutRejected(elements, 0, n)
  <2>1. DOMAIN slice.items = 1..n
    BY <1>3, SequenceDomain DEF AreMarks
  <2>2. ASSUME NEW i \in 1..n, NEW q, IsCutOf(q, elements[i])
        PROVE  UnmarshalVulnerabilityType(0, q) = Failure
    <3>1. PICK x : x = slice.items[i]
      BY Zenon
    <3>2. x \in TypeConstants
      BY Zenon, <2>1, <3>1 DEF AreMarks
    <3>3. IsCutOf(q, MarshalVulnerabilityType(x))
      BY Zenon, <1>1, <2>1, <2>2, <3>1
    <3>4. QED
      BY <3>2, <3>3, VulnerabilityTypeCut
  <2>3. QED
    BY Zenon, <2>2, EventCutTerms DEF EventReader!AreCutRejected
<1>6. EventReader!IsCutOf(p, EventReader!ArrayMessage(elements, n))
  BY Zenon, <1>1, <1>3, MarksTerms, EventCutTerms DEF AppendArray
<1>7. EventReader!ReadArray(EventReader!NilSlice, p, 0, UnmarshalVulnerabilityType) =
        EventReader!Failure
  BY <1>3, <1>4, <1>5, <1>6, EventReader!WrittenArrayCutRejected
<1>8. QED
  BY Zenon, <1>7, MarksTerms, EventCutTerms

-----------------------------------------------------------------------------
(* ValuePart                                                                *)

LEMMA ValuePartCutTerms ==
  /\ \A p, m : ValuePartReader!IsCutOf(p, m) = IsCutOf(p, m)
  /\ ValuePartReader!Failure = Failure
<1>1. \A s : ValuePartReader!IsSequence(s) = IsSequence(s)
  BY Zenon, ValuePartTerms
<1>2. \A p, m : ValuePartReader!IsCutOf(p, m) = IsCutOf(p, m)
  BY Zenon, <1>1 DEF IsCutOf, ValuePartReader!IsCutOf
<1>3. ValuePartReader!Failure = Failure
  BY Zenon DEF Failure, ValuePartReader!Failure
<1>4. QED
  BY Zenon, <1>2, <1>3

(* A field that is one token is not read from nothing.                     *)
LEMMA ValuePartTokenCut ==
  ASSUME NEW key, NEW omitted, NEW kind, NEW s, NEW g, NEW zero,
         \A y : UnmarshalValuePartField(y, key, <<>>) = Failure
  PROVE  ValuePartReader!IsCutRejected(Field(key, omitted, Token(kind, s)), g, zero)
<1>1. \A y : UnmarshalValuePartField(y, key, <<>>) = ValuePartReader!Failure
  BY Zenon, ValuePartCutTerms
<1>2. ValuePartReader!IsCutRejected(ValuePartReader!Field(key, omitted,
        ValuePartReader!Token(kind, s)), g, zero)
  BY SMTT(30), <1>1, ValuePartReader!TokenCutRejected
<1>3. QED
  BY Zenon, <1>2, ValuePartTerms

(* A field that is several is not read from some of them.                  *)
LEMMA ValuePartValueCut ==
  ASSUME NEW key, NEW omitted, NEW value, NEW g, NEW zero,
         omitted \/ \A y, p : y[g] = zero[g] /\ IsCutOf(p, value) =>
                      UnmarshalValuePartField(y, key, p) = Failure
  PROVE  ValuePartReader!IsCutRejected(Field(key, omitted, value), g, zero)
<1>1. omitted \/ \A y, p : y[g] = zero[g] /\ ValuePartReader!IsCutOf(p, value) =>
                    UnmarshalValuePartField(y, key, p) = ValuePartReader!Failure
  BY Zenon, ValuePartCutTerms
<1>2. ValuePartReader!IsCutRejected(ValuePartReader!Field(key, omitted, value), g, zero)
  BY SMTT(30), <1>1, ValuePartReader!ValueCutRejected
<1>3. QED
  BY Zenon, <1>2, ValuePartTerms

(* The source of a part cut is rejected by the reader of the part,         *)
LEMMA ValuePartSourceCut ==
  ASSUME NEW z, IsValuePart(z), NEW p, z.source # NilPointer,
         IsCutOf(p, AppendPointer(z.source, LAMBDA i : Token("int", i))),
         NEW y, y.source = ZeroValuePart.source
  PROVE  UnmarshalValuePartField(y, "source", p) = Failure
<1>1. PICK i : i = z.source[1]
  BY Zenon
<1>2. AppendPointer(z.source, LAMBDA j : Token("int", j)) = Token("int", i)
  BY Zenon, <1>1 DEF AppendPointer
<1>3. p = <<>>
  BY Zenon, <1>2, TokenCut
<1>4. y.source = NilPointer
  BY DEF ZeroValuePart
<1>5. ReadPointer(NilPointer, <<>>, 0, LAMBDA j, d : Read("int", d)) = Failure
  <2>1. ~Failure.ok
    BY DEF Failure
  <2>2. Read("int", <<>>) = Failure
    BY NothingToUnmarshal
  <2>3. QED
    BY Zenon, <2>1, <2>2 DEF ReadPointer
<1>6. UnmarshalValuePartField(y, "source", p)
        = SetField(y, "source", ReadPointer(y.source, p, 0, LAMBDA j, d : Read("int", d)))
  BY Zenon, ValuePartFieldRead
<1>7. QED
  BY Zenon, <1>3, <1>4, <1>5, <1>6, FailureIsKept

(* and so are its secure marks.                                            *)
LEMMA ValuePartSecureMarksCut ==
  ASSUME NEW z, IsValuePart(z), NEW p,
           IsCutOf(p, AppendArray(z.secureMarks, MarshalVulnerabilityType)),
         NEW y, y.secureMarks = ZeroValuePart.secureMarks
  PROVE  UnmarshalValuePartField(y, "secure_marks", p) = Failure
<1>1. PICK slice : slice = z.secureMarks
  BY Zenon
<1>2. AreMarks(slice.items)
  BY <1>1 DEF IsValuePart
<1>3. IsCutOf(p, AppendArray(slice, MarshalVulnerabilityType))
  BY Zenon, <1>1
<1>4. ReadArray(NilSlice, p, 0, UnmarshalVulnerabilityType) = Failure
  BY <1>2, <1>3, MarksCut
<1>5. y.secureMarks = NilSlice
  BY DEF ZeroValuePart
<1>6. UnmarshalValuePartField(y, "secure_marks", p)
        = SetField(y, "secureMarks", ReadArray(y.secureMarks, p, 0, UnmarshalVulnerabilityType))
  BY Zenon, ValuePartFieldRead
<1>7. QED
  BY Zenon, <1>4, <1>5, <1>6, FailureIsKept

(* No message that is cut short is read.                                   *)
LEMMA ValuePartCut ==
  ASSUME NEW z, IsValuePart(z), NEW p, IsCutOf(p, MarshalValuePart(z))
  PROVE  UnmarshalValuePart(ZeroValuePart, p) = Failure
<1>1. PICK t : IsValuePartDecoded(z, t)
  BY ValuePartDecoded
<1>2. ValuePartReader!AreWritten(ValuePartFields(z), 6, ValuePartAttr, ZeroValuePart, t)
  BY <1>1, ValuePartIsWritten
<1>3. ValuePartReader!IsCutRejected(ValuePartFields(z)[1], "value", ZeroValuePart)
  <2>1. ASSUME NEW y PROVE UnmarshalValuePartField(y, "value", <<>>) = Failure
    <3>1. UnmarshalValuePartField(y, "value", <<>>) = SetField(y, "value", Read("str", <<>>))
      BY Zenon, ValuePartFieldRead
    <3>2. Read("str", <<>>) = Failure
      BY Zenon, NothingToUnmarshal
    <3>3. QED
      BY Zenon, <3>1, <3>2, FailureIsKept
  <2>2. ValuePartReader!IsCutRejected(Field("value", z.value = <<>>, Token("str", z.value)),
          "value", ZeroValuePart)
    BY <2>1, ValuePartTokenCut
  <2>3. QED
    BY <2>2 DEF ValuePartFields
<1>4. ValuePartReader!IsCutRejected(ValuePartFields(z)[2], "pattern", ZeroValuePart)
  <2>1. ASSUME NEW y PROVE UnmarshalValuePartField(y, "pattern", <<>>) = Failure
    <3>1. UnmarshalValuePartField(y, "pattern", <<>>) = SetField(y, "pattern", Read("str", <<>>))
      BY Zenon, ValuePartFieldRead
    <3>2. Read("str", <<>>) = Failure
      BY Zenon, NothingToUnmarshal
    <3>3. QED
      BY Zenon, <3>1, <3>2, FailureIsKept
  <2>2. ValuePartReader!IsCutRejected(Field("pattern", z.pattern = <<>>,
          Token("str", z.pattern)), "pattern", ZeroValuePart)
    BY <2>1, ValuePartTokenCut
  <2>3. QED
    BY <2>2 DEF ValuePartFields
<1>5. ValuePartReader!IsCutRejected(ValuePartFields(z)[3], "redacted", ZeroValuePart)
  <2>1. ASSUME NEW y PROVE UnmarshalValuePartField(y, "redacted", <<>>) = Failure
    <3>1. UnmarshalValuePartField(y, "redacted", <<>>) = SetField(y, "redacted", Read("bool", <<>>))
      BY Zenon, ValuePartFieldRead
    <3>2. Read("bool", <<>>) = Failure
      BY Zenon, NothingToUnmarshal
    <3>3. QED
      BY Zenon, <3>1, <3>2, FailureIsKept
  <2>2. ValuePartReader!IsCutRejected(Field("redacted", ~z.redacted,
          Token("bool", z.redacted)), "redacted", ZeroValuePart)
    BY <2>1, ValuePartTokenCut
  <2>3. QED
    BY <2>2 DEF ValuePartFields
<1>6. ValuePartReader!IsCutRejected(ValuePartFields(z)[4], "truncated", ZeroValuePart)
  <2>1. ASSUME NEW y PROVE UnmarshalValuePartField(y, "truncated", <<>>) = Failure
    <3>1. UnmarshalValuePartField(y, "truncated", <<>>) =
            SetField(y, "truncated", UnmarshalTruncatedSide(y.truncated, <<>>))
      BY Zenon, ValuePartFieldRead
    <3>2. UnmarshalTruncatedSide(y.truncated, <<>>) = Failure
      BY Zenon, NothingToUnmarshal
    <3>3. QED
      BY Zenon, <3>1, <3>2, FailureIsKept
  <2>2. ValuePartReader!IsCutRejected(Field("truncated", z.truncated = TruncatedSideNone,
          Token("name", TruncatedSideString(z.truncated))), "truncated", ZeroValuePart)
    BY <2>1, ValuePartTokenCut
  <2>3. QED
    BY <2>2 DEF ValuePartFields
<1>7. ValuePartReader!IsCutRejected(ValuePartFields(z)[5], "source", ZeroValuePart)
  <2>1. z.source = NilPointer \/ \A y, q : y.source = ZeroValuePart.source /\
          IsCutOf(q, AppendPointer(z.source, LAMBDA i : Token("int", i))) =>
          UnmarshalValuePartField(y, "source", q) = Failure
    BY ValuePartSourceCut
  <2>2. ValuePartReader!IsCutRejected(Field("source", z.source = NilPointer,
          AppendPointer(z.source, LAMBDA i : Token("int", i))), "source", ZeroValuePart)
    BY <2>1, ValuePartValueCut
  <2>3. QED
    BY <2>2 DEF ValuePartFields
<1>8. ValuePartReader!IsCutRejected(ValuePartFields(z)[6], "secureMarks", ZeroValuePart)
  <2>1. \A y, q : y.secureMarks = ZeroValuePart.secureMarks /\
          IsCutOf(q, AppendArray(z.secureMarks, MarshalVulnerabilityType)) =>
          UnmarshalValuePartField(y, "secure_marks", q) = Failure
    BY ValuePartSecureMarksCut
  <2>2. ValuePartReader!IsCutRejected(Field("secure_marks", ~z.secureMarks.made,
          AppendArray(z.secureMarks, MarshalVulnerabilityType)), "secureMarks", ZeroValuePart)
    BY <2>1, ValuePartValueCut
  <2>3. QED
    BY <2>2 DEF ValuePartFields
<1>9. \A i \in 1..6 : ValuePartReader!IsCutRejected(ValuePartFields(z)[i], ValuePartAttr[i],
        ZeroValuePart)
  BY <1>3, <1>4, <1>5, <1>6, <1>7, <1>8 DEF ValuePartAttr
<1>10. ValuePartReader!IsCutOf(p, ValuePartReader!AppendMap(ValuePartFields(z)))
  BY Zenon, ValuePartCutTerms, ValuePartTerms, MarshalledValuePart
<1>11. ValuePartReader!ReadMap(ZeroValuePart, p, UnmarshalValuePartField) = ValuePartReader!Failure
  BY <1>2, <1>9, <1>10, ValuePartReader!WrittenMapCutRejected
<1>12. QED
  BY Zenon, <1>11, ValuePartTerms, ValuePartCutTerms

(* An array of parts cut anywhere is rejected.                             *)
LEMMA ValuePartsCut ==
  ASSUME NEW slice, AreValueParts(slice.items), NEW p,
           IsCutOf(p, AppendArray(slice, MarshalValuePart))
  PROVE  ReadArray(NilSlice, p, ZeroValuePart, UnmarshalValuePart) = Failure
<1>1. PICK elements : elements = [i \in DOMAIN slice.items |-> MarshalValuePart(slice.items[i])]
  BY Zenon
<1>2. PICK values : values = [i \in DOMAIN slice.items |-> DecodedPart(slice.items[i])]
  BY Zenon
<1>3. PICK n \in Nat : n = Len(slice.items)
  BY SequenceDomain DEF AreValueParts
<1>4. ValuePartReader!AreWrittenElements(elements, values, ZeroValuePart, n)
  BY <1>1, <1>2, <1>3, ValuePartsAreWritten
<1>5. ValuePartReader!AreCutRejected(elements, ZeroValuePart, n)
  <2>1. DOMAIN slice.items = 1..n
    BY <1>3, SequenceDomain DEF AreValueParts
  <2>2. ASSUME NEW i \in 1..n, NEW q, IsCutOf(q, elements[i])
        PROVE  UnmarshalValuePart(ZeroValuePart, q) = Failure
    <3>1. PICK x : x = slice.items[i]
      BY Zenon
    <3>2. IsValuePart(x)
      BY Zenon, <2>1, <3>1 DEF AreValueParts
    <3>3. IsCutOf(q, MarshalValuePart(x))
      BY Zenon, <1>1, <2>1, <2>2, <3>1
    <3>4. QED
      BY <3>2, <3>3, ValuePartCut
  <2>3. QED
    BY Zenon, <2>2, ValuePartCutTerms DEF ValuePartReader!AreCutRejected
<1>6. ValuePartReader!IsCutOf(p, ValuePartReader!ArrayMessage(elements, n))
  BY Zenon, <1>1, <1>3, ValuePartsTerms, ValuePartCutTerms DEF AppendArray
<1>7. ValuePartReader!ReadArray(ValuePartReader!NilSlice, p, ZeroValuePart,
        UnmarshalValuePart) = ValuePartReader!Failure
  BY <1>3, <1>4, <1>5, <1>6, ValuePartReader!WrittenArrayCutRejected
<1>8. QED
  BY Zenon, <1>7, ValuePartsTerms, ValuePartCutTerms

-----------------------------------------------------------------------------
(* Evidence                                                                 *)

LEMMA EvidenceCutTerms ==
  /\ \A p, m : EvidenceReader!IsCutOf(p, m) = IsCutOf(p, m)
  /\ EvidenceReader!Failure = Failure
<1>1. \A s : EvidenceReader!IsSequence(s) = IsSequence(s)
  BY Zenon, EvidenceTerms
<1>2. \A p, m : EvidenceReader!IsCutOf(p, m) = IsCutOf(p, m)
  BY Zenon, <1>1 DEF IsCutOf, EvidenceReader!IsCutOf
<1>3. EvidenceReader!Failure = Failure
  BY Zenon DEF Failure, EvidenceReader!Failure
<1>4. QED
  BY Zenon, <1>2, <1>3

(* A field that is one token is not read from nothing.                     *)
LEMMA EvidenceTokenCut ==
  ASSUME NEW key, NEW omitted, NEW kind, NEW s, NEW g, NEW zero,
         \A y : UnmarshalEvidenceField(y, key, <<>>) = Failure
  PROVE  EvidenceReader!IsCutRejected(Field(key, omitted, Token(kind, s)), g, zero)
<1>1. \A y : UnmarshalEvidenceField(y, key, <<>>) = EvidenceReader!Failure
  BY Zenon, EvidenceCutTerms
<1>2. EvidenceReader!IsCutRejected(EvidenceReader!Field(key, omitted,
        EvidenceReader!Token(kind, s)), g, zero)
  BY SMTT(30), <1>1, EvidenceReader!TokenCutRejected
<1>3. QED
  BY Zenon, <1>2, EvidenceTerms

(* A field that is several is not read from some of them.                  *)
LEMMA EvidenceValueCut ==
  ASSUME NEW key, NEW omitted, NEW value, NEW g, NEW zero,
         omitted \/ \A y, p : y[g] = zero[g] /\ IsCutOf(p, value) =>
                      UnmarshalEvidenceField(y, key, p) = Failure
  PROVE  EvidenceReader!IsCutRejected(Field(key, omitted, value), g, zero)
<1>1. omitted \/ \A y, p : y[g] = zero[g] /\ EvidenceReader!IsCutOf(p, value) =>
                    UnmarshalEvidenceField(y, key, p) = EvidenceReader!Failure
  BY Zenon, EvidenceCutTerms
<1>2. EvidenceReader!IsCutRejected(EvidenceReader!Field(key, omitted, value), g, zero)
  BY SMTT(30), <1>1, EvidenceReader!ValueCutRejected
<1>3. QED
  BY Zenon, <1>2, EvidenceTerms

(* The parts of evidence cut are rejected by the reader of the evidence.   *)
LEMMA EvidenceValuePartsCut ==
  ASSUME NEW z, IsEvidence(z), NEW p, IsCutOf(p, AppendArray(z.valueParts, MarshalValuePart)),
         NEW y, y.valueParts = ZeroEvidence.valueParts
  PROVE  UnmarshalEvidenceField(y, "valueParts", p) = Failure
<1>1. PICK slice : slice = z.valueParts
  BY Zenon
<1>2. AreValueParts(slice.items)
  BY <1>1 DEF IsEvidence
<1>3. IsCutOf(p, AppendArray(slice, MarshalValuePart))
  BY Zenon, <1>1
<1>4. ReadArray(NilSlice, p, ZeroValuePart, UnmarshalValuePart) = Failure
  BY <1>2, <1>3, ValuePartsCut
<1>5. y.valueParts = NilSlice
  BY DEF ZeroEvidence
<1>6. UnmarshalEvidenceField(y, "valueParts", p)
        = SetField(y, "valueParts", ReadArray(y.valueParts, p, ZeroValuePart, UnmarshalValuePart))
  BY Zenon, EvidenceFieldRead
<1>7. QED
  BY Zenon, <1>4, <1>5, <1>6, FailureIsKept

(* No message that is cut short is read.                                   *)
LEMMA EvidenceCut ==
  ASSUME NEW z, IsEvidence(z), NEW p, IsCutOf(p, MarshalEvidence(z))
  PROVE  UnmarshalEvidence(ZeroEvidence, p) = Failure
<1>1. PICK t : IsEvidenceDecoded(z, t)
  BY EvidenceDecoded
<1>2. EvidenceReader!AreWritten(EvidenceFields(z), 5, EvidenceAttr, ZeroEvidence, t)
  BY <1>1, EvidenceIsWritten
<1>3. EvidenceReader!IsCutRejected(EvidenceFields(z)[1], "value", ZeroEvidence)
  <2>1. ASSUME NEW y PROVE UnmarshalEvidenceField(y, "value", <<>>) = Failure
    <3>1. UnmarshalEvidenceField(y, "value", <<>>) = SetField(y, "value", Read("str", <<>>))
      BY Zenon, EvidenceFieldRead
    <3>2. Read("str", <<>>) = Failure
      BY Zenon, NothingToUnmarshal
    <3>3. QED
      BY Zenon, <3>1, <3>2, FailureIsKept
  <2>2. EvidenceReader!IsCutRejected(Field("value", z.value = <<>>, Token("str", z.value)),
          "value", ZeroEvidence)
    BY <2>1, EvidenceTokenCut
  <2>3. QED
    BY <2>2 DEF EvidenceFields
<1>4. EvidenceReader!IsCutRejected(EvidenceFields(z)[2], "pattern", ZeroEvidence)
  <2>1. ASSUME NEW y PROVE UnmarshalEvidenceField(y, "pattern", <<>>) = Failure
    <3>1. UnmarshalEvidenceField(y, "pattern", <<>>) = SetField(y, "pattern", Read("str", <<>>))
      BY Zenon, EvidenceFieldRead
    <3>2. Read("str", <<>>) = Failure
      BY Zenon, NothingToUnmarshal
    <3>3. QED
      BY Zenon, <3>1, <3>2, FailureIsKept
  <2>2. EvidenceReader!IsCutRejected(Field("pattern", z.pattern = <<>>,
          Token("str", z.pattern)), "pattern", ZeroEvidence)
    BY <2>1, EvidenceTokenCut
  <2>3. QED
    BY <2>2 DEF EvidenceFields
<1>5. EvidenceReader!IsCutRejected(EvidenceFields(z)[3], "redacted", ZeroEvidence)
  <2>1. ASSUME NEW y PROVE UnmarshalEvidenceField(y, "redacted", <<>>) = Failure
    <3>1. UnmarshalEvidenceField(y, "redacted", <<>>) = SetField(y, "redacted", Read("bool", <<>>))
      BY Zenon, EvidenceFieldRead
    <3>2. Read("bool", <<>>) = Failure
      BY Zenon, NothingToUnmarshal
    <3>3. QED
      BY Zenon, <3>1, <3>2, FailureIsKept
  <2>2. EvidenceReader!IsCutRejected(Field("redacted", ~z.redacted, Token("bool", z.redacted)),
          "redacted", ZeroEvidence)
    BY <2>1, EvidenceTokenCut
  <2>3. QED
    BY <2>2 DEF EvidenceFields
<1>6. EvidenceReader!IsCutRejected(EvidenceFields(z)[4], "truncated", ZeroEvidence)
  <2>1. ASSUME NEW y PROVE UnmarshalEvidenceField(y, "truncated", <<>>) = Failure
    <3>1. UnmarshalEvidenceField(y, "truncated", <<>>) =
            SetField(y, "truncated", UnmarshalTruncatedSide(y.truncated, <<>>))
      BY Zenon, EvidenceFieldRead
    <3>2. UnmarshalTruncatedSide(y.truncated, <<>>) = Failure
      BY Zenon, NothingToUnmarshal
    <3>3. QED
      BY Zenon, <3>1, <3>2, FailureIsKept
  <2>2. EvidenceReader!IsCutRejected(Field("truncated", z.truncated = TruncatedSideNone,
          Token("name", TruncatedSideString(z.truncated))), "truncated", ZeroEvidence)
    BY <2>1, EvidenceTokenCut
  <2>3. QED
    BY <2>2 DEF EvidenceFields
<1>7. EvidenceReader!IsCutRejected(EvidenceFields(z)[5], "valueParts", ZeroEvidence)
  <2>1. \A y, q : y.valueParts = ZeroEvidence.valueParts /\
          IsCutOf(q, AppendArray(z.valueParts, MarshalValuePart)) =>
          UnmarshalEvidenceField(y, "valueParts", q) = Failure
    BY EvidenceValuePartsCut
  <2>2. EvidenceReader!IsCutRejected(Field("valueParts", ~z.valueParts.made,
          AppendArray(z.valueParts, MarshalValuePart)), "valueParts", ZeroEvidence)
    BY <2>1, EvidenceValueCut
  <2>3. QED
    BY <2>2 DEF EvidenceFields
<1>8. \A i \in 1..5 : EvidenceReader!IsCutRejected(EvidenceFields(z)[i], EvidenceAttr[i],
        ZeroEvidence)
  BY <1>3, <1>4, <1>5, <1>6, <1>7 DEF EvidenceAttr
<1>9. EvidenceReader!IsCutOf(p, EvidenceReader!AppendMap(EvidenceFields(z)))
  BY Zenon, EvidenceCutTerms, EvidenceTerms, MarshalledEvidence
<1>10. EvidenceReader!ReadMap(ZeroEvidence, p, UnmarshalEvidenceField) = EvidenceReader!Failure
  BY <1>2, <1>8, <1>9, EvidenceReader!WrittenMapCutRejected
<1>11. QED
  BY Zenon, <1>10, EvidenceTerms, EvidenceCutTerms

-----------------------------------------------------------------------------
(* What a pointer leads to                                                 *)

LEMMA EvidenceIsNotNil ==
  ASSUME NEW v, IsEvidence(v), NEW m, m = MarshalEvidence(v)
  PROVE  m[1] # <<"nil">>
<1>1. IsSequence(m)
  BY EvidenceIsMessage
<1>2. m \o <<>> = m /\ IsSequence(<<>>)
  BY <1>1, NothingIsMessage, MessagesJoined
<1>3. m \in Encodings(MarshalEvidence(v), NewerField)
  BY Zenon DEF Encodings
<1>4. PICK w : w = DecodedEvidence(v)
  BY Zenon
<1>5. UnmarshalEvidence(ZeroEvidence, m \o <<>>) = Success(DecodedEvidence(v), <<>>)
  BY <1>2, <1>3, EvidenceRoundTrip
<1>6. EvidenceReader!ReadMap(ZeroEvidence, m, UnmarshalEvidenceField) =
        EvidenceReader!Success(w, <<>>)
  BY Zenon, <1>2, <1>4, <1>5, EvidenceTerms
<1>7. QED
  BY <1>6, EvidenceReader!MapIsNotNil

(* A pointer to evidence is read as nil or as the evidence.                *)
LEMMA PointerToEvidenceCut ==
  ASSUME NEW m, NEW p, IsCutOf(p, m), m[1] # <<"nil">>, UnmarshalEvidence(ZeroEvidence, p) = Failure
  PROVE  ReadPointer(NilPointer, p, ZeroEvidence, UnmarshalEvidence) = Failure
<1>1. EvidenceReader!IsCutOf(p, m) /\ UnmarshalEvidence(ZeroEvidence, p) = EvidenceReader!Failure
  BY Zenon, EvidenceCutTerms
<1>2. EvidenceReader!ReadPointer(EvidenceReader!NilPointer, p, ZeroEvidence,
        UnmarshalEvidence) = EvidenceReader!Failure
  BY <1>1, EvidenceReader!PointerCutRejected
<1>3. EvidenceReader!ReadPointer(EvidenceReader!NilPointer, p, ZeroEvidence, UnmarshalEvidence)
        = ReadPointer(NilPointer, p, ZeroEvidence, UnmarshalEvidence)
  BY Zenon DEF
    ReadPointer, EvidenceReader!ReadPointer, NilPointer, EvidenceReader!NilPointer, NewPointer,
    EvidenceReader!NewPointer, Success, EvidenceReader!Success, Failure, EvidenceReader!Failure
<1>4. QED
  BY Zenon, <1>2, <1>3, EvidenceCutTerms

(* A location that was written is not taken for a nil pointer.             *)
LEMMA LocationIsNotNil ==
  ASSUME NEW v, IsLocation(v), NEW m, m = MarshalLocation(v)
  PROVE  m[1] # <<"nil">>
<1>1. IsSequence(m)
  BY LocationIsMessage
<1>2. m \o <<>> = m /\ IsSequence(<<>>)
  BY <1>1, NothingIsMessage, MessagesJoined
<1>3. m \in Encodings(MarshalLocation(v), NewerField)
  BY Zenon DEF Encodings
<1>4. PICK w : w = v
  BY Zenon
<1>5. UnmarshalLocation(ZeroLocation, m \o <<>>) = Success(v, <<>>)
  BY <1>2, <1>3, LocationRoundTrip
<1>6. LocationReader!ReadMap(ZeroLocation, m, UnmarshalLocationField) =
        LocationReader!Success(w, <<>>)
  BY Zenon, <1>2, <1>4, <1>5, LocationTerms
<1>7. QED
  BY <1>6, LocationReader!MapIsNotNil

(* A pointer to a location is read as nil or as the location.              *)
LEMMA PointerToLocationCut ==
  ASSUME NEW m, NEW p, IsCutOf(p, m), m[1] # <<"nil">>, UnmarshalLocation(ZeroLocation, p) = Failure
  PROVE  ReadPointer(NilPointer, p, ZeroLocation, UnmarshalLocation) = Failure
<1>1. LocationReader!IsCutOf(p, m) /\ UnmarshalLocation(ZeroLocation, p) = LocationReader!Failure
  BY Zenon, LocationCutTerms
<1>2. LocationReader!ReadPointer(LocationReader!NilPointer, p, ZeroLocation,
        UnmarshalLocation) = LocationReader!Failure
  BY <1>1, LocationReader!PointerCutRejected
<1>3. LocationReader!ReadPointer(LocationReader!NilPointer, p, ZeroLocation, UnmarshalLocation)
        = ReadPointer(NilPointer, p, ZeroLocation, UnmarshalLocation)
  BY Zenon DEF
    ReadPointer, LocationReader!ReadPointer, NilPointer, LocationReader!NilPointer, NewPointer,
    LocationReader!NewPointer, Success, LocationReader!Success, Failure, LocationReader!Failure
<1>4. QED
  BY Zenon, <1>2, <1>3, LocationCutTerms

-----------------------------------------------------------------------------
(* Vulnerability                                                            *)

LEMMA VulnerabilityCutTerms ==
  /\ \A p, m : VulnerabilityReader!IsCutOf(p, m) = IsCutOf(p, m)
  /\ VulnerabilityReader!Failure = Failure
<1>1. \A s : VulnerabilityReader!IsSequence(s) = IsSequence(s)
  BY Zenon, VulnerabilityTerms
<1>2. \A p, m : VulnerabilityReader!IsCutOf(p, m) = IsCutOf(p, m)
  BY Zenon, <1>1 DEF IsCutOf, VulnerabilityReader!IsCutOf
<1>3. VulnerabilityReader!Failure = Failure
  BY Zenon DEF Failure, VulnerabilityReader!Failure
<1>4. QED
  BY Zenon, <1>2, <1>3

(* A field that is one token is not read from nothing.                     *)
LEMMA VulnerabilityTokenCut ==
  ASSUME NEW key, NEW omitted, NEW kind, NEW s, NEW g, NEW zero,
         \A y : UnmarshalVulnerabilityField(y, key, <<>>) = Failure
  PROVE  VulnerabilityReader!IsCutRejected(Field(key, omitted, Token(kind, s)), g, zero)
<1>1. \A y : UnmarshalVulnerabilityField(y, key, <<>>) = VulnerabilityReader!Failure
  BY Zenon, VulnerabilityCutTerms
<1>2. VulnerabilityReader!IsCutRejected(VulnerabilityReader!Field(key, omitted,
        VulnerabilityReader!Token(kind, s)), g, zero)
  BY SMTT(30), <1>1, VulnerabilityReader!TokenCutRejected
<1>3. QED
  BY Zenon, <1>2, VulnerabilityTerms

(* A field that is several is not read from some of them.                  *)
LEMMA VulnerabilityValueCut ==
  ASSUME NEW key, NEW omitted, NEW value, NEW g, NEW zero,
         omitted \/ \A y, p : y[g] = zero[g] /\ IsCutOf(p, value) =>
                      UnmarshalVulnerabilityField(y, key, p) = Failure
  PROVE  VulnerabilityReader!IsCutRejected(Field(key, omitted, value), g, zero)
<1>1. omitted \/ \A y, p : y[g] = zero[g] /\ VulnerabilityReader!IsCutOf(p, value) =>
                    UnmarshalVulnerabilityField(y, key, p) = VulnerabilityReader!Failure
  BY Zenon, VulnerabilityCutTerms
<1>2. VulnerabilityReader!IsCutRejected(VulnerabilityReader!Field(key, omitted, value), g, zero)
  BY SMTT(30), <1>1, VulnerabilityReader!ValueCutRejected
<1>3. QED
  BY Zenon, <1>2, VulnerabilityTerms

(* The evidence of a vulnerability cut is rejected by its reader,          *)
LEMMA VulnerabilityEvidenceCut ==
  ASSUME NEW z, IsVulnerability(z), NEW p, z.evidence # NilPointer,
         IsCutOf(p, AppendPointer(z.evidence, MarshalEvidence)),
         NEW y, y.evidence = ZeroVulnerability.evidence
  PROVE  UnmarshalVulnerabilityField(y, "evidence", p) = Failure
<1>1. PICK v : v = z.evidence[1]
  BY Zenon
<1>2. IsEvidence(v)
  BY <1>1 DEF IsVulnerability
<1>3. AppendPointer(z.evidence, MarshalEvidence) = MarshalEvidence(v)
  BY Zenon, <1>1 DEF AppendPointer
<1>4. PICK m : m = MarshalEvidence(v)
  BY Zenon
<1>5. IsCutOf(p, m)
  BY Zenon, <1>3, <1>4
<1>6. UnmarshalEvidence(ZeroEvidence, p) = Failure
  BY <1>2, <1>4, <1>5, EvidenceCut
<1>7. m[1] # <<"nil">>
  BY <1>2, <1>4, EvidenceIsNotNil
<1>8. ReadPointer(NilPointer, p, ZeroEvidence, UnmarshalEvidence) = Failure
  BY <1>5, <1>6, <1>7, PointerToEvidenceCut
<1>9. y.evidence = NilPointer
  BY DEF ZeroVulnerability
<1>10. UnmarshalVulnerabilityField(y, "evidence", p)
         = SetField(y, "evidence", ReadPointer(y.evidence, p, ZeroEvidence, UnmarshalEvidence))
  BY Zenon, VulnerabilityFieldRead
<1>11. QED
  BY Zenon, <1>8, <1>9, <1>10, FailureIsKept

(* and so is its location.                                                 *)
LEMMA VulnerabilityLocationCut ==
  ASSUME NEW z, IsVulnerability(z), NEW p, z.location # NilPointer,
         IsCutOf(p, AppendPointer(z.location, MarshalLocation)),
         NEW y, y.location = ZeroVulnerability.location
  PROVE  UnmarshalVulnerabilityField(y, "location", p) = Failure
<1>1. PICK v : v = z.location[1]
  BY Zenon
<1>2. IsLocation(v)
  BY <1>1 DEF IsVulnerability
<1>3. AppendPointer(z.location, MarshalLocation) = MarshalLocation(v)
  BY Zenon, <1>1 DEF AppendPointer
<1>4. PICK m : m = MarshalLocation(v)
  BY Zenon
<1>5. IsCutOf(p, m)
  BY Zenon, <1>3, <1>4
<1>6. UnmarshalLocation(ZeroLocation, p) = Failure
  BY <1>2, <1>4, <1>5, LocationCut
<1>7. m[1] # <<"nil">>
  BY <1>2, <1>4, LocationIsNotNil
<1>8. ReadPointer(NilPointer, p, ZeroLocation, UnmarshalLocation) = Failure
  BY <1>5, <1>6, <1>7, PointerToLocationCut
<1>9. y.location = NilPointer
  BY DEF ZeroVulnerability
<1>10. UnmarshalVulnerabilityField(y, "location", p)
         = SetField(y, "location", ReadPointer(y.location, p, ZeroLocation, UnmarshalLocation))
  BY Zenon, VulnerabilityFieldRead
<1>11. QED
  BY Zenon, <1>8, <1>9, <1>10, FailureIsKept

(* No message that is cut short is read.                                   *)
LEMMA VulnerabilityCut ==
  ASSUME NEW z, IsVulnerability(z), NEW p, IsCutOf(p, MarshalVulnerability(z))
  PROVE  UnmarshalVulnerability(ZeroVulnerability, p) = Failure
<1>1. PICK t : IsVulnerabilityDecoded(z, t)
  BY VulnerabilityDecoded
<1>2. VulnerabilityReader!AreWritten(VulnerabilityFields(z), 4, VulnerabilityAttr,
        ZeroVulnerability, t)
  BY <1>1, VulnerabilityIsWritten
<1>3. VulnerabilityReader!IsCutRejected(VulnerabilityFields(z)[1], "type", ZeroVulnerability)
  <2>1. ASSUME NEW y PROVE UnmarshalVulnerabilityField(y, "type", <<>>) = Failure
    <3>1. UnmarshalVulnerabilityField(y, "type", <<>>) =
            SetField(y, "type", UnmarshalVulnerabilityType(y.type, <<>>))
      BY Zenon, VulnerabilityFieldRead
    <3>2. UnmarshalVulnerabilityType(y.type, <<>>) = Failure
      BY Zenon, NothingToUnmarshal
    <3>3. QED
      BY Zenon, <3>1, <3>2, FailureIsKept
  <2>2. VulnerabilityReader!IsCutRejected(Field("type", FALSE,
          Token("name", VulnerabilityTypeString(z.type))), "type", ZeroVulnerability)
    BY <2>1, VulnerabilityTokenCut
  <2>3. QED
    BY <2>2 DEF VulnerabilityFields
<1>4. VulnerabilityReader!IsCutRejected(VulnerabilityFields(z)[2], "hash", ZeroVulnerability)
  <2>1. ASSUME NEW y PROVE UnmarshalVulnerabilityField(y, "hash", <<>>) = Failure
    <3>1. UnmarshalVulnerabilityField(y, "hash", <<>>) = SetField(y, "hash", Read("hash", <<>>))
      BY Zenon, VulnerabilityFieldRead
    <3>2. Read("hash", <<>>) = Failure
      BY Zenon, NothingToUnmarshal
    <3>3. QED
      BY Zenon, <3>1, <3>2, FailureIsKept
  <2>2. VulnerabilityReader!IsCutRejected(Field("hash", FALSE, Token("hash", z.hash)), "hash",
          ZeroVulnerability)
    BY <2>1, VulnerabilityTokenCut
  <2>3. QED
    BY <2>2 DEF VulnerabilityFields
<1>5. VulnerabilityReader!IsCutRejected(VulnerabilityFields(z)[3], "evidence", ZeroVulnerability)
  <2>1. z.evidence = NilPointer \/ \A y, q : y.evidence = ZeroVulnerability.evidence /\
          IsCutOf(q, AppendPointer(z.evidence, MarshalEvidence)) =>
          UnmarshalVulnerabilityField(y, "evidence", q) = Failure
    BY VulnerabilityEvidenceCut
  <2>2. VulnerabilityReader!IsCutRejected(Field("evidence", z.evidence = NilPointer,
          AppendPointer(z.evidence, MarshalEvidence)), "evidence", ZeroVulnerability)
    BY <2>1, VulnerabilityValueCut
  <2>3. QED
    BY <2>2 DEF VulnerabilityFields
<1>6. VulnerabilityReader!IsCutRejected(VulnerabilityFields(z)[4], "location", ZeroVulnerability)
  <2>1. z.location = NilPointer \/ \A y, q : y.location = ZeroVulnerability.location /\
          IsCutOf(q, AppendPointer(z.location, MarshalLocation)) =>
          UnmarshalVulnerabilityField(y, "location", q) = Failure
    BY VulnerabilityLocationCut
  <2>2. VulnerabilityReader!IsCutRejected(Field("location", z.location = NilPointer,
          AppendPointer(z.location, MarshalLocation)), "location", ZeroVulnerability)
    BY <2>1, VulnerabilityValueCut
  <2>3. QED
    BY <2>2 DEF VulnerabilityFields
<1>7. \A i \in 1..4 : VulnerabilityReader!IsCutRejected(VulnerabilityFields(z)[i],
        VulnerabilityAttr[i], ZeroVulnerability)
  BY <1>3, <1>4, <1>5, <1>6 DEF VulnerabilityAttr
<1>8. VulnerabilityReader!IsCutOf(p, VulnerabilityReader!AppendMap(VulnerabilityFields(z)))
  BY Zenon, VulnerabilityCutTerms, VulnerabilityTerms, MarshalledVulnerability
<1>9. VulnerabilityReader!ReadMap(ZeroVulnerability, p, UnmarshalVulnerabilityField) =
        VulnerabilityReader!Failure
  BY <1>2, <1>7, <1>8, VulnerabilityReader!WrittenMapCutRejected
<1>10. QED
  BY Zenon, <1>9, VulnerabilityTerms, VulnerabilityCutTerms

(* An array of vulnerabilities cut anywhere is rejected.                   *)
LEMMA VulnerabilitiesCut ==
  ASSUME NEW slice, AreVulnerabilities(slice.items), NEW p,
           IsCutOf(p, AppendArray(slice, MarshalVulnerability))
  PROVE  ReadArray(NilSlice, p, ZeroVulnerability, UnmarshalVulnerability) = Failure
<1>1. PICK elements : elements = [i \in DOMAIN slice.items |-> MarshalVulnerability(slice.items[i])]
  BY Zenon
<1>2. PICK values : values = [i \in DOMAIN slice.items |-> DecodedVulnerability(slice.items[i])]
  BY Zenon
<1>3. PICK n \in Nat : n = Len(slice.items)
  BY SequenceDomain DEF AreVulnerabilities
<1>4. VulnerabilityReader!AreWrittenElements(elements, values, ZeroVulnerability, n)
  BY <1>1, <1>2, <1>3, VulnerabilitiesAreWritten
<1>5. VulnerabilityReader!AreCutRejected(elements, ZeroVulnerability, n)
  <2>1. DOMAIN slice.items = 1..n
    BY <1>3, SequenceDomain DEF AreVulnerabilities
  <2>2. ASSUME NEW i \in 1..n, NEW q, IsCutOf(q, elements[i])
        PROVE  UnmarshalVulnerability(ZeroVulnerability, q) = Failure
    <3>1. PICK x : x = slice.items[i]
      BY Zenon
    <3>2. IsVulnerability(x)
      BY Zenon, <2>1, <3>1 DEF AreVulnerabilities
    <3>3. IsCutOf(q, MarshalVulnerability(x))
      BY Zenon, <1>1, <2>1, <2>2, <3>1
    <3>4. QED
      BY <3>2, <3>3, VulnerabilityCut
  <2>3. QED
    BY Zenon, <2>2, VulnerabilityCutTerms DEF VulnerabilityReader!AreCutRejected
<1>6. VulnerabilityReader!IsCutOf(p, VulnerabilityReader!ArrayMessage(elements, n))
  BY Zenon, <1>1, <1>3, VulnerabilitiesTerms, VulnerabilityCutTerms DEF AppendArray
<1>7. VulnerabilityReader!ReadArray(VulnerabilityReader!NilSlice, p, ZeroVulnerability,
        UnmarshalVulnerability) = VulnerabilityReader!Failure
  BY <1>3, <1>4, <1>5, <1>6, VulnerabilityReader!WrittenArrayCutRejected
<1>8. QED
  BY Zenon, <1>7, VulnerabilitiesTerms, VulnerabilityCutTerms

-----------------------------------------------------------------------------
(* Event                                                                    *)

(* A field that is several is not read from some of them.                  *)
LEMMA EventValueCut ==
  ASSUME NEW key, NEW omitted, NEW value, NEW g, NEW zero,
         omitted \/ \A y, p : y[g] = zero[g] /\ IsCutOf(p, value) =>
                      UnmarshalEventField(y, key, p) = Failure
  PROVE  EventReader!IsCutRejected(Field(key, omitted, value), g, zero)
<1>1. omitted \/ \A y, p : y[g] = zero[g] /\ EventReader!IsCutOf(p, value) =>
                    UnmarshalEventField(y, key, p) = EventReader!Failure
  BY Zenon, EventCutTerms
<1>2. EventReader!IsCutRejected(EventReader!Field(key, omitted, value), g, zero)
  BY SMTT(30), <1>1, EventReader!ValueCutRejected
<1>3. QED
  BY Zenon, <1>2, EventTerms

(* The sources of an event cut are rejected by its reader,                 *)
LEMMA EventSourcesCut ==
  ASSUME NEW z, IsEvent(z), NEW p, IsCutOf(p, AppendArray(z.sources, MarshalSource)),
         NEW y, y.sources = ZeroEvent.sources
  PROVE  UnmarshalEventField(y, "sources", p) = Failure
<1>1. PICK slice : slice = z.sources
  BY Zenon
<1>2. AreSources(slice.items)
  BY <1>1 DEF IsEvent
<1>3. IsCutOf(p, AppendArray(slice, MarshalSource))
  BY Zenon, <1>1
<1>4. ReadArray(NilSlice, p, ZeroSource, UnmarshalSource) = Failure
  BY <1>2, <1>3, SourcesCut
<1>5. y.sources = NilSlice
  BY DEF ZeroEvent
<1>6. UnmarshalEventField(y, "sources", p)
        = SetField(y, "sources", ReadArray(y.sources, p, ZeroSource, UnmarshalSource))
  BY Zenon, EventFieldRead
<1>7. QED
  BY Zenon, <1>4, <1>5, <1>6, FailureIsKept

(* and so are its vulnerabilities.                                         *)
LEMMA EventVulnerabilitiesCut ==
  ASSUME NEW z, IsEvent(z), NEW p, IsCutOf(p, AppendArray(z.vulnerabilities, MarshalVulnerability)),
         NEW y, y.vulnerabilities = ZeroEvent.vulnerabilities
  PROVE  UnmarshalEventField(y, "vulnerabilities", p) = Failure
<1>1. PICK slice : slice = z.vulnerabilities
  BY Zenon
<1>2. AreVulnerabilities(slice.items)
  BY <1>1 DEF IsEvent
<1>3. IsCutOf(p, AppendArray(slice, MarshalVulnerability))
  BY Zenon, <1>1
<1>4. ReadArray(NilSlice, p, ZeroVulnerability, UnmarshalVulnerability) = Failure
  BY <1>2, <1>3, VulnerabilitiesCut
<1>5. y.vulnerabilities = NilSlice
  BY DEF ZeroEvent
<1>6. UnmarshalEventField(y, "vulnerabilities", p)
        = SetField(y, "vulnerabilities",
          ReadArray(y.vulnerabilities, p, ZeroVulnerability, UnmarshalVulnerability))
  BY Zenon, EventFieldRead
<1>7. QED
  BY Zenon, <1>4, <1>5, <1>6, FailureIsKept

(* No message that is cut short is read.                                   *)
LEMMA EventCut ==
  ASSUME NEW z, IsEvent(z), NEW p, IsCutOf(p, MarshalEvent(z))
  PROVE  UnmarshalEvent(ZeroEvent, p) = Failure
<1>1. PICK t : IsEventDecoded(z, t)
  BY EventDecoded
<1>2. EventReader!AreWritten(EventFields(z), 2, EventAttr, ZeroEvent, t)
  BY <1>1, EventIsWritten
<1>3. EventReader!IsCutRejected(EventFields(z)[1], "sources", ZeroEvent)
  <2>1. \A y, q : y.sources = ZeroEvent.sources /\
          IsCutOf(q, AppendArray(z.sources, MarshalSource)) =>
          UnmarshalEventField(y, "sources", q) = Failure
    BY EventSourcesCut
  <2>2. EventReader!IsCutRejected(Field("sources", ~z.sources.made,
          AppendArray(z.sources, MarshalSource)), "sources", ZeroEvent)
    BY <2>1, EventValueCut
  <2>3. QED
    BY <2>2 DEF EventFields
<1>4. EventReader!IsCutRejected(EventFields(z)[2], "vulnerabilities", ZeroEvent)
  <2>1. \A y, q : y.vulnerabilities = ZeroEvent.vulnerabilities /\
          IsCutOf(q, AppendArray(z.vulnerabilities, MarshalVulnerability)) =>
          UnmarshalEventField(y, "vulnerabilities", q) = Failure
    BY EventVulnerabilitiesCut
  <2>2. EventReader!IsCutRejected(Field("vulnerabilities", FALSE,
          AppendArray(z.vulnerabilities, MarshalVulnerability)), "vulnerabilities", ZeroEvent)
    BY <2>1, EventValueCut
  <2>3. QED
    BY <2>2 DEF EventFields
<1>5. \A i \in 1..2 : EventReader!IsCutRejected(EventFields(z)[i], EventAttr[i], ZeroEvent)
  BY <1>3, <1>4 DEF EventAttr
<1>6. EventReader!IsCutOf(p, EventReader!AppendMap(EventFields(z)))
  BY Zenon, EventCutTerms, EventTerms, MarshalledEvent
<1>7. EventReader!ReadMap(ZeroEvent, p, UnmarshalEventField) = EventReader!Failure
  BY <1>2, <1>5, <1>6, EventReader!WrittenMapCutRejected
<1>8. QED
  BY Zenon, <1>7, EventTerms, EventCutTerms

(* A message that is cut short is rejected, wherever it is cut: by the map *)
(* or the array that has too few values, of the event or inside it         *)
(* (event_gen.go:52-117 and the other UnmarshalMsg methods).               *)
THEOREM CutMessageIsRejected == Spec => []CutMessageRejected
<1>1. TransportInv => CutMessageRejected
  <2>1. SUFFICES ASSUME TransportInv PROVE CutMessageRejected
    OBVIOUS
  <2>2. IsEvent(event)
    BY <2>1 DEF TransportInv, TransportOK
  <2>3. PICK m : m = MarshalEvent(event)
    BY Zenon
  <2>4. IsSequence(m)
    BY <2>2, <2>3, EventIsMessage
  <2>5. ASSUME NEW n \in 0..(Len(m) - 1) PROVE ~UnmarshalEvent(ZeroEvent, SubSeq(m, 1, n)).ok
    <3>1. PICK p : p = SubSeq(m, 1, n)
      BY Zenon
    <3>2. EventReader!IsSequence(m)
      BY Zenon, <2>4, EventTerms
    <3>3. EventReader!IsCutOf(SubSeq(m, 1, n), m)
      BY <3>2, EventReader!FirstPartIsCut
    <3>4. IsCutOf(p, MarshalEvent(event))
      BY Zenon, <2>3, <3>1, <3>3, EventCutTerms
    <3>5. UnmarshalEvent(ZeroEvent, p) = Failure
      BY <2>2, <3>4, EventCut
    <3>6. ~Failure.ok
      BY DEF Failure
    <3>7. QED
      BY Zenon, <3>1, <3>5, <3>6
  <2>6. QED
    BY Zenon, <2>3, <2>5 DEF CutMessageRejected
<1>2. QED
  BY <1>1, TransportCorrect, PTL
=============================================================================
