--------------------------- MODULE RoundTripProofs ---------------------------
(***************************************************************************)
(* Theorems about what UnmarshalMsg makes of the messages of EventTransport*)
(* for any inputs of the constructors, any number of messages, and any     *)
(* value of the field of a newer model: from the tokens up, each type is   *)
(* shown to read every encoding of what it wrote and nothing behind it.    *)
(***************************************************************************)
EXTENDS EventTransport, FiniteSetTheorems, SequenceTheorems, TLAPS

IsSequence(s) == \E T : s \in Seq(T)

(* The theorems about readers, for each of them; those of the event also   *)
(* for the array of types that are marks.                                  *)
SourceReader ==
  INSTANCE Readers WITH
    ReadField <- UnmarshalSourceField, Unmarshal <- UnmarshalSource,
    NewerKey <- "newer"
LocationReader ==
  INSTANCE Readers WITH
    ReadField <- UnmarshalLocationField, Unmarshal <- UnmarshalLocation,
    NewerKey <- "newer"
ValuePartReader ==
  INSTANCE Readers WITH
    ReadField <- UnmarshalValuePartField, Unmarshal <- UnmarshalValuePart,
    NewerKey <- "newer"
EvidenceReader ==
  INSTANCE Readers WITH
    ReadField <- UnmarshalEvidenceField, Unmarshal <- UnmarshalEvidence,
    NewerKey <- "newer"
VulnerabilityReader ==
  INSTANCE Readers WITH
    ReadField <- UnmarshalVulnerabilityField, Unmarshal <- UnmarshalVulnerability,
    NewerKey <- "newer"
EventReader ==
  INSTANCE Readers WITH
    ReadField <- UnmarshalEventField, Unmarshal <- UnmarshalVulnerabilityType,
    NewerKey <- "newer"

-----------------------------------------------------------------------------
(* Tokens and enumerations                                                 *)

LEMMA SucceededAs ==
  ASSUME NEW v, NEW rest
  PROVE  Success(v, rest).ok = TRUE /\ Success(v, rest).v = v /\ Success(v, rest).rest = rest
BY DEF Success

(* A reader of a kind takes the token of that kind.                        *)
LEMMA TokenIsRead ==
  ASSUME NEW kind, NEW v, NEW c, IsSequence(c)
  PROVE  Read(kind, Token(kind, v) \o c) = Success(v, c)
<1>1. PICK t : t = <<kind, v>>
  OBVIOUS
<1>2. SourceReader!IsSequence(c)
  BY DEF IsSequence, SourceReader!IsSequence
<1>3. <<t>> \o c # <<>> /\ (<<t>> \o c)[1] = t /\ Tail(<<t>> \o c) = c
  BY <1>2, SourceReader!OneToken
<1>4. t[1] = kind /\ t[2] = v
  BY <1>1
<1>5. Read(kind, <<t>> \o c) = Success(v, c)
  BY Zenon, <1>3, <1>4 DEF Read
<1>6. QED
  BY Zenon, <1>1, <1>5 DEF Token

(* Parse functions undo String functions of tables without repetitions,    *)
LEMMA ParsedString ==
  ASSUME NEW table, NEW v \in DOMAIN table,
         \A x, w \in DOMAIN table : table[x] = table[w] => x = w
  PROVE  ParseIn(table, StringOf(table, v)) = [ok |-> TRUE, v |-> v]
<1>1. StringOf(table, v) = table[v]
  BY DEF StringOf
<1>2. (CHOOSE w \in DOMAIN table : table[w] = table[v]) = v
  OBVIOUS
<1>3. QED
  BY Zenon, <1>1, <1>2 DEF ParseIn

(* No two constants of an enumeration have the same string.                *)
LEMMA StringsDiffer ==
  /\ \A x, w \in DOMAIN TruncatedSides : TruncatedSides[x] = TruncatedSides[w] => x = w
  /\ \A x, w \in DOMAIN Origins : Origins[x] = Origins[w] => x = w
  /\ \A x, w \in DOMAIN VulnerabilityTypes : VulnerabilityTypes[x] = VulnerabilityTypes[w] => x = w
<1>1. \A x, w \in DOMAIN TruncatedSides : TruncatedSides[x] = TruncatedSides[w] => x = w
  BY DEF TruncatedSides, TruncatedSideNone, TruncatedSideRight
<1>2. \A x, w \in DOMAIN Origins : Origins[x] = Origins[w] => x = w
  BY DEF Origins
<1>3. \A x, w \in DOMAIN VulnerabilityTypes : VulnerabilityTypes[x] = VulnerabilityTypes[w] => x = w
  BY DEF VulnerabilityTypes
<1>4. QED
  BY <1>1, <1>2, <1>3

(* An enumeration is read back from its string.                            *)
LEMMA TruncatedSideIsRead ==
  ASSUME NEW v \in DOMAIN TruncatedSides, NEW z, NEW c, IsSequence(c)
  PROVE  UnmarshalTruncatedSide(z, MarshalTruncatedSide(v) \o c) = Success(v, c)
<1> DEFINE s == TruncatedSideString(v)
<1>1. PICK p : p = ParseIn(TruncatedSides, s)
  OBVIOUS
<1>2. p.ok = TRUE /\ p.v = v
  <2>1. ParseIn(TruncatedSides, StringOf(TruncatedSides, v)) = [ok |-> TRUE, v |-> v]
    BY Zenon, ParsedString, StringsDiffer
  <2>2. p = [ok |-> TRUE, v |-> v]
    BY Zenon, <1>1, <2>1 DEF TruncatedSideString
  <2>3. QED
    BY <2>2
<1> HIDE DEF s
<1>3. PICK r : r = Success(s, c)
  OBVIOUS
<1>4. r.ok = TRUE /\ r.v = s /\ r.rest = c
  BY ZenonT(30), <1>3, SucceededAs
<1>5. Read("name", Token("name", s) \o c) = r
  BY <1>3, TokenIsRead
<1>6. UnmarshalShim(Token("name", s) \o c, ParseTruncatedSide) = Success(v, c)
  BY Zenon, <1>1, <1>2, <1>4, <1>5 DEF UnmarshalShim, ParseTruncatedSide
<1>7. QED
  BY Zenon, <1>6 DEF UnmarshalTruncatedSide, MarshalTruncatedSide, s

(* as those of origins are,                                                *)
LEMMA OriginIsRead ==
  ASSUME NEW v \in OriginConstants, NEW z, NEW c, IsSequence(c)
  PROVE  UnmarshalOrigin(z, MarshalOrigin(v) \o c) = Success(v, c)
<1> DEFINE s == OriginString(v)
<1>1. PICK p : p = ParseIn(Origins, s)
  OBVIOUS
<1>2. p.ok = TRUE /\ p.v = v
  <2>1. ParseIn(Origins, StringOf(Origins, v)) = [ok |-> TRUE, v |-> v]
    BY Zenon, ParsedString, StringsDiffer DEF OriginConstants
  <2>2. p = [ok |-> TRUE, v |-> v]
    BY Zenon, <1>1, <2>1 DEF OriginString
  <2>3. QED
    BY <2>2
<1> HIDE DEF s
<1>3. PICK r : r = Success(s, c)
  OBVIOUS
<1>4. r.ok = TRUE /\ r.v = s /\ r.rest = c
  BY ZenonT(30), <1>3, SucceededAs
<1>5. Read("name", Token("name", s) \o c) = r
  BY <1>3, TokenIsRead
<1>6. UnmarshalShim(Token("name", s) \o c, ParseOrigin) = Success(v, c)
  BY Zenon, <1>1, <1>2, <1>4, <1>5 DEF UnmarshalShim, ParseOrigin
<1>7. QED
  BY Zenon, <1>6 DEF UnmarshalOrigin, MarshalOrigin, s

(* and those of types of vulnerabilities.                                  *)
LEMMA VulnerabilityTypeIsRead ==
  ASSUME NEW v \in TypeConstants, NEW z, NEW c, IsSequence(c)
  PROVE  UnmarshalVulnerabilityType(z, MarshalVulnerabilityType(v) \o c) = Success(v, c)
<1> DEFINE s == VulnerabilityTypeString(v)
<1>1. PICK p : p = ParseIn(VulnerabilityTypes, s)
  OBVIOUS
<1>2. p.ok = TRUE /\ p.v = v
  <2>1. ParseIn(VulnerabilityTypes, StringOf(VulnerabilityTypes, v)) = [ok |-> TRUE, v |-> v]
    BY Zenon, ParsedString, StringsDiffer DEF TypeConstants
  <2>2. p = [ok |-> TRUE, v |-> v]
    BY Zenon, <1>1, <2>1 DEF VulnerabilityTypeString
  <2>3. QED
    BY <2>2
<1> HIDE DEF s
<1>3. PICK r : r = Success(s, c)
  OBVIOUS
<1>4. r.ok = TRUE /\ r.v = s /\ r.rest = c
  BY ZenonT(30), <1>3, SucceededAs
<1>5. Read("name", Token("name", s) \o c) = r
  BY <1>3, TokenIsRead
<1>6. UnmarshalShim(Token("name", s) \o c, ParseVulnerabilityType) = Success(v, c)
  BY Zenon, <1>1, <1>2, <1>4, <1>5 DEF UnmarshalShim, ParseVulnerabilityType
<1>7. QED
  BY Zenon, <1>6 DEF UnmarshalVulnerabilityType, MarshalVulnerabilityType, s

-----------------------------------------------------------------------------
(* Source                                                                  *)

(* What the constructors make of this type.                                *)
IsSource(z) ==
  /\ z = [origin |-> z.origin, name |-> z.name, value |-> z.value, pattern |-> z.pattern,
          redacted |-> z.redacted, truncated |-> z.truncated]
  /\ z.origin \in OriginConstants /\ z.redacted \in BOOLEAN /\ z.truncated \in DOMAIN TruncatedSides

(* The fields, by the names of the model and as they are written.          *)
SourceAttr == <<"origin", "name", "value", "pattern", "redacted", "truncated">>
SourceFields(z) == <<
  Field("origin", FALSE, Token("name", OriginString(z.origin))),
  Field("name", z.name = <<>>, Token("str", z.name)),
  Field("value", z.value = <<>>, Token("str", z.value)),
  Field("pattern", z.pattern = <<>>, Token("str", z.pattern)),
  Field("redacted", ~z.redacted, Token("bool", z.redacted)),
  Field("truncated", z.truncated
      = TruncatedSideNone, Token("name", TruncatedSideString(z.truncated)))>>

(* What the instance means by the names of MessagePack is what they mean.  *)
LEMMA SourceTerms ==
  /\ \A s : SourceReader!IsSequence(s) = IsSequence(s)
  /\ \A v, c : SourceReader!Success(v, c) = Success(v, c)
  /\ \A z, f, r : SourceReader!SetField(z, f, r) = SetField(z, f, r)
  /\ \A k, o, v : SourceReader!Field(k, o, v) = Field(k, o, v)
  /\ \A k, v : SourceReader!Token(k, v) = Token(k, v)
  /\ \A m, f : SourceReader!Encodings(m, f) = Encodings(m, f)
  /\ SourceReader!NewerField = NewerField
  /\ \A fields : SourceReader!AppendMap(fields) = AppendMap(fields)
  /\ \A z, b : SourceReader!ReadMap(z, b, UnmarshalSourceField) = UnmarshalSource(z, b)
<1>1. /\ \A s : SourceReader!IsSequence(s) = IsSequence(s)
      /\ \A v, c : SourceReader!Success(v, c) = Success(v, c)
      /\ \A k, o, v : SourceReader!Field(k, o, v) = Field(k, o, v)
      /\ \A k, v : SourceReader!Token(k, v) = Token(k, v)
      /\ SourceReader!NewerField = NewerField
  BY Zenon DEF
    IsSequence, SourceReader!IsSequence, Success, SourceReader!Success, Field,
    SourceReader!Field, Token, SourceReader!Token, NewerField, SourceReader!NewerField
<1>2. \A z, f, r : SourceReader!SetField(z, f, r) = SetField(z, f, r)
  BY Zenon DEF
    SetField, SourceReader!SetField, Success, SourceReader!Success, Failure,
    SourceReader!Failure
<1>3. \A m, f : SourceReader!Encodings(m, f) = Encodings(m, f)
  BY Zenon DEF
    Encodings, SourceReader!Encodings, WithField, SourceReader!WithField, Token,
    SourceReader!Token
<1>4. \A fields : SourceReader!AppendMap(fields) = AppendMap(fields)
  BY Zenon DEF
    AppendMap, SourceReader!AppendMap, AppendFields, SourceReader!AppendFields,
    AppendField, SourceReader!AppendField, Present, SourceReader!Present, Token,
    SourceReader!Token, FlattenSeq, SourceReader!FlattenSeq, Cardinality,
    SourceReader!Cardinality
<1>5. \A z, b : SourceReader!ReadMap(z, b, UnmarshalSourceField) = UnmarshalSource(z, b)
  BY Zenon DEF UnmarshalSource,
    ReadMap, SourceReader!ReadMap, Read, SourceReader!Read, Repeat, SourceReader!Repeat,
    Success, SourceReader!Success, Failure, SourceReader!Failure
<1>6. QED
  BY Zenon, <1>1, <1>2, <1>3, <1>4, <1>5

(* A field that is not known is passed over.                               *)
LEMMA NewerValueIsSequence == IsSequence(NewerValue)
BY NewerValueAssumption DEF IsSequence

(* The value of a newer field is skipped as a whole,                       *)
LEMMA NewerValueSkipped ==
  ASSUME NEW c, IsSequence(c)
  PROVE  Skip(NewerValue \o c) = Success(<<>>, c)
<1>1. SourceReader!IsSequence(c)
  BY DEF IsSequence, SourceReader!IsSequence
<1>2. SourceReader!IsCounted(NewerValue)
  BY NewerValueAssumption DEF SourceReader!IsCounted, SourceReader!IsSequence
<1>3. \A b : SourceReader!Skip(b) = Skip(b)
  BY Zenon DEF Skip, SourceReader!Skip, Success, SourceReader!Success, Failure, SourceReader!Failure
<1>4. SourceReader!IsLocal(SourceReader!Skip(NewerValue), SourceReader!Skip(NewerValue \o c), c)
  BY <1>1, <1>2, SourceReader!SkipLocal
<1>5. PICK r : r = Success(<<>>, <<>>)
  OBVIOUS
<1>6. r.ok = TRUE /\ r.v = <<>> /\ r.rest = <<>>
  BY <1>5, SucceededAs
<1>7. PICK s : s = Skip(NewerValue \o c)
  OBVIOUS
<1>8. SourceReader!IsLocal(r, s, c)
  BY Zenon, <1>3, <1>4, <1>5, <1>7, NewerValueAssumption
<1>9. \A v, rest : SourceReader!Success(v, rest) = Success(v, rest)
  BY Zenon, SourceTerms
<1>10. r # SourceReader!Failure
  <2>1. SourceReader!Failure.ok = FALSE
    BY DEF SourceReader!Failure
  <2>2. QED
    BY Zenon, <1>6, <2>1
<1>11. PICK v, rest : r = Success(v, rest) /\ s = Success(v, rest \o c)
  BY Zenon, <1>8, <1>9, <1>10 DEF SourceReader!IsLocal
<1>12. v = <<>> /\ rest = <<>>
  <2>1. Success(v, rest).v = v /\ Success(v, rest).rest = rest
    BY ZenonT(30), SucceededAs
  <2>2. QED
    BY Zenon, <1>6, <1>11, <2>1
<1>13. <<>> \o c = c
  <2>1. SourceReader!IsSequence(<<>>)
    BY SourceReader!NoTokens
  <2>2. QED
    BY <1>1, <2>1, SourceReader!Joined
<1>14. QED
  BY Zenon, <1>7, <1>11, <1>12, <1>13

(* by the default case of each generated switch too.                       *)
LEMMA NewerFieldSkipped ==
  ASSUME NEW z, NEW c, IsSequence(c)
  PROVE  SkipField(z, NewerValue \o c) = Success(z, c)
<1>1. PICK r : r = Success(<<>>, c)
  OBVIOUS
<1>2. r.ok = TRUE /\ r.rest = c
  BY ZenonT(30), <1>1, SucceededAs
<1>3. Skip(NewerValue \o c) = r
  BY <1>1, NewerValueSkipped
<1>4. QED
  BY Zenon, <1>2, <1>3 DEF SkipField

(* A field that is one token, as its reader finds it.                      *)
LEMMA SourceToken ==
  ASSUME NEW key, NEW omitted, NEW kind, kind # "map", NEW s, NEW g, NEW zero, NEW target,
         omitted => target[g] = zero[g],
         \A z, c : IsSequence(c) /\ z[g] = zero[g] =>
           UnmarshalSourceField(z, key, Token(kind, s) \o c) = SetField(z, g, Success(target[g], c))
  PROVE  SourceReader!IsWritten(Field(key, omitted, Token(kind, s)), g, zero, target)
<1>1. \A z, c : SourceReader!IsSequence(c) /\ z[g] = zero[g] =>
        UnmarshalSourceField(z, key, SourceReader!Token(kind, s) \o c)
          = SourceReader!SetField(z, g, SourceReader!Success(target[g], c))
  BY SourceTerms
<1>2. SourceReader!IsWritten(SourceReader!Field(key, omitted, SourceReader!Token(kind, s)), g,
    zero, target)
  BY <1>1, SourceReader!WrittenToken
<1>3. QED
  BY Zenon, <1>2, SourceTerms

(* A field whose token is read as what it holds.                           *)
LEMMA SourcePlain ==
  ASSUME NEW key, NEW omitted, NEW kind, kind # "map", NEW s, NEW g, NEW zero, NEW target,
         omitted => target[g] = zero[g], s = target[g],
         \A y, b : UnmarshalSourceField(y, key, b) = SetField(y, g, Read(kind, b))
  PROVE  SourceReader!IsWritten(Field(key, omitted, Token(kind, s)), g, zero, target)
<1>1. \A y, c : IsSequence(c) /\ y[g] = zero[g] =>
        UnmarshalSourceField(y, key, Token(kind, s) \o c) = SetField(y, g, Success(target[g], c))
  <2>1. TAKE y, c
  <2>2. HAVE IsSequence(c) /\ y[g] = zero[g]
  <2>3. Read(kind, Token(kind, s) \o c) = Success(s, c)
    BY <2>2, TokenIsRead
  <2>4. QED
    BY Zenon, <2>3
<1>2. QED
  BY <1>1, SourceToken

(* A field of a newer model changes nothing.                               *)
LEMMA SourcePassesOver ==
  ASSUME NEW z
  PROVE  SourceReader!IsPassedOver(z)
<1>1. SourceReader!IsSequence(NewerValue)
  BY Zenon, NewerValueIsSequence, SourceTerms
<1>2. ASSUME NEW c, SourceReader!IsSequence(c)
      PROVE  UnmarshalSourceField(z, "newer", NewerValue \o c) = SourceReader!Success(z, c)
  <2>1. PICK b : b = NewerValue \o c
    OBVIOUS
  <2>2. SkipField(z, b) = Success(z, c)
    BY <1>2, <2>1, SourceTerms, NewerFieldSkipped
  <2>3. UnmarshalSourceField(z, "newer", b) = SkipField(z, b)
    BY DEF UnmarshalSourceField
  <2>4. QED
    BY Zenon, <2>1, <2>2, <2>3, SourceTerms
<1>3. QED
  BY Zenon, <1>1, <1>2 DEF SourceReader!IsPassedOver

(* Fields that are written as they are read make a map that is.            *)
LEMMA SourceEncoding ==
  ASSUME NEW n \in Nat, NEW fields, NEW target, NEW attr, NEW zero,
         SourceReader!AreWritten(fields, n, attr, zero, target),
         NEW m \in Encodings(AppendMap(fields), NewerField), NEW c, IsSequence(c)
  PROVE  UnmarshalSource(zero, m \o c) = Success(target, c)
<1>1. SourceReader!IsSequence(c)
  BY Zenon, SourceTerms
<1>2. m \in SourceReader!Encodings(SourceReader!AppendMap(fields), SourceReader!NewerField)
  BY Zenon, SourceTerms
<1>3. SourceReader!IsPassedOver(zero)
  BY SourcePassesOver
<1>4. SourceReader!ReadMap(zero, m \o c, UnmarshalSourceField) = SourceReader!Success(target, c)
  BY <1>1, <1>2, <1>3, SourceReader!MapEncodingRoundTrip
<1>5. PICK b : b = m \o c
  OBVIOUS
<1>6. UnmarshalSource(zero, b) = SourceReader!ReadMap(zero, b, UnmarshalSourceField)
  BY Zenon, SourceTerms
<1>7. Success(target, c) = SourceReader!Success(target, c)
  BY Zenon, SourceTerms
<1>8. QED
  BY Zenon, <1>4, <1>5, <1>6, <1>7

(* How each field is read.                                                 *)
LEMMA SourceFieldRead ==
  ASSUME NEW z, NEW b
  PROVE  /\ UnmarshalSourceField(z, "origin", b)
      = SetField(z, "origin", UnmarshalOrigin(z.origin, b))
         /\ UnmarshalSourceField(z, "name", b) = SetField(z, "name", Read("str", b))
         /\ UnmarshalSourceField(z, "value", b) = SetField(z, "value", Read("str", b))
         /\ UnmarshalSourceField(z, "pattern", b) = SetField(z, "pattern", Read("str", b))
         /\ UnmarshalSourceField(z, "redacted", b) = SetField(z, "redacted", Read("bool", b))
         /\ UnmarshalSourceField(z, "truncated", b)
                = SetField(z, "truncated", UnmarshalTruncatedSide(z.truncated, b))
BY DEF UnmarshalSourceField

(* Every field of the type is written as it is read.                       *)
LEMMA SourceIsWritten ==
  ASSUME NEW z, IsSource(z)
  PROVE  SourceReader!AreWritten(SourceFields(z), 6, SourceAttr, ZeroSource, z)
<1>1. SourceReader!IsWritten(SourceFields(z)[1], "origin", ZeroSource, z)
  <2>1. \A y, c : IsSequence(c) =>
          UnmarshalSourceField(y, "origin", Token("name", OriginString(z.origin)) \o c)
              = SetField(y, "origin", Success(z.origin, c))
    <3>1. TAKE y, c
    <3>2. HAVE IsSequence(c)
    <3>3. UnmarshalOrigin(y.origin, MarshalOrigin(z.origin) \o c) = Success(z.origin, c)
      BY <3>2, OriginIsRead DEF IsSource
    <3>4. QED
      BY Zenon, <3>3, SourceFieldRead DEF MarshalOrigin
  <2>3. SourceReader!IsWritten(Field("origin", FALSE, Token("name", OriginString(z.origin))),
      "origin", ZeroSource, z)
    BY <2>1, SourceToken
  <2>4. QED
    BY <2>3 DEF SourceFields
<1>2. SourceReader!IsWritten(SourceFields(z)[2], "name", ZeroSource, z)
  <2>1. \A y, b : UnmarshalSourceField(y, "name", b) = SetField(y, "name", Read("str", b))
    BY Zenon, SourceFieldRead
  <2>2. z.name = <<>> => z.name = ZeroSource.name
    BY DEF ZeroSource, IsSource
  <2>3. SourceReader!IsWritten(Field("name", z.name
            = <<>>, Token("str", z.name)), "name", ZeroSource, z)
    BY <2>1, <2>2, SourcePlain
  <2>4. QED
    BY <2>3 DEF SourceFields
<1>3. SourceReader!IsWritten(SourceFields(z)[3], "value", ZeroSource, z)
  <2>1. \A y, b : UnmarshalSourceField(y, "value", b) = SetField(y, "value", Read("str", b))
    BY Zenon, SourceFieldRead
  <2>2. z.value = <<>> => z.value = ZeroSource.value
    BY DEF ZeroSource, IsSource
  <2>3. SourceReader!IsWritten(Field("value", z.value
            = <<>>, Token("str", z.value)), "value", ZeroSource, z)
    BY <2>1, <2>2, SourcePlain
  <2>4. QED
    BY <2>3 DEF SourceFields
<1>4. SourceReader!IsWritten(SourceFields(z)[4], "pattern", ZeroSource, z)
  <2>1. \A y, b : UnmarshalSourceField(y, "pattern", b) = SetField(y, "pattern", Read("str", b))
    BY Zenon, SourceFieldRead
  <2>2. z.pattern = <<>> => z.pattern = ZeroSource.pattern
    BY DEF ZeroSource, IsSource
  <2>3. SourceReader!IsWritten(Field("pattern", z.pattern
            = <<>>, Token("str", z.pattern)), "pattern", ZeroSource, z)
    BY <2>1, <2>2, SourcePlain
  <2>4. QED
    BY <2>3 DEF SourceFields
<1>5. SourceReader!IsWritten(SourceFields(z)[5], "redacted", ZeroSource, z)
  <2>1. \A y, b : UnmarshalSourceField(y, "redacted", b) = SetField(y, "redacted", Read("bool", b))
    BY Zenon, SourceFieldRead
  <2>2. ~z.redacted => z.redacted = ZeroSource.redacted
    BY DEF ZeroSource, IsSource
  <2>3. SourceReader!IsWritten(Field("redacted", ~z.redacted, Token("bool", z.redacted)),
      "redacted", ZeroSource, z)
    BY <2>1, <2>2, SourcePlain
  <2>4. QED
    BY <2>3 DEF SourceFields
<1>6. SourceReader!IsWritten(SourceFields(z)[6], "truncated", ZeroSource, z)
  <2>1. \A y, c : IsSequence(c) =>
          UnmarshalSourceField(y, "truncated", Token("name", TruncatedSideString(z.truncated))
              \o c) = SetField(y, "truncated", Success(z.truncated, c))
    <3>1. TAKE y, c
    <3>2. HAVE IsSequence(c)
    <3>3. UnmarshalTruncatedSide(y.truncated, MarshalTruncatedSide(z.truncated) \o c)
              = Success(z.truncated, c)
      BY <3>2, TruncatedSideIsRead DEF IsSource
    <3>4. QED
      BY Zenon, <3>3, SourceFieldRead DEF MarshalTruncatedSide
  <2>2. z.truncated = TruncatedSideNone => z.truncated = ZeroSource.truncated
    BY DEF ZeroSource
  <2>3. SourceReader!IsWritten(Field("truncated", z.truncated
            = TruncatedSideNone, Token("name", TruncatedSideString(z.truncated))), "truncated",
                ZeroSource, z)
    BY <2>1, <2>2, SourceToken
  <2>4. QED
    BY <2>3 DEF SourceFields
<1>7. DOMAIN SourceFields(z) = 1..6
  BY DEF SourceFields
<1>8. \A i \in 1..6 : SourceReader!IsWritten(SourceFields(z)[i], SourceAttr[i], ZeroSource, z)
  BY <1>1, <1>2, <1>3, <1>4, <1>5, <1>6 DEF SourceAttr
<1>9. DOMAIN ZeroSource = {"origin", "name", "value", "pattern", "redacted", "truncated"}
  BY DEF ZeroSource
<1>10. ZeroSource = [g \in DOMAIN ZeroSource |-> ZeroSource[g]] /\ z
           = [g \in DOMAIN ZeroSource |-> z[g]]
  BY DEF ZeroSource, IsSource
<1>11. /\ \A i \in 1..6 : SourceAttr[i] \in DOMAIN ZeroSource
       /\ \A g \in DOMAIN ZeroSource : \E i \in 1..6 : SourceAttr[i] = g
       /\ \A i, j \in 1..6 : SourceAttr[i] = SourceAttr[j] => i = j
  BY <1>9 DEF SourceAttr
<1>12. QED
  BY Zenon, <1>7, <1>8, <1>10, <1>11 DEF SourceReader!AreWritten

(* A source is written as the map of its fields.                           *)
LEMMA MarshalledSource ==
  ASSUME NEW z
  PROVE  MarshalSource(z) = AppendMap(SourceFields(z))
BY Zenon DEF MarshalSource, SourceFields, MarshalOrigin, MarshalTruncatedSide

(* What is written is a sequence of tokens.                                *)
LEMMA SourceIsMessage ==
  ASSUME NEW z, IsSource(z)
  PROVE  IsSequence(MarshalSource(z))
<1>1. SourceReader!AreWritten(SourceFields(z), 6, SourceAttr, ZeroSource, z)
  BY SourceIsWritten
<1>2. SourceReader!IsSequence(SourceReader!AppendMap(SourceFields(z)))
  BY <1>1, SourceReader!MapIsSequence
<1>3. QED
  BY Zenon, <1>2, SourceTerms, MarshalledSource

(* Every encoding is read as what was encoded, whatever follows it.        *)
LEMMA SourceRoundTrip ==
  ASSUME NEW z, IsSource(z), NEW m \in Encodings(MarshalSource(z), NewerField), NEW c, IsSequence(c)
  PROVE  UnmarshalSource(ZeroSource, m \o c) = Success(z, c)
<1>1. SourceReader!AreWritten(SourceFields(z), 6, SourceAttr, ZeroSource, z)
  BY SourceIsWritten
<1>2. m \in Encodings(AppendMap(SourceFields(z)), NewerField)
  BY Zenon, MarshalledSource
<1>3. UnmarshalSource(ZeroSource, m \o c) = Success(z, c)
  BY <1>1, <1>2, SourceEncoding
<1>4. QED
  BY Zenon, <1>3

-----------------------------------------------------------------------------
(* Location                                                                *)

(* What the constructors make of this type.                                *)
IsLocation(z) ==
  z = [spanId |-> z.spanId, path |-> z.path, class |-> z.class, line |-> z.line,
       method |-> z.method, stackId |-> z.stackId]

(* The fields, by the names of the model and as they are written.          *)
LocationAttr == <<"spanId", "path", "class", "line", "method", "stackId">>
LocationFields(z) == <<
  Field("spanId", FALSE, Token("uint", z.spanId)),
  Field("path", z.path = <<>>, Token("str", z.path)),
  Field("class", z.class = <<>>, Token("str", z.class)),
  Field("line", z.line = 0, Token("uint", z.line)),
  Field("method", z.method = <<>>, Token("str", z.method)),
  Field("stackId", z.stackId = <<>>, Token("str", z.stackId))>>

(* What the instance means by the names of MessagePack is what they mean.  *)
LEMMA LocationTerms ==
  /\ \A s : LocationReader!IsSequence(s) = IsSequence(s)
  /\ \A v, c : LocationReader!Success(v, c) = Success(v, c)
  /\ \A z, f, r : LocationReader!SetField(z, f, r) = SetField(z, f, r)
  /\ \A k, o, v : LocationReader!Field(k, o, v) = Field(k, o, v)
  /\ \A k, v : LocationReader!Token(k, v) = Token(k, v)
  /\ \A m, f : LocationReader!Encodings(m, f) = Encodings(m, f)
  /\ LocationReader!NewerField = NewerField
  /\ \A fields : LocationReader!AppendMap(fields) = AppendMap(fields)
  /\ \A z, b : LocationReader!ReadMap(z, b, UnmarshalLocationField) = UnmarshalLocation(z, b)
<1>1. /\ \A s : LocationReader!IsSequence(s) = IsSequence(s)
      /\ \A v, c : LocationReader!Success(v, c) = Success(v, c)
      /\ \A k, o, v : LocationReader!Field(k, o, v) = Field(k, o, v)
      /\ \A k, v : LocationReader!Token(k, v) = Token(k, v)
      /\ LocationReader!NewerField = NewerField
  BY Zenon DEF
    IsSequence, LocationReader!IsSequence, Success, LocationReader!Success, Field,
    LocationReader!Field, Token, LocationReader!Token, NewerField,
    LocationReader!NewerField
<1>2. \A z, f, r : LocationReader!SetField(z, f, r) = SetField(z, f, r)
  BY Zenon DEF
    SetField, LocationReader!SetField, Success, LocationReader!Success, Failure,
    LocationReader!Failure
<1>3. \A m, f : LocationReader!Encodings(m, f) = Encodings(m, f)
  BY Zenon DEF
    Encodings, LocationReader!Encodings, WithField, LocationReader!WithField, Token,
    LocationReader!Token
<1>4. \A fields : LocationReader!AppendMap(fields) = AppendMap(fields)
  BY Zenon DEF
    AppendMap, LocationReader!AppendMap, AppendFields, LocationReader!AppendFields,
    AppendField, LocationReader!AppendField, Present, LocationReader!Present, Token,
    LocationReader!Token, FlattenSeq, LocationReader!FlattenSeq, Cardinality,
    LocationReader!Cardinality
<1>5. \A z, b : LocationReader!ReadMap(z, b, UnmarshalLocationField) = UnmarshalLocation(z, b)
  BY Zenon DEF UnmarshalLocation,
    ReadMap, LocationReader!ReadMap, Read, LocationReader!Read, Repeat,
    LocationReader!Repeat, Success, LocationReader!Success, Failure,
    LocationReader!Failure
<1>6. QED
  BY Zenon, <1>1, <1>2, <1>3, <1>4, <1>5

(* A field that is one token, as its reader finds it.                      *)
LEMMA LocationToken ==
  ASSUME NEW key, NEW omitted, NEW kind, kind # "map", NEW s, NEW g, NEW zero, NEW target,
         omitted => target[g] = zero[g],
         \A z, c : IsSequence(c) /\ z[g] = zero[g] =>
           UnmarshalLocationField(z, key, Token(kind, s) \o c)
               = SetField(z, g, Success(target[g], c))
  PROVE  LocationReader!IsWritten(Field(key, omitted, Token(kind, s)), g, zero, target)
<1>1. \A z, c : LocationReader!IsSequence(c) /\ z[g] = zero[g] =>
        UnmarshalLocationField(z, key, LocationReader!Token(kind, s) \o c)
          = LocationReader!SetField(z, g, LocationReader!Success(target[g], c))
  BY LocationTerms
<1>2. LocationReader!IsWritten(LocationReader!Field(key, omitted, LocationReader!Token(kind, s)),
    g, zero, target)
  BY <1>1, LocationReader!WrittenToken
<1>3. QED
  BY Zenon, <1>2, LocationTerms

(* A field whose token is read as what it holds.                           *)
LEMMA LocationPlain ==
  ASSUME NEW key, NEW omitted, NEW kind, kind # "map", NEW s, NEW g, NEW zero, NEW target,
         omitted => target[g] = zero[g], s = target[g],
         \A y, b : UnmarshalLocationField(y, key, b) = SetField(y, g, Read(kind, b))
  PROVE  LocationReader!IsWritten(Field(key, omitted, Token(kind, s)), g, zero, target)
<1>1. \A y, c : IsSequence(c) /\ y[g] = zero[g] =>
        UnmarshalLocationField(y, key, Token(kind, s) \o c) = SetField(y, g, Success(target[g], c))
  <2>1. TAKE y, c
  <2>2. HAVE IsSequence(c) /\ y[g] = zero[g]
  <2>3. Read(kind, Token(kind, s) \o c) = Success(s, c)
    BY <2>2, TokenIsRead
  <2>4. QED
    BY Zenon, <2>3
<1>2. QED
  BY <1>1, LocationToken

(* A field of a newer model changes nothing.                               *)
LEMMA LocationPassesOver ==
  ASSUME NEW z
  PROVE  LocationReader!IsPassedOver(z)
<1>1. LocationReader!IsSequence(NewerValue)
  BY Zenon, NewerValueIsSequence, LocationTerms
<1>2. ASSUME NEW c, LocationReader!IsSequence(c)
      PROVE  UnmarshalLocationField(z, "newer", NewerValue \o c) = LocationReader!Success(z, c)
  <2>1. PICK b : b = NewerValue \o c
    OBVIOUS
  <2>2. SkipField(z, b) = Success(z, c)
    BY <1>2, <2>1, LocationTerms, NewerFieldSkipped
  <2>3. UnmarshalLocationField(z, "newer", b) = SkipField(z, b)
    BY DEF UnmarshalLocationField
  <2>4. QED
    BY Zenon, <2>1, <2>2, <2>3, LocationTerms
<1>3. QED
  BY Zenon, <1>1, <1>2 DEF LocationReader!IsPassedOver

(* Fields that are written as they are read make a map that is.            *)
LEMMA LocationEncoding ==
  ASSUME NEW n \in Nat, NEW fields, NEW target, NEW attr, NEW zero,
         LocationReader!AreWritten(fields, n, attr, zero, target),
         NEW m \in Encodings(AppendMap(fields), NewerField), NEW c, IsSequence(c)
  PROVE  UnmarshalLocation(zero, m \o c) = Success(target, c)
<1>1. LocationReader!IsSequence(c)
  BY Zenon, LocationTerms
<1>2. m \in LocationReader!Encodings(LocationReader!AppendMap(fields), LocationReader!NewerField)
  BY Zenon, LocationTerms
<1>3. LocationReader!IsPassedOver(zero)
  BY LocationPassesOver
<1>4. LocationReader!ReadMap(zero, m \o c, UnmarshalLocationField)
          = LocationReader!Success(target, c)
  BY <1>1, <1>2, <1>3, LocationReader!MapEncodingRoundTrip
<1>5. PICK b : b = m \o c
  OBVIOUS
<1>6. UnmarshalLocation(zero, b) = LocationReader!ReadMap(zero, b, UnmarshalLocationField)
  BY Zenon, LocationTerms
<1>7. Success(target, c) = LocationReader!Success(target, c)
  BY Zenon, LocationTerms
<1>8. QED
  BY Zenon, <1>4, <1>5, <1>6, <1>7

(* How each field is read.                                                 *)
LEMMA LocationFieldRead ==
  ASSUME NEW z, NEW b
  PROVE  /\ UnmarshalLocationField(z, "spanId", b) = SetField(z, "spanId", Read("uint", b))
         /\ UnmarshalLocationField(z, "path", b) = SetField(z, "path", Read("str", b))
         /\ UnmarshalLocationField(z, "class", b) = SetField(z, "class", Read("str", b))
         /\ UnmarshalLocationField(z, "line", b) = SetField(z, "line", Read("uint", b))
         /\ UnmarshalLocationField(z, "method", b) = SetField(z, "method", Read("str", b))
         /\ UnmarshalLocationField(z, "stackId", b) = SetField(z, "stackId", Read("str", b))
BY DEF UnmarshalLocationField

(* Every field of the type is written as it is read.                       *)
LEMMA LocationIsWritten ==
  ASSUME NEW z, IsLocation(z)
  PROVE  LocationReader!AreWritten(LocationFields(z), 6, LocationAttr, ZeroLocation, z)
<1>1. LocationReader!IsWritten(LocationFields(z)[1], "spanId", ZeroLocation, z)
  <2>1. \A y, b : UnmarshalLocationField(y, "spanId", b) = SetField(y, "spanId", Read("uint", b))
    BY Zenon, LocationFieldRead
  <2>2. z.spanId = z.spanId
    BY DEF ZeroLocation, IsLocation
  <2>3. LocationReader!IsWritten(Field("spanId", FALSE, Token("uint", z.spanId)), "spanId",
      ZeroLocation, z)
    BY <2>1, <2>2, LocationPlain
  <2>4. QED
    BY <2>3 DEF LocationFields
<1>2. LocationReader!IsWritten(LocationFields(z)[2], "path", ZeroLocation, z)
  <2>1. \A y, b : UnmarshalLocationField(y, "path", b) = SetField(y, "path", Read("str", b))
    BY Zenon, LocationFieldRead
  <2>2. z.path = <<>> => z.path = ZeroLocation.path
    BY DEF ZeroLocation, IsLocation
  <2>3. LocationReader!IsWritten(Field("path", z.path
            = <<>>, Token("str", z.path)), "path", ZeroLocation, z)
    BY <2>1, <2>2, LocationPlain
  <2>4. QED
    BY <2>3 DEF LocationFields
<1>3. LocationReader!IsWritten(LocationFields(z)[3], "class", ZeroLocation, z)
  <2>1. \A y, b : UnmarshalLocationField(y, "class", b) = SetField(y, "class", Read("str", b))
    BY Zenon, LocationFieldRead
  <2>2. z.class = <<>> => z.class = ZeroLocation.class
    BY DEF ZeroLocation, IsLocation
  <2>3. LocationReader!IsWritten(Field("class", z.class
            = <<>>, Token("str", z.class)), "class", ZeroLocation, z)
    BY <2>1, <2>2, LocationPlain
  <2>4. QED
    BY <2>3 DEF LocationFields
<1>4. LocationReader!IsWritten(LocationFields(z)[4], "line", ZeroLocation, z)
  <2>1. \A y, b : UnmarshalLocationField(y, "line", b) = SetField(y, "line", Read("uint", b))
    BY Zenon, LocationFieldRead
  <2>2. z.line = 0 => z.line = ZeroLocation.line
    BY DEF ZeroLocation, IsLocation
  <2>3. LocationReader!IsWritten(Field("line", z.line
            = 0, Token("uint", z.line)), "line", ZeroLocation, z)
    BY <2>1, <2>2, LocationPlain
  <2>4. QED
    BY <2>3 DEF LocationFields
<1>5. LocationReader!IsWritten(LocationFields(z)[5], "method", ZeroLocation, z)
  <2>1. \A y, b : UnmarshalLocationField(y, "method", b) = SetField(y, "method", Read("str", b))
    BY Zenon, LocationFieldRead
  <2>2. z.method = <<>> => z.method = ZeroLocation.method
    BY DEF ZeroLocation, IsLocation
  <2>3. LocationReader!IsWritten(Field("method", z.method
            = <<>>, Token("str", z.method)), "method", ZeroLocation, z)
    BY <2>1, <2>2, LocationPlain
  <2>4. QED
    BY <2>3 DEF LocationFields
<1>6. LocationReader!IsWritten(LocationFields(z)[6], "stackId", ZeroLocation, z)
  <2>1. \A y, b : UnmarshalLocationField(y, "stackId", b) = SetField(y, "stackId", Read("str", b))
    BY Zenon, LocationFieldRead
  <2>2. z.stackId = <<>> => z.stackId = ZeroLocation.stackId
    BY DEF ZeroLocation, IsLocation
  <2>3. LocationReader!IsWritten(Field("stackId", z.stackId
            = <<>>, Token("str", z.stackId)), "stackId", ZeroLocation, z)
    BY <2>1, <2>2, LocationPlain
  <2>4. QED
    BY <2>3 DEF LocationFields
<1>7. DOMAIN LocationFields(z) = 1..6
  BY DEF LocationFields
<1>8. \A i \in 1..6 : LocationReader!IsWritten(LocationFields(z)[i], LocationAttr[i],
    ZeroLocation, z)
  BY <1>1, <1>2, <1>3, <1>4, <1>5, <1>6 DEF LocationAttr
<1>9. DOMAIN ZeroLocation = {"spanId", "path", "class", "line", "method", "stackId"}
  BY DEF ZeroLocation
<1>10. ZeroLocation = [g \in DOMAIN ZeroLocation |-> ZeroLocation[g]] /\ z
           = [g \in DOMAIN ZeroLocation |-> z[g]]
  BY DEF ZeroLocation, IsLocation
<1>11. /\ \A i \in 1..6 : LocationAttr[i] \in DOMAIN ZeroLocation
       /\ \A g \in DOMAIN ZeroLocation : \E i \in 1..6 : LocationAttr[i] = g
       /\ \A i, j \in 1..6 : LocationAttr[i] = LocationAttr[j] => i = j
  BY <1>9 DEF LocationAttr
<1>12. QED
  BY Zenon, <1>7, <1>8, <1>10, <1>11 DEF LocationReader!AreWritten

(* A location is written as the map of its fields.                         *)
LEMMA MarshalledLocation ==
  ASSUME NEW z
  PROVE  MarshalLocation(z) = AppendMap(LocationFields(z))
BY Zenon DEF MarshalLocation, LocationFields

(* What is written is a sequence of tokens.                                *)
LEMMA LocationIsMessage ==
  ASSUME NEW z, IsLocation(z)
  PROVE  IsSequence(MarshalLocation(z))
<1>1. LocationReader!AreWritten(LocationFields(z), 6, LocationAttr, ZeroLocation, z)
  BY LocationIsWritten
<1>2. LocationReader!IsSequence(LocationReader!AppendMap(LocationFields(z)))
  BY <1>1, LocationReader!MapIsSequence
<1>3. QED
  BY Zenon, <1>2, LocationTerms, MarshalledLocation

(* Every encoding is read as what was encoded, whatever follows it.        *)
LEMMA LocationRoundTrip ==
  ASSUME NEW z, IsLocation(z), NEW m \in Encodings(MarshalLocation(z), NewerField), NEW c,
         IsSequence(c)
  PROVE  UnmarshalLocation(ZeroLocation, m \o c) = Success(z, c)
<1>1. LocationReader!AreWritten(LocationFields(z), 6, LocationAttr, ZeroLocation, z)
  BY LocationIsWritten
<1>2. m \in Encodings(AppendMap(LocationFields(z)), NewerField)
  BY Zenon, MarshalledLocation
<1>3. UnmarshalLocation(ZeroLocation, m \o c) = Success(z, c)
  BY <1>1, <1>2, LocationEncoding
<1>4. QED
  BY Zenon, <1>3

-----------------------------------------------------------------------------
(* Arrays                                                                  *)

LEMMA SequenceDomain ==
  ASSUME NEW s, IsSequence(s)
  PROVE  Len(s) \in Nat /\ DOMAIN s = 1..Len(s) /\ (Len(s) = 0 <=> s = <<>>)
BY DEF IsSequence

(* A field of a newer version is in a map, and a token is none.            *)
LEMMA TokenEncoding ==
  ASSUME NEW kind, kind # "map", NEW v, NEW m \in Encodings(Token(kind, v), NewerField)
  PROVE  m = Token(kind, v)
<1>1. PICK t : t = <<kind, v>>
  OBVIOUS
<1>2. t[1] # "map"
  BY <1>1
<1>3. \A x \in SourceReader!Encodings(<<t>>, SourceReader!NewerField) : x = <<t>>
  BY <1>2, SourceReader!EncodingOfToken
<1>4. Token(kind, v) = <<t>>
  BY Zenon, <1>1 DEF Token
<1>5. QED
  BY Zenon, <1>3, <1>4, SourceTerms

(* A token is a payload,                                                   *)
LEMMA TokenIsMessage ==
  ASSUME NEW kind, NEW v
  PROVE  IsSequence(Token(kind, v))
<1>1. PICK t : t = <<kind, v>>
  OBVIOUS
<1>2. SourceReader!IsSequence(<<t>>)
  BY SourceReader!NoTokens, SourceReader!OneToken
<1>3. QED
  BY Zenon, <1>1, <1>2, SourceTerms DEF Token

(* and so is what a type of vulnerabilities is written as,                 *)
LEMMA VulnerabilityTypeIsMessage ==
  ASSUME NEW v \in TypeConstants
  PROVE  IsSequence(MarshalVulnerabilityType(v))
BY TokenIsMessage DEF MarshalVulnerabilityType

(* which is read back from its one encoding.                               *)
LEMMA VulnerabilityTypeRoundTrip ==
  ASSUME NEW v \in TypeConstants,
         NEW m \in Encodings(MarshalVulnerabilityType(v), NewerField), NEW c, IsSequence(c)
  PROVE  UnmarshalVulnerabilityType(0, m \o c) = Success(v, c)
<1>1. m = MarshalVulnerabilityType(v)
  BY TokenEncoding DEF MarshalVulnerabilityType
<1>2. UnmarshalVulnerabilityType(0, MarshalVulnerabilityType(v) \o c) = Success(v, c)
  BY VulnerabilityTypeIsRead
<1>3. QED
  BY Zenon, <1>1, <1>2

(* What EventReader means by the names of MessagePack, for marks.          *)
LEMMA MarksTerms ==
  /\ \A s : EventReader!IsSequence(s) = IsSequence(s)
  /\ \A v, c : EventReader!Success(v, c) = Success(v, c)
  /\ \A m, f : EventReader!Encodings(m, f) = Encodings(m, f)
  /\ EventReader!NewerField = NewerField
  /\ EventReader!NilSlice = NilSlice
  /\ \A items : EventReader!SliceOf(items) = SliceOf(items)
  /\ \A elements, n : EventReader!ArrayMessage(elements, n)
         = Token("array", n) \o FlattenSeq(elements)
  /\ \A s, b, z : EventReader!ReadArray(s, b, z, UnmarshalVulnerabilityType)
         = ReadArray(s, b, z, UnmarshalVulnerabilityType)
<1>1. /\ \A s : EventReader!IsSequence(s) = IsSequence(s)
      /\ \A v, c : EventReader!Success(v, c) = Success(v, c)
      /\ EventReader!NewerField = NewerField
      /\ EventReader!NilSlice = NilSlice
      /\ \A items : EventReader!SliceOf(items) = SliceOf(items)
  BY Zenon DEF
    IsSequence, EventReader!IsSequence, Success, EventReader!Success, NewerField,
    EventReader!NewerField, Token, EventReader!Token, NilSlice, EventReader!NilSlice,
    SliceOf, EventReader!SliceOf
<1>2. \A m, f : EventReader!Encodings(m, f) = Encodings(m, f)
  BY Zenon DEF
    Encodings, EventReader!Encodings, WithField, EventReader!WithField, Token,
    EventReader!Token
<1>3. \A elements, n : EventReader!ArrayMessage(elements, n)
          = Token("array", n) \o FlattenSeq(elements)
  BY Zenon DEF EventReader!ArrayMessage,
    Token, EventReader!Token, FlattenSeq, EventReader!FlattenSeq
<1>4. \A s, b, z : EventReader!ReadArray(s, b, z, UnmarshalVulnerabilityType)
          = ReadArray(s, b, z, UnmarshalVulnerabilityType)
  BY Zenon DEF
    ReadArray, EventReader!ReadArray, Read, EventReader!Read, Repeat,
    EventReader!Repeat, Success, EventReader!Success, Failure, EventReader!Failure,
    SliceOf, EventReader!SliceOf
<1>5. QED
  BY Zenon, <1>1, <1>2, <1>3, <1>4

AreMarks(items) == IsSequence(items) /\ \A i \in DOMAIN items : items[i] \in TypeConstants

(* So is every element.                                                    *)
LEMMA MarksAreWritten ==
  ASSUME NEW items, AreMarks(items), NEW elements, NEW values, NEW n, n = Len(items),
         elements = [i \in DOMAIN items |-> MarshalVulnerabilityType(items[i])],
         values = [i \in DOMAIN items |-> items[i]]
  PROVE  EventReader!AreWrittenElements(elements, values, 0, n)
<1>1. n \in Nat /\ DOMAIN items = 1..n /\ \A i \in 1..n : items[i] \in TypeConstants
  BY SequenceDomain DEF AreMarks
<1>2. \A i \in 1..n : elements[i] = MarshalVulnerabilityType(items[i]) /\ values[i] = items[i]
  BY <1>1
<1>3. elements = [i \in 1..n |-> elements[i]] /\ values = [i \in 1..n |-> values[i]]
  BY <1>1
<1>4. ASSUME NEW i \in 1..n
      PROVE  IsSequence(elements[i])
  <2>1. IsSequence(MarshalVulnerabilityType(items[i]))
    BY <1>1, VulnerabilityTypeIsMessage
  <2>2. QED
    BY <1>2, <2>1
<1>5. ASSUME NEW i \in 1..n, NEW x \in Encodings(elements[i], NewerField), NEW c, IsSequence(c)
      PROVE  UnmarshalVulnerabilityType(0, x \o c) = Success(values[i], c)
  <2>1. PICK y : y = items[i]
    OBVIOUS
  <2>2. x \in Encodings(MarshalVulnerabilityType(y), NewerField) /\ y \in TypeConstants
    BY Zenon, <1>1, <1>2, <2>1
  <2>3. UnmarshalVulnerabilityType(0, x \o c) = Success(y, c)
    BY <1>5, <2>2, VulnerabilityTypeRoundTrip
  <2>4. QED
    BY Zenon, <1>2, <2>1, <2>3
<1>6. EventReader!AreSequences(elements, n)
  BY Zenon, <1>3, <1>4, MarksTerms DEF EventReader!AreSequences
<1>7. \A i \in 1..n : \A x \in EventReader!Encodings(elements[i], EventReader!NewerField) : \A c :
        EventReader!IsSequence(c) =>
            UnmarshalVulnerabilityType(0, x \o c) = EventReader!Success(values[i], c)
  BY <1>5, MarksTerms
<1>8. QED
  BY Zenon, <1>3, <1>6, <1>7 DEF EventReader!AreWrittenElements

(* What is written is a sequence of tokens.                                *)
LEMMA MarksAreMessage ==
  ASSUME NEW slice, AreMarks(slice.items)
  PROVE  IsSequence(AppendArray(slice, MarshalVulnerabilityType))
<1>1. PICK elements : elements
          = [i \in DOMAIN slice.items |-> MarshalVulnerabilityType(slice.items[i])]
  BY Zenon
<1>2. PICK values : values = [i \in DOMAIN slice.items |-> slice.items[i]]
  BY Zenon
<1>3. PICK n \in Nat : n = Len(slice.items)
  BY SequenceDomain DEF AreMarks
<1>4. EventReader!AreWrittenElements(elements, values, 0, n)
  BY <1>1, <1>2, <1>3, MarksAreWritten
<1>5. EventReader!IsSequence(EventReader!ArrayMessage(elements, n))
  BY <1>4, EventReader!ArrayIsSequence DEF EventReader!AreWrittenElements
<1>6. QED
  BY Zenon, <1>1, <1>3, <1>5, MarksTerms DEF AppendArray

(* An array is read back as it was, and as nil if it has no elements.      *)
LEMMA MarksRoundTrip ==
  ASSUME NEW slice, AreMarks(slice.items),
         NEW m \in Encodings(AppendArray(slice, MarshalVulnerabilityType), NewerField), NEW c,
         IsSequence(c),
         NEW values, values = [i \in DOMAIN slice.items |-> slice.items[i]]
  PROVE  ReadArray(NilSlice, m \o c, 0, UnmarshalVulnerabilityType)
           = Success(IF slice.items = <<>> THEN NilSlice ELSE SliceOf(values), c)
<1>1. PICK elements : elements
          = [i \in DOMAIN slice.items |-> MarshalVulnerabilityType(slice.items[i])]
  BY Zenon
<1>2. PICK n \in Nat : n = Len(slice.items)
  BY SequenceDomain DEF AreMarks
<1>3. EventReader!AreWrittenElements(elements, values, 0, n)
  BY <1>1, <1>2, MarksAreWritten
<1>4. m \in EventReader!Encodings(EventReader!ArrayMessage(elements, n), EventReader!NewerField)
  BY Zenon, <1>1, <1>2, MarksTerms DEF AppendArray
<1>5. EventReader!IsSequence(c) /\ EventReader!IsSequence(NewerValue)
  BY Zenon, MarksTerms, NewerValueIsSequence
<1>6. EventReader!ReadArray(EventReader!NilSlice, m \o c, 0, UnmarshalVulnerabilityType)
        = EventReader!Success(IF n
            = 0 THEN EventReader!NilSlice ELSE EventReader!SliceOf(values), c)
  BY <1>3, <1>4, <1>5, EventReader!ArrayEncodingRoundTrip
<1>7. PICK b : b = m \o c
  BY Zenon
<1>8. ReadArray(NilSlice, b, 0, UnmarshalVulnerabilityType)
        = EventReader!Success(IF n
            = 0 THEN EventReader!NilSlice ELSE EventReader!SliceOf(values), c)
  BY Zenon, <1>6, <1>7, MarksTerms
<1>9. ReadArray(NilSlice, b, 0, UnmarshalVulnerabilityType)
        = Success(IF n = 0 THEN NilSlice ELSE SliceOf(values), c)
  BY Zenon, <1>8, MarksTerms
<1>10. n = 0 <=> slice.items = <<>>
  BY <1>2, SequenceDomain DEF AreMarks
<1>11. QED
  BY Zenon, <1>7, <1>9, <1>10

(* What the instance means by the names of MessagePack is what they mean.  *)
LEMMA SourcesTerms ==
  /\ \A s : SourceReader!IsSequence(s) = IsSequence(s)
  /\ \A v, c : SourceReader!Success(v, c) = Success(v, c)
  /\ \A m, f : SourceReader!Encodings(m, f) = Encodings(m, f)
  /\ SourceReader!NewerField = NewerField
  /\ SourceReader!NilSlice = NilSlice
  /\ \A items : SourceReader!SliceOf(items) = SliceOf(items)
  /\ \A elements, n : SourceReader!ArrayMessage(elements, n)
         = Token("array", n) \o FlattenSeq(elements)
  /\ \A s, b, z : SourceReader!ReadArray(s, b, z, UnmarshalSource)
         = ReadArray(s, b, z, UnmarshalSource)
<1>1. /\ \A s : SourceReader!IsSequence(s) = IsSequence(s)
      /\ \A v, c : SourceReader!Success(v, c) = Success(v, c)
      /\ SourceReader!NewerField = NewerField
      /\ SourceReader!NilSlice = NilSlice
      /\ \A items : SourceReader!SliceOf(items) = SliceOf(items)
  BY Zenon DEF
    IsSequence, SourceReader!IsSequence, Success, SourceReader!Success, NewerField,
    SourceReader!NewerField, Token, SourceReader!Token, NilSlice, SourceReader!NilSlice,
    SliceOf, SourceReader!SliceOf
<1>2. \A m, f : SourceReader!Encodings(m, f) = Encodings(m, f)
  BY Zenon DEF
    Encodings, SourceReader!Encodings, WithField, SourceReader!WithField, Token,
    SourceReader!Token
<1>3. \A elements, n : SourceReader!ArrayMessage(elements, n)
          = Token("array", n) \o FlattenSeq(elements)
  BY Zenon DEF SourceReader!ArrayMessage,
    Token, SourceReader!Token, FlattenSeq, SourceReader!FlattenSeq
<1>4. \A s, b, z : SourceReader!ReadArray(s, b, z, UnmarshalSource)
          = ReadArray(s, b, z, UnmarshalSource)
  BY Zenon DEF
    ReadArray, SourceReader!ReadArray, Read, SourceReader!Read, Repeat,
    SourceReader!Repeat, Success, SourceReader!Success, Failure, SourceReader!Failure,
    SliceOf, SourceReader!SliceOf
<1>5. QED
  BY Zenon, <1>1, <1>2, <1>3, <1>4

AreSources(items) == IsSequence(items) /\ \A i \in DOMAIN items : IsSource(items[i])

(* So is every element.                                                    *)
LEMMA SourcesAreWritten ==
  ASSUME NEW items, AreSources(items), NEW elements, NEW values, NEW n, n = Len(items),
         elements = [i \in DOMAIN items |-> MarshalSource(items[i])],
         values = [i \in DOMAIN items |-> items[i]]
  PROVE  SourceReader!AreWrittenElements(elements, values, ZeroSource, n)
<1>1. n \in Nat /\ DOMAIN items = 1..n /\ \A i \in 1..n : IsSource(items[i])
  BY SequenceDomain DEF AreSources
<1>2. \A i \in 1..n : elements[i] = MarshalSource(items[i]) /\ values[i] = items[i]
  BY <1>1
<1>3. elements = [i \in 1..n |-> elements[i]] /\ values = [i \in 1..n |-> values[i]]
  BY <1>1
<1>4. ASSUME NEW i \in 1..n
      PROVE  IsSequence(elements[i])
  <2>1. IsSequence(MarshalSource(items[i]))
    BY <1>1, SourceIsMessage
  <2>2. QED
    BY <1>2, <2>1
<1>5. ASSUME NEW i \in 1..n, NEW x \in Encodings(elements[i], NewerField), NEW c, IsSequence(c)
      PROVE  UnmarshalSource(ZeroSource, x \o c) = Success(values[i], c)
  <2>1. PICK y : y = items[i]
    OBVIOUS
  <2>2. x \in Encodings(MarshalSource(y), NewerField) /\ IsSource(y)
    BY Zenon, <1>1, <1>2, <2>1
  <2>3. UnmarshalSource(ZeroSource, x \o c) = Success(y, c)
    BY <1>5, <2>2, SourceRoundTrip
  <2>4. QED
    BY Zenon, <1>2, <2>1, <2>3
<1>6. SourceReader!AreSequences(elements, n)
  BY Zenon, <1>3, <1>4, SourcesTerms DEF SourceReader!AreSequences
<1>7. \A i \in 1..n : \A x \in SourceReader!Encodings(elements[i], SourceReader!NewerField) : \A c :
        SourceReader!IsSequence(c) =>
            UnmarshalSource(ZeroSource, x \o c) = SourceReader!Success(values[i], c)
  BY <1>5, SourcesTerms
<1>8. QED
  BY Zenon, <1>3, <1>6, <1>7 DEF SourceReader!AreWrittenElements

(* What is written is a sequence of tokens.                                *)
LEMMA SourcesAreMessage ==
  ASSUME NEW slice, AreSources(slice.items)
  PROVE  IsSequence(AppendArray(slice, MarshalSource))
<1>1. PICK elements : elements = [i \in DOMAIN slice.items |-> MarshalSource(slice.items[i])]
  BY Zenon
<1>2. PICK values : values = [i \in DOMAIN slice.items |-> slice.items[i]]
  BY Zenon
<1>3. PICK n \in Nat : n = Len(slice.items)
  BY SequenceDomain DEF AreSources
<1>4. SourceReader!AreWrittenElements(elements, values, ZeroSource, n)
  BY <1>1, <1>2, <1>3, SourcesAreWritten
<1>5. SourceReader!IsSequence(SourceReader!ArrayMessage(elements, n))
  BY <1>4, SourceReader!ArrayIsSequence DEF SourceReader!AreWrittenElements
<1>6. QED
  BY Zenon, <1>1, <1>3, <1>5, SourcesTerms DEF AppendArray

(* Arrays of sources are read back.                                        *)
LEMMA SourcesRoundTrip ==
  ASSUME NEW slice, AreSources(slice.items),
         NEW m \in Encodings(AppendArray(slice, MarshalSource), NewerField), NEW c, IsSequence(c),
         NEW values, values = [i \in DOMAIN slice.items |-> slice.items[i]]
  PROVE  ReadArray(NilSlice, m \o c, ZeroSource, UnmarshalSource)
           = Success(IF slice.items = <<>> THEN NilSlice ELSE SliceOf(values), c)
<1>1. PICK elements : elements = [i \in DOMAIN slice.items |-> MarshalSource(slice.items[i])]
  BY Zenon
<1>2. PICK n \in Nat : n = Len(slice.items)
  BY SequenceDomain DEF AreSources
<1>3. SourceReader!AreWrittenElements(elements, values, ZeroSource, n)
  BY <1>1, <1>2, SourcesAreWritten
<1>4. m \in SourceReader!Encodings(SourceReader!ArrayMessage(elements, n), SourceReader!NewerField)
  BY Zenon, <1>1, <1>2, SourcesTerms DEF AppendArray
<1>5. SourceReader!IsSequence(c) /\ SourceReader!IsSequence(NewerValue)
  BY Zenon, SourcesTerms, NewerValueIsSequence
<1>6. SourceReader!ReadArray(SourceReader!NilSlice, m \o c, ZeroSource, UnmarshalSource)
        = SourceReader!Success(IF n
            = 0 THEN SourceReader!NilSlice ELSE SourceReader!SliceOf(values), c)
  BY <1>3, <1>4, <1>5, SourceReader!ArrayEncodingRoundTrip
<1>7. PICK b : b = m \o c
  BY Zenon
<1>8. ReadArray(NilSlice, b, ZeroSource, UnmarshalSource)
        = SourceReader!Success(IF n
            = 0 THEN SourceReader!NilSlice ELSE SourceReader!SliceOf(values), c)
  BY Zenon, <1>6, <1>7, SourcesTerms
<1>9. ReadArray(NilSlice, b, ZeroSource, UnmarshalSource)
        = Success(IF n = 0 THEN NilSlice ELSE SliceOf(values), c)
  BY Zenon, <1>8, SourcesTerms
<1>10. n = 0 <=> slice.items = <<>>
  BY <1>2, SequenceDomain DEF AreSources
<1>11. QED
  BY Zenon, <1>7, <1>9, <1>10

(* A token that is not nil is not taken for a nil pointer.                 *)
LEMMA TokenIsNotNil ==
  ASSUME NEW kind, NEW v, NEW c, IsSequence(c)
  PROVE  (Token(kind, v) \o c)[1] # <<"nil">>
<1>1. PICK t : t = <<kind, v>>
  OBVIOUS
<1>2. SourceReader!IsSequence(c)
  BY Zenon, SourceTerms
<1>3. (<<t>> \o c)[1] = t
  BY <1>2, SourceReader!OneToken
<1>4. t # <<"nil">>
  BY <1>1
<1>5. QED
  BY Zenon, <1>1, <1>3, <1>4 DEF Token

-----------------------------------------------------------------------------
(* ValuePart                                                               *)

(* What the constructors make of this type.                                *)
IsValuePart(z) ==
  /\ z = [value |-> z.value, pattern |-> z.pattern, redacted |-> z.redacted,
          truncated |-> z.truncated, source |-> z.source, secureMarks |-> z.secureMarks]
  /\ z.redacted \in BOOLEAN /\ z.truncated \in DOMAIN TruncatedSides
  /\ z.source # NilPointer => z.source = NewPointer(z.source[1])
  /\ z.secureMarks = [made |-> z.secureMarks.made, items |-> z.secureMarks.items]
         /\ z.secureMarks.made \in BOOLEAN
  /\ AreMarks(z.secureMarks.items) /\ (~z.secureMarks.made => z.secureMarks.items = <<>>)

(* The fields, by the names of the model and as they are written.          *)
ValuePartAttr == <<"value", "pattern", "redacted", "truncated", "source", "secureMarks">>
ValuePartFields(z) == <<
  Field("value", z.value = <<>>, Token("str", z.value)),
  Field("pattern", z.pattern = <<>>, Token("str", z.pattern)),
  Field("redacted", ~z.redacted, Token("bool", z.redacted)),
  Field("truncated", z.truncated
      = TruncatedSideNone, Token("name", TruncatedSideString(z.truncated))),
  Field("source", z.source = NilPointer, AppendPointer(z.source, LAMBDA i : Token("int", i))),
  Field("secure_marks", ~z.secureMarks.made, AppendArray(z.secureMarks, MarshalVulnerabilityType))>>

(* What the instance means by the names of MessagePack is what they mean.  *)
LEMMA ValuePartTerms ==
  /\ \A s : ValuePartReader!IsSequence(s) = IsSequence(s)
  /\ \A v, c : ValuePartReader!Success(v, c) = Success(v, c)
  /\ \A z, f, r : ValuePartReader!SetField(z, f, r) = SetField(z, f, r)
  /\ \A k, o, v : ValuePartReader!Field(k, o, v) = Field(k, o, v)
  /\ \A k, v : ValuePartReader!Token(k, v) = Token(k, v)
  /\ \A m, f : ValuePartReader!Encodings(m, f) = Encodings(m, f)
  /\ ValuePartReader!NewerField = NewerField
  /\ \A fields : ValuePartReader!AppendMap(fields) = AppendMap(fields)
  /\ \A z, b : ValuePartReader!ReadMap(z, b, UnmarshalValuePartField) = UnmarshalValuePart(z, b)
<1>1. /\ \A s : ValuePartReader!IsSequence(s) = IsSequence(s)
      /\ \A v, c : ValuePartReader!Success(v, c) = Success(v, c)
      /\ \A k, o, v : ValuePartReader!Field(k, o, v) = Field(k, o, v)
      /\ \A k, v : ValuePartReader!Token(k, v) = Token(k, v)
      /\ ValuePartReader!NewerField = NewerField
  BY Zenon DEF
    IsSequence, ValuePartReader!IsSequence, Success, ValuePartReader!Success, Field,
    ValuePartReader!Field, Token, ValuePartReader!Token, NewerField,
    ValuePartReader!NewerField
<1>2. \A z, f, r : ValuePartReader!SetField(z, f, r) = SetField(z, f, r)
  BY Zenon DEF
    SetField, ValuePartReader!SetField, Success, ValuePartReader!Success, Failure,
    ValuePartReader!Failure
<1>3. \A m, f : ValuePartReader!Encodings(m, f) = Encodings(m, f)
  BY Zenon DEF
    Encodings, ValuePartReader!Encodings, WithField, ValuePartReader!WithField, Token,
    ValuePartReader!Token
<1>4. \A fields : ValuePartReader!AppendMap(fields) = AppendMap(fields)
  BY Zenon DEF
    AppendMap, ValuePartReader!AppendMap, AppendFields, ValuePartReader!AppendFields,
    AppendField, ValuePartReader!AppendField, Present, ValuePartReader!Present, Token,
    ValuePartReader!Token, FlattenSeq, ValuePartReader!FlattenSeq, Cardinality,
    ValuePartReader!Cardinality
<1>5. \A z, b : ValuePartReader!ReadMap(z, b, UnmarshalValuePartField) = UnmarshalValuePart(z, b)
  BY Zenon DEF UnmarshalValuePart,
    ReadMap, ValuePartReader!ReadMap, Read, ValuePartReader!Read, Repeat,
    ValuePartReader!Repeat, Success, ValuePartReader!Success, Failure,
    ValuePartReader!Failure
<1>6. QED
  BY Zenon, <1>1, <1>2, <1>3, <1>4, <1>5

(* A field that is one token, as its reader finds it.                      *)
LEMMA ValuePartToken ==
  ASSUME NEW key, NEW omitted, NEW kind, kind # "map", NEW s, NEW g, NEW zero, NEW target,
         omitted => target[g] = zero[g],
         \A z, c : IsSequence(c) /\ z[g] = zero[g] =>
           UnmarshalValuePartField(z, key, Token(kind, s) \o c)
               = SetField(z, g, Success(target[g], c))
  PROVE  ValuePartReader!IsWritten(Field(key, omitted, Token(kind, s)), g, zero, target)
<1>1. \A z, c : ValuePartReader!IsSequence(c) /\ z[g] = zero[g] =>
        UnmarshalValuePartField(z, key, ValuePartReader!Token(kind, s) \o c)
          = ValuePartReader!SetField(z, g, ValuePartReader!Success(target[g], c))
  BY ValuePartTerms
<1>2. ValuePartReader!IsWritten(ValuePartReader!Field(key, omitted, ValuePartReader!Token(kind,
    s)), g, zero, target)
  BY <1>1, ValuePartReader!WrittenToken
<1>3. QED
  BY Zenon, <1>2, ValuePartTerms

(* A field whose token is read as what it holds.                           *)
LEMMA ValuePartPlain ==
  ASSUME NEW key, NEW omitted, NEW kind, kind # "map", NEW s, NEW g, NEW zero, NEW target,
         omitted => target[g] = zero[g], s = target[g],
         \A y, b : UnmarshalValuePartField(y, key, b) = SetField(y, g, Read(kind, b))
  PROVE  ValuePartReader!IsWritten(Field(key, omitted, Token(kind, s)), g, zero, target)
<1>1. \A y, c : IsSequence(c) /\ y[g] = zero[g] =>
        UnmarshalValuePartField(y, key, Token(kind, s) \o c) = SetField(y, g, Success(target[g], c))
  <2>1. TAKE y, c
  <2>2. HAVE IsSequence(c) /\ y[g] = zero[g]
  <2>3. Read(kind, Token(kind, s) \o c) = Success(s, c)
    BY <2>2, TokenIsRead
  <2>4. QED
    BY Zenon, <2>3
<1>2. QED
  BY <1>1, ValuePartToken

(* A field that is a value of several tokens.                              *)
LEMMA ValuePartValue ==
  ASSUME NEW key, NEW omitted, NEW value, NEW g, NEW zero, NEW target,
         ~omitted, IsSequence(value),
         \A x \in Encodings(value, NewerField) : \A z, c : IsSequence(c) /\ z[g] = zero[g] =>
           UnmarshalValuePartField(z, key, x \o c) = SetField(z, g, Success(target[g], c))
  PROVE  ValuePartReader!IsWritten(Field(key, omitted, value), g, zero, target)
<1>1. \A x \in ValuePartReader!Encodings(value, ValuePartReader!NewerField) :
        \A z, c : ValuePartReader!IsSequence(c) /\ z[g] = zero[g] =>
          UnmarshalValuePartField(z, key, x \o c)
              = ValuePartReader!SetField(z, g, ValuePartReader!Success(target[g], c))
  BY ValuePartTerms
<1>2. ValuePartReader!IsSequence(value)
  BY Zenon, ValuePartTerms
<1>3. ValuePartReader!IsWritten(ValuePartReader!Field(key, omitted, value), g, zero, target)
  BY <1>1, <1>2, ValuePartReader!WrittenValue
<1>4. QED
  BY Zenon, <1>3, ValuePartTerms

(* A field that is left out.                                               *)
LEMMA ValuePartOmitted ==
  ASSUME NEW key, NEW omitted, NEW value, NEW g, NEW zero, NEW target,
         omitted, target[g] = zero[g]
  PROVE  ValuePartReader!IsWritten(Field(key, omitted, value), g, zero, target)
<1> DEFINE f == Field(key, omitted, value)
<1>1. f.isOmitted = omitted
  BY DEF Field
<1> HIDE DEF f
<1>2. ValuePartReader!IsWritten(f, g, zero, target)
  BY Zenon, <1>1 DEF ValuePartReader!IsWritten
<1>3. QED
  BY Zenon, <1>2 DEF f

(* A field of a newer model changes nothing.                               *)
LEMMA ValuePartPassesOver ==
  ASSUME NEW z
  PROVE  ValuePartReader!IsPassedOver(z)
<1>1. ValuePartReader!IsSequence(NewerValue)
  BY Zenon, NewerValueIsSequence, ValuePartTerms
<1>2. ASSUME NEW c, ValuePartReader!IsSequence(c)
      PROVE  UnmarshalValuePartField(z, "newer", NewerValue \o c) = ValuePartReader!Success(z, c)
  <2>1. PICK b : b = NewerValue \o c
    OBVIOUS
  <2>2. SkipField(z, b) = Success(z, c)
    BY <1>2, <2>1, ValuePartTerms, NewerFieldSkipped
  <2>3. UnmarshalValuePartField(z, "newer", b) = SkipField(z, b)
    BY DEF UnmarshalValuePartField
  <2>4. QED
    BY Zenon, <2>1, <2>2, <2>3, ValuePartTerms
<1>3. QED
  BY Zenon, <1>1, <1>2 DEF ValuePartReader!IsPassedOver

(* Fields that are written as they are read make a map that is.            *)
LEMMA ValuePartEncoding ==
  ASSUME NEW n \in Nat, NEW fields, NEW target, NEW attr, NEW zero,
         ValuePartReader!AreWritten(fields, n, attr, zero, target),
         NEW m \in Encodings(AppendMap(fields), NewerField), NEW c, IsSequence(c)
  PROVE  UnmarshalValuePart(zero, m \o c) = Success(target, c)
<1>1. ValuePartReader!IsSequence(c)
  BY Zenon, ValuePartTerms
<1>2. m \in ValuePartReader!Encodings(ValuePartReader!AppendMap(fields), ValuePartReader!NewerField)
  BY Zenon, ValuePartTerms
<1>3. ValuePartReader!IsPassedOver(zero)
  BY ValuePartPassesOver
<1>4. ValuePartReader!ReadMap(zero, m \o c, UnmarshalValuePartField)
          = ValuePartReader!Success(target, c)
  BY <1>1, <1>2, <1>3, ValuePartReader!MapEncodingRoundTrip
<1>5. PICK b : b = m \o c
  OBVIOUS
<1>6. UnmarshalValuePart(zero, b) = ValuePartReader!ReadMap(zero, b, UnmarshalValuePartField)
  BY Zenon, ValuePartTerms
<1>7. Success(target, c) = ValuePartReader!Success(target, c)
  BY Zenon, ValuePartTerms
<1>8. QED
  BY Zenon, <1>4, <1>5, <1>6, <1>7

(* How each field is read.                                                 *)
LEMMA ValuePartFieldRead ==
  ASSUME NEW z, NEW b
  PROVE  /\ UnmarshalValuePartField(z, "value", b) = SetField(z, "value", Read("str", b))
         /\ UnmarshalValuePartField(z, "pattern", b) = SetField(z, "pattern", Read("str", b))
         /\ UnmarshalValuePartField(z, "redacted", b) = SetField(z, "redacted", Read("bool", b))
         /\ UnmarshalValuePartField(z, "truncated", b)
                = SetField(z, "truncated", UnmarshalTruncatedSide(z.truncated, b))
         /\ UnmarshalValuePartField(z, "source", b)
                = SetField(z, "source", ReadPointer(z.source, b, 0, LAMBDA i, c : Read("int", c)))
         /\ UnmarshalValuePartField(z, "secure_marks", b)
                = SetField(z, "secureMarks", ReadArray(z.secureMarks, b, 0,
                    UnmarshalVulnerabilityType))
BY DEF UnmarshalValuePartField

(* t is z as a reader makes it.                                            *)
IsValuePartDecoded(z, t) ==
  /\ t = [value |-> t.value, pattern |-> t.pattern, redacted |-> t.redacted,
          truncated |-> t.truncated, source |-> t.source, secureMarks |-> t.secureMarks]
  /\ t.value = z.value /\ t.pattern = z.pattern /\ t.redacted = z.redacted /\
     t.truncated = z.truncated /\ t.source = z.source
  /\ t.secureMarks = IF z.secureMarks.items = <<>> THEN NilSlice
     ELSE SliceOf([i \in DOMAIN z.secureMarks.items |-> z.secureMarks.items[i]])

(* What is decoded, told field by field.                                   *)
LEMMA ValuePartDecoded ==
  ASSUME NEW z, IsValuePart(z)
  PROVE  \E t : t = DecodedPart(z) /\ IsValuePartDecoded(z, t)
<1>1. PICK t : t = DecodedPart(z)
  OBVIOUS
<1>2. t = [z EXCEPT !.secureMarks = DecodedSlice(z.secureMarks)]
  BY <1>1 DEF DecodedPart
<1>3. DecodedSlice(z.secureMarks) = IF z.secureMarks.items = <<>> THEN NilSlice
        ELSE SliceOf([i \in DOMAIN z.secureMarks.items |-> z.secureMarks.items[i]])
  <2>1. CASE z.secureMarks.items = <<>>
    BY <2>1 DEF DecodedSlice
  <2>2. CASE z.secureMarks.items # <<>>
    <3>1. z.secureMarks.items = [i \in DOMAIN z.secureMarks.items |-> z.secureMarks.items[i]]
      BY DEF IsValuePart, AreMarks, IsSequence
    <3>2. DecodedSlice(z.secureMarks) = z.secureMarks
      BY <2>2 DEF DecodedSlice
    <3>3. z.secureMarks = [made |-> TRUE, items |-> z.secureMarks.items]
      BY <2>2 DEF IsValuePart
    <3>4. QED
      BY Zenon, <2>2, <3>1, <3>2, <3>3 DEF SliceOf
  <2>3. QED
    BY <2>1, <2>2
<1>4. PICK s : s = DecodedSlice(z.secureMarks)
  OBVIOUS
<1>5. t = [value |-> z.value, pattern |-> z.pattern, redacted |-> z.redacted,
           truncated |-> z.truncated, source |-> z.source, secureMarks |-> s]
  BY <1>2, <1>4 DEF IsValuePart
<1>6. /\ t = [value |-> t.value, pattern |-> t.pattern, redacted |-> t.redacted,
              truncated |-> t.truncated, source |-> t.source, secureMarks |-> t.secureMarks]
      /\ t.value = z.value /\ t.pattern = z.pattern /\ t.redacted = z.redacted
      /\ t.truncated = z.truncated /\ t.source = z.source
      /\ t.secureMarks = s
  BY <1>5
<1>7. QED
  BY Zenon, <1>1, <1>3, <1>4, <1>6 DEF IsValuePartDecoded

(* The field is read from its value, and all of it.                        *)
ValuePartSourceIsRead(z, t) ==
  LET value == AppendPointer(z.source, LAMBDA i : Token("int", i)) IN
    /\ IsSequence(value)
    /\ \A x \in Encodings(value, NewerField) : \A y, c : IsSequence(c) /\ y.source
           = ZeroValuePart.source =>
         UnmarshalValuePartField(y, "source", x \o c) = SetField(y, "source", Success(t.source, c))

(* The field is read from every encoding of its value.                     *)
LEMMA ReadValuePartSource ==
  ASSUME NEW z, IsValuePart(z), NEW t, IsValuePartDecoded(z, t), z.source # NilPointer
  PROVE  ValuePartSourceIsRead(z, t)
<1>1. PICK i : i = z.source[1]
  BY Zenon
<1>2. t.source = NewPointer(i)
  BY Zenon, <1>1 DEF IsValuePart, IsValuePartDecoded
<1>3. AppendPointer(z.source, LAMBDA j : Token("int", j)) = Token("int", i)
  BY Zenon, <1>1 DEF AppendPointer
<1>4. ZeroValuePart.source = NilPointer
  BY DEF ZeroValuePart
<1>5. IsSequence(Token("int", i))
  BY TokenIsMessage
<1>6. ASSUME NEW x \in Encodings(Token("int", i), NewerField), NEW y, NEW c,
             IsSequence(c), y.source = ZeroValuePart.source
      PROVE  UnmarshalValuePartField(y, "source", x \o c)
          = SetField(y, "source", Success(t.source, c))
  <2>1. PICK b : b = x \o c
    BY Zenon
  <2>2. b = Token("int", i) \o c
    BY <1>6, <2>1, TokenEncoding
  <2>3. Read("int", b) = Success(i, c)
    BY <1>6, <2>2, TokenIsRead
  <2>4. b[1] # <<"nil">>
    BY <1>6, <2>2, TokenIsNotNil
  <2>5. Success(i, c).ok = TRUE /\ Success(i, c).v = i /\ Success(i, c).rest = c
    BY ZenonT(30), SucceededAs
  <2>6. ReadPointer(NilPointer, b, 0, LAMBDA j, d : Read("int", d)) = Success(NewPointer(i), c)
    BY Zenon, <2>3, <2>4, <2>5 DEF ReadPointer
  <2>7. y.source = NilPointer
    BY Zenon, <1>4, <1>6
  <2>8. QED
    BY Zenon, <1>2, <2>1, <2>6, <2>7, ValuePartFieldRead
<1>7. QED
  BY Zenon, <1>3, <1>5, <1>6 DEF ValuePartSourceIsRead

(* The field is read from its value, and all of it.                        *)
ValuePartSecureMarksIsRead(z, t) ==
  LET value == AppendArray(z.secureMarks, MarshalVulnerabilityType) IN
    /\ IsSequence(value)
    /\ \A x \in Encodings(value, NewerField) : \A y, c : IsSequence(c) /\ y.secureMarks
           = ZeroValuePart.secureMarks =>
         UnmarshalValuePartField(y, "secure_marks", x \o c)
             = SetField(y, "secureMarks", Success(t.secureMarks, c))

(* The field is read from every encoding of its value.                     *)
LEMMA ReadValuePartSecureMarks ==
  ASSUME NEW z, IsValuePart(z), NEW t, IsValuePartDecoded(z, t), z.secureMarks.made
  PROVE  ValuePartSecureMarksIsRead(z, t)
<1>1. PICK slice : slice = z.secureMarks
  BY Zenon
<1>2. AreMarks(slice.items)
  BY <1>1 DEF IsValuePart
<1>3. PICK values : values = [i \in DOMAIN slice.items |-> slice.items[i]]
  BY Zenon
<1>4. t.secureMarks = IF slice.items = <<>> THEN NilSlice ELSE SliceOf(values)
  BY Zenon, <1>1, <1>3 DEF IsValuePartDecoded
<1>5. ZeroValuePart.secureMarks = NilSlice
  BY DEF ZeroValuePart
<1>6. IsSequence(AppendArray(slice, MarshalVulnerabilityType))
  BY <1>2, MarksAreMessage
<1>7. ASSUME NEW x \in Encodings(AppendArray(slice, MarshalVulnerabilityType), NewerField),
    NEW y, NEW c,
             IsSequence(c), y.secureMarks = ZeroValuePart.secureMarks
      PROVE  UnmarshalValuePartField(y, "secure_marks", x \o c)
          = SetField(y, "secureMarks", Success(t.secureMarks, c))
  <2>1. ReadArray(NilSlice, x \o c, 0, UnmarshalVulnerabilityType)
          = Success(IF slice.items = <<>> THEN NilSlice ELSE SliceOf(values), c)
    BY <1>2, <1>3, <1>7, MarksRoundTrip
  <2>2. y.secureMarks = NilSlice
    BY Zenon, <1>5, <1>7
  <2>3. QED
    BY ZenonT(30), <1>4, <2>1, <2>2, ValuePartFieldRead
<1>8. QED
  BY Zenon, <1>1, <1>6, <1>7 DEF ValuePartSecureMarksIsRead

(* Every field of the type is written as it is read.                       *)
LEMMA ValuePartIsWritten ==
  ASSUME NEW z, IsValuePart(z), NEW t, IsValuePartDecoded(z, t)
  PROVE  ValuePartReader!AreWritten(ValuePartFields(z), 6, ValuePartAttr, ZeroValuePart, t)
<1>1. ValuePartReader!IsWritten(ValuePartFields(z)[1], "value", ZeroValuePart, t)
  <2>1. \A y, b : UnmarshalValuePartField(y, "value", b) = SetField(y, "value", Read("str", b))
    BY Zenon, ValuePartFieldRead
  <2>2. /\ z.value = <<>> => t.value = ZeroValuePart.value
        /\ z.value = t.value
    BY DEF ZeroValuePart, IsValuePart, IsValuePartDecoded
  <2>3. ValuePartReader!IsWritten(Field("value", z.value
            = <<>>, Token("str", z.value)), "value", ZeroValuePart, t)
    BY <2>1, <2>2, ValuePartPlain
  <2>4. QED
    BY <2>3 DEF ValuePartFields
<1>2. ValuePartReader!IsWritten(ValuePartFields(z)[2], "pattern", ZeroValuePart, t)
  <2>1. \A y, b : UnmarshalValuePartField(y, "pattern", b) = SetField(y, "pattern", Read("str", b))
    BY Zenon, ValuePartFieldRead
  <2>2. /\ z.pattern = <<>> => t.pattern = ZeroValuePart.pattern
        /\ z.pattern = t.pattern
    BY DEF ZeroValuePart, IsValuePart, IsValuePartDecoded
  <2>3. ValuePartReader!IsWritten(Field("pattern", z.pattern
            = <<>>, Token("str", z.pattern)), "pattern", ZeroValuePart, t)
    BY <2>1, <2>2, ValuePartPlain
  <2>4. QED
    BY <2>3 DEF ValuePartFields
<1>3. ValuePartReader!IsWritten(ValuePartFields(z)[3], "redacted", ZeroValuePart, t)
  <2>1. \A y, b : UnmarshalValuePartField(y, "redacted", b)
            = SetField(y, "redacted", Read("bool", b))
    BY Zenon, ValuePartFieldRead
  <2>2. /\ ~z.redacted => t.redacted = ZeroValuePart.redacted
        /\ z.redacted = t.redacted
    BY DEF ZeroValuePart, IsValuePart, IsValuePartDecoded
  <2>3. ValuePartReader!IsWritten(Field("redacted", ~z.redacted, Token("bool", z.redacted)),
      "redacted", ZeroValuePart, t)
    BY <2>1, <2>2, ValuePartPlain
  <2>4. QED
    BY <2>3 DEF ValuePartFields
<1>4. ValuePartReader!IsWritten(ValuePartFields(z)[4], "truncated", ZeroValuePart, t)
  <2>1. \A y, c : IsSequence(c) =>
          UnmarshalValuePartField(y, "truncated", Token("name",
              TruncatedSideString(z.truncated)) \o c)
                  = SetField(y, "truncated", Success(t.truncated, c))
    <3>1. TAKE y, c
    <3>2. HAVE IsSequence(c)
    <3>3. UnmarshalTruncatedSide(y.truncated, MarshalTruncatedSide(z.truncated) \o c)
              = Success(z.truncated, c)
      BY <3>2, TruncatedSideIsRead DEF IsValuePart
    <3>4. z.truncated = t.truncated
      BY DEF IsValuePart, IsValuePartDecoded
    <3>5. QED
      BY Zenon, <3>3, <3>4, ValuePartFieldRead DEF MarshalTruncatedSide
  <2>2. z.truncated = TruncatedSideNone => t.truncated = ZeroValuePart.truncated
    BY DEF ZeroValuePart, IsValuePartDecoded
  <2>3. ValuePartReader!IsWritten(Field("truncated", z.truncated
            = TruncatedSideNone, Token("name", TruncatedSideString(z.truncated))), "truncated",
                ZeroValuePart, t)
    BY <2>1, <2>2, ValuePartToken
  <2>4. QED
    BY <2>3 DEF ValuePartFields
<1>5. ValuePartReader!IsWritten(ValuePartFields(z)[5], "source", ZeroValuePart, t)
  <2>1. CASE z.source = NilPointer
    <3>1. t.source = ZeroValuePart.source
      BY <2>1 DEF ZeroValuePart, IsValuePart, IsValuePartDecoded
    <3>2. ValuePartReader!IsWritten(Field("source", z.source
              = NilPointer, AppendPointer(z.source, LAMBDA i : Token("int", i))), "source",
                  ZeroValuePart, t)
      BY <2>1, <3>1, ValuePartOmitted
    <3>3. QED
      BY <3>2 DEF ValuePartFields
  <2>2. CASE ~(z.source = NilPointer)
    <3>1. ValuePartSourceIsRead(z, t)
      BY <2>2, ReadValuePartSource
    <3>2. ValuePartReader!IsWritten(Field("source", z.source
              = NilPointer, AppendPointer(z.source, LAMBDA i : Token("int", i))), "source",
                  ZeroValuePart, t)
      BY <2>2, <3>1, ValuePartValue DEF ValuePartSourceIsRead
    <3>3. QED
      BY <3>2 DEF ValuePartFields
  <2>3. QED
    BY <2>1, <2>2
<1>6. ValuePartReader!IsWritten(ValuePartFields(z)[6], "secureMarks", ZeroValuePart, t)
  <2>1. CASE ~z.secureMarks.made
    <3>1. t.secureMarks = ZeroValuePart.secureMarks
      BY <2>1 DEF ZeroValuePart, IsValuePart, IsValuePartDecoded
    <3>2. ValuePartReader!IsWritten(Field("secure_marks", ~z.secureMarks.made,
        AppendArray(z.secureMarks, MarshalVulnerabilityType)), "secureMarks", ZeroValuePart, t)
      BY <2>1, <3>1, ValuePartOmitted
    <3>3. QED
      BY <3>2 DEF ValuePartFields
  <2>2. CASE ~(~z.secureMarks.made)
    <3>1. ValuePartSecureMarksIsRead(z, t)
      BY <2>2, ReadValuePartSecureMarks
    <3>2. ValuePartReader!IsWritten(Field("secure_marks", ~z.secureMarks.made,
        AppendArray(z.secureMarks, MarshalVulnerabilityType)), "secureMarks", ZeroValuePart, t)
      BY <2>2, <3>1, ValuePartValue DEF ValuePartSecureMarksIsRead
    <3>3. QED
      BY <3>2 DEF ValuePartFields
  <2>3. QED
    BY <2>1, <2>2
<1>7. DOMAIN ValuePartFields(z) = 1..6
  BY DEF ValuePartFields
<1>8. \A i \in 1..6 : ValuePartReader!IsWritten(ValuePartFields(z)[i], ValuePartAttr[i],
    ZeroValuePart, t)
  BY <1>1, <1>2, <1>3, <1>4, <1>5, <1>6 DEF ValuePartAttr
<1>9. DOMAIN ZeroValuePart = {"value", "pattern", "redacted", "truncated", "source", "secureMarks"}
  BY DEF ZeroValuePart
<1>10. ZeroValuePart = [g \in DOMAIN ZeroValuePart |-> ZeroValuePart[g]] /\ t
           = [g \in DOMAIN ZeroValuePart |-> t[g]]
  BY DEF ZeroValuePart, IsValuePart, IsValuePartDecoded
<1>11. /\ \A i \in 1..6 : ValuePartAttr[i] \in DOMAIN ZeroValuePart
       /\ \A g \in DOMAIN ZeroValuePart : \E i \in 1..6 : ValuePartAttr[i] = g
       /\ \A i, j \in 1..6 : ValuePartAttr[i] = ValuePartAttr[j] => i = j
  BY <1>9 DEF ValuePartAttr
<1>12. QED
  BY Zenon, <1>7, <1>8, <1>10, <1>11 DEF ValuePartReader!AreWritten

(* A part of a value is written as the map of its fields.                  *)
LEMMA MarshalledValuePart ==
  ASSUME NEW z
  PROVE  MarshalValuePart(z) = AppendMap(ValuePartFields(z))
BY Zenon DEF MarshalValuePart, ValuePartFields, MarshalTruncatedSide

(* What is written is a sequence of tokens.                                *)
LEMMA ValuePartIsMessage ==
  ASSUME NEW z, IsValuePart(z)
  PROVE  IsSequence(MarshalValuePart(z))
<1>0. PICK t : t = DecodedPart(z) /\ IsValuePartDecoded(z, t)
  BY ValuePartDecoded
<1>1. ValuePartReader!AreWritten(ValuePartFields(z), 6, ValuePartAttr, ZeroValuePart, t)
  BY <1>0, ValuePartIsWritten
<1>2. ValuePartReader!IsSequence(ValuePartReader!AppendMap(ValuePartFields(z)))
  BY <1>1, ValuePartReader!MapIsSequence
<1>3. QED
  BY Zenon, <1>2, ValuePartTerms, MarshalledValuePart

(* Every encoding is read as what was encoded, whatever follows it.        *)
LEMMA ValuePartRoundTrip ==
  ASSUME NEW z, IsValuePart(z), NEW m \in Encodings(MarshalValuePart(z), NewerField), NEW c,
         IsSequence(c)
  PROVE  UnmarshalValuePart(ZeroValuePart, m \o c) = Success(DecodedPart(z), c)
<1>0. PICK t : t = DecodedPart(z) /\ IsValuePartDecoded(z, t)
  BY ValuePartDecoded
<1>1. ValuePartReader!AreWritten(ValuePartFields(z), 6, ValuePartAttr, ZeroValuePart, t)
  BY <1>0, ValuePartIsWritten
<1>2. m \in Encodings(AppendMap(ValuePartFields(z)), NewerField)
  BY Zenon, MarshalledValuePart
<1>3. UnmarshalValuePart(ZeroValuePart, m \o c) = Success(t, c)
  BY <1>1, <1>2, ValuePartEncoding
<1>4. QED
  BY Zenon, <1>0, <1>3

(* What the instance means by the names of MessagePack is what they mean.  *)
LEMMA ValuePartsTerms ==
  /\ \A s : ValuePartReader!IsSequence(s) = IsSequence(s)
  /\ \A v, c : ValuePartReader!Success(v, c) = Success(v, c)
  /\ \A m, f : ValuePartReader!Encodings(m, f) = Encodings(m, f)
  /\ ValuePartReader!NewerField = NewerField
  /\ ValuePartReader!NilSlice = NilSlice
  /\ \A items : ValuePartReader!SliceOf(items) = SliceOf(items)
  /\ \A elements, n : ValuePartReader!ArrayMessage(elements, n)
         = Token("array", n) \o FlattenSeq(elements)
  /\ \A s, b, z : ValuePartReader!ReadArray(s, b, z, UnmarshalValuePart)
         = ReadArray(s, b, z, UnmarshalValuePart)
<1>1. /\ \A s : ValuePartReader!IsSequence(s) = IsSequence(s)
      /\ \A v, c : ValuePartReader!Success(v, c) = Success(v, c)
      /\ ValuePartReader!NewerField = NewerField
      /\ ValuePartReader!NilSlice = NilSlice
      /\ \A items : ValuePartReader!SliceOf(items) = SliceOf(items)
  BY Zenon DEF
    IsSequence, ValuePartReader!IsSequence, Success, ValuePartReader!Success,
    NewerField, ValuePartReader!NewerField, Token, ValuePartReader!Token, NilSlice,
    ValuePartReader!NilSlice, SliceOf, ValuePartReader!SliceOf
<1>2. \A m, f : ValuePartReader!Encodings(m, f) = Encodings(m, f)
  BY Zenon DEF
    Encodings, ValuePartReader!Encodings, WithField, ValuePartReader!WithField, Token,
    ValuePartReader!Token
<1>3. \A elements, n : ValuePartReader!ArrayMessage(elements, n)
          = Token("array", n) \o FlattenSeq(elements)
  BY Zenon DEF ValuePartReader!ArrayMessage,
    Token, ValuePartReader!Token, FlattenSeq, ValuePartReader!FlattenSeq
<1>4. \A s, b, z : ValuePartReader!ReadArray(s, b, z, UnmarshalValuePart)
          = ReadArray(s, b, z, UnmarshalValuePart)
  BY Zenon DEF
    ReadArray, ValuePartReader!ReadArray, Read, ValuePartReader!Read, Repeat,
    ValuePartReader!Repeat, Success, ValuePartReader!Success, Failure,
    ValuePartReader!Failure, SliceOf, ValuePartReader!SliceOf
<1>5. QED
  BY Zenon, <1>1, <1>2, <1>3, <1>4

AreValueParts(items) == IsSequence(items) /\ \A i \in DOMAIN items : IsValuePart(items[i])

(* So is every element.                                                    *)
LEMMA ValuePartsAreWritten ==
  ASSUME NEW items, AreValueParts(items), NEW elements, NEW values, NEW n, n = Len(items),
         elements = [i \in DOMAIN items |-> MarshalValuePart(items[i])],
         values = [i \in DOMAIN items |-> DecodedPart(items[i])]
  PROVE  ValuePartReader!AreWrittenElements(elements, values, ZeroValuePart, n)
<1>1. n \in Nat /\ DOMAIN items = 1..n /\ \A i \in 1..n : IsValuePart(items[i])
  BY SequenceDomain DEF AreValueParts
<1>2. \A i \in 1..n : elements[i] = MarshalValuePart(items[i]) /\ values[i] = DecodedPart(items[i])
  BY <1>1
<1>3. elements = [i \in 1..n |-> elements[i]] /\ values = [i \in 1..n |-> values[i]]
  BY <1>1
<1>4. ASSUME NEW i \in 1..n
      PROVE  IsSequence(elements[i])
  <2>1. IsSequence(MarshalValuePart(items[i]))
    BY <1>1, ValuePartIsMessage
  <2>2. QED
    BY <1>2, <2>1
<1>5. ASSUME NEW i \in 1..n, NEW x \in Encodings(elements[i], NewerField), NEW c, IsSequence(c)
      PROVE  UnmarshalValuePart(ZeroValuePart, x \o c) = Success(values[i], c)
  <2>1. PICK y : y = items[i]
    OBVIOUS
  <2>2. x \in Encodings(MarshalValuePart(y), NewerField) /\ IsValuePart(y)
    BY Zenon, <1>1, <1>2, <2>1
  <2>3. UnmarshalValuePart(ZeroValuePart, x \o c) = Success(DecodedPart(y), c)
    BY <1>5, <2>2, ValuePartRoundTrip
  <2>4. QED
    BY Zenon, <1>2, <2>1, <2>3
<1>6. ValuePartReader!AreSequences(elements, n)
  BY Zenon, <1>3, <1>4, ValuePartsTerms DEF ValuePartReader!AreSequences
<1>7. \A i \in 1..n : \A x \in ValuePartReader!Encodings(elements[i],
    ValuePartReader!NewerField) : \A c :
        ValuePartReader!IsSequence(c) =>
            UnmarshalValuePart(ZeroValuePart, x \o c) = ValuePartReader!Success(values[i], c)
  BY <1>5, ValuePartsTerms
<1>8. QED
  BY Zenon, <1>3, <1>6, <1>7 DEF ValuePartReader!AreWrittenElements

(* What is written is a sequence of tokens.                                *)
LEMMA ValuePartsAreMessage ==
  ASSUME NEW slice, AreValueParts(slice.items)
  PROVE  IsSequence(AppendArray(slice, MarshalValuePart))
<1>1. PICK elements : elements = [i \in DOMAIN slice.items |-> MarshalValuePart(slice.items[i])]
  BY Zenon
<1>2. PICK values : values = [i \in DOMAIN slice.items |-> DecodedPart(slice.items[i])]
  BY Zenon
<1>3. PICK n \in Nat : n = Len(slice.items)
  BY SequenceDomain DEF AreValueParts
<1>4. ValuePartReader!AreWrittenElements(elements, values, ZeroValuePart, n)
  BY <1>1, <1>2, <1>3, ValuePartsAreWritten
<1>5. ValuePartReader!IsSequence(ValuePartReader!ArrayMessage(elements, n))
  BY <1>4, ValuePartReader!ArrayIsSequence DEF ValuePartReader!AreWrittenElements
<1>6. QED
  BY Zenon, <1>1, <1>3, <1>5, ValuePartsTerms DEF AppendArray

(* Arrays of parts are read back.                                          *)
LEMMA ValuePartsRoundTrip ==
  ASSUME NEW slice, AreValueParts(slice.items),
         NEW m \in Encodings(AppendArray(slice, MarshalValuePart), NewerField), NEW c,
         IsSequence(c),
         NEW values, values = [i \in DOMAIN slice.items |-> DecodedPart(slice.items[i])]
  PROVE  ReadArray(NilSlice, m \o c, ZeroValuePart, UnmarshalValuePart)
           = Success(IF slice.items = <<>> THEN NilSlice ELSE SliceOf(values), c)
<1>1. PICK elements : elements = [i \in DOMAIN slice.items |-> MarshalValuePart(slice.items[i])]
  BY Zenon
<1>2. PICK n \in Nat : n = Len(slice.items)
  BY SequenceDomain DEF AreValueParts
<1>3. ValuePartReader!AreWrittenElements(elements, values, ZeroValuePart, n)
  BY <1>1, <1>2, ValuePartsAreWritten
<1>4. m \in ValuePartReader!Encodings(ValuePartReader!ArrayMessage(elements, n),
    ValuePartReader!NewerField)
  BY Zenon, <1>1, <1>2, ValuePartsTerms DEF AppendArray
<1>5. ValuePartReader!IsSequence(c) /\ ValuePartReader!IsSequence(NewerValue)
  BY Zenon, ValuePartsTerms, NewerValueIsSequence
<1>6. ValuePartReader!ReadArray(ValuePartReader!NilSlice, m \o c, ZeroValuePart, UnmarshalValuePart)
        = ValuePartReader!Success(IF n
            = 0 THEN ValuePartReader!NilSlice ELSE ValuePartReader!SliceOf(values), c)
  BY <1>3, <1>4, <1>5, ValuePartReader!ArrayEncodingRoundTrip
<1>7. PICK b : b = m \o c
  BY Zenon
<1>8. ReadArray(NilSlice, b, ZeroValuePart, UnmarshalValuePart)
        = ValuePartReader!Success(IF n
            = 0 THEN ValuePartReader!NilSlice ELSE ValuePartReader!SliceOf(values), c)
  BY Zenon, <1>6, <1>7, ValuePartsTerms
<1>9. ReadArray(NilSlice, b, ZeroValuePart, UnmarshalValuePart)
        = Success(IF n = 0 THEN NilSlice ELSE SliceOf(values), c)
  BY Zenon, <1>8, ValuePartsTerms
<1>10. n = 0 <=> slice.items = <<>>
  BY <1>2, SequenceDomain DEF AreValueParts
<1>11. QED
  BY Zenon, <1>7, <1>9, <1>10

-----------------------------------------------------------------------------
(* Evidence                                                                *)

(* What the constructors make of this type.                                *)
IsEvidence(z) ==
  /\ z = [value |-> z.value, pattern |-> z.pattern, redacted |-> z.redacted,
          truncated |-> z.truncated, valueParts |-> z.valueParts]
  /\ z.redacted \in BOOLEAN /\ z.truncated \in DOMAIN TruncatedSides
  /\ z.valueParts = [made |-> z.valueParts.made, items |-> z.valueParts.items]
         /\ z.valueParts.made \in BOOLEAN
  /\ AreValueParts(z.valueParts.items) /\ (~z.valueParts.made => z.valueParts.items = <<>>)

(* The fields, by the names of the model and as they are written.          *)
EvidenceAttr == <<"value", "pattern", "redacted", "truncated", "valueParts">>
EvidenceFields(z) == <<
  Field("value", z.value = <<>>, Token("str", z.value)),
  Field("pattern", z.pattern = <<>>, Token("str", z.pattern)),
  Field("redacted", ~z.redacted, Token("bool", z.redacted)),
  Field("truncated", z.truncated
      = TruncatedSideNone, Token("name", TruncatedSideString(z.truncated))),
  Field("valueParts", ~z.valueParts.made, AppendArray(z.valueParts, MarshalValuePart))>>

(* What the instance means by the names of MessagePack is what they mean.  *)
LEMMA EvidenceTerms ==
  /\ \A s : EvidenceReader!IsSequence(s) = IsSequence(s)
  /\ \A v, c : EvidenceReader!Success(v, c) = Success(v, c)
  /\ \A z, f, r : EvidenceReader!SetField(z, f, r) = SetField(z, f, r)
  /\ \A k, o, v : EvidenceReader!Field(k, o, v) = Field(k, o, v)
  /\ \A k, v : EvidenceReader!Token(k, v) = Token(k, v)
  /\ \A m, f : EvidenceReader!Encodings(m, f) = Encodings(m, f)
  /\ EvidenceReader!NewerField = NewerField
  /\ \A fields : EvidenceReader!AppendMap(fields) = AppendMap(fields)
  /\ \A z, b : EvidenceReader!ReadMap(z, b, UnmarshalEvidenceField) = UnmarshalEvidence(z, b)
<1>1. /\ \A s : EvidenceReader!IsSequence(s) = IsSequence(s)
      /\ \A v, c : EvidenceReader!Success(v, c) = Success(v, c)
      /\ \A k, o, v : EvidenceReader!Field(k, o, v) = Field(k, o, v)
      /\ \A k, v : EvidenceReader!Token(k, v) = Token(k, v)
      /\ EvidenceReader!NewerField = NewerField
  BY Zenon DEF
    IsSequence, EvidenceReader!IsSequence, Success, EvidenceReader!Success, Field,
    EvidenceReader!Field, Token, EvidenceReader!Token, NewerField,
    EvidenceReader!NewerField
<1>2. \A z, f, r : EvidenceReader!SetField(z, f, r) = SetField(z, f, r)
  BY Zenon DEF
    SetField, EvidenceReader!SetField, Success, EvidenceReader!Success, Failure,
    EvidenceReader!Failure
<1>3. \A m, f : EvidenceReader!Encodings(m, f) = Encodings(m, f)
  BY Zenon DEF
    Encodings, EvidenceReader!Encodings, WithField, EvidenceReader!WithField, Token,
    EvidenceReader!Token
<1>4. \A fields : EvidenceReader!AppendMap(fields) = AppendMap(fields)
  BY Zenon DEF
    AppendMap, EvidenceReader!AppendMap, AppendFields, EvidenceReader!AppendFields,
    AppendField, EvidenceReader!AppendField, Present, EvidenceReader!Present, Token,
    EvidenceReader!Token, FlattenSeq, EvidenceReader!FlattenSeq, Cardinality,
    EvidenceReader!Cardinality
<1>5. \A z, b : EvidenceReader!ReadMap(z, b, UnmarshalEvidenceField) = UnmarshalEvidence(z, b)
  BY Zenon DEF UnmarshalEvidence,
    ReadMap, EvidenceReader!ReadMap, Read, EvidenceReader!Read, Repeat,
    EvidenceReader!Repeat, Success, EvidenceReader!Success, Failure,
    EvidenceReader!Failure
<1>6. QED
  BY Zenon, <1>1, <1>2, <1>3, <1>4, <1>5

(* A field that is one token, as its reader finds it.                      *)
LEMMA EvidenceToken ==
  ASSUME NEW key, NEW omitted, NEW kind, kind # "map", NEW s, NEW g, NEW zero, NEW target,
         omitted => target[g] = zero[g],
         \A z, c : IsSequence(c) /\ z[g] = zero[g] =>
           UnmarshalEvidenceField(z, key, Token(kind, s) \o c)
               = SetField(z, g, Success(target[g], c))
  PROVE  EvidenceReader!IsWritten(Field(key, omitted, Token(kind, s)), g, zero, target)
<1>1. \A z, c : EvidenceReader!IsSequence(c) /\ z[g] = zero[g] =>
        UnmarshalEvidenceField(z, key, EvidenceReader!Token(kind, s) \o c)
          = EvidenceReader!SetField(z, g, EvidenceReader!Success(target[g], c))
  BY EvidenceTerms
<1>2. EvidenceReader!IsWritten(EvidenceReader!Field(key, omitted, EvidenceReader!Token(kind, s)),
    g, zero, target)
  BY <1>1, EvidenceReader!WrittenToken
<1>3. QED
  BY Zenon, <1>2, EvidenceTerms

(* A field whose token is read as what it holds.                           *)
LEMMA EvidencePlain ==
  ASSUME NEW key, NEW omitted, NEW kind, kind # "map", NEW s, NEW g, NEW zero, NEW target,
         omitted => target[g] = zero[g], s = target[g],
         \A y, b : UnmarshalEvidenceField(y, key, b) = SetField(y, g, Read(kind, b))
  PROVE  EvidenceReader!IsWritten(Field(key, omitted, Token(kind, s)), g, zero, target)
<1>1. \A y, c : IsSequence(c) /\ y[g] = zero[g] =>
        UnmarshalEvidenceField(y, key, Token(kind, s) \o c) = SetField(y, g, Success(target[g], c))
  <2>1. TAKE y, c
  <2>2. HAVE IsSequence(c) /\ y[g] = zero[g]
  <2>3. Read(kind, Token(kind, s) \o c) = Success(s, c)
    BY <2>2, TokenIsRead
  <2>4. QED
    BY Zenon, <2>3
<1>2. QED
  BY <1>1, EvidenceToken

(* A field that is a value of several tokens.                              *)
LEMMA EvidenceValue ==
  ASSUME NEW key, NEW omitted, NEW value, NEW g, NEW zero, NEW target,
         ~omitted, IsSequence(value),
         \A x \in Encodings(value, NewerField) : \A z, c : IsSequence(c) /\ z[g] = zero[g] =>
           UnmarshalEvidenceField(z, key, x \o c) = SetField(z, g, Success(target[g], c))
  PROVE  EvidenceReader!IsWritten(Field(key, omitted, value), g, zero, target)
<1>1. \A x \in EvidenceReader!Encodings(value, EvidenceReader!NewerField) :
        \A z, c : EvidenceReader!IsSequence(c) /\ z[g] = zero[g] =>
          UnmarshalEvidenceField(z, key, x \o c)
              = EvidenceReader!SetField(z, g, EvidenceReader!Success(target[g], c))
  BY EvidenceTerms
<1>2. EvidenceReader!IsSequence(value)
  BY Zenon, EvidenceTerms
<1>3. EvidenceReader!IsWritten(EvidenceReader!Field(key, omitted, value), g, zero, target)
  BY <1>1, <1>2, EvidenceReader!WrittenValue
<1>4. QED
  BY Zenon, <1>3, EvidenceTerms

(* A field that is left out.                                               *)
LEMMA EvidenceOmitted ==
  ASSUME NEW key, NEW omitted, NEW value, NEW g, NEW zero, NEW target,
         omitted, target[g] = zero[g]
  PROVE  EvidenceReader!IsWritten(Field(key, omitted, value), g, zero, target)
<1> DEFINE f == Field(key, omitted, value)
<1>1. f.isOmitted = omitted
  BY DEF Field
<1> HIDE DEF f
<1>2. EvidenceReader!IsWritten(f, g, zero, target)
  BY Zenon, <1>1 DEF EvidenceReader!IsWritten
<1>3. QED
  BY Zenon, <1>2 DEF f

(* A field of a newer model changes nothing.                               *)
LEMMA EvidencePassesOver ==
  ASSUME NEW z
  PROVE  EvidenceReader!IsPassedOver(z)
<1>1. EvidenceReader!IsSequence(NewerValue)
  BY Zenon, NewerValueIsSequence, EvidenceTerms
<1>2. ASSUME NEW c, EvidenceReader!IsSequence(c)
      PROVE  UnmarshalEvidenceField(z, "newer", NewerValue \o c) = EvidenceReader!Success(z, c)
  <2>1. PICK b : b = NewerValue \o c
    OBVIOUS
  <2>2. SkipField(z, b) = Success(z, c)
    BY <1>2, <2>1, EvidenceTerms, NewerFieldSkipped
  <2>3. UnmarshalEvidenceField(z, "newer", b) = SkipField(z, b)
    BY DEF UnmarshalEvidenceField
  <2>4. QED
    BY Zenon, <2>1, <2>2, <2>3, EvidenceTerms
<1>3. QED
  BY Zenon, <1>1, <1>2 DEF EvidenceReader!IsPassedOver

(* Fields that are written as they are read make a map that is.            *)
LEMMA EvidenceEncoding ==
  ASSUME NEW n \in Nat, NEW fields, NEW target, NEW attr, NEW zero,
         EvidenceReader!AreWritten(fields, n, attr, zero, target),
         NEW m \in Encodings(AppendMap(fields), NewerField), NEW c, IsSequence(c)
  PROVE  UnmarshalEvidence(zero, m \o c) = Success(target, c)
<1>1. EvidenceReader!IsSequence(c)
  BY Zenon, EvidenceTerms
<1>2. m \in EvidenceReader!Encodings(EvidenceReader!AppendMap(fields), EvidenceReader!NewerField)
  BY Zenon, EvidenceTerms
<1>3. EvidenceReader!IsPassedOver(zero)
  BY EvidencePassesOver
<1>4. EvidenceReader!ReadMap(zero, m \o c, UnmarshalEvidenceField)
          = EvidenceReader!Success(target, c)
  BY <1>1, <1>2, <1>3, EvidenceReader!MapEncodingRoundTrip
<1>5. PICK b : b = m \o c
  OBVIOUS
<1>6. UnmarshalEvidence(zero, b) = EvidenceReader!ReadMap(zero, b, UnmarshalEvidenceField)
  BY Zenon, EvidenceTerms
<1>7. Success(target, c) = EvidenceReader!Success(target, c)
  BY Zenon, EvidenceTerms
<1>8. QED
  BY Zenon, <1>4, <1>5, <1>6, <1>7

(* How each field is read.                                                 *)
LEMMA EvidenceFieldRead ==
  ASSUME NEW z, NEW b
  PROVE  /\ UnmarshalEvidenceField(z, "value", b) = SetField(z, "value", Read("str", b))
         /\ UnmarshalEvidenceField(z, "pattern", b) = SetField(z, "pattern", Read("str", b))
         /\ UnmarshalEvidenceField(z, "redacted", b) = SetField(z, "redacted", Read("bool", b))
         /\ UnmarshalEvidenceField(z, "truncated", b)
                = SetField(z, "truncated", UnmarshalTruncatedSide(z.truncated, b))
         /\ UnmarshalEvidenceField(z, "valueParts", b)
                = SetField(z, "valueParts", ReadArray(z.valueParts, b, ZeroValuePart,
                    UnmarshalValuePart))
BY DEF UnmarshalEvidenceField

(* t is z as a reader makes it.                                            *)
IsEvidenceDecoded(z, t) ==
  /\ t = [value |-> t.value, pattern |-> t.pattern, redacted |-> t.redacted,
          truncated |-> t.truncated, valueParts |-> t.valueParts]
  /\ t.value = z.value /\ t.pattern = z.pattern /\ t.redacted = z.redacted /\
     t.truncated = z.truncated
  /\ t.valueParts = IF z.valueParts.items = <<>> THEN NilSlice
     ELSE SliceOf([i \in DOMAIN z.valueParts.items |-> DecodedPart(z.valueParts.items[i])])

(* What is decoded, told field by field.                                   *)
LEMMA EvidenceDecoded ==
  ASSUME NEW z, IsEvidence(z)
  PROVE  \E t : t = DecodedEvidence(z) /\ IsEvidenceDecoded(z, t)
<1>1. PICK parts : parts = z.valueParts.items
  OBVIOUS
<1>2. PICK decoded : decoded = [i \in DOMAIN parts |-> DecodedPart(parts[i])]
  OBVIOUS
<1>3. PICK slice : slice = DecodedParts(z.valueParts)
  OBVIOUS
<1>4. PICK s : s = DecodedSlice(slice)
  OBVIOUS
<1>5. DecodedEvidence(z) = [z EXCEPT !.valueParts = s]
  BY <1>3, <1>4 DEF DecodedEvidence
<1>6. slice = [made |-> z.valueParts.made, items |-> decoded]
  <2>1. DecodedParts(z.valueParts) =
          [z.valueParts EXCEPT !.items =
             [i \in DOMAIN z.valueParts.items |-> DecodedPart(z.valueParts.items[i])]]
    BY DEF DecodedParts
  <2>2. slice = [z.valueParts EXCEPT !.items = decoded]
    BY Zenon, <1>1, <1>2, <1>3, <2>1
  <2>3. QED
    BY <2>2 DEF IsEvidence
<1>7. parts = <<>> <=> decoded = <<>>
  <2>1. DOMAIN parts = 1..Len(parts) /\ Len(parts) \in Nat /\ (Len(parts) = 0 <=> parts = <<>>)
    BY <1>1, SequenceDomain DEF IsEvidence, AreValueParts
  <2>2. DOMAIN decoded = DOMAIN parts
    BY <1>2
  <2>3. decoded = <<>> => DOMAIN decoded = {}
    OBVIOUS
  <2>4. CASE parts = <<>>
    BY <1>2, <2>4
  <2>5. CASE parts # <<>>
    <3>1. 1 \in DOMAIN decoded
      BY <2>1, <2>2, <2>5
    <3>2. QED
      BY <2>3, <2>5, <3>1
  <2>6. QED
    BY <2>4, <2>5
<1>8. s = IF parts = <<>> THEN NilSlice ELSE SliceOf(decoded)
  <2>1. CASE parts = <<>>
    BY <1>4, <1>6, <1>7, <2>1 DEF DecodedSlice
  <2>2. CASE parts # <<>>
    <3>1. z.valueParts.made = TRUE
      BY <1>1, <2>2 DEF IsEvidence
    <3>2. s = slice
      BY <1>4, <1>6, <1>7, <2>2 DEF DecodedSlice
    <3>3. QED
      BY <1>6, <2>2, <3>1, <3>2 DEF SliceOf
  <2>3. QED
    BY <2>1, <2>2
<1>9. PICK t : t = DecodedEvidence(z)
  OBVIOUS
<1>10. t = [value |-> z.value, pattern |-> z.pattern, redacted |-> z.redacted,
            truncated |-> z.truncated, valueParts |-> s]
  BY <1>5, <1>9 DEF IsEvidence
<1>11. /\ t = [value |-> t.value, pattern |-> t.pattern, redacted |-> t.redacted,
                truncated |-> t.truncated, valueParts |-> t.valueParts]
       /\ t.value = z.value /\ t.pattern = z.pattern /\ t.redacted = z.redacted
       /\ t.truncated = z.truncated /\ t.valueParts = s
  BY <1>10
<1>12. QED
  BY Zenon, <1>1, <1>2, <1>8, <1>9, <1>11 DEF IsEvidenceDecoded

(* The field is read from its value, and all of it.                        *)
EvidenceValuePartsIsRead(z, t) ==
  LET value == AppendArray(z.valueParts, MarshalValuePart) IN
    /\ IsSequence(value)
    /\ \A x \in Encodings(value, NewerField) : \A y, c : IsSequence(c) /\ y.valueParts
           = ZeroEvidence.valueParts =>
         UnmarshalEvidenceField(y, "valueParts", x \o c)
             = SetField(y, "valueParts", Success(t.valueParts, c))

(* The field is read from every encoding of its value.                     *)
LEMMA ReadEvidenceValueParts ==
  ASSUME NEW z, IsEvidence(z), NEW t, IsEvidenceDecoded(z, t), z.valueParts.made
  PROVE  EvidenceValuePartsIsRead(z, t)
<1>1. PICK slice : slice = z.valueParts
  BY Zenon
<1>2. AreValueParts(slice.items)
  BY <1>1 DEF IsEvidence
<1>3. PICK values : values = [i \in DOMAIN slice.items |-> DecodedPart(slice.items[i])]
  BY Zenon
<1>4. t.valueParts = IF slice.items = <<>> THEN NilSlice ELSE SliceOf(values)
  BY Zenon, <1>1, <1>3 DEF IsEvidenceDecoded
<1>5. ZeroEvidence.valueParts = NilSlice
  BY DEF ZeroEvidence
<1>6. IsSequence(AppendArray(slice, MarshalValuePart))
  BY <1>2, ValuePartsAreMessage
<1>7. ASSUME NEW x \in Encodings(AppendArray(slice, MarshalValuePart), NewerField), NEW y, NEW c,
             IsSequence(c), y.valueParts = ZeroEvidence.valueParts
      PROVE  UnmarshalEvidenceField(y, "valueParts", x \o c)
          = SetField(y, "valueParts", Success(t.valueParts, c))
  <2>1. ReadArray(NilSlice, x \o c, ZeroValuePart, UnmarshalValuePart)
          = Success(IF slice.items = <<>> THEN NilSlice ELSE SliceOf(values), c)
    BY <1>2, <1>3, <1>7, ValuePartsRoundTrip
  <2>2. y.valueParts = NilSlice
    BY Zenon, <1>5, <1>7
  <2>3. QED
    BY Zenon, <1>4, <2>1, <2>2, EvidenceFieldRead
<1>8. QED
  BY Zenon, <1>1, <1>6, <1>7 DEF EvidenceValuePartsIsRead

(* Every field of the type is written as it is read.                       *)
LEMMA EvidenceIsWritten ==
  ASSUME NEW z, IsEvidence(z), NEW t, IsEvidenceDecoded(z, t)
  PROVE  EvidenceReader!AreWritten(EvidenceFields(z), 5, EvidenceAttr, ZeroEvidence, t)
<1>1. EvidenceReader!IsWritten(EvidenceFields(z)[1], "value", ZeroEvidence, t)
  <2>1. \A y, b : UnmarshalEvidenceField(y, "value", b) = SetField(y, "value", Read("str", b))
    BY Zenon, EvidenceFieldRead
  <2>2. /\ z.value = <<>> => t.value = ZeroEvidence.value
        /\ z.value = t.value
    BY DEF ZeroEvidence, IsEvidence, IsEvidenceDecoded
  <2>3. EvidenceReader!IsWritten(Field("value", z.value
            = <<>>, Token("str", z.value)), "value", ZeroEvidence, t)
    BY <2>1, <2>2, EvidencePlain
  <2>4. QED
    BY <2>3 DEF EvidenceFields
<1>2. EvidenceReader!IsWritten(EvidenceFields(z)[2], "pattern", ZeroEvidence, t)
  <2>1. \A y, b : UnmarshalEvidenceField(y, "pattern", b) = SetField(y, "pattern", Read("str", b))
    BY Zenon, EvidenceFieldRead
  <2>2. /\ z.pattern = <<>> => t.pattern = ZeroEvidence.pattern
        /\ z.pattern = t.pattern
    BY DEF ZeroEvidence, IsEvidence, IsEvidenceDecoded
  <2>3. EvidenceReader!IsWritten(Field("pattern", z.pattern
            = <<>>, Token("str", z.pattern)), "pattern", ZeroEvidence, t)
    BY <2>1, <2>2, EvidencePlain
  <2>4. QED
    BY <2>3 DEF EvidenceFields
<1>3. EvidenceReader!IsWritten(EvidenceFields(z)[3], "redacted", ZeroEvidence, t)
  <2>1. \A y, b : UnmarshalEvidenceField(y, "redacted", b)
            = SetField(y, "redacted", Read("bool", b))
    BY Zenon, EvidenceFieldRead
  <2>2. /\ ~z.redacted => t.redacted = ZeroEvidence.redacted
        /\ z.redacted = t.redacted
    BY DEF ZeroEvidence, IsEvidence, IsEvidenceDecoded
  <2>3. EvidenceReader!IsWritten(Field("redacted", ~z.redacted, Token("bool", z.redacted)),
      "redacted", ZeroEvidence, t)
    BY <2>1, <2>2, EvidencePlain
  <2>4. QED
    BY <2>3 DEF EvidenceFields
<1>4. EvidenceReader!IsWritten(EvidenceFields(z)[4], "truncated", ZeroEvidence, t)
  <2>1. \A y, c : IsSequence(c) =>
          UnmarshalEvidenceField(y, "truncated", Token("name",
              TruncatedSideString(z.truncated)) \o c)
                  = SetField(y, "truncated", Success(t.truncated, c))
    <3>1. TAKE y, c
    <3>2. HAVE IsSequence(c)
    <3>3. UnmarshalTruncatedSide(y.truncated, MarshalTruncatedSide(z.truncated) \o c)
              = Success(z.truncated, c)
      BY <3>2, TruncatedSideIsRead DEF IsEvidence
    <3>4. z.truncated = t.truncated
      BY DEF IsEvidence, IsEvidenceDecoded
    <3>5. QED
      BY Zenon, <3>3, <3>4, EvidenceFieldRead DEF MarshalTruncatedSide
  <2>2. z.truncated = TruncatedSideNone => t.truncated = ZeroEvidence.truncated
    BY DEF ZeroEvidence, IsEvidenceDecoded
  <2>3. EvidenceReader!IsWritten(Field("truncated", z.truncated
            = TruncatedSideNone, Token("name", TruncatedSideString(z.truncated))), "truncated",
                ZeroEvidence, t)
    BY <2>1, <2>2, EvidenceToken
  <2>4. QED
    BY <2>3 DEF EvidenceFields
<1>5. EvidenceReader!IsWritten(EvidenceFields(z)[5], "valueParts", ZeroEvidence, t)
  <2>1. CASE ~z.valueParts.made
    <3>1. t.valueParts = ZeroEvidence.valueParts
      BY <2>1 DEF ZeroEvidence, IsEvidence, IsEvidenceDecoded
    <3>2. EvidenceReader!IsWritten(Field("valueParts", ~z.valueParts.made,
        AppendArray(z.valueParts, MarshalValuePart)), "valueParts", ZeroEvidence, t)
      BY <2>1, <3>1, EvidenceOmitted
    <3>3. QED
      BY <3>2 DEF EvidenceFields
  <2>2. CASE ~(~z.valueParts.made)
    <3>1. EvidenceValuePartsIsRead(z, t)
      BY <2>2, ReadEvidenceValueParts
    <3>2. EvidenceReader!IsWritten(Field("valueParts", ~z.valueParts.made,
        AppendArray(z.valueParts, MarshalValuePart)), "valueParts", ZeroEvidence, t)
      BY <2>2, <3>1, EvidenceValue DEF EvidenceValuePartsIsRead
    <3>3. QED
      BY <3>2 DEF EvidenceFields
  <2>3. QED
    BY <2>1, <2>2
<1>6. DOMAIN EvidenceFields(z) = 1..5
  BY DEF EvidenceFields
<1>7. \A i \in 1..5 : EvidenceReader!IsWritten(EvidenceFields(z)[i], EvidenceAttr[i],
    ZeroEvidence, t)
  BY <1>1, <1>2, <1>3, <1>4, <1>5 DEF EvidenceAttr
<1>8. DOMAIN ZeroEvidence = {"value", "pattern", "redacted", "truncated", "valueParts"}
  BY DEF ZeroEvidence
<1>9. ZeroEvidence = [g \in DOMAIN ZeroEvidence |-> ZeroEvidence[g]] /\ t
          = [g \in DOMAIN ZeroEvidence |-> t[g]]
  BY DEF ZeroEvidence, IsEvidence, IsEvidenceDecoded
<1>10. /\ \A i \in 1..5 : EvidenceAttr[i] \in DOMAIN ZeroEvidence
       /\ \A g \in DOMAIN ZeroEvidence : \E i \in 1..5 : EvidenceAttr[i] = g
       /\ \A i, j \in 1..5 : EvidenceAttr[i] = EvidenceAttr[j] => i = j
  BY <1>8 DEF EvidenceAttr
<1>11. QED
  BY Zenon, <1>6, <1>7, <1>9, <1>10 DEF EvidenceReader!AreWritten

(* Evidence is written as the map of its fields.                           *)
LEMMA MarshalledEvidence ==
  ASSUME NEW z
  PROVE  MarshalEvidence(z) = AppendMap(EvidenceFields(z))
BY Zenon DEF MarshalEvidence, EvidenceFields, MarshalTruncatedSide

(* What is written is a sequence of tokens.                                *)
LEMMA EvidenceIsMessage ==
  ASSUME NEW z, IsEvidence(z)
  PROVE  IsSequence(MarshalEvidence(z))
<1>0. PICK t : t = DecodedEvidence(z) /\ IsEvidenceDecoded(z, t)
  BY EvidenceDecoded
<1>1. EvidenceReader!AreWritten(EvidenceFields(z), 5, EvidenceAttr, ZeroEvidence, t)
  BY <1>0, EvidenceIsWritten
<1>2. EvidenceReader!IsSequence(EvidenceReader!AppendMap(EvidenceFields(z)))
  BY <1>1, EvidenceReader!MapIsSequence
<1>3. QED
  BY Zenon, <1>2, EvidenceTerms, MarshalledEvidence

(* Every encoding is read as what was encoded, whatever follows it.        *)
LEMMA EvidenceRoundTrip ==
  ASSUME NEW z, IsEvidence(z), NEW m \in Encodings(MarshalEvidence(z), NewerField), NEW c,
         IsSequence(c)
  PROVE  UnmarshalEvidence(ZeroEvidence, m \o c) = Success(DecodedEvidence(z), c)
<1>0. PICK t : t = DecodedEvidence(z) /\ IsEvidenceDecoded(z, t)
  BY EvidenceDecoded
<1>1. EvidenceReader!AreWritten(EvidenceFields(z), 5, EvidenceAttr, ZeroEvidence, t)
  BY <1>0, EvidenceIsWritten
<1>2. m \in Encodings(AppendMap(EvidenceFields(z)), NewerField)
  BY Zenon, MarshalledEvidence
<1>3. UnmarshalEvidence(ZeroEvidence, m \o c) = Success(t, c)
  BY <1>1, <1>2, EvidenceEncoding
<1>4. QED
  BY Zenon, <1>0, <1>3

-----------------------------------------------------------------------------
(* Vulnerability                                                           *)

(* What the constructors make of this type.                                *)
IsVulnerability(z) ==
  /\ z = [type |-> z.type, hash |-> z.hash, evidence |-> z.evidence, location |-> z.location]
  /\ z.type \in TypeConstants
  /\ z.evidence # NilPointer => z.evidence = NewPointer(z.evidence[1]) /\ IsEvidence(z.evidence[1])
  /\ z.location # NilPointer => z.location = NewPointer(z.location[1]) /\ IsLocation(z.location[1])

(* The fields, by the names of the model and as they are written.          *)
VulnerabilityAttr == <<"type", "hash", "evidence", "location">>
VulnerabilityFields(z) == <<
  Field("type", FALSE, Token("name", VulnerabilityTypeString(z.type))),
  Field("hash", FALSE, Token("hash", z.hash)),
  Field("evidence", z.evidence = NilPointer, AppendPointer(z.evidence, MarshalEvidence)),
  Field("location", z.location = NilPointer, AppendPointer(z.location, MarshalLocation))>>

(* What the instance means by the names of MessagePack is what they mean.  *)
LEMMA VulnerabilityTerms ==
  /\ \A s : VulnerabilityReader!IsSequence(s) = IsSequence(s)
  /\ \A v, c : VulnerabilityReader!Success(v, c) = Success(v, c)
  /\ \A z, f, r : VulnerabilityReader!SetField(z, f, r) = SetField(z, f, r)
  /\ \A k, o, v : VulnerabilityReader!Field(k, o, v) = Field(k, o, v)
  /\ \A k, v : VulnerabilityReader!Token(k, v) = Token(k, v)
  /\ \A m, f : VulnerabilityReader!Encodings(m, f) = Encodings(m, f)
  /\ VulnerabilityReader!NewerField = NewerField
  /\ \A fields : VulnerabilityReader!AppendMap(fields) = AppendMap(fields)
  /\ \A z, b : VulnerabilityReader!ReadMap(z, b, UnmarshalVulnerabilityField)
         = UnmarshalVulnerability(z, b)
<1>1. /\ \A s : VulnerabilityReader!IsSequence(s) = IsSequence(s)
      /\ \A v, c : VulnerabilityReader!Success(v, c) = Success(v, c)
      /\ \A k, o, v : VulnerabilityReader!Field(k, o, v) = Field(k, o, v)
      /\ \A k, v : VulnerabilityReader!Token(k, v) = Token(k, v)
      /\ VulnerabilityReader!NewerField = NewerField
  BY Zenon DEF
    IsSequence, VulnerabilityReader!IsSequence, Success, VulnerabilityReader!Success,
    Field, VulnerabilityReader!Field, Token, VulnerabilityReader!Token, NewerField,
    VulnerabilityReader!NewerField
<1>2. \A z, f, r : VulnerabilityReader!SetField(z, f, r) = SetField(z, f, r)
  BY Zenon DEF
    SetField, VulnerabilityReader!SetField, Success, VulnerabilityReader!Success,
    Failure, VulnerabilityReader!Failure
<1>3. \A m, f : VulnerabilityReader!Encodings(m, f) = Encodings(m, f)
  BY Zenon DEF
    Encodings, VulnerabilityReader!Encodings, WithField, VulnerabilityReader!WithField,
    Token, VulnerabilityReader!Token
<1>4. \A fields : VulnerabilityReader!AppendMap(fields) = AppendMap(fields)
  BY Zenon DEF
    AppendMap, VulnerabilityReader!AppendMap, AppendFields,
    VulnerabilityReader!AppendFields, AppendField, VulnerabilityReader!AppendField,
    Present, VulnerabilityReader!Present, Token, VulnerabilityReader!Token, FlattenSeq,
    VulnerabilityReader!FlattenSeq, Cardinality, VulnerabilityReader!Cardinality
<1>5. \A z, b : VulnerabilityReader!ReadMap(z, b, UnmarshalVulnerabilityField)
          = UnmarshalVulnerability(z, b)
  BY Zenon DEF UnmarshalVulnerability,
    ReadMap, VulnerabilityReader!ReadMap, Read, VulnerabilityReader!Read, Repeat,
    VulnerabilityReader!Repeat, Success, VulnerabilityReader!Success, Failure,
    VulnerabilityReader!Failure
<1>6. QED
  BY Zenon, <1>1, <1>2, <1>3, <1>4, <1>5

(* A field that is one token, as its reader finds it.                      *)
LEMMA VulnerabilityToken ==
  ASSUME NEW key, NEW omitted, NEW kind, kind # "map", NEW s, NEW g, NEW zero, NEW target,
         omitted => target[g] = zero[g],
         \A z, c : IsSequence(c) /\ z[g] = zero[g] =>
           UnmarshalVulnerabilityField(z, key, Token(kind, s) \o c)
               = SetField(z, g, Success(target[g], c))
  PROVE  VulnerabilityReader!IsWritten(Field(key, omitted, Token(kind, s)), g, zero, target)
<1>1. \A z, c : VulnerabilityReader!IsSequence(c) /\ z[g] = zero[g] =>
        UnmarshalVulnerabilityField(z, key, VulnerabilityReader!Token(kind, s) \o c)
          = VulnerabilityReader!SetField(z, g, VulnerabilityReader!Success(target[g], c))
  BY VulnerabilityTerms
<1>2. VulnerabilityReader!IsWritten(VulnerabilityReader!Field(key, omitted,
    VulnerabilityReader!Token(kind, s)), g, zero, target)
  BY <1>1, VulnerabilityReader!WrittenToken
<1>3. QED
  BY Zenon, <1>2, VulnerabilityTerms

(* A field whose token is read as what it holds.                           *)
LEMMA VulnerabilityPlain ==
  ASSUME NEW key, NEW omitted, NEW kind, kind # "map", NEW s, NEW g, NEW zero, NEW target,
         omitted => target[g] = zero[g], s = target[g],
         \A y, b : UnmarshalVulnerabilityField(y, key, b) = SetField(y, g, Read(kind, b))
  PROVE  VulnerabilityReader!IsWritten(Field(key, omitted, Token(kind, s)), g, zero, target)
<1>1. \A y, c : IsSequence(c) /\ y[g] = zero[g] =>
        UnmarshalVulnerabilityField(y, key, Token(kind, s) \o c)
            = SetField(y, g, Success(target[g], c))
  <2>1. TAKE y, c
  <2>2. HAVE IsSequence(c) /\ y[g] = zero[g]
  <2>3. Read(kind, Token(kind, s) \o c) = Success(s, c)
    BY <2>2, TokenIsRead
  <2>4. QED
    BY Zenon, <2>3
<1>2. QED
  BY <1>1, VulnerabilityToken

(* A field that is a value of several tokens.                              *)
LEMMA VulnerabilityValue ==
  ASSUME NEW key, NEW omitted, NEW value, NEW g, NEW zero, NEW target,
         ~omitted, IsSequence(value),
         \A x \in Encodings(value, NewerField) : \A z, c : IsSequence(c) /\ z[g] = zero[g] =>
           UnmarshalVulnerabilityField(z, key, x \o c) = SetField(z, g, Success(target[g], c))
  PROVE  VulnerabilityReader!IsWritten(Field(key, omitted, value), g, zero, target)
<1>1. \A x \in VulnerabilityReader!Encodings(value, VulnerabilityReader!NewerField) :
        \A z, c : VulnerabilityReader!IsSequence(c) /\ z[g] = zero[g] =>
          UnmarshalVulnerabilityField(z, key, x \o c)
              = VulnerabilityReader!SetField(z, g, VulnerabilityReader!Success(target[g], c))
  BY VulnerabilityTerms
<1>2. VulnerabilityReader!IsSequence(value)
  BY Zenon, VulnerabilityTerms
<1>3. VulnerabilityReader!IsWritten(VulnerabilityReader!Field(key, omitted, value), g, zero, target)
  BY <1>1, <1>2, VulnerabilityReader!WrittenValue
<1>4. QED
  BY Zenon, <1>3, VulnerabilityTerms

(* A field that is left out.                                               *)
LEMMA VulnerabilityOmitted ==
  ASSUME NEW key, NEW omitted, NEW value, NEW g, NEW zero, NEW target,
         omitted, target[g] = zero[g]
  PROVE  VulnerabilityReader!IsWritten(Field(key, omitted, value), g, zero, target)
<1> DEFINE f == Field(key, omitted, value)
<1>1. f.isOmitted = omitted
  BY DEF Field
<1> HIDE DEF f
<1>2. VulnerabilityReader!IsWritten(f, g, zero, target)
  BY Zenon, <1>1 DEF VulnerabilityReader!IsWritten
<1>3. QED
  BY Zenon, <1>2 DEF f

(* A field of a newer model changes nothing.                               *)
LEMMA VulnerabilityPassesOver ==
  ASSUME NEW z
  PROVE  VulnerabilityReader!IsPassedOver(z)
<1>1. VulnerabilityReader!IsSequence(NewerValue)
  BY Zenon, NewerValueIsSequence, VulnerabilityTerms
<1>2. ASSUME NEW c, VulnerabilityReader!IsSequence(c)
      PROVE  UnmarshalVulnerabilityField(z, "newer", NewerValue \o c)
          = VulnerabilityReader!Success(z, c)
  <2>1. PICK b : b = NewerValue \o c
    OBVIOUS
  <2>2. SkipField(z, b) = Success(z, c)
    BY <1>2, <2>1, VulnerabilityTerms, NewerFieldSkipped
  <2>3. UnmarshalVulnerabilityField(z, "newer", b) = SkipField(z, b)
    BY DEF UnmarshalVulnerabilityField
  <2>4. QED
    BY Zenon, <2>1, <2>2, <2>3, VulnerabilityTerms
<1>3. QED
  BY Zenon, <1>1, <1>2 DEF VulnerabilityReader!IsPassedOver

(* Fields that are written as they are read make a map that is.            *)
LEMMA VulnerabilityEncoding ==
  ASSUME NEW n \in Nat, NEW fields, NEW target, NEW attr, NEW zero,
         VulnerabilityReader!AreWritten(fields, n, attr, zero, target),
         NEW m \in Encodings(AppendMap(fields), NewerField), NEW c, IsSequence(c)
  PROVE  UnmarshalVulnerability(zero, m \o c) = Success(target, c)
<1>1. VulnerabilityReader!IsSequence(c)
  BY Zenon, VulnerabilityTerms
<1>2. m \in VulnerabilityReader!Encodings(VulnerabilityReader!AppendMap(fields),
    VulnerabilityReader!NewerField)
  BY Zenon, VulnerabilityTerms
<1>3. VulnerabilityReader!IsPassedOver(zero)
  BY VulnerabilityPassesOver
<1>4. VulnerabilityReader!ReadMap(zero, m \o c, UnmarshalVulnerabilityField)
          = VulnerabilityReader!Success(target, c)
  BY <1>1, <1>2, <1>3, VulnerabilityReader!MapEncodingRoundTrip
<1>5. PICK b : b = m \o c
  OBVIOUS
<1>6. UnmarshalVulnerability(zero, b)
          = VulnerabilityReader!ReadMap(zero, b, UnmarshalVulnerabilityField)
  BY Zenon, VulnerabilityTerms
<1>7. Success(target, c) = VulnerabilityReader!Success(target, c)
  BY Zenon, VulnerabilityTerms
<1>8. QED
  BY Zenon, <1>4, <1>5, <1>6, <1>7

(* How each field is read.                                                 *)
LEMMA VulnerabilityFieldRead ==
  ASSUME NEW z, NEW b
  PROVE  /\ UnmarshalVulnerabilityField(z, "type", b)
      = SetField(z, "type", UnmarshalVulnerabilityType(z.type, b))
         /\ UnmarshalVulnerabilityField(z, "hash", b) = SetField(z, "hash", Read("hash", b))
         /\ UnmarshalVulnerabilityField(z, "evidence", b)
                = SetField(z, "evidence", ReadPointer(z.evidence, b, ZeroEvidence,
                    UnmarshalEvidence))
         /\ UnmarshalVulnerabilityField(z, "location", b)
                = SetField(z, "location", ReadPointer(z.location, b, ZeroLocation,
                    UnmarshalLocation))
BY DEF UnmarshalVulnerabilityField

(* t is z as a reader makes it.                                            *)
IsVulnerabilityDecoded(z, t) ==
  /\ t = [type |-> t.type, hash |-> t.hash, evidence |-> t.evidence, location |-> t.location]
  /\ t.type = z.type /\ t.hash = z.hash
  /\ t.evidence = IF z.evidence = NilPointer THEN NilPointer
                  ELSE NewPointer(DecodedEvidence(z.evidence[1]))
  /\ t.location = z.location

(* What is decoded, told field by field.                                   *)
LEMMA VulnerabilityDecoded ==
  ASSUME NEW z, IsVulnerability(z)
  PROVE  \E t : t = DecodedVulnerability(z) /\ IsVulnerabilityDecoded(z, t)
<1>1. PICK e : e = [i \in DOMAIN z.evidence |-> DecodedEvidence(z.evidence[i])]
  OBVIOUS
<1>2. DecodedVulnerability(z) = [z EXCEPT !.evidence = e]
  <2>1. DecodedVulnerability(z) =
          [z EXCEPT !.evidence = [i \in DOMAIN z.evidence |-> DecodedEvidence(z.evidence[i])]]
    BY DEF DecodedVulnerability
  <2>2. QED
    BY Zenon, <1>1, <2>1
<1>3. e = IF z.evidence = NilPointer THEN NilPointer
          ELSE NewPointer(DecodedEvidence(z.evidence[1]))
  <2>1. CASE z.evidence = NilPointer
    BY <1>1, <2>1 DEF NilPointer
  <2>2. CASE z.evidence # NilPointer
    <3>1. PICK d : d = z.evidence[1]
      OBVIOUS
    <3>2. z.evidence = <<d>>
      BY Zenon, <2>2, <3>1 DEF IsVulnerability, NewPointer
    <3>3. e = <<DecodedEvidence(d)>>
      BY <1>1, <3>2
    <3>4. QED
      BY Zenon, <2>2, <3>1, <3>3 DEF NewPointer
  <2>3. QED
    BY <2>1, <2>2
<1>4. PICK t : t = DecodedVulnerability(z)
  OBVIOUS
<1>5. t = [type |-> z.type, hash |-> z.hash, evidence |-> e, location |-> z.location]
  BY <1>2, <1>4 DEF IsVulnerability
<1>6. /\ t = [type |-> t.type, hash |-> t.hash, evidence |-> t.evidence, location |-> t.location]
      /\ t.type = z.type /\ t.hash = z.hash /\ t.evidence = e /\ t.location = z.location
  BY <1>5
<1>7. QED
  BY Zenon, <1>3, <1>4, <1>6 DEF IsVulnerabilityDecoded

(* The field is read from its value, and all of it.                        *)
VulnerabilityEvidenceIsRead(z, t) ==
  LET value == AppendPointer(z.evidence, MarshalEvidence) IN
    /\ IsSequence(value)
    /\ \A x \in Encodings(value, NewerField) : \A y, c : IsSequence(c) /\ y.evidence
           = ZeroVulnerability.evidence =>
         UnmarshalVulnerabilityField(y, "evidence", x \o c)
             = SetField(y, "evidence", Success(t.evidence, c))

(* The field is read from every encoding of its value.                     *)
LEMMA ReadVulnerabilityEvidence ==
  ASSUME NEW z, IsVulnerability(z), NEW t, IsVulnerabilityDecoded(z, t), z.evidence # NilPointer
  PROVE  VulnerabilityEvidenceIsRead(z, t)
<1>1. PICK e : e = z.evidence[1]
  BY Zenon
<1>2. IsEvidence(e) /\ z.evidence = NewPointer(e)
  BY Zenon, <1>1 DEF IsVulnerability
<1>3. t.evidence = NewPointer(DecodedEvidence(e))
  BY Zenon, <1>1, <1>2 DEF IsVulnerabilityDecoded
<1>4. AppendPointer(z.evidence, MarshalEvidence) = MarshalEvidence(e)
  BY Zenon, <1>1 DEF AppendPointer
<1>5. ZeroVulnerability.evidence = NilPointer
  BY DEF ZeroVulnerability
<1>6. IsSequence(MarshalEvidence(e))
  BY <1>2, EvidenceIsMessage
<1>7. ASSUME NEW x \in Encodings(MarshalEvidence(e), NewerField), NEW y, NEW c,
             IsSequence(c), y.evidence = ZeroVulnerability.evidence
      PROVE  UnmarshalVulnerabilityField(y, "evidence", x \o c)
          = SetField(y, "evidence", Success(t.evidence, c))
  <2>1. PICK b : b = x \o c
    BY Zenon
  <2>2. PICK v : v = DecodedEvidence(e)
    BY Zenon
  <2>3. UnmarshalEvidence(ZeroEvidence, x \o c) = Success(DecodedEvidence(e), c)
    BY <1>2, <1>7, EvidenceRoundTrip
  <2>4. UnmarshalEvidence(ZeroEvidence, b) = Success(v, c)
    BY Zenon, <2>1, <2>2, <2>3
  <2>5. b[1] # <<"nil">>
    <3>1. EvidenceReader!ReadMap(ZeroEvidence, b, UnmarshalEvidenceField)
              = EvidenceReader!Success(v, c)
      BY Zenon, <2>4, EvidenceTerms
    <3>2. QED
      BY <3>1, EvidenceReader!MapIsNotNil
  <2>6. Success(v, c).ok = TRUE /\ Success(v, c).v = v /\ Success(v, c).rest = c
    BY ZenonT(30), SucceededAs
  <2>7. ReadPointer(NilPointer, b, ZeroEvidence, UnmarshalEvidence) = Success(NewPointer(v), c)
    BY Zenon, <2>4, <2>5, <2>6 DEF ReadPointer
  <2>8. y.evidence = NilPointer
    BY Zenon, <1>5, <1>7
  <2>9. QED
    BY Zenon, <1>3, <2>1, <2>2, <2>7, <2>8, VulnerabilityFieldRead
<1>8. QED
  BY Zenon, <1>4, <1>6, <1>7 DEF VulnerabilityEvidenceIsRead

(* The field is read from its value, and all of it.                        *)
VulnerabilityLocationIsRead(z, t) ==
  LET value == AppendPointer(z.location, MarshalLocation) IN
    /\ IsSequence(value)
    /\ \A x \in Encodings(value, NewerField) : \A y, c : IsSequence(c) /\ y.location
           = ZeroVulnerability.location =>
         UnmarshalVulnerabilityField(y, "location", x \o c)
             = SetField(y, "location", Success(t.location, c))

(* The field is read from every encoding of its value.                     *)
LEMMA ReadVulnerabilityLocation ==
  ASSUME NEW z, IsVulnerability(z), NEW t, IsVulnerabilityDecoded(z, t), z.location # NilPointer
  PROVE  VulnerabilityLocationIsRead(z, t)
<1>1. PICK e : e = z.location[1]
  BY Zenon
<1>2. IsLocation(e) /\ z.location = NewPointer(e)
  BY Zenon, <1>1 DEF IsVulnerability
<1>3. t.location = NewPointer(e)
  BY Zenon, <1>1, <1>2 DEF IsVulnerabilityDecoded
<1>4. AppendPointer(z.location, MarshalLocation) = MarshalLocation(e)
  BY Zenon, <1>1 DEF AppendPointer
<1>5. ZeroVulnerability.location = NilPointer
  BY DEF ZeroVulnerability
<1>6. IsSequence(MarshalLocation(e))
  BY <1>2, LocationIsMessage
<1>7. ASSUME NEW x \in Encodings(MarshalLocation(e), NewerField), NEW y, NEW c,
             IsSequence(c), y.location = ZeroVulnerability.location
      PROVE  UnmarshalVulnerabilityField(y, "location", x \o c)
          = SetField(y, "location", Success(t.location, c))
  <2>1. PICK b : b = x \o c
    BY Zenon
  <2>2. PICK v : v = e
    BY Zenon
  <2>3. UnmarshalLocation(ZeroLocation, x \o c) = Success(e, c)
    BY <1>2, <1>7, LocationRoundTrip
  <2>4. UnmarshalLocation(ZeroLocation, b) = Success(v, c)
    BY Zenon, <2>1, <2>2, <2>3
  <2>5. b[1] # <<"nil">>
    <3>1. LocationReader!ReadMap(ZeroLocation, b, UnmarshalLocationField)
              = LocationReader!Success(v, c)
      BY Zenon, <2>4, LocationTerms
    <3>2. QED
      BY <3>1, LocationReader!MapIsNotNil
  <2>6. Success(v, c).ok = TRUE /\ Success(v, c).v = v /\ Success(v, c).rest = c
    BY ZenonT(30), SucceededAs
  <2>7. ReadPointer(NilPointer, b, ZeroLocation, UnmarshalLocation) = Success(NewPointer(v), c)
    BY Zenon, <2>4, <2>5, <2>6 DEF ReadPointer
  <2>8. y.location = NilPointer
    BY Zenon, <1>5, <1>7
  <2>9. QED
    BY Zenon, <1>3, <2>1, <2>2, <2>7, <2>8, VulnerabilityFieldRead
<1>8. QED
  BY Zenon, <1>4, <1>6, <1>7 DEF VulnerabilityLocationIsRead

(* Every field of the type is written as it is read.                       *)
LEMMA VulnerabilityIsWritten ==
  ASSUME NEW z, IsVulnerability(z), NEW t, IsVulnerabilityDecoded(z, t)
  PROVE  VulnerabilityReader!AreWritten(VulnerabilityFields(z), 4, VulnerabilityAttr,
      ZeroVulnerability, t)
<1>1. VulnerabilityReader!IsWritten(VulnerabilityFields(z)[1], "type", ZeroVulnerability, t)
  <2>1. \A y, c : IsSequence(c) =>
          UnmarshalVulnerabilityField(y, "type", Token("name",
              VulnerabilityTypeString(z.type)) \o c) = SetField(y, "type", Success(t.type, c))
    <3>1. TAKE y, c
    <3>2. HAVE IsSequence(c)
    <3>3. UnmarshalVulnerabilityType(y.type, MarshalVulnerabilityType(z.type) \o c)
              = Success(z.type, c)
      BY <3>2, VulnerabilityTypeIsRead DEF IsVulnerability
    <3>4. z.type = t.type
      BY DEF IsVulnerability, IsVulnerabilityDecoded
    <3>5. QED
      BY Zenon, <3>3, <3>4, VulnerabilityFieldRead DEF MarshalVulnerabilityType
  <2>3. VulnerabilityReader!IsWritten(Field("type", FALSE, Token("name",
      VulnerabilityTypeString(z.type))), "type", ZeroVulnerability, t)
    BY <2>1, VulnerabilityToken
  <2>4. QED
    BY <2>3 DEF VulnerabilityFields
<1>2. VulnerabilityReader!IsWritten(VulnerabilityFields(z)[2], "hash", ZeroVulnerability, t)
  <2>1. \A y, b : UnmarshalVulnerabilityField(y, "hash", b) = SetField(y, "hash", Read("hash", b))
    BY Zenon, VulnerabilityFieldRead
  <2>2. z.hash = t.hash
    BY DEF ZeroVulnerability, IsVulnerability, IsVulnerabilityDecoded
  <2>3. VulnerabilityReader!IsWritten(Field("hash", FALSE, Token("hash", z.hash)), "hash",
      ZeroVulnerability, t)
    BY <2>1, <2>2, VulnerabilityPlain
  <2>4. QED
    BY <2>3 DEF VulnerabilityFields
<1>3. VulnerabilityReader!IsWritten(VulnerabilityFields(z)[3], "evidence", ZeroVulnerability, t)
  <2>1. CASE z.evidence = NilPointer
    <3>1. t.evidence = ZeroVulnerability.evidence
      BY <2>1 DEF ZeroVulnerability, IsVulnerability, IsVulnerabilityDecoded
    <3>2. VulnerabilityReader!IsWritten(Field("evidence", z.evidence
              = NilPointer, AppendPointer(z.evidence, MarshalEvidence)), "evidence",
                  ZeroVulnerability, t)
      BY <2>1, <3>1, VulnerabilityOmitted
    <3>3. QED
      BY <3>2 DEF VulnerabilityFields
  <2>2. CASE ~(z.evidence = NilPointer)
    <3>1. VulnerabilityEvidenceIsRead(z, t)
      BY <2>2, ReadVulnerabilityEvidence
    <3>2. VulnerabilityReader!IsWritten(Field("evidence", z.evidence
              = NilPointer, AppendPointer(z.evidence, MarshalEvidence)), "evidence",
                  ZeroVulnerability, t)
      BY <2>2, <3>1, VulnerabilityValue DEF VulnerabilityEvidenceIsRead
    <3>3. QED
      BY <3>2 DEF VulnerabilityFields
  <2>3. QED
    BY <2>1, <2>2
<1>4. VulnerabilityReader!IsWritten(VulnerabilityFields(z)[4], "location", ZeroVulnerability, t)
  <2>1. CASE z.location = NilPointer
    <3>1. t.location = ZeroVulnerability.location
      BY <2>1 DEF ZeroVulnerability, IsVulnerability, IsVulnerabilityDecoded
    <3>2. VulnerabilityReader!IsWritten(Field("location", z.location
              = NilPointer, AppendPointer(z.location, MarshalLocation)), "location",
                  ZeroVulnerability, t)
      BY <2>1, <3>1, VulnerabilityOmitted
    <3>3. QED
      BY <3>2 DEF VulnerabilityFields
  <2>2. CASE ~(z.location = NilPointer)
    <3>1. VulnerabilityLocationIsRead(z, t)
      BY <2>2, ReadVulnerabilityLocation
    <3>2. VulnerabilityReader!IsWritten(Field("location", z.location
              = NilPointer, AppendPointer(z.location, MarshalLocation)), "location",
                  ZeroVulnerability, t)
      BY <2>2, <3>1, VulnerabilityValue DEF VulnerabilityLocationIsRead
    <3>3. QED
      BY <3>2 DEF VulnerabilityFields
  <2>3. QED
    BY <2>1, <2>2
<1>5. DOMAIN VulnerabilityFields(z) = 1..4
  BY DEF VulnerabilityFields
<1>6. \A i \in 1..4 : VulnerabilityReader!IsWritten(VulnerabilityFields(z)[i],
    VulnerabilityAttr[i], ZeroVulnerability, t)
  BY <1>1, <1>2, <1>3, <1>4 DEF VulnerabilityAttr
<1>7. DOMAIN ZeroVulnerability = {"type", "hash", "evidence", "location"}
  BY DEF ZeroVulnerability
<1>8. ZeroVulnerability = [g \in DOMAIN ZeroVulnerability |-> ZeroVulnerability[g]] /\ t
          = [g \in DOMAIN ZeroVulnerability |-> t[g]]
  BY DEF ZeroVulnerability, IsVulnerability, IsVulnerabilityDecoded
<1>9. /\ \A i \in 1..4 : VulnerabilityAttr[i] \in DOMAIN ZeroVulnerability
      /\ \A g \in DOMAIN ZeroVulnerability : \E i \in 1..4 : VulnerabilityAttr[i] = g
      /\ \A i, j \in 1..4 : VulnerabilityAttr[i] = VulnerabilityAttr[j] => i = j
  BY <1>7 DEF VulnerabilityAttr
<1>10. QED
  BY Zenon, <1>5, <1>6, <1>8, <1>9 DEF VulnerabilityReader!AreWritten

(* A vulnerability is written as the map of its fields.                    *)
LEMMA MarshalledVulnerability ==
  ASSUME NEW z
  PROVE  MarshalVulnerability(z) = AppendMap(VulnerabilityFields(z))
BY Zenon DEF MarshalVulnerability, VulnerabilityFields, MarshalVulnerabilityType

(* What is written is a sequence of tokens.                                *)
LEMMA VulnerabilityIsMessage ==
  ASSUME NEW z, IsVulnerability(z)
  PROVE  IsSequence(MarshalVulnerability(z))
<1>0. PICK t : t = DecodedVulnerability(z) /\ IsVulnerabilityDecoded(z, t)
  BY VulnerabilityDecoded
<1>1. VulnerabilityReader!AreWritten(VulnerabilityFields(z), 4, VulnerabilityAttr,
    ZeroVulnerability, t)
  BY <1>0, VulnerabilityIsWritten
<1>2. VulnerabilityReader!IsSequence(VulnerabilityReader!AppendMap(VulnerabilityFields(z)))
  BY <1>1, VulnerabilityReader!MapIsSequence
<1>3. QED
  BY Zenon, <1>2, VulnerabilityTerms, MarshalledVulnerability

(* Every encoding is read as what was encoded, whatever follows it.        *)
LEMMA VulnerabilityRoundTrip ==
  ASSUME NEW z, IsVulnerability(z), NEW m \in Encodings(MarshalVulnerability(z), NewerField),
         NEW c, IsSequence(c)
  PROVE  UnmarshalVulnerability(ZeroVulnerability, m \o c) = Success(DecodedVulnerability(z), c)
<1>0. PICK t : t = DecodedVulnerability(z) /\ IsVulnerabilityDecoded(z, t)
  BY VulnerabilityDecoded
<1>1. VulnerabilityReader!AreWritten(VulnerabilityFields(z), 4, VulnerabilityAttr,
    ZeroVulnerability, t)
  BY <1>0, VulnerabilityIsWritten
<1>2. m \in Encodings(AppendMap(VulnerabilityFields(z)), NewerField)
  BY Zenon, MarshalledVulnerability
<1>3. UnmarshalVulnerability(ZeroVulnerability, m \o c) = Success(t, c)
  BY <1>1, <1>2, VulnerabilityEncoding
<1>4. QED
  BY Zenon, <1>0, <1>3

(* What the instance means by the names of MessagePack is what they mean.  *)
LEMMA VulnerabilitiesTerms ==
  /\ \A s : VulnerabilityReader!IsSequence(s) = IsSequence(s)
  /\ \A v, c : VulnerabilityReader!Success(v, c) = Success(v, c)
  /\ \A m, f : VulnerabilityReader!Encodings(m, f) = Encodings(m, f)
  /\ VulnerabilityReader!NewerField = NewerField
  /\ VulnerabilityReader!NilSlice = NilSlice
  /\ \A items : VulnerabilityReader!SliceOf(items) = SliceOf(items)
  /\ \A elements, n : VulnerabilityReader!ArrayMessage(elements, n)
         = Token("array", n) \o FlattenSeq(elements)
  /\ \A s, b, z : VulnerabilityReader!ReadArray(s, b, z, UnmarshalVulnerability)
         = ReadArray(s, b, z, UnmarshalVulnerability)
<1>1. /\ \A s : VulnerabilityReader!IsSequence(s) = IsSequence(s)
      /\ \A v, c : VulnerabilityReader!Success(v, c) = Success(v, c)
      /\ VulnerabilityReader!NewerField = NewerField
      /\ VulnerabilityReader!NilSlice = NilSlice
      /\ \A items : VulnerabilityReader!SliceOf(items) = SliceOf(items)
  BY Zenon DEF
    IsSequence, VulnerabilityReader!IsSequence, Success, VulnerabilityReader!Success,
    NewerField, VulnerabilityReader!NewerField, Token, VulnerabilityReader!Token,
    NilSlice, VulnerabilityReader!NilSlice, SliceOf, VulnerabilityReader!SliceOf
<1>2. \A m, f : VulnerabilityReader!Encodings(m, f) = Encodings(m, f)
  BY Zenon DEF
    Encodings, VulnerabilityReader!Encodings, WithField, VulnerabilityReader!WithField,
    Token, VulnerabilityReader!Token
<1>3. \A elements, n : VulnerabilityReader!ArrayMessage(elements, n)
          = Token("array", n) \o FlattenSeq(elements)
  BY Zenon DEF VulnerabilityReader!ArrayMessage,
    Token, VulnerabilityReader!Token, FlattenSeq, VulnerabilityReader!FlattenSeq
<1>4. \A s, b, z : VulnerabilityReader!ReadArray(s, b, z, UnmarshalVulnerability)
          = ReadArray(s, b, z, UnmarshalVulnerability)
  BY Zenon DEF
    ReadArray, VulnerabilityReader!ReadArray, Read, VulnerabilityReader!Read, Repeat,
    VulnerabilityReader!Repeat, Success, VulnerabilityReader!Success, Failure,
    VulnerabilityReader!Failure, SliceOf, VulnerabilityReader!SliceOf
<1>5. QED
  BY Zenon, <1>1, <1>2, <1>3, <1>4

AreVulnerabilities(items) == IsSequence(items) /\ \A i \in DOMAIN items : IsVulnerability(items[i])

(* So is every element.                                                    *)
LEMMA VulnerabilitiesAreWritten ==
  ASSUME NEW items, AreVulnerabilities(items), NEW elements, NEW values, NEW n, n = Len(items),
         elements = [i \in DOMAIN items |-> MarshalVulnerability(items[i])],
         values = [i \in DOMAIN items |-> DecodedVulnerability(items[i])]
  PROVE  VulnerabilityReader!AreWrittenElements(elements, values, ZeroVulnerability, n)
<1>1. n \in Nat /\ DOMAIN items = 1..n /\ \A i \in 1..n : IsVulnerability(items[i])
  BY SequenceDomain DEF AreVulnerabilities
<1>2. \A i \in 1..n : elements[i] = MarshalVulnerability(items[i]) /\ values[i]
          = DecodedVulnerability(items[i])
  BY <1>1
<1>3. elements = [i \in 1..n |-> elements[i]] /\ values = [i \in 1..n |-> values[i]]
  BY <1>1
<1>4. ASSUME NEW i \in 1..n
      PROVE  IsSequence(elements[i])
  <2>1. IsSequence(MarshalVulnerability(items[i]))
    BY <1>1, VulnerabilityIsMessage
  <2>2. QED
    BY <1>2, <2>1
<1>5. ASSUME NEW i \in 1..n, NEW x \in Encodings(elements[i], NewerField), NEW c, IsSequence(c)
      PROVE  UnmarshalVulnerability(ZeroVulnerability, x \o c) = Success(values[i], c)
  <2>1. PICK y : y = items[i]
    OBVIOUS
  <2>2. x \in Encodings(MarshalVulnerability(y), NewerField) /\ IsVulnerability(y)
    BY Zenon, <1>1, <1>2, <2>1
  <2>3. UnmarshalVulnerability(ZeroVulnerability, x \o c) = Success(DecodedVulnerability(y), c)
    BY <1>5, <2>2, VulnerabilityRoundTrip
  <2>4. QED
    BY Zenon, <1>2, <2>1, <2>3
<1>6. VulnerabilityReader!AreSequences(elements, n)
  BY Zenon, <1>3, <1>4, VulnerabilitiesTerms DEF VulnerabilityReader!AreSequences
<1>7. \A i \in 1..n : \A x \in VulnerabilityReader!Encodings(elements[i],
    VulnerabilityReader!NewerField) : \A c :
        VulnerabilityReader!IsSequence(c) =>
            UnmarshalVulnerability(ZeroVulnerability, x \o c)
                = VulnerabilityReader!Success(values[i], c)
  BY <1>5, VulnerabilitiesTerms
<1>8. QED
  BY Zenon, <1>3, <1>6, <1>7 DEF VulnerabilityReader!AreWrittenElements

(* What is written is a sequence of tokens.                                *)
LEMMA VulnerabilitiesAreMessage ==
  ASSUME NEW slice, AreVulnerabilities(slice.items)
  PROVE  IsSequence(AppendArray(slice, MarshalVulnerability))
<1>1. PICK elements : elements = [i \in DOMAIN slice.items |-> MarshalVulnerability(slice.items[i])]
  BY Zenon
<1>2. PICK values : values = [i \in DOMAIN slice.items |-> DecodedVulnerability(slice.items[i])]
  BY Zenon
<1>3. PICK n \in Nat : n = Len(slice.items)
  BY SequenceDomain DEF AreVulnerabilities
<1>4. VulnerabilityReader!AreWrittenElements(elements, values, ZeroVulnerability, n)
  BY <1>1, <1>2, <1>3, VulnerabilitiesAreWritten
<1>5. VulnerabilityReader!IsSequence(VulnerabilityReader!ArrayMessage(elements, n))
  BY <1>4, VulnerabilityReader!ArrayIsSequence DEF VulnerabilityReader!AreWrittenElements
<1>6. QED
  BY Zenon, <1>1, <1>3, <1>5, VulnerabilitiesTerms DEF AppendArray

(* Arrays of vulnerabilities are read back.                                *)
LEMMA VulnerabilitiesRoundTrip ==
  ASSUME NEW slice, AreVulnerabilities(slice.items),
         NEW m \in Encodings(AppendArray(slice, MarshalVulnerability), NewerField), NEW c,
         IsSequence(c),
         NEW values, values = [i \in DOMAIN slice.items |-> DecodedVulnerability(slice.items[i])]
  PROVE  ReadArray(NilSlice, m \o c, ZeroVulnerability, UnmarshalVulnerability)
           = Success(IF slice.items = <<>> THEN NilSlice ELSE SliceOf(values), c)
<1>1. PICK elements : elements = [i \in DOMAIN slice.items |-> MarshalVulnerability(slice.items[i])]
  BY Zenon
<1>2. PICK n \in Nat : n = Len(slice.items)
  BY SequenceDomain DEF AreVulnerabilities
<1>3. VulnerabilityReader!AreWrittenElements(elements, values, ZeroVulnerability, n)
  BY <1>1, <1>2, VulnerabilitiesAreWritten
<1>4. m \in VulnerabilityReader!Encodings(VulnerabilityReader!ArrayMessage(elements, n),
    VulnerabilityReader!NewerField)
  BY Zenon, <1>1, <1>2, VulnerabilitiesTerms DEF AppendArray
<1>5. VulnerabilityReader!IsSequence(c) /\ VulnerabilityReader!IsSequence(NewerValue)
  BY Zenon, VulnerabilitiesTerms, NewerValueIsSequence
<1>6. VulnerabilityReader!ReadArray(VulnerabilityReader!NilSlice, m
          \o c, ZeroVulnerability, UnmarshalVulnerability)
        = VulnerabilityReader!Success(IF n
            = 0 THEN VulnerabilityReader!NilSlice ELSE VulnerabilityReader!SliceOf(values), c)
  BY <1>3, <1>4, <1>5, VulnerabilityReader!ArrayEncodingRoundTrip
<1>7. PICK b : b = m \o c
  BY Zenon
<1>8. ReadArray(NilSlice, b, ZeroVulnerability, UnmarshalVulnerability)
        = VulnerabilityReader!Success(IF n
            = 0 THEN VulnerabilityReader!NilSlice ELSE VulnerabilityReader!SliceOf(values), c)
  BY Zenon, <1>6, <1>7, VulnerabilitiesTerms
<1>9. ReadArray(NilSlice, b, ZeroVulnerability, UnmarshalVulnerability)
        = Success(IF n = 0 THEN NilSlice ELSE SliceOf(values), c)
  BY Zenon, <1>8, VulnerabilitiesTerms
<1>10. n = 0 <=> slice.items = <<>>
  BY <1>2, SequenceDomain DEF AreVulnerabilities
<1>11. QED
  BY Zenon, <1>7, <1>9, <1>10

-----------------------------------------------------------------------------
(* Event                                                                   *)

(* What the constructors make of this type.                                *)
IsEvent(z) ==
  /\ z = [sources |-> z.sources, vulnerabilities |-> z.vulnerabilities]
  /\ z.sources = [made |-> z.sources.made, items |-> z.sources.items] /\ z.sources.made \in BOOLEAN
  /\ AreSources(z.sources.items) /\ (~z.sources.made => z.sources.items = <<>>)
  /\ z.vulnerabilities
         = [made |-> z.vulnerabilities.made, items |-> z.vulnerabilities.items]
             /\ z.vulnerabilities.made
  /\ AreVulnerabilities(z.vulnerabilities.items) /\ (~z.vulnerabilities.made =>
         z.vulnerabilities.items = <<>>)
  /\ z.sources.made => z.sources.items # <<>>

(* The fields, by the names of the model and as they are written.          *)
EventAttr == <<"sources", "vulnerabilities">>
EventFields(z) == <<
  Field("sources", ~z.sources.made, AppendArray(z.sources, MarshalSource)),
  Field("vulnerabilities", FALSE, AppendArray(z.vulnerabilities, MarshalVulnerability))>>

(* What the instance means by the names of MessagePack is what they mean.  *)
LEMMA EventTerms ==
  /\ \A s : EventReader!IsSequence(s) = IsSequence(s)
  /\ \A v, c : EventReader!Success(v, c) = Success(v, c)
  /\ \A z, f, r : EventReader!SetField(z, f, r) = SetField(z, f, r)
  /\ \A k, o, v : EventReader!Field(k, o, v) = Field(k, o, v)
  /\ \A k, v : EventReader!Token(k, v) = Token(k, v)
  /\ \A m, f : EventReader!Encodings(m, f) = Encodings(m, f)
  /\ EventReader!NewerField = NewerField
  /\ \A fields : EventReader!AppendMap(fields) = AppendMap(fields)
  /\ \A z, b : EventReader!ReadMap(z, b, UnmarshalEventField) = UnmarshalEvent(z, b)
<1>1. /\ \A s : EventReader!IsSequence(s) = IsSequence(s)
      /\ \A v, c : EventReader!Success(v, c) = Success(v, c)
      /\ \A k, o, v : EventReader!Field(k, o, v) = Field(k, o, v)
      /\ \A k, v : EventReader!Token(k, v) = Token(k, v)
      /\ EventReader!NewerField = NewerField
  BY Zenon DEF
    IsSequence, EventReader!IsSequence, Success, EventReader!Success, Field,
    EventReader!Field, Token, EventReader!Token, NewerField, EventReader!NewerField
<1>2. \A z, f, r : EventReader!SetField(z, f, r) = SetField(z, f, r)
  BY Zenon DEF
    SetField, EventReader!SetField, Success, EventReader!Success, Failure,
    EventReader!Failure
<1>3. \A m, f : EventReader!Encodings(m, f) = Encodings(m, f)
  BY Zenon DEF
    Encodings, EventReader!Encodings, WithField, EventReader!WithField, Token,
    EventReader!Token
<1>4. \A fields : EventReader!AppendMap(fields) = AppendMap(fields)
  BY Zenon DEF
    AppendMap, EventReader!AppendMap, AppendFields, EventReader!AppendFields,
    AppendField, EventReader!AppendField, Present, EventReader!Present, Token,
    EventReader!Token, FlattenSeq, EventReader!FlattenSeq, Cardinality,
    EventReader!Cardinality
<1>5. \A z, b : EventReader!ReadMap(z, b, UnmarshalEventField) = UnmarshalEvent(z, b)
  BY Zenon DEF UnmarshalEvent,
    ReadMap, EventReader!ReadMap, Read, EventReader!Read, Repeat, EventReader!Repeat,
    Success, EventReader!Success, Failure, EventReader!Failure
<1>6. QED
  BY Zenon, <1>1, <1>2, <1>3, <1>4, <1>5

(* A field that is one token, as its reader finds it.                      *)
LEMMA EventToken ==
  ASSUME NEW key, NEW omitted, NEW kind, kind # "map", NEW s, NEW g, NEW zero, NEW target,
         omitted => target[g] = zero[g],
         \A z, c : IsSequence(c) /\ z[g] = zero[g] =>
           UnmarshalEventField(z, key, Token(kind, s) \o c) = SetField(z, g, Success(target[g], c))
  PROVE  EventReader!IsWritten(Field(key, omitted, Token(kind, s)), g, zero, target)
<1>1. \A z, c : EventReader!IsSequence(c) /\ z[g] = zero[g] =>
        UnmarshalEventField(z, key, EventReader!Token(kind, s) \o c)
          = EventReader!SetField(z, g, EventReader!Success(target[g], c))
  BY EventTerms
<1>2. EventReader!IsWritten(EventReader!Field(key, omitted, EventReader!Token(kind, s)), g, zero,
    target)
  BY <1>1, EventReader!WrittenToken
<1>3. QED
  BY Zenon, <1>2, EventTerms

(* A field whose token is read as what it holds.                           *)
LEMMA EventPlain ==
  ASSUME NEW key, NEW omitted, NEW kind, kind # "map", NEW s, NEW g, NEW zero, NEW target,
         omitted => target[g] = zero[g], s = target[g],
         \A y, b : UnmarshalEventField(y, key, b) = SetField(y, g, Read(kind, b))
  PROVE  EventReader!IsWritten(Field(key, omitted, Token(kind, s)), g, zero, target)
<1>1. \A y, c : IsSequence(c) /\ y[g] = zero[g] =>
        UnmarshalEventField(y, key, Token(kind, s) \o c) = SetField(y, g, Success(target[g], c))
  <2>1. TAKE y, c
  <2>2. HAVE IsSequence(c) /\ y[g] = zero[g]
  <2>3. Read(kind, Token(kind, s) \o c) = Success(s, c)
    BY <2>2, TokenIsRead
  <2>4. QED
    BY Zenon, <2>3
<1>2. QED
  BY <1>1, EventToken

(* A field that is a value of several tokens.                              *)
LEMMA EventValue ==
  ASSUME NEW key, NEW omitted, NEW value, NEW g, NEW zero, NEW target,
         ~omitted, IsSequence(value),
         \A x \in Encodings(value, NewerField) : \A z, c : IsSequence(c) /\ z[g] = zero[g] =>
           UnmarshalEventField(z, key, x \o c) = SetField(z, g, Success(target[g], c))
  PROVE  EventReader!IsWritten(Field(key, omitted, value), g, zero, target)
<1>1. \A x \in EventReader!Encodings(value, EventReader!NewerField) :
        \A z, c : EventReader!IsSequence(c) /\ z[g] = zero[g] =>
          UnmarshalEventField(z, key, x \o c)
              = EventReader!SetField(z, g, EventReader!Success(target[g], c))
  BY EventTerms
<1>2. EventReader!IsSequence(value)
  BY Zenon, EventTerms
<1>3. EventReader!IsWritten(EventReader!Field(key, omitted, value), g, zero, target)
  BY <1>1, <1>2, EventReader!WrittenValue
<1>4. QED
  BY Zenon, <1>3, EventTerms

(* A field that is left out.                                               *)
LEMMA EventOmitted ==
  ASSUME NEW key, NEW omitted, NEW value, NEW g, NEW zero, NEW target,
         omitted, target[g] = zero[g]
  PROVE  EventReader!IsWritten(Field(key, omitted, value), g, zero, target)
<1> DEFINE f == Field(key, omitted, value)
<1>1. f.isOmitted = omitted
  BY DEF Field
<1> HIDE DEF f
<1>2. EventReader!IsWritten(f, g, zero, target)
  BY Zenon, <1>1 DEF EventReader!IsWritten
<1>3. QED
  BY Zenon, <1>2 DEF f

(* A field of a newer model changes nothing.                               *)
LEMMA EventPassesOver ==
  ASSUME NEW z
  PROVE  EventReader!IsPassedOver(z)
<1>1. EventReader!IsSequence(NewerValue)
  BY Zenon, NewerValueIsSequence, EventTerms
<1>2. ASSUME NEW c, EventReader!IsSequence(c)
      PROVE  UnmarshalEventField(z, "newer", NewerValue \o c) = EventReader!Success(z, c)
  <2>1. PICK b : b = NewerValue \o c
    OBVIOUS
  <2>2. SkipField(z, b) = Success(z, c)
    BY <1>2, <2>1, EventTerms, NewerFieldSkipped
  <2>3. UnmarshalEventField(z, "newer", b) = SkipField(z, b)
    BY DEF UnmarshalEventField
  <2>4. QED
    BY Zenon, <2>1, <2>2, <2>3, EventTerms
<1>3. QED
  BY Zenon, <1>1, <1>2 DEF EventReader!IsPassedOver

(* Fields that are written as they are read make a map that is.            *)
LEMMA EventEncoding ==
  ASSUME NEW n \in Nat, NEW fields, NEW target, NEW attr, NEW zero,
         EventReader!AreWritten(fields, n, attr, zero, target),
         NEW m \in Encodings(AppendMap(fields), NewerField), NEW c, IsSequence(c)
  PROVE  UnmarshalEvent(zero, m \o c) = Success(target, c)
<1>1. EventReader!IsSequence(c)
  BY Zenon, EventTerms
<1>2. m \in EventReader!Encodings(EventReader!AppendMap(fields), EventReader!NewerField)
  BY Zenon, EventTerms
<1>3. EventReader!IsPassedOver(zero)
  BY EventPassesOver
<1>4. EventReader!ReadMap(zero, m \o c, UnmarshalEventField) = EventReader!Success(target, c)
  BY <1>1, <1>2, <1>3, EventReader!MapEncodingRoundTrip
<1>5. PICK b : b = m \o c
  OBVIOUS
<1>6. UnmarshalEvent(zero, b) = EventReader!ReadMap(zero, b, UnmarshalEventField)
  BY Zenon, EventTerms
<1>7. Success(target, c) = EventReader!Success(target, c)
  BY Zenon, EventTerms
<1>8. QED
  BY Zenon, <1>4, <1>5, <1>6, <1>7

(* How each field is read.                                                 *)
LEMMA EventFieldRead ==
  ASSUME NEW z, NEW b
  PROVE  /\ UnmarshalEventField(z, "sources", b)
      = SetField(z, "sources", ReadArray(z.sources, b, ZeroSource, UnmarshalSource))
         /\ UnmarshalEventField(z, "vulnerabilities", b)
                = SetField(z, "vulnerabilities", ReadArray(z.vulnerabilities, b,
                    ZeroVulnerability, UnmarshalVulnerability))
BY DEF UnmarshalEventField

(* t is z as a reader makes it.                                            *)
IsEventDecoded(z, t) ==
  /\ t = [sources |-> t.sources, vulnerabilities |-> t.vulnerabilities]
  /\ t.sources = IF z.sources.items = <<>> THEN NilSlice
     ELSE SliceOf([i \in DOMAIN z.sources.items |-> z.sources.items[i]])
  /\ t.vulnerabilities = IF z.vulnerabilities.items = <<>> THEN NilSlice
     ELSE SliceOf([i \in DOMAIN z.vulnerabilities.items |->
       DecodedVulnerability(z.vulnerabilities.items[i])])

(* What is decoded, told field by field.                                   *)
LEMMA EventDecoded ==
  ASSUME NEW z, IsEvent(z)
  PROVE  \E t : IsEventDecoded(z, t) /\ (z.vulnerabilities.items # <<>> => t = Decoded(z))
<1>1. PICK items : items = z.vulnerabilities.items
  OBVIOUS
<1>2. PICK decoded : decoded = [i \in DOMAIN items |-> DecodedVulnerability(items[i])]
  OBVIOUS
<1>3. PICK v : v = IF items = <<>> THEN NilSlice ELSE SliceOf(decoded)
  OBVIOUS
<1>4. PICK s : s = IF z.sources.items = <<>> THEN NilSlice
                   ELSE SliceOf([i \in DOMAIN z.sources.items |-> z.sources.items[i]])
  OBVIOUS
<1>5. s = z.sources
  <2>1. CASE z.sources.items = <<>>
    <3>1. z.sources = [made |-> FALSE, items |-> <<>>]
      BY <2>1 DEF IsEvent
    <3>2. QED
      BY <1>4, <2>1, <3>1 DEF NilSlice
  <2>2. CASE z.sources.items # <<>>
    <3>1. z.sources = [made |-> TRUE, items |-> z.sources.items]
      BY <2>2 DEF IsEvent
    <3>2. z.sources.items = [i \in DOMAIN z.sources.items |-> z.sources.items[i]]
      BY DEF IsEvent, AreSources, IsSequence
    <3>3. QED
      BY Zenon, <1>4, <2>2, <3>1, <3>2 DEF SliceOf
  <2>3. QED
    BY <2>1, <2>2
<1>6. PICK t : t = [sources |-> s, vulnerabilities |-> v]
  OBVIOUS
<1>7. /\ t = [sources |-> t.sources, vulnerabilities |-> t.vulnerabilities]
      /\ t.sources = s /\ t.vulnerabilities = v
  BY <1>6
<1>8. IsEventDecoded(z, t)
  BY Zenon, <1>1, <1>2, <1>3, <1>4, <1>7 DEF IsEventDecoded
<1>9. ASSUME items # <<>> PROVE t = Decoded(z)
  <2>1. Decoded(z) =
          [z EXCEPT !.vulnerabilities.items =
             [i \in DOMAIN z.vulnerabilities.items |->
               DecodedVulnerability(z.vulnerabilities.items[i])]]
    BY DEF Decoded
  <2>2. Decoded(z) = [z EXCEPT !.vulnerabilities.items = decoded]
    BY Zenon, <1>1, <1>2, <2>1
  <2>3. Decoded(z) = [sources |-> z.sources, vulnerabilities |-> [made |-> TRUE, items |-> decoded]]
    BY <2>2 DEF IsEvent
  <2>4. v = [made |-> TRUE, items |-> decoded]
    BY <1>3, <1>9 DEF SliceOf
  <2>5. QED
    BY Zenon, <1>5, <1>6, <2>3, <2>4
<1>10. QED
  BY <1>1, <1>8, <1>9

(* The field is read from its value, and all of it.                        *)
EventSourcesIsRead(z, t) ==
  LET value == AppendArray(z.sources, MarshalSource) IN
    /\ IsSequence(value)
    /\ \A x \in Encodings(value, NewerField) : \A y, c : IsSequence(c) /\ y.sources
           = ZeroEvent.sources =>
         UnmarshalEventField(y, "sources", x \o c) = SetField(y, "sources", Success(t.sources, c))

(* The field is read from every encoding of its value.                     *)
LEMMA ReadEventSources ==
  ASSUME NEW z, IsEvent(z), NEW t, IsEventDecoded(z, t), z.sources.made
  PROVE  EventSourcesIsRead(z, t)
<1>1. PICK slice : slice = z.sources
  BY Zenon
<1>2. AreSources(slice.items)
  BY <1>1 DEF IsEvent
<1>3. PICK values : values = [i \in DOMAIN slice.items |-> slice.items[i]]
  BY Zenon
<1>4. t.sources = IF slice.items = <<>> THEN NilSlice ELSE SliceOf(values)
  BY Zenon, <1>1, <1>3 DEF IsEventDecoded
<1>5. ZeroEvent.sources = NilSlice
  BY DEF ZeroEvent
<1>6. IsSequence(AppendArray(slice, MarshalSource))
  BY <1>2, SourcesAreMessage
<1>7. ASSUME NEW x \in Encodings(AppendArray(slice, MarshalSource), NewerField), NEW y, NEW c,
             IsSequence(c), y.sources = ZeroEvent.sources
      PROVE  UnmarshalEventField(y, "sources", x \o c)
          = SetField(y, "sources", Success(t.sources, c))
  <2>1. ReadArray(NilSlice, x \o c, ZeroSource, UnmarshalSource)
          = Success(IF slice.items = <<>> THEN NilSlice ELSE SliceOf(values), c)
    BY <1>2, <1>3, <1>7, SourcesRoundTrip
  <2>2. y.sources = NilSlice
    BY Zenon, <1>5, <1>7
  <2>3. QED
    BY Zenon, <1>4, <2>1, <2>2, EventFieldRead
<1>8. QED
  BY Zenon, <1>1, <1>6, <1>7 DEF EventSourcesIsRead

(* The field is read from its value, and all of it.                        *)
EventVulnerabilitiesIsRead(z, t) ==
  LET value == AppendArray(z.vulnerabilities, MarshalVulnerability) IN
    /\ IsSequence(value)
    /\ \A x \in Encodings(value, NewerField) : \A y, c : IsSequence(c) /\ y.vulnerabilities
           = ZeroEvent.vulnerabilities =>
         UnmarshalEventField(y, "vulnerabilities", x \o c)
             = SetField(y, "vulnerabilities", Success(t.vulnerabilities, c))

(* The field is read from every encoding of its value.                     *)
LEMMA ReadEventVulnerabilities ==
  ASSUME NEW z, IsEvent(z), NEW t, IsEventDecoded(z, t)
  PROVE  EventVulnerabilitiesIsRead(z, t)
<1>1. PICK slice : slice = z.vulnerabilities
  BY Zenon
<1>2. AreVulnerabilities(slice.items)
  BY <1>1 DEF IsEvent
<1>3. PICK values : values = [i \in DOMAIN slice.items |-> DecodedVulnerability(slice.items[i])]
  BY Zenon
<1>4. t.vulnerabilities = IF slice.items = <<>> THEN NilSlice ELSE SliceOf(values)
  BY Zenon, <1>1, <1>3 DEF IsEventDecoded
<1>5. ZeroEvent.vulnerabilities = NilSlice
  BY DEF ZeroEvent
<1>6. IsSequence(AppendArray(slice, MarshalVulnerability))
  BY <1>2, VulnerabilitiesAreMessage
<1>7. ASSUME NEW x \in Encodings(AppendArray(slice, MarshalVulnerability), NewerField), NEW y,
    NEW c,
             IsSequence(c), y.vulnerabilities = ZeroEvent.vulnerabilities
      PROVE  UnmarshalEventField(y, "vulnerabilities", x \o c)
          = SetField(y, "vulnerabilities", Success(t.vulnerabilities, c))
  <2>1. ReadArray(NilSlice, x \o c, ZeroVulnerability, UnmarshalVulnerability)
          = Success(IF slice.items = <<>> THEN NilSlice ELSE SliceOf(values), c)
    BY <1>2, <1>3, <1>7, VulnerabilitiesRoundTrip
  <2>2. y.vulnerabilities = NilSlice
    BY Zenon, <1>5, <1>7
  <2>3. QED
    BY Zenon, <1>4, <2>1, <2>2, EventFieldRead
<1>8. QED
  BY Zenon, <1>1, <1>6, <1>7 DEF EventVulnerabilitiesIsRead

(* Every field of the type is written as it is read.                       *)
LEMMA EventIsWritten ==
  ASSUME NEW z, IsEvent(z), NEW t, IsEventDecoded(z, t)
  PROVE  EventReader!AreWritten(EventFields(z), 2, EventAttr, ZeroEvent, t)
<1>1. EventReader!IsWritten(EventFields(z)[1], "sources", ZeroEvent, t)
  <2>1. CASE ~z.sources.made
    <3>1. t.sources = ZeroEvent.sources
      BY <2>1 DEF ZeroEvent, IsEvent, IsEventDecoded
    <3>2. EventReader!IsWritten(Field("sources", ~z.sources.made, AppendArray(z.sources,
        MarshalSource)), "sources", ZeroEvent, t)
      BY <2>1, <3>1, EventOmitted
    <3>3. QED
      BY <3>2 DEF EventFields
  <2>2. CASE ~(~z.sources.made)
    <3>1. EventSourcesIsRead(z, t)
      BY <2>2, ReadEventSources
    <3>2. EventReader!IsWritten(Field("sources", ~z.sources.made, AppendArray(z.sources,
        MarshalSource)), "sources", ZeroEvent, t)
      BY <2>2, <3>1, EventValue DEF EventSourcesIsRead
    <3>3. QED
      BY <3>2 DEF EventFields
  <2>3. QED
    BY <2>1, <2>2
<1>2. EventReader!IsWritten(EventFields(z)[2], "vulnerabilities", ZeroEvent, t)
  <2>2. CASE ~FALSE
    <3>1. EventVulnerabilitiesIsRead(z, t)
      BY ReadEventVulnerabilities
    <3>2. EventReader!IsWritten(Field("vulnerabilities", FALSE, AppendArray(z.vulnerabilities,
        MarshalVulnerability)), "vulnerabilities", ZeroEvent, t)
      BY <2>2, <3>1, EventValue DEF EventVulnerabilitiesIsRead
    <3>3. QED
      BY <3>2 DEF EventFields
  <2>3. QED
    BY <2>2
<1>3. DOMAIN EventFields(z) = 1..2
  BY DEF EventFields
<1>4. \A i \in 1..2 : EventReader!IsWritten(EventFields(z)[i], EventAttr[i], ZeroEvent, t)
  BY <1>1, <1>2 DEF EventAttr
<1>5. DOMAIN ZeroEvent = {"sources", "vulnerabilities"}
  BY DEF ZeroEvent
<1>6. ZeroEvent = [g \in DOMAIN ZeroEvent |-> ZeroEvent[g]] /\ t = [g \in DOMAIN ZeroEvent |-> t[g]]
  BY DEF ZeroEvent, IsEvent, IsEventDecoded
<1>7. /\ \A i \in 1..2 : EventAttr[i] \in DOMAIN ZeroEvent
      /\ \A g \in DOMAIN ZeroEvent : \E i \in 1..2 : EventAttr[i] = g
      /\ \A i, j \in 1..2 : EventAttr[i] = EventAttr[j] => i = j
  BY <1>5 DEF EventAttr
<1>8. QED
  BY Zenon, <1>3, <1>4, <1>6, <1>7 DEF EventReader!AreWritten

(* An event is written as the map of its fields.                           *)
LEMMA MarshalledEvent ==
  ASSUME NEW z
  PROVE  MarshalEvent(z) = AppendMap(EventFields(z))
BY Zenon DEF MarshalEvent, EventFields

(* What is written is a sequence of tokens.                                *)
LEMMA EventIsMessage ==
  ASSUME NEW z, IsEvent(z)
  PROVE  IsSequence(MarshalEvent(z))
<1>1. PICK t : IsEventDecoded(z, t)
  BY EventDecoded
<1>2. EventReader!AreWritten(EventFields(z), 2, EventAttr, ZeroEvent, t)
  BY <1>1, EventIsWritten
<1>3. EventReader!IsSequence(EventReader!AppendMap(EventFields(z)))
  BY <1>2, EventReader!MapIsSequence
<1>4. QED
  BY Zenon, <1>3, EventTerms, MarshalledEvent

(* Every encoding of an event is read as the event, whatever follows it.   *)
LEMMA EventIsRead ==
  ASSUME NEW z, IsEvent(z), NEW t, IsEventDecoded(z, t),
         NEW m \in Encodings(MarshalEvent(z), NewerField), NEW c, IsSequence(c)
  PROVE  UnmarshalEvent(ZeroEvent, m \o c) = Success(t, c)
<1>1. EventReader!AreWritten(EventFields(z), 2, EventAttr, ZeroEvent, t)
  BY EventIsWritten
<1>2. m \in Encodings(AppendMap(EventFields(z)), NewerField)
  BY Zenon, MarshalledEvent
<1>3. QED
  BY <1>1, <1>2, EventEncoding

(* An encoding of an event, and messages one after the other.              *)
LEMMA EventEncodingIsMessage ==
  ASSUME NEW z, IsEvent(z), NEW m \in Encodings(MarshalEvent(z), NewerField)
  PROVE  IsSequence(m)
<1>1. PICK a, f : a = MarshalEvent(z) /\ f = NewerField
  BY Zenon
<1>2. IsSequence(a)
  BY Zenon, <1>1, EventIsMessage
<1>3. EventReader!IsSequence(f)
  <2>1. IsSequence(NewerValue)
    BY NewerValueIsSequence
  <2>2. EventReader!IsSequence(EventReader!NewerField)
    BY Zenon, <2>1, EventTerms, EventReader!NewerFieldIsSequence
  <2>3. QED
    BY Zenon, <1>1, <2>2, EventTerms
<1>4. EventReader!IsSequence(a)
  BY Zenon, <1>2, EventTerms
<1>5. m \in EventReader!Encodings(a, f)
  BY Zenon, <1>1, EventTerms
<1>6. EventReader!IsSequence(m)
  BY <1>3, <1>4, <1>5, EventReader!EncodingIsSequence
<1>7. QED
  BY Zenon, <1>6, EventTerms

(* Messages can be joined,                                                 *)
LEMMA MessagesJoined ==
  ASSUME NEW a, NEW b, IsSequence(a), IsSequence(b)
  PROVE  IsSequence(a \o b) /\ a \o <<>> = a /\ <<>> \o a = a
<1>1. EventReader!IsSequence(a) /\ EventReader!IsSequence(b)
  BY Zenon, EventTerms
<1>2. EventReader!IsSequence(a \o b) /\ a \o <<>> = a /\ <<>> \o a = a
  BY <1>1, EventReader!Joined
<1>3. QED
  BY Zenon, <1>2, EventTerms

(* in any grouping.                                                        *)
LEMMA MessagesRegrouped ==
  ASSUME NEW a, NEW b, NEW c, IsSequence(a), IsSequence(b), IsSequence(c)
  PROVE  (a \o b) \o c = a \o (b \o c)
<1>1. EventReader!IsSequence(a) /\ EventReader!IsSequence(b) /\ EventReader!IsSequence(c)
  BY Zenon, EventTerms
<1>2. QED
  BY <1>1, EventReader!JoinedAnyhow

-----------------------------------------------------------------------------
(* What the constructors make                                              *)

LEMMA SideIsMade ==
  ASSUME NEW text
  PROVE  TruncateStringIfNeeded(text).side \in DOMAIN TruncatedSides
<1> DEFINE t == TruncateString(text)
<1>1. TruncateStringIfNeeded(text) =
        [text |-> t.text, side |-> IF t.truncated THEN TruncatedSideRight ELSE TruncatedSideNone]
  BY DEF TruncateStringIfNeeded
<1>2. TruncateStringIfNeeded(text).side =
        IF t.truncated THEN TruncatedSideRight ELSE TruncatedSideNone
  BY <1>1
<1> HIDE DEF t
<1>3. QED
  BY <1>2 DEF TruncatedSides

(* NewSource makes sources the lemmas above are about,                     *)
LEMMA SourceIsMade ==
  ASSUME NEW s \in SourceInputs
  PROVE  IsSource(NewSource(s))
<1> DEFINE t == TruncateStringIfNeeded(s.text)
<1>1. t.side \in DOMAIN TruncatedSides /\ s.origin \in OriginConstants
  BY SideIsMade DEF SourceInputs
<1>2. CASE s.redacted
  <2>1. NewSource(s) = [origin |-> s.origin, name |-> s.name, value |-> <<>>, pattern |-> t.text,
                        redacted |-> TRUE, truncated |-> t.side]
    BY <1>2 DEF NewSource, NewSourceRedactedString, WithPattern, ZeroSource
  <2> HIDE DEF t
  <2>2. QED
    BY <1>1, <2>1 DEF IsSource
<1>3. CASE ~s.redacted
  <2>1. NewSource(s) = [origin |-> s.origin, name |-> s.name, value |-> t.text, pattern |-> <<>>,
                        redacted |-> FALSE, truncated |-> t.side]
    BY <1>3 DEF NewSource, NewSourceString, WithValue, ZeroSource
  <2> HIDE DEF t
  <2>2. QED
    BY <1>1, <2>1 DEF IsSource
<1>4. QED
  BY <1>2, <1>3

(* NewValuePart such parts,                                                *)
LEMMA ValuePartIsMade ==
  ASSUME NEW p \in PartInputs
  PROVE  IsValuePart(NewValuePart(p))
<1> DEFINE t == TruncateStringIfNeeded(p.text)
           plain == IF p.redacted THEN NewValuePartRedactedString(p.text)
                    ELSE NewValuePartString(p.text)
           marks == p.secureMarks
           source == NewPointer(p.sourceIndex)
<1>1. t.side \in DOMAIN TruncatedSides
  BY SideIsMade
<1>2. /\ marks = [made |-> marks.made, items |-> marks.items] /\ marks.made \in BOOLEAN
      /\ marks.items \in Seq(TypeConstants) /\ (~marks.made => marks.items = <<>>)
  BY DEF PartInputs
<1>3. AreMarks(marks.items)
  BY <1>2 DEF AreMarks, IsSequence
<1>4. AreMarks(<<>>)
  BY DEF AreMarks, IsSequence
<1>5. PICK text, pattern, redacted :
        /\ redacted \in BOOLEAN
        /\ plain = [value |-> text, pattern |-> pattern, redacted |-> redacted,
                    truncated |-> t.side, source |-> NilPointer, secureMarks |-> NilSlice]
  <2>1. CASE p.redacted
    <3>1. plain = [value |-> <<>>, pattern |-> t.text, redacted |-> TRUE,
                   truncated |-> t.side, source |-> NilPointer, secureMarks |-> NilSlice]
      BY <2>1 DEF NewValuePartRedactedString, WithPattern, ZeroValuePart
    <3> HIDE DEF plain, t
    <3>2. QED
      BY <3>1
  <2>2. CASE ~p.redacted
    <3>1. plain = [value |-> t.text, pattern |-> <<>>, redacted |-> FALSE,
                   truncated |-> t.side, source |-> NilPointer, secureMarks |-> NilSlice]
      BY <2>2 DEF NewValuePartString, WithValue, ZeroValuePart
    <3> HIDE DEF plain, t
    <3>2. QED
      BY <3>1
  <2>3. QED
    BY <2>1, <2>2
<1>6. NewValuePart(p) = plain \/ NewValuePart(p) = Tainted(plain, p.sourceIndex, marks)
  BY DEF NewValuePart, NewValuePartTaintedString, NewValuePartTaintedRedactedString
<1> HIDE DEF plain, t, marks
<1>7. IsValuePart(plain)
  <2>1. /\ plain.redacted = redacted /\ plain.truncated = t.side
        /\ plain.source = NilPointer /\ plain.secureMarks = NilSlice
        /\ plain = [value |-> plain.value, pattern |-> plain.pattern, redacted |-> plain.redacted,
                    truncated |-> plain.truncated, source |-> plain.source,
                    secureMarks |-> plain.secureMarks]
    BY <1>5
  <2>2. NilSlice = [made |-> FALSE, items |-> <<>>]
    BY DEF NilSlice
  <2>3. QED
    BY <1>1, <1>4, <1>5, <2>1, <2>2 DEF IsValuePart
<1>8. IsValuePart(Tainted(plain, p.sourceIndex, marks))
  <2> DEFINE part == Tainted(plain, p.sourceIndex, marks)
  <2>1. part = [value |-> text, pattern |-> pattern, redacted |-> redacted,
                truncated |-> t.side, source |-> source, secureMarks |-> marks]
    <3>1. part = [plain EXCEPT !.source = source, !.secureMarks = marks]
      BY DEF Tainted
    <3> HIDE DEF part, source
    <3>2. QED
      BY <1>5, <3>1
  <2>2. source = NewPointer(source[1])
    BY DEF NewPointer
  <2> HIDE DEF part, source
  <2>3. /\ part.redacted = redacted /\ part.truncated = t.side
        /\ part.source = source /\ part.secureMarks = marks
        /\ part = [value |-> part.value, pattern |-> part.pattern, redacted |-> part.redacted,
                   truncated |-> part.truncated, source |-> part.source,
                   secureMarks |-> part.secureMarks]
    BY <2>1
  <2>4. IsValuePart(part)
    BY <1>1, <1>2, <1>3, <1>5, <2>2, <2>3 DEF IsValuePart
  <2>5. QED
    BY <2>4 DEF part
<1>9. QED
  BY <1>6, <1>7, <1>8

(* and the constructors of evidence such evidence,                         *)
LEMMA EvidenceOfParts ==
  ASSUME NEW value, NEW pattern, NEW redacted \in BOOLEAN, NEW truncated \in DOMAIN TruncatedSides,
         NEW made \in BOOLEAN, NEW parts, AreValueParts(parts), made \/ parts = <<>>,
         NEW e, e = [value |-> value, pattern |-> pattern, redacted |-> redacted,
                     truncated |-> truncated, valueParts |-> [made |-> made, items |-> parts]]
  PROVE  IsEvidence(e)
<1>1. PICK slice : slice = [made |-> made, items |-> parts]
  OBVIOUS
<1>2. slice.made = made /\ slice.items = parts /\ slice
          = [made |-> slice.made, items |-> slice.items]
  BY <1>1
<1>3. e = [value |-> value, pattern |-> pattern, redacted |-> redacted,
           truncated |-> truncated, valueParts |-> slice]
  BY Zenon, <1>1
<1>4. /\ e.redacted = redacted /\ e.truncated = truncated /\ e.valueParts = slice
      /\ e = [value |-> e.value, pattern |-> e.pattern, redacted |-> e.redacted,
              truncated |-> e.truncated, valueParts |-> e.valueParts]
  BY <1>3
<1>5. QED
  BY Zenon, <1>2, <1>4 DEF IsEvidence

(* whichever of them is called;                                            *)
LEMMA EvidenceIsMade ==
  ASSUME NEW e \in EvidenceInputs
  PROVE  IsEvidence(NewEvidenceOf(e))
<1> DEFINE t == TruncateStringIfNeeded(e.text)
<1>1. t.side \in DOMAIN TruncatedSides /\ e.parts \in Seq(PartInputs)
  BY SideIsMade DEF EvidenceInputs
<1>2. AreValueParts(<<>>)
  BY DEF AreValueParts, IsSequence
<1>3. TruncatedSideNone \in DOMAIN TruncatedSides
  BY DEF TruncatedSides
<1>4. CASE e.kind = "string"
  <2>1. NewEvidenceOf(e) = [value |-> t.text, pattern |-> <<>>, redacted |-> FALSE,
                            truncated |-> t.side, valueParts |-> [made |-> FALSE, items |-> <<>>]]
    BY <1>4 DEF NewEvidenceOf, NewEvidenceString, WithValue, ZeroEvidence, NilSlice
  <2> HIDE DEF t
  <2>2. QED
    BY <1>1, <1>2, <2>1, EvidenceOfParts
<1>5. CASE e.kind # "string" /\ e.kind = "redacted"
  <2>1. NewEvidenceOf(e) = [value |-> <<>>, pattern |-> t.text, redacted |-> TRUE,
                            truncated |-> t.side, valueParts |-> [made |-> FALSE, items |-> <<>>]]
    BY <1>5 DEF NewEvidenceOf, NewEvidenceRedactedString, WithPattern, ZeroEvidence, NilSlice
  <2> HIDE DEF t
  <2>2. QED
    BY <1>1, <1>2, <2>1, EvidenceOfParts
<1>6. CASE e.kind # "string" /\ e.kind # "redacted" /\ e.kind = "tainted"
  <2> DEFINE parts == [k \in DOMAIN e.parts |-> NewValuePart(e.parts[k])]
  <2>1. NewEvidenceOf(e) = [value |-> <<>>, pattern |-> <<>>, redacted |-> FALSE,
                            truncated |-> TruncatedSideNone,
                            valueParts |-> [made |-> TRUE, items |-> parts]]
    BY <1>6 DEF NewEvidenceOf, NewEvidenceTaintedValue, ZeroEvidence, SliceOf
  <2>2. \A k \in DOMAIN parts : IsValuePart(parts[k])
    BY <1>1, ValuePartIsMade
  <2>3. IsSequence(parts)
    <3>1. DOMAIN e.parts = 1..Len(e.parts) /\ Len(e.parts) \in Nat
      BY <1>1
    <3> HIDE DEF parts
    <3>2. DOMAIN parts = 1..Len(e.parts) /\ parts = [k \in 1..Len(e.parts) |-> parts[k]]
      BY <3>1 DEF parts
    <3>3. parts \in [1..Len(e.parts) -> {parts[k] : k \in 1..Len(e.parts)}]
      BY <3>2
    <3>4. QED
      BY <3>1, <3>3, SeqDef DEF IsSequence
  <2> HIDE DEF parts
  <2>4. AreValueParts(parts)
    BY <2>2, <2>3 DEF AreValueParts
  <2>5. QED
    BY <1>3, <2>1, <2>4, EvidenceOfParts
<1>7. CASE e.kind # "string" /\ e.kind # "redacted" /\ e.kind # "tainted"
  <2>1. NewEvidenceOf(e) = [value |-> <<>>, pattern |-> <<>>, redacted |-> FALSE,
                            truncated |-> TruncatedSideNone,
                            valueParts |-> [made |-> FALSE, items |-> <<>>]]
    BY <1>7 DEF NewEvidenceOf, NewEvidenceEmpty, ZeroEvidence, NilSlice
  <2>2. QED
    BY <1>2, <1>3, <2>1, EvidenceOfParts
<1>8. QED
  BY <1>4, <1>5, <1>6, <1>7

(* A pointer is nil or points to its one element.                          *)
LEMMA PointerIsMade ==
  ASSUME NEW S, NEW s \in Seq(S), Len(s) <= 1, s # NilPointer
  PROVE  s = NewPointer(s[1]) /\ s[1] \in S /\ DOMAIN s = {1}
<1>1. Len(s) = 1 /\ DOMAIN s = 1..1 /\ s \in [1..1 -> S]
  <2>1. Len(s) \in Nat /\ s \in [1..Len(s) -> S] /\ (Len(s) = 0 => s = <<>>)
    BY LenProperties, EmptySeq
  <2>2. Len(s) = 1
    BY <2>1 DEF NilPointer
  <2>3. QED
    BY <2>1, <2>2
<1>2. s = <<s[1]>> /\ s[1] \in S /\ 1..1 = {1}
  BY <1>1
<1>3. QED
  BY <1>1, <1>2 DEF NewPointer

(* so that a finding makes such a vulnerability.                           *)
LEMMA VulnerabilityIsMade ==
  ASSUME NEW f \in Findings
  PROVE  IsVulnerability(NewVulnerability(f.type, NewEvidence(f.evidence), f.location))
<1>1. /\ f.type \in TypeConstants
      /\ f.evidence \in Seq(EvidenceInputs) /\ Len(f.evidence) <= 1
      /\ f.location \in Seq(LocationInputs) /\ Len(f.location) <= 1
  BY InputsAssumption
<1>2. PICK type, evidence, location, pointer :
        type = f.type /\ evidence = f.evidence /\ location = f.location /\ pointer
            = NewEvidence(evidence)
  OBVIOUS
<1>3. ASSUME pointer # NilPointer
      PROVE  pointer = NewPointer(pointer[1]) /\ IsEvidence(pointer[1])
  <2>1. pointer = [i \in DOMAIN evidence |-> NewEvidenceOf(evidence[i])]
    BY <1>2 DEF NewEvidence
  <2>2. evidence # NilPointer
    BY <1>3, <2>1 DEF NilPointer
  <2>3. evidence[1] \in EvidenceInputs /\ DOMAIN evidence = {1}
    BY <1>1, <1>2, <2>2, PointerIsMade
  <2>4. pointer = [i \in {1} |-> NewEvidenceOf(evidence[1])]
    BY <2>1, <2>3
  <2>5. pointer = NewPointer(NewEvidenceOf(evidence[1])) /\ pointer[1] = NewEvidenceOf(evidence[1])
    <3>1. PICK e : e = NewEvidenceOf(evidence[1])
      OBVIOUS
    <3>2. pointer = [i \in {1} |-> e]
      BY <2>4, <3>1
    <3>3. pointer = <<e>> /\ pointer[1] = e
      BY <3>2
    <3>4. QED
      BY <3>1, <3>3 DEF NewPointer
  <2>6. QED
    BY <2>3, <2>5, EvidenceIsMade
<1>4. ASSUME location # NilPointer
      PROVE  location = NewPointer(location[1]) /\ IsLocation(location[1])
  <2>1. location = NewPointer(location[1]) /\ location[1] \in LocationInputs
    BY <1>1, <1>2, <1>4, PointerIsMade
  <2>2. IsLocation(location[1])
    BY <2>1 DEF LocationInputs, IsLocation
  <2>3. QED
    BY <2>1, <2>2
<1>5. PICK v : v = NewVulnerability(type, pointer, location)
  OBVIOUS
<1>6. /\ v = [type |-> v.type, hash |-> v.hash, evidence |-> v.evidence, location |-> v.location]
      /\ v.type = type /\ v.evidence = pointer /\ v.location = location
  BY <1>5 DEF NewVulnerability
<1>7. IsVulnerability(v)
  BY <1>1, <1>2, <1>3, <1>4, <1>6 DEF IsVulnerability
<1>8. QED
  BY <1>2, <1>5, <1>7

-----------------------------------------------------------------------------
(* The stream of messages                                                  *)

(* Events that are encoded, and those of them that are decoded.            *)
AreSent(s) ==
  IsSequence(s) /\ \A i \in 1..Len(s) : IsEvent(s[i]) /\ s[i].vulnerabilities.items # <<>>
AreReceived(r, s) ==
  IsSequence(r) /\ Len(r) <= Len(s) /\ \A i \in 1..Len(r) : r[i] = Decoded(s[i])

(* tail[i] is what follows message i, up to the end.                       *)
IsTail(tail, s, k) ==
  /\ tail[Len(s)] = <<>>
  /\ \A i \in k..Len(s) : IsSequence(tail[i])
  /\ \A i \in (k + 1)..Len(s) :
       \E m \in Encodings(MarshalEvent(s[i]), NewerField) : tail[i - 1] = m \o tail[i]

(* The payload after k messages: those of the other events of s, each      *)
(* possibly with a field of a newer version in it.                         *)
IsStream(p, s, k) == \E tail : IsTail(tail, s, k) /\ p = tail[k]

(* No messages at all are a payload.                                       *)
LEMMA NothingIsMessage == IsSequence(<<>>)
BY DEF IsSequence

(* The elements of a sequence with one more event.                         *)
LEMMA OneMoreEvent ==
  ASSUME NEW s, IsSequence(s), NEW e
  PROVE  /\ IsSequence(Append(s, e)) /\ Len(Append(s, e)) = Len(s) + 1 /\ Len(s) \in Nat
         /\ \A i \in 1..Len(s) : Append(s, e)[i] = s[i]
         /\ Append(s, e)[Len(s) + 1] = e
<1>1. PICK S : s \in Seq(S)
  BY DEF IsSequence
<1> DEFINE U == S \union {e}
<1>2. s \in Seq(U) /\ e \in U
  BY <1>1, SeqMonotonic
<1> HIDE DEF U
<1>3. /\ Append(s, e) \in Seq(U) /\ Len(Append(s, e)) = Len(s) + 1
      /\ \A i \in 1..Len(s) : Append(s, e)[i] = s[i]
      /\ Append(s, e)[Len(s) + 1] = e
  BY <1>2, AppendProperties
<1>4. QED
  BY <1>2, <1>3, LenProperties DEF IsSequence

(* A message that is sent joins the end of the stream.                     *)
LEMMA SentStream ==
  ASSUME NEW s, AreSent(s), NEW k \in Nat, k <= Len(s), NEW p, IsStream(p, s, k),
         NEW e, IsEvent(e), NEW m \in Encodings(MarshalEvent(e), NewerField)
  PROVE  IsStream(p \o m, Append(s, e), k)
<1>1. PICK tail : IsTail(tail, s, k) /\ p = tail[k]
  BY DEF IsStream
<1>2. PICK n, sent2 : n = Len(s) /\ sent2 = Append(s, e)
  OBVIOUS
<1>3. n \in Nat /\ Len(sent2) = n + 1 /\ sent2[n + 1] = e /\ \A i \in 1..n : sent2[i] = s[i]
  <2>1. IsSequence(s)
    BY DEF AreSent
  <2>2. QED
    BY <1>2, <2>1, OneMoreEvent
<1>4. PICK tail2 : tail2 = [i \in k..(n + 1) |-> IF i <= n THEN tail[i] \o m ELSE <<>>]
  OBVIOUS
<1>5. /\ \A i \in k..n : tail2[i] = tail[i] \o m
      /\ tail2[n + 1] = <<>>
  BY <1>2, <1>3, <1>4
<1>6. IsSequence(m)
  BY EventEncodingIsMessage
<1>7. /\ tail[n] = <<>>
      /\ \A i \in k..n : IsSequence(tail[i])
      /\ \A i \in (k + 1)..n :
           \E x \in Encodings(MarshalEvent(s[i]), NewerField) : tail[i - 1] = x \o tail[i]
  BY <1>1, <1>2 DEF IsTail
<1>8. \A i \in k..(n + 1) : IsSequence(tail2[i])
  <2>1. TAKE i \in k..(n + 1)
  <2>2. CASE i \in k..n
    <3>1. IsSequence(tail[i] \o m)
      BY <1>6, <1>7, <2>2, MessagesJoined
    <3>2. QED
      BY <1>5, <2>2, <3>1
  <2>3. CASE i = n + 1
    BY <1>5, <2>3, NothingIsMessage
  <2>4. QED
    BY <1>3, <2>2, <2>3
<1>9. \A i \in (k + 1)..(n + 1) :
        \E x \in Encodings(MarshalEvent(sent2[i]), NewerField) : tail2[i - 1] = x \o tail2[i]
  <2>1. TAKE i \in (k + 1)..(n + 1)
  <2>2. CASE i \in (k + 1)..n
    <3>1. PICK x \in Encodings(MarshalEvent(s[i]), NewerField) : tail[i - 1] = x \o tail[i]
      BY <1>7, <2>2
    <3>2. IsSequence(x)
      <4>1. IsEvent(s[i])
        BY <1>2, <1>3, <2>2 DEF AreSent
      <4>2. QED
        BY <3>1, <4>1, EventEncodingIsMessage
    <3>3. tail2[i - 1] = tail[i - 1] \o m /\ tail2[i] = tail[i] \o m /\ sent2[i] = s[i]
      BY <1>3, <1>5, <2>2
    <3>4. IsSequence(tail[i])
      BY <1>7, <2>2
    <3>5. (x \o tail[i]) \o m = x \o (tail[i] \o m)
      <4>1. PICK c : c = tail[i]
        OBVIOUS
      <4>2. IsSequence(c)
        BY Zenon, <3>4, <4>1
      <4>3. PICK w : w = x
        BY Zenon
      <4>4. IsSequence(w)
        BY Zenon, <3>2, <4>3
      <4>5. (w \o c) \o m = w \o (c \o m)
        BY <1>6, <4>2, <4>4, MessagesRegrouped
      <4>6. QED
        BY Zenon, <4>1, <4>3, <4>5
    <3>6. tail2[i - 1] = x \o tail2[i]
      BY Zenon, <3>1, <3>3, <3>5
    <3>7. QED
      BY Zenon, <3>3, <3>6
  <2>3. CASE i = n + 1
    <3>1. tail2[n] = <<>> \o m /\ tail2[n + 1] = <<>>
      <4>1. n \in k..n
        BY <1>2, <1>3
      <4>2. QED
        BY <1>5, <1>7, <4>1
    <3>2. <<>> \o m = m /\ m \o <<>> = m
      BY <1>6, MessagesJoined
    <3>3. tail2[i - 1] = m \o tail2[i]
      <4>1. i - 1 = n
        BY <1>3, <2>3
      <4>2. QED
        BY Zenon, <2>3, <3>1, <3>2, <4>1
    <3>4. QED
      BY Zenon, <1>3, <2>3, <3>3
  <2>4. QED
    BY <1>3, <2>2, <2>3
<1>10. IsTail(tail2, sent2, k)
  BY <1>3, <1>5, <1>8, <1>9 DEF IsTail
<1>11. tail2[k] = p \o m
  BY <1>1, <1>2, <1>3, <1>5
<1>12. QED
  BY Zenon, <1>2, <1>10, <1>11 DEF IsStream

(* Nothing is no event.                                                    *)
LEMMA NothingIsRead == ~UnmarshalEvent(ZeroEvent, <<>>).ok
<1>1. Read("map", <<>>) = Failure
  BY DEF Read
<1>2. ~Failure.ok
  BY DEF Failure
<1>3. UnmarshalEvent(ZeroEvent, <<>>) = Failure
  BY Zenon, <1>1, <1>2 DEF UnmarshalEvent, ReadMap
<1>4. QED
  BY Zenon, <1>2, <1>3

(* The next message of the stream is read, and the stream goes on.         *)
LEMMA StreamIsRead ==
  ASSUME NEW s, AreSent(s), NEW k \in Nat, k < Len(s), NEW p, IsStream(p, s, k)
  PROVE  \E c : /\ UnmarshalEvent(ZeroEvent, p) = Success(Decoded(s[k + 1]), c)
                /\ IsStream(c, s, k + 1)
<1>1. PICK tail : IsTail(tail, s, k) /\ p = tail[k]
  BY DEF IsStream
<1>2. PICK n, j, z, c : n = Len(s) /\ j = k + 1 /\ z = s[j] /\ c = tail[j]
  OBVIOUS
<1>3. n \in Nat /\ j \in (k + 1)..n /\ j \in 1..n /\ j - 1 = k
  <2>1. IsSequence(s)
    BY DEF AreSent
  <2>2. n \in Nat
    BY <1>2, <2>1, SequenceDomain
  <2>3. QED
    BY <1>2, <2>2
<1>4. IsEvent(z) /\ z.vulnerabilities.items # <<>>
  BY <1>2, <1>3 DEF AreSent
<1>5. /\ tail[n] = <<>>
      /\ \A i \in k..n : IsSequence(tail[i])
      /\ \A i \in (k + 1)..n :
           \E x \in Encodings(MarshalEvent(s[i]), NewerField) : tail[i - 1] = x \o tail[i]
  BY <1>1, <1>2 DEF IsTail
<1>6. PICK m \in Encodings(MarshalEvent(s[j]), NewerField) : tail[j - 1] = m \o tail[j]
  BY <1>3, <1>5
<1>7. IsSequence(c)
  <2>1. j \in k..n
    BY <1>2, <1>3
  <2>2. QED
    BY <1>2, <1>5, <2>1
<1>8. PICK t : IsEventDecoded(z, t) /\ t = Decoded(z)
  BY <1>4, EventDecoded
<1>9. m \in Encodings(MarshalEvent(z), NewerField)
  BY Zenon, <1>2, <1>6
<1>10. UnmarshalEvent(ZeroEvent, m \o c) = Success(t, c)
  BY <1>4, <1>7, <1>8, <1>9, EventIsRead
<1>11. p = m \o c
  BY Zenon, <1>1, <1>2, <1>3, <1>6
<1>12. UnmarshalEvent(ZeroEvent, p) = Success(Decoded(s[k + 1]), c)
  BY Zenon, <1>2, <1>8, <1>10, <1>11
<1>13. IsTail(tail, s, j)
  <2>1. /\ \A i \in j..n : IsSequence(tail[i])
        /\ \A i \in (j + 1)..n :
             \E x \in Encodings(MarshalEvent(s[i]), NewerField) : tail[i - 1] = x \o tail[i]
    <3>1. \A i : i \in j..n => i \in k..n
      BY <1>2
    <3>2. \A i : i \in (j + 1)..n => i \in (k + 1)..n
      BY <1>2
    <3>3. QED
      BY Zenon, <1>5, <3>1, <3>2
  <2>2. QED
    BY Zenon, <1>2, <1>5, <2>1 DEF IsTail
<1>14. IsStream(c, s, k + 1)
  BY Zenon, <1>2, <1>13 DEF IsStream
<1>15. QED
  BY <1>12, <1>14

(* A stream ends with the last message.                                    *)
LEMMA StreamEnds ==
  ASSUME NEW s, AreSent(s), NEW k \in Nat, k <= Len(s), NEW p, IsStream(p, s, k)
  PROVE  p = <<>> <=> k = Len(s)
<1>1. CASE k = Len(s)
  <2>1. PICK tail : IsTail(tail, s, k) /\ p = tail[k]
    BY DEF IsStream
  <2>2. QED
    BY Zenon, <1>1, <2>1 DEF IsTail
<1>2. CASE k # Len(s)
  <2>1. k < Len(s)
    <3>1. Len(s) \in Nat
      BY SequenceDomain DEF AreSent
    <3>2. QED
      BY <1>2, <3>1
  <2>2. PICK c : UnmarshalEvent(ZeroEvent, p) = Success(Decoded(s[k + 1]), c)
    BY <2>1, StreamIsRead
  <2>3. PICK r : r = Success(Decoded(s[k + 1]), c)
    BY Zenon
  <2>4. r.ok = TRUE
    BY Zenon, <2>3, SucceededAs
  <2>5. p # <<>>
    BY Zenon, <2>2, <2>3, <2>4, NothingIsRead
  <2>6. QED
    BY <1>2, <2>5
<1>3. QED
  BY <1>1, <1>2

-----------------------------------------------------------------------------
(* The steps                                                               *)

(* The events that were decoded are the first of those that were sent, and *)
(* the payload is the stream of the others.                                *)
TransportOK(e, p, s, r, failed) ==
  /\ IsEvent(e)
  /\ AreSent(s)
  /\ AreReceived(r, s)
  /\ IsStream(p, s, Len(r))
  /\ failed = FALSE

TransportInv == TransportOK(event, payload, sent, received, rejected)

(* The empty event is an event.                                            *)
LEMMA NewEventIsEvent == IsEvent(NewEvent)
<1>1. NewEvent = [sources |-> [made |-> FALSE, items |-> <<>>],
                  vulnerabilities |-> [made |-> TRUE, items |-> <<>>]]
  <2>1. [ZeroEvent EXCEPT !.vulnerabilities = SliceOf(<<>>)]
          = [sources |-> NilSlice, vulnerabilities |-> SliceOf(<<>>)]
    BY DEF ZeroEvent
  <2>2. NewEvent = [sources |-> NilSlice, vulnerabilities |-> SliceOf(<<>>)]
    BY <2>1 DEF NewEvent
  <2>3. QED
    BY <2>2 DEF NilSlice, SliceOf
<1>2. IsSequence(<<>>) /\ DOMAIN <<>> = {}
  BY NothingIsMessage
<1>3. AreSources(<<>>) /\ AreVulnerabilities(<<>>)
  BY Zenon, <1>2 DEF AreSources, AreVulnerabilities
<1>4. QED
  BY <1>1, <1>3 DEF IsEvent

(* One more source keeps a list of sources one,                            *)
LEMMA OneMoreSource ==
  ASSUME NEW items, AreSources(items), NEW v, IsSource(v)
  PROVE  AreSources(Append(items, v)) /\ Append(items, v) # <<>>
<1>1. IsSequence(items) /\ \A i \in DOMAIN items : IsSource(items[i])
  BY DEF AreSources
<1>2. PICK n, a : n = Len(items) /\ a = Append(items, v)
  OBVIOUS
<1>3. /\ IsSequence(a) /\ Len(a) = n + 1 /\ n \in Nat
      /\ \A i \in 1..n : a[i] = items[i]
      /\ a[n + 1] = v
  BY <1>1, <1>2, OneMoreEvent
<1>4. DOMAIN items = 1..n /\ DOMAIN a = 1..Len(a) /\ (Len(a) = 0 <=> a = <<>>)
  BY <1>1, <1>2, <1>3, SequenceDomain
<1>5. \A i \in DOMAIN a : i \in 1..n \/ i = n + 1
  BY <1>3, <1>4
<1>6. \A i \in DOMAIN a : IsSource(a[i])
  BY Zenon, <1>1, <1>3, <1>4, <1>5
<1>7. a # <<>>
  BY <1>3, <1>4
<1>8. QED
  BY Zenon, <1>2, <1>3, <1>6, <1>7 DEF AreSources

(* one more vulnerability a list of vulnerabilities,                       *)
LEMMA OneMoreVulnerability ==
  ASSUME NEW items, AreVulnerabilities(items), NEW v, IsVulnerability(v)
  PROVE  AreVulnerabilities(Append(items, v))
<1>1. IsSequence(items) /\ \A i \in DOMAIN items : IsVulnerability(items[i])
  BY DEF AreVulnerabilities
<1>2. PICK n, a : n = Len(items) /\ a = Append(items, v)
  OBVIOUS
<1>3. /\ IsSequence(a) /\ Len(a) = n + 1 /\ n \in Nat
      /\ \A i \in 1..n : a[i] = items[i]
      /\ a[n + 1] = v
  BY <1>1, <1>2, OneMoreEvent
<1>4. DOMAIN items = 1..n /\ DOMAIN a = 1..Len(a)
  BY <1>1, <1>2, <1>3, SequenceDomain
<1>5. \A i \in DOMAIN a : i \in 1..n \/ i = n + 1
  BY <1>3, <1>4
<1>6. \A i \in DOMAIN a : IsVulnerability(a[i])
  BY Zenon, <1>1, <1>3, <1>4, <1>5
<1>7. QED
  BY Zenon, <1>2, <1>3, <1>6 DEF AreVulnerabilities

(* and either keeps an event one:                                          *)
LEMMA AddSourceKeepsEvent ==
  ASSUME NEW e, IsEvent(e), NEW v, IsSource(v), NEW e2,
         e2 = [e EXCEPT !.sources = SliceOf(Append(e.sources.items, v))]
  PROVE  IsEvent(e2)
<1>1. PICK items : items = Append(e.sources.items, v)
  OBVIOUS
<1>2. AreSources(items) /\ items # <<>>
  BY <1>1, OneMoreSource DEF IsEvent
<1>3. PICK slice : slice = [made |-> TRUE, items |-> items]
  OBVIOUS
<1>4. e2 = [sources |-> slice, vulnerabilities |-> e.vulnerabilities]
  <2>1. e2 = [e EXCEPT !.sources = slice]
    BY Zenon, <1>1, <1>3 DEF SliceOf
  <2>2. QED
    BY <2>1 DEF IsEvent
<1>5. slice.made = TRUE /\ slice.items = items /\ slice
          = [made |-> slice.made, items |-> slice.items]
  BY <1>3
<1>6. /\ e2 = [sources |-> e2.sources, vulnerabilities |-> e2.vulnerabilities]
      /\ e2.sources = slice /\ e2.vulnerabilities = e.vulnerabilities
  <2>1. PICK w : w = e.vulnerabilities
    OBVIOUS
  <2>2. e2 = [sources |-> slice, vulnerabilities |-> w]
    BY Zenon, <1>4, <2>1
  <2>3. e2.sources = slice /\ e2.vulnerabilities = w
    BY <2>2
  <2>4. QED
    BY Zenon, <2>1, <2>2, <2>3
<1>7. QED
  BY <1>2, <1>5, <1>6 DEF IsEvent

(* here with a vulnerability.                                              *)
LEMMA AddVulnerabilityKeepsEvent ==
  ASSUME NEW e, IsEvent(e), NEW v, IsVulnerability(v), NEW e2,
         e2 = [e EXCEPT !.vulnerabilities.items = Append(e.vulnerabilities.items, v)]
  PROVE  IsEvent(e2)
<1>1. PICK items : items = Append(e.vulnerabilities.items, v)
  OBVIOUS
<1>2. AreVulnerabilities(items)
  BY <1>1, OneMoreVulnerability DEF IsEvent
<1>3. PICK slice : slice = [made |-> TRUE, items |-> items]
  OBVIOUS
<1>4. e2 = [sources |-> e.sources, vulnerabilities |-> slice]
  <2>1. PICK w, old : w = e.sources /\ old = e.vulnerabilities.items
    OBVIOUS
  <2>2. /\ e.vulnerabilities.made = TRUE
        /\ e.vulnerabilities = [made |-> e.vulnerabilities.made, items |-> e.vulnerabilities.items]
        /\ e = [sources |-> e.sources, vulnerabilities |-> e.vulnerabilities]
    BY DEF IsEvent
  <2>3. e = [sources |-> w, vulnerabilities |-> [made |-> TRUE, items |-> old]]
    BY Zenon, <2>1, <2>2
  <2>4. e2 = [e EXCEPT !.vulnerabilities.items = items]
    BY Zenon, <1>1
  <2>5. e2 = [sources |-> w, vulnerabilities |-> [made |-> TRUE, items |-> items]]
    BY <2>3, <2>4
  <2>6. QED
    BY Zenon, <1>3, <2>1, <2>5
<1>5. slice.made = TRUE /\ slice.items = items /\ slice
          = [made |-> slice.made, items |-> slice.items]
  BY <1>3
<1>6. /\ e2 = [sources |-> e2.sources, vulnerabilities |-> e2.vulnerabilities]
      /\ e2.sources = e.sources /\ e2.vulnerabilities = slice
  <2>1. PICK w : w = e.sources
    OBVIOUS
  <2>2. e2 = [sources |-> w, vulnerabilities |-> slice]
    BY Zenon, <1>4, <2>1
  <2>3. e2.sources = w /\ e2.vulnerabilities = slice
    BY <2>2
  <2>4. QED
    BY Zenon, <2>1, <2>2, <2>3
<1>7. QED
  BY <1>2, <1>5, <1>6 DEF IsEvent

(* Each action keeps the invariant: AddSource and AddVulnerability change the event only, *)
LEMMA AddSourceTransport ==
  ASSUME TransportInv, AddSource
  PROVE  TransportInv'
<1>1. PICK s \in Sources :
        event' = [event EXCEPT !.sources = SliceOf(Append(event.sources.items, NewSource(s)))]
  BY DEF AddSource
<1>2. IsSource(NewSource(s))
  BY InputsAssumption, SourceIsMade
<1>3. IsEvent(event')
  <2>1. PICK v, after : v = NewSource(s) /\ after = event'
    OBVIOUS
  <2>2. IsEvent(event) /\ IsSource(v)
    BY <1>2, <2>1 DEF TransportInv, TransportOK
  <2>3. after = [event EXCEPT !.sources = SliceOf(Append(event.sources.items, v))]
    BY Zenon, <1>1, <2>1
  <2>4. IsEvent(after)
    BY <2>2, <2>3, AddSourceKeepsEvent
  <2>5. QED
    BY Zenon, <2>1, <2>4
<1>4. QED
  BY <1>3 DEF AddSource, TransportInv, TransportOK

(* which keeps its shape;                                                  *)
LEMMA AddVulnerabilityTransport ==
  ASSUME TransportInv, AddVulnerability
  PROVE  TransportInv'
<1>1. PICK f \in Findings :
        event' = [event EXCEPT !.vulnerabilities.items =
                    Append(event.vulnerabilities.items,
                           NewVulnerability(f.type, NewEvidence(f.evidence), f.location))]
  BY DEF AddVulnerability
<1>2. PICK v, after :
        v = NewVulnerability(f.type, NewEvidence(f.evidence), f.location) /\ after = event'
  OBVIOUS
<1>3. IsVulnerability(v)
  BY Zenon, <1>2, VulnerabilityIsMade
<1>4. after = [event EXCEPT !.vulnerabilities.items = Append(event.vulnerabilities.items, v)]
  BY Zenon, <1>1, <1>2
<1>5. IsEvent(event)
  BY DEF TransportInv, TransportOK
<1>6. IsEvent(after)
  BY <1>3, <1>4, <1>5, AddVulnerabilityKeepsEvent
<1>7. IsEvent(event')
  BY Zenon, <1>2, <1>6
<1>8. QED
  BY <1>7 DEF AddVulnerability, TransportInv, TransportOK

(* Send adds an encoding at the end of the stream, and the event to those sent; *)
LEMMA SendTransport ==
  ASSUME TransportInv, Send
  PROVE  TransportInv'
<1>1. PICK m \in Encodings(MarshalEvent(event), NewerField) : payload' = payload \o m
  BY Zenon DEF Send
<1>2. /\ event.vulnerabilities.items # <<>> /\ sent' = Append(sent, event)
      /\ event' = NewEvent /\ received' = received /\ rejected' = rejected
  BY Zenon DEF Send
<1>3. /\ IsEvent(event) /\ AreSent(sent) /\ AreReceived(received, sent)
      /\ IsStream(payload, sent, Len(received)) /\ rejected = FALSE
  BY Zenon DEF TransportInv, TransportOK
<1>4. PICK s, n, k : s = Append(sent, event) /\ n = Len(sent) /\ k = Len(received)
  OBVIOUS
<1>5. /\ IsSequence(s) /\ Len(s) = n + 1 /\ n \in Nat
      /\ \A i \in 1..n : s[i] = sent[i]
      /\ s[n + 1] = event
  <2>1. IsSequence(sent)
    BY <1>3 DEF AreSent
  <2>2. QED
    BY <1>4, <2>1, OneMoreEvent
<1>6. AreSent(s)
  <2>1. \A i \in 1..n : IsEvent(sent[i]) /\ sent[i].vulnerabilities.items # <<>>
    BY Zenon, <1>3, <1>4 DEF AreSent
  <2>2. \A i \in 1..Len(s) : i \in 1..n \/ i = n + 1
    BY <1>5
  <2>3. QED
    BY Zenon, <1>2, <1>3, <1>5, <2>1, <2>2 DEF AreSent
<1>7. k \in Nat /\ k <= n
  BY <1>3, <1>4, SequenceDomain DEF AreReceived
<1>8. AreReceived(received, s)
  <2>1. k <= Len(s)
    BY <1>5, <1>7
  <2>2. \A i \in 1..k : i \in 1..n
    BY <1>5, <1>7
  <2>3. QED
    BY Zenon, <1>3, <1>4, <1>5, <2>1, <2>2 DEF AreReceived
<1>9. IsStream(payload \o m, s, k)
  <2>1. IsStream(payload, sent, k)
    BY Zenon, <1>3, <1>4
  <2>2. k <= Len(sent)
    BY <1>4, <1>7
  <2>3. IsStream(payload \o m, Append(sent, event), k)
    BY <1>3, <1>7, <2>1, <2>2, SentStream
  <2>4. QED
    BY Zenon, <1>4, <2>3
<1>10. TransportOK(NewEvent, payload \o m, s, received, FALSE)
  BY Zenon, <1>4, <1>6, <1>8, <1>9, NewEventIsEvent DEF TransportOK
<1>11. QED
  BY Zenon, <1>1, <1>2, <1>3, <1>4, <1>10 DEF TransportInv

(* Receive reads the first message of the stream as the event it encodes. *)
LEMMA ReceiveTransport ==
  ASSUME TransportInv, Receive
  PROVE  TransportInv'
<1>1. /\ IsEvent(event) /\ AreSent(sent) /\ AreReceived(received, sent)
      /\ IsStream(payload, sent, Len(received)) /\ rejected = FALSE
  BY Zenon DEF TransportInv, TransportOK
<1>2. PICK k, n : k = Len(received) /\ n = Len(sent)
  OBVIOUS
<1>3. /\ k \in Nat /\ n \in Nat /\ k <= n
      /\ IsSequence(received) /\ \A i \in 1..k : received[i] = Decoded(sent[i])
  BY <1>1, <1>2, SequenceDomain DEF AreReceived, AreSent
<1>4. k < n
  <2>1. payload # <<>>
    BY Zenon DEF Receive
  <2>2. k # n
    BY <1>1, <1>2, <1>3, <2>1, StreamEnds
  <2>3. QED
    BY <1>3, <2>2
<1>5. PICK c : /\ UnmarshalEvent(ZeroEvent, payload) = Success(Decoded(sent[k + 1]), c)
               /\ IsStream(c, sent, k + 1)
  BY <1>1, <1>2, <1>3, <1>4, StreamIsRead
<1>6. PICK t, r : t = Decoded(sent[k + 1]) /\ r = UnmarshalEvent(ZeroEvent, payload)
  BY Zenon
<1>7. r.ok = TRUE /\ r.v = t /\ r.rest = c
  <2>1. r = Success(t, c)
    BY Zenon, <1>5, <1>6
  <2>2. QED
    BY ZenonT(30), <2>1, SucceededAs
<1>8. /\ received' = Append(received, t) /\ payload' = c
      /\ rejected' = rejected /\ event' = event /\ sent' = sent
  BY Zenon, <1>6, <1>7 DEF Receive
<1>9. PICK received2 : received2 = Append(received, t)
  OBVIOUS
<1>10. /\ IsSequence(received2) /\ Len(received2) = k + 1
       /\ \A i \in 1..k : received2[i] = received[i]
       /\ received2[k + 1] = t
  BY <1>2, <1>3, <1>9, OneMoreEvent
<1>11. AreReceived(received2, sent)
  <2>1. Len(received2) <= Len(sent)
    BY <1>2, <1>3, <1>4, <1>10
  <2>2. \A i \in 1..Len(received2) : i \in 1..k \/ i = k + 1
    BY <1>3, <1>10
  <2>3. \A i \in 1..Len(received2) : received2[i] = Decoded(sent[i])
    BY Zenon, <1>3, <1>6, <1>10, <2>2
  <2>4. QED
    BY Zenon, <1>10, <2>1, <2>3 DEF AreReceived
<1>12. TransportOK(event, c, sent, received2, FALSE)
  BY Zenon, <1>1, <1>5, <1>10, <1>11 DEF TransportOK
<1>13. QED
  BY Zenon, <1>1, <1>8, <1>9, <1>12 DEF TransportInv

(* TransportInv holds, and it is kept by every step: a message joins the   *)
(* stream at its end, and the reader takes exactly one off its front.      *)
THEOREM TransportCorrect == Spec => []TransportInv
<1>1. Init => TransportInv
  <2>1. SUFFICES ASSUME Init PROVE TransportInv
    OBVIOUS
  <2>2. event = NewEvent /\ payload = <<>> /\ sent = <<>> /\ received = <<>> /\ rejected = FALSE
    BY <2>1 DEF Init
  <2>3. AreSent(<<>>) /\ AreReceived(<<>>, <<>>)
    <3>1. IsSequence(<<>>) /\ Len(<<>>) = 0
      BY NothingIsMessage
    <3>2. QED
      BY <3>1 DEF AreSent, AreReceived
  <2>4. IsStream(<<>>, <<>>, 0)
    <3>1. PICK tail : tail = [i \in {0} |-> <<>>]
      OBVIOUS
    <3>2. tail[0] = <<>>
      BY <3>1
    <3>3. \A i \in 0..0 : IsSequence(tail[i])
      BY <3>2, NothingIsMessage
    <3>4. Len(<<>>) = 0 /\ (0 + 1)..0 = {}
      OBVIOUS
    <3>5. IsTail(tail, <<>>, 0)
      BY <3>2, <3>3, <3>4 DEF IsTail
    <3>6. QED
      BY <3>2, <3>5 DEF IsStream
  <2>5. QED
    BY <2>2, <2>3, <2>4, NewEventIsEvent DEF TransportInv, TransportOK
<1>2. TransportInv /\ [Next]_vars => TransportInv'
  <2>1. SUFFICES ASSUME TransportInv, [Next]_vars PROVE TransportInv'
    OBVIOUS
  <2>2. CASE AddSource
    BY <2>1, <2>2, AddSourceTransport
  <2>3. CASE AddVulnerability
    BY <2>1, <2>3, AddVulnerabilityTransport
  <2>4. CASE Send
    BY <2>1, <2>4, SendTransport
  <2>5. CASE Receive
    BY <2>1, <2>5, ReceiveTransport
  <2>6. CASE UNCHANGED vars
    BY <2>1, <2>6 DEF vars, TransportInv
  <2>7. QED
    BY <2>1, <2>2, <2>3, <2>4, <2>5, <2>6 DEF Next
<1>3. QED
  BY <1>1, <1>2, PTL DEF Spec

(* Every message is accepted, and what is decoded is what was encoded, in  *)
(* order, whatever a newer version adds to any map of any message          *)
(* (event_gen.go:10-117 and the other generated codecs).                   *)
THEOREM RoundTripCorrect == Spec => []RoundTrip
<1>1. TransportInv => RoundTrip
  <2>1. SUFFICES ASSUME TransportInv PROVE RoundTrip
    OBVIOUS
  <2>2. /\ AreSent(sent) /\ AreReceived(received, sent)
        /\ IsStream(payload, sent, Len(received)) /\ rejected = FALSE
    BY <2>1 DEF TransportInv, TransportOK
  <2>3. received = [i \in 1..Len(received) |-> Decoded(sent[i])]
    <3>1. IsSequence(received) /\ \A i \in 1..Len(received) : received[i] = Decoded(sent[i])
      BY <2>2 DEF AreReceived
    <3>2. received = [i \in 1..Len(received) |-> received[i]]
      BY <3>1 DEF IsSequence
    <3>3. QED
      BY <3>1, <3>2
  <2>4. payload = <<>> => Len(received) = Len(sent)
    <3>1. Len(received) \in Nat /\ Len(received) <= Len(sent)
      BY <2>2, SequenceDomain DEF AreReceived
    <3>2. QED
      BY <2>2, <3>1, StreamEnds
  <2>5. QED
    BY <2>2, <2>3, <2>4 DEF RoundTrip
<1>2. QED
  BY <1>1, TransportCorrect, PTL
==============================================================================
