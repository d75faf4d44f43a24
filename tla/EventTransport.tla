--------------------------- MODULE EventTransport ----------------------------
(***************************************************************************)
(* The way of an event: vulnerabilities and sources are added to it, the   *)
(* tracer encodes it behind others of its payload, and a reader decodes    *)
(* them one after the other.  A reader may get messages of a version of    *)
(* the model with a field this one does not know.                          *)
(***************************************************************************)
EXTENDS EventCodec

CONSTANTS Findings,              \* what is found, as its constructors are given it
          Sources,               \* sources of tainted values, likewise
          NewerValue,            \* the tokens of a field of a newer model
          VulnerabilitiesPerRequest,  \* config.VulnerabilitiesPerRequest
          DeduplicationEnabled,  \* config.DeduplicationEnabled
          MaxVulnerabilities,    \* bound of the model: vulnerabilities of all events
          MaxSources,            \* bound of the model: sources of all events
          MaxMessages            \* bound of the model: messages

(* A character takes up to four bytes in UTF-8.                            *)
Texts == Seq(1..4)
OriginConstants == DOMAIN Origins
TypeConstants   == DOMAIN VulnerabilityTypes

SourceInputs ==
  [redacted : BOOLEAN, origin : OriginConstants, name : Texts, text : Texts]
PartInputs ==
  [redacted : BOOLEAN, tainted : BOOLEAN, text : Texts, sourceIndex : Int,
   secureMarks : {slice \in [made : BOOLEAN, items : Seq(TypeConstants)] :
                    slice.made \/ slice.items = <<>>}]
EvidenceInputs ==
  [kind : {"string", "redacted", "tainted", "empty"}, text : Texts, parts : Seq(PartInputs)]
LocationInputs ==
  [spanId : Nat, path : Texts, class : Texts, line : Nat, method : Texts, stackId : Texts]

ASSUME InputsAssumption ==
  /\ \A s \in Sources : s \in SourceInputs
  /\ \A f \in Findings :
       /\ f.type \in TypeConstants
       /\ f.evidence \in Seq(EvidenceInputs) /\ Len(f.evidence) <= 1
       /\ f.location \in Seq(LocationInputs) /\ Len(f.location) <= 1

(* One value of MessagePack, whatever it is.                               *)
ASSUME NewerValueAssumption ==
  /\ NewerValue \in Seq(Range(NewerValue))
  /\ \A i \in DOMAIN NewerValue :
       NewerValue[i][1] \in {"map", "array"} => NewerValue[i][2] \in Nat
  /\ Skip(NewerValue) = Success(<<>>, <<>>)

VARIABLES event,     \* the event of the current annotation
          payload,   \* tokens of the messages not yet read
          sent,      \* history: the events encoded
          received,  \* the events decoded
          rejected   \* UnmarshalMsg returned an error

vars == <<event, payload, sent, received, rejected>>

Init ==
  /\ event    = NewEvent
  /\ payload  = <<>>
  /\ sent     = <<>>
  /\ received = <<>>
  /\ rejected = FALSE

-----------------------------------------------------------------------------
(* The constructors for what was found.                                    *)
NewSource(s) ==
  IF s.redacted THEN NewSourceRedactedString(s.origin, s.name, s.text)
  ELSE NewSourceString(s.origin, s.name, s.text)

NewValuePart(p) ==
  IF p.tainted
    THEN IF p.redacted THEN NewValuePartTaintedRedactedString(p.text, p.sourceIndex, p.secureMarks)
         ELSE NewValuePartTaintedString(p.text, p.sourceIndex, p.secureMarks)
    ELSE IF p.redacted THEN NewValuePartRedactedString(p.text) ELSE NewValuePartString(p.text)

NewEvidenceOf(e) ==
  IF e.kind = "string" THEN NewEvidenceString(e.text)
  ELSE IF e.kind = "redacted" THEN NewEvidenceRedactedString(e.text)
  ELSE IF e.kind = "tainted"
    THEN NewEvidenceTaintedValue([i \in DOMAIN e.parts |-> NewValuePart(e.parts[i])])
  ELSE NewEvidenceEmpty

(* No evidence, or a pointer to one.                                       *)
NewEvidence(pointer) == [i \in DOMAIN pointer |-> NewEvidenceOf(pointer[i])]

Count(select(_)) ==
  FoldSeq(LAMBDA e, sum : Len(select(e)) + sum, Len(select(event)), sent)

AddSource ==
  /\ Count(LAMBDA e : e.sources.items) < MaxSources
  /\ \E source \in Sources :
       event' = [event EXCEPT !.sources = SliceOf(Append(@.items, NewSource(source)))]
  /\ UNCHANGED <<payload, sent, received, rejected>>

IsDuplicate(v) ==
  DeduplicationEnabled
    /\ \E i \in DOMAIN event.vulnerabilities.items : event.vulnerabilities.items[i].hash = v.hash

(* AddVulnerability; one that is refused changes nothing.                  *)
AddVulnerability ==
  /\ Len(event.vulnerabilities.items) < VulnerabilitiesPerRequest
  /\ Count(LAMBDA e : e.vulnerabilities.items) < MaxVulnerabilities
  /\ \E f \in Findings :
       LET v == NewVulnerability(f.type, NewEvidence(f.evidence), f.location) IN
         /\ ~IsDuplicate(v)
         /\ event' = [event EXCEPT !.vulnerabilities.items = Append(@, v)]
  /\ UNCHANGED <<payload, sent, received, rejected>>

(* A field the reader does not know.                                       *)
NewerField == Token("name", "newer") \o NewerValue

(* Finished attaches an event that has vulnerabilities; the tracer encodes *)
(* it into its payload.                                                    *)
Send ==
  /\ Len(sent) < MaxMessages
  /\ event.vulnerabilities.items # <<>>
  /\ \E message \in Encodings(MarshalEvent(event), NewerField) : payload' = payload \o message
  /\ sent' = Append(sent, event)
  /\ event' = NewEvent
  /\ UNCHANGED <<received, rejected>>

(* UnmarshalMsg into a new event.                                          *)
Receive ==
  /\ payload # <<>>
  /\ ~rejected
  /\ LET r == UnmarshalEvent(ZeroEvent, payload) IN
       IF r.ok
         THEN /\ received' = Append(received, r.v)
              /\ payload' = r.rest
              /\ UNCHANGED rejected
         ELSE rejected' = TRUE /\ UNCHANGED <<payload, received>>
  /\ UNCHANGED <<event, sent>>

Next == AddSource \/ AddVulnerability \/ Send \/ Receive

Spec == Init /\ [][Next]_vars

-----------------------------------------------------------------------------
(* Properties                                                              *)

(* Decoding makes no empty slices.                                         *)
DecodedSlice(slice) == IF slice.items = <<>> THEN NilSlice ELSE slice
DecodedPart(part) == [part EXCEPT !.secureMarks = DecodedSlice(@)]
DecodedParts(slice) == [slice EXCEPT !.items = [i \in DOMAIN @ |-> DecodedPart(@[i])]]
DecodedEvidence(e) == [e EXCEPT !.valueParts = DecodedSlice(DecodedParts(@))]
DecodedVulnerability(v) ==
  [v EXCEPT !.evidence = [i \in DOMAIN @ |-> DecodedEvidence(@[i])]]
Decoded(e) ==
  [e EXCEPT !.vulnerabilities.items = [i \in DOMAIN @ |-> DecodedVulnerability(@[i])]]

(* Every message is accepted, and what is decoded is what was encoded, in  *)
(* order: omitted fields come back as their zero values, nil stays nil, and*)
(* fields of a newer version are passed over, whatever they hold           *)
(* (event_gen.go:10-117 and the other generated codecs).                   *)
RoundTrip ==
  /\ ~rejected
  /\ received = [i \in 1..Len(received) |-> Decoded(sent[i])]
  /\ payload = <<>> => Len(received) = Len(sent)

(* A message that is cut short is rejected, never taken for a smaller      *)
(* event (event_gen.go:52-117 and the other generated codecs).             *)
CutMessageRejected ==
  LET message == MarshalEvent(event) IN
    \A n \in 0..(Len(message) - 1) : ~UnmarshalEvent(ZeroEvent, SubSeq(message, 1, n)).ok

(* The headers of a text of n bytes and of an array of n elements; that of *)
(* a map is one byte, as no type has more than six fields.                 *)
StringHeaderSize(n) ==
  CASE n < 32 -> 1 [] n \in 32..(2^8 - 1) -> 2 [] n \in 2^8..(2^16 - 1) -> 3 [] OTHER -> 5
ElementsHeaderSize(n) == CASE n < 16 -> 1 [] n \in 16..(2^16 - 1) -> 3 [] OTHER -> 5

(* The most bytes a token takes.                                           *)
TokenSize(token) ==
  CASE token[1] = "map"   -> 1
    [] token[1] = "array" -> ElementsHeaderSize(token[2])
    [] token[1] = "str"   -> StringHeaderSize(Bytes(token[2])) + Bytes(token[2])
    [] token[1] = "name"  -> StringHeaderSize(Len(token[2])) + Len(token[2])
    [] token[1] = "bool"  -> BoolSize
    [] token[1] = "nil"   -> NilSize
    [] token[1] = "hash"  -> Int32Size
    [] OTHER              -> IntSize

(* The buffer that MarshalMsg asks for is never too small: Msgsize bounds  *)
(* the message of every event (event_gen.go:119 "returns an upper bound    *)
(* estimate").                                                             *)
SizeBound ==
  LET message == MarshalEvent(event) IN
    FoldSeq(LAMBDA token, sum : TokenSize(token) + sum, 0, message) <= MsgsizeEvent(event)

(* It has a value or a pattern.                                            *)
IsRetained(z) ==
  LET length == Len(z.value \o z.pattern) IN
    IF z.truncated = TruncatedSideRight
      THEN length = TruncationMaxValue
      ELSE length <= TruncationMaxValue

(* No value or pattern an event retains is longer than TruncationMaxValue  *)
(* characters, and a truncated one is exactly that long: it is cut only if *)
(* something follows, and nowhere else (truncation.go:13-26).              *)
RetainedText ==
  /\ \A i \in DOMAIN event.sources.items : IsRetained(event.sources.items[i])
  /\ \A i \in DOMAIN event.vulnerabilities.items :
       LET evidence == event.vulnerabilities.items[i].evidence IN
         \A j \in DOMAIN evidence :
           /\ IsRetained(evidence[j])
           /\ \A k \in DOMAIN evidence[j].valueParts.items :
                IsRetained(evidence[j].valueParts.items[k])
=============================================================================
