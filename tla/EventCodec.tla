----------------------------- MODULE EventCodec ------------------------------
(***************************************************************************)
(* The encodings of an event: MessagePack, by the code msgp generated      *)
(* for each type, and JSON, by the struct tags, for spans that take no     *)
(* meta-struct.                                                            *)
(***************************************************************************)
EXTENDS EventModel

StringPrefixSize == 5
BoolSize         == 1
NilSize          == 1
IntSize          == 9
Int32Size        == 5
Uint32Size       == 5
Uint64Size       == 9
ArrayHeaderSize  == 5

TotalSize(items, Msgsize(_)) ==
  FoldSeq(LAMBDA e, total : Msgsize(e) + total, 0, items)

-----------------------------------------------------------------------------
(* Enumerations                                                            *)

MarshalTruncatedSide(z)      == Token("name", TruncatedSideString(z))
UnmarshalTruncatedSide(z, b) == UnmarshalShim(b, ParseTruncatedSide)
MsgsizeTruncatedSide(z)      == StringPrefixSize + Len(TruncatedSideString(z))

MarshalOrigin(z)      == Token("name", OriginString(z))
UnmarshalOrigin(z, b) == UnmarshalShim(b, ParseOrigin)
MsgsizeOrigin(z)      == StringPrefixSize + Len(OriginString(z))

MarshalVulnerabilityType(z)      == Token("name", VulnerabilityTypeString(z))
UnmarshalVulnerabilityType(z, b) == UnmarshalShim(b, ParseVulnerabilityType)
MsgsizeVulnerabilityType(z)      == StringPrefixSize + Len(VulnerabilityTypeString(z))

-----------------------------------------------------------------------------
(* ValuePart                                                               *)

MarshalValuePart(z) == AppendMap(<<
  Field("value",        z.value = <<>>,   Token("str", z.value)),
  Field("pattern",      z.pattern = <<>>, Token("str", z.pattern)),
  Field("redacted",     ~z.redacted,      Token("bool", z.redacted)),
  Field("truncated",    z.truncated = TruncatedSideNone, MarshalTruncatedSide(z.truncated)),
  Field("source",       z.source = NilPointer,
                        AppendPointer(z.source, LAMBDA i : Token("int", i))),
  Field("secure_marks", ~z.secureMarks.made,
                        AppendArray(z.secureMarks, MarshalVulnerabilityType))>>)

UnmarshalValuePartField(z, key, b) ==
  CASE key \in {"value", "pattern"} -> SetField(z, key, Read("str", b))
    [] key = "redacted"     -> SetField(z, key, Read("bool", b))
    [] key = "truncated"    -> SetField(z, key, UnmarshalTruncatedSide(z.truncated, b))
    [] key = "source"       -> SetField(z, key, ReadPointer(z.source, b, 0, LAMBDA i, c : Read("int", c)))
    [] key = "secure_marks" -> SetField(z, "secureMarks",
                                 ReadArray(z.secureMarks, b, 0, UnmarshalVulnerabilityType))
    [] OTHER -> SkipField(z, b)
UnmarshalValuePart(z, b) == ReadMap(z, b, UnmarshalValuePartField)

MsgsizeValuePart(z) ==
  1 + 6 + StringPrefixSize + Bytes(z.value) + 8 + StringPrefixSize + Bytes(z.pattern)
    + 9 + BoolSize + 10 + MsgsizeTruncatedSide(z.truncated)
    + 7 + (IF z.source = NilPointer THEN NilSize ELSE IntSize)
    + 13 + ArrayHeaderSize + TotalSize(z.secureMarks.items, MsgsizeVulnerabilityType)

(* Evidence                                                                *)

MarshalEvidence(z) == AppendMap(<<
  Field("value",      z.value = <<>>,   Token("str", z.value)),
  Field("pattern",    z.pattern = <<>>, Token("str", z.pattern)),
  Field("redacted",   ~z.redacted,      Token("bool", z.redacted)),
  Field("truncated",  z.truncated = TruncatedSideNone, MarshalTruncatedSide(z.truncated)),
  Field("valueParts", ~z.valueParts.made, AppendArray(z.valueParts, MarshalValuePart))>>)

UnmarshalEvidenceField(z, key, b) ==
  CASE key \in {"value", "pattern"} -> SetField(z, key, Read("str", b))
    [] key = "redacted"   -> SetField(z, key, Read("bool", b))
    [] key = "truncated"  -> SetField(z, key, UnmarshalTruncatedSide(z.truncated, b))
    [] key = "valueParts" ->
         SetField(z, key, ReadArray(z.valueParts, b, ZeroValuePart, UnmarshalValuePart))
    [] OTHER -> SkipField(z, b)
UnmarshalEvidence(z, b) == ReadMap(z, b, UnmarshalEvidenceField)

(* Mutant: the parts of the value are left out.                            *)
MsgsizeEvidence_NoParts(z) ==
  1 + 6 + StringPrefixSize + Bytes(z.value) + 8 + StringPrefixSize + Bytes(z.pattern)
    + 9 + BoolSize + 10 + MsgsizeTruncatedSide(z.truncated) + 11 + ArrayHeaderSize

MsgsizeEvidence(z) ==
  1 + 6 + StringPrefixSize + Bytes(z.value) + 8 + StringPrefixSize + Bytes(z.pattern)
    + 9 + BoolSize + 10 + MsgsizeTruncatedSide(z.truncated)
    + 11 + ArrayHeaderSize + TotalSize(z.valueParts.items, MsgsizeValuePart)

-----------------------------------------------------------------------------
(* Source                                                                  *)

MarshalSource(z) == AppendMap(<<
  Field("origin",    FALSE,            MarshalOrigin(z.origin)),
  Field("name",      z.name = <<>>,    Token("str", z.name)),
  Field("value",     z.value = <<>>,   Token("str", z.value)),
  Field("pattern",   z.pattern = <<>>, Token("str", z.pattern)),
  Field("redacted",  ~z.redacted,      Token("bool", z.redacted)),
  Field("truncated", z.truncated = TruncatedSideNone, MarshalTruncatedSide(z.truncated))>>)

UnmarshalSourceField(z, key, b) ==
  CASE key = "origin" -> SetField(z, key, UnmarshalOrigin(z.origin, b))
    [] key \in {"name", "value", "pattern"} -> SetField(z, key, Read("str", b))
    [] key = "redacted"  -> SetField(z, key, Read("bool", b))
    [] key = "truncated" -> SetField(z, key, UnmarshalTruncatedSide(z.truncated, b))
    [] OTHER -> SkipField(z, b)
UnmarshalSource(z, b) == ReadMap(z, b, UnmarshalSourceField)

MsgsizeSource(z) ==
  1 + 7 + MsgsizeOrigin(z.origin) + 5 + StringPrefixSize + Bytes(z.name)
    + 6 + StringPrefixSize + Bytes(z.value) + 8 + StringPrefixSize + Bytes(z.pattern)
    + 9 + BoolSize + 10 + MsgsizeTruncatedSide(z.truncated)

-----------------------------------------------------------------------------
(* Location                                                                *)

(* Mutant: a line that is not known is not left out.                       *)
MarshalLocation_LineAlways(z) == AppendMap(<<
  Field("spanId",  FALSE,            Token("uint", z.spanId)),
  Field("path",    z.path = <<>>,    Token("str", z.path)),
  Field("class",   z.class = <<>>,   Token("str", z.class)),
  Field("line",    FALSE,            Token("uint", z.line)),
  Field("method",  z.method = <<>>,  Token("str", z.method)),
  Field("stackId", z.stackId = <<>>, Token("str", z.stackId))>>)

MarshalLocation(z) == AppendMap(<<
  Field("spanId",  FALSE,            Token("uint", z.spanId)),
  Field("path",    z.path = <<>>,    Token("str", z.path)),
  Field("class",   z.class = <<>>,   Token("str", z.class)),
  Field("line",    z.line = 0,       Token("uint", z.line)),
  Field("method",  z.method = <<>>,  Token("str", z.method)),
  Field("stackId", z.stackId = <<>>, Token("str", z.stackId))>>)

UnmarshalLocationField(z, key, b) ==
  CASE key \in {"spanId", "line"} -> SetField(z, key, Read("uint", b))
    [] key \in {"path", "class", "method", "stackId"} -> SetField(z, key, Read("str", b))
    [] OTHER -> SkipField(z, b)
UnmarshalLocation(z, b) == ReadMap(z, b, UnmarshalLocationField)

MsgsizeLocation(z) ==
  1 + 7 + Uint64Size + 5 + StringPrefixSize + Bytes(z.path) + 6 + StringPrefixSize
    + Bytes(z.class) + 5 + Uint32Size + 7 + StringPrefixSize + Bytes(z.method)
    + 8 + StringPrefixSize + Bytes(z.stackId)

-----------------------------------------------------------------------------
(* Vulnerability                                                           *)

MarshalVulnerability(z) == AppendMap(<<
  Field("type",     FALSE, MarshalVulnerabilityType(z.type)),
  Field("hash",     FALSE, Token("hash", z.hash)),
  Field("evidence", z.evidence = NilPointer, AppendPointer(z.evidence, MarshalEvidence)),
  Field("location", z.location = NilPointer, AppendPointer(z.location, MarshalLocation))>>)

UnmarshalVulnerabilityField(z, key, b) ==
  CASE key = "type"     -> SetField(z, key, UnmarshalVulnerabilityType(z.type, b))
    [] key = "hash"     -> SetField(z, key, Read("hash", b))
    [] key = "evidence" -> SetField(z, key, ReadPointer(z.evidence, b, ZeroEvidence, UnmarshalEvidence))
    [] key = "location" -> SetField(z, key, ReadPointer(z.location, b, ZeroLocation, UnmarshalLocation))
    [] OTHER -> SkipField(z, b)
UnmarshalVulnerability(z, b) == ReadMap(z, b, UnmarshalVulnerabilityField)

MsgsizeVulnerability(z) ==
  1 + 5 + MsgsizeVulnerabilityType(z.type) + 5 + Int32Size
    + 9 + (IF z.evidence = NilPointer THEN NilSize ELSE MsgsizeEvidence(z.evidence[1]))
    + 9 + (IF z.location = NilPointer THEN NilSize ELSE MsgsizeLocation(z.location[1]))

-----------------------------------------------------------------------------
(* Event                                                                   *)

MarshalEvent(z) == AppendMap(<<
  Field("sources",         ~z.sources.made, AppendArray(z.sources, MarshalSource)),
  Field("vulnerabilities", FALSE, AppendArray(z.vulnerabilities, MarshalVulnerability))>>)

UnmarshalEventField(z, key, b) ==
  CASE key = "sources" -> SetField(z, key, ReadArray(z.sources, b, ZeroSource, UnmarshalSource))
    [] key = "vulnerabilities" ->
         SetField(z, key, ReadArray(z.vulnerabilities, b, ZeroVulnerability, UnmarshalVulnerability))
    [] OTHER -> SkipField(z, b)
UnmarshalEvent(z, b) == ReadMap(z, b, UnmarshalEventField)

MsgsizeEvent(z) ==
  1 + 8 + ArrayHeaderSize + TotalSize(z.sources.items, MsgsizeSource)
    + 16 + ArrayHeaderSize + TotalSize(z.vulnerabilities.items, MsgsizeVulnerability)

-----------------------------------------------------------------------------
(* JSON: an object is the set of its members.                              *)

Object(fields) ==
  <<"map", {<<f.key, f.value>> : f \in {fields[i] : i \in {j \in DOMAIN fields : ~fields[j].isOmitted}}}>>
ArrayDoc(slice, Json(_)) == <<"array", [i \in DOMAIN slice.items |-> Json(slice.items[i])]>>
PointerDoc(pointer, Json(_)) == IF pointer = NilPointer THEN <<"nil">> ELSE Json(pointer[1])

JsonVulnerabilityType(v) == <<"name", VulnerabilityTypeString(v)>>
JsonTruncated(z) ==
  Field("truncated", z.truncated = TruncatedSideNone, <<"name", TruncatedSideString(z.truncated)>>)

(* omitempty leaves out empty slices, omitzero the zero value.             *)
JsonValuePart(z) == Object(<<
  Field("value",        z.value = <<>>,   <<"str", z.value>>),
  Field("pattern",      z.pattern = <<>>, <<"str", z.pattern>>),
  Field("redacted",     ~z.redacted,      <<"bool", z.redacted>>),
  JsonTruncated(z),
  Field("source",       z.source = NilPointer, PointerDoc(z.source, LAMBDA i : <<"int", i>>)),
  Field("secure_marks", z.secureMarks.items = <<>>,
                        ArrayDoc(z.secureMarks, JsonVulnerabilityType))>>)

JsonEvidence(z) == Object(<<
  Field("value",      z.value = <<>>,   <<"str", z.value>>),
  Field("pattern",    z.pattern = <<>>, <<"str", z.pattern>>),
  Field("redacted",   ~z.redacted,      <<"bool", z.redacted>>),
  JsonTruncated(z),
  Field("valueParts", z.valueParts.items = <<>>, ArrayDoc(z.valueParts, JsonValuePart))>>)

JsonSource(z) == Object(<<
  Field("origin",   FALSE,            <<"name", OriginString(z.origin)>>),
  Field("name",     z.name = <<>>,    <<"str", z.name>>),
  Field("value",    z.value = <<>>,   <<"str", z.value>>),
  Field("pattern",  z.pattern = <<>>, <<"str", z.pattern>>),
  Field("redacted", ~z.redacted,      <<"bool", z.redacted>>),
  JsonTruncated(z)>>)

JsonLocation(z) == Object(<<
  Field("spanId",  FALSE,            <<"uint", z.spanId>>),
  Field("path",    z.path = <<>>,    <<"str", z.path>>),
  Field("class",   z.class = <<>>,   <<"str", z.class>>),
  Field("line",    z.line = 0,       <<"uint", z.line>>),
  Field("method",  z.method = <<>>,  <<"str", z.method>>),
  Field("stackId", z.stackId = <<>>, <<"str", z.stackId>>)>>)

JsonVulnerability(z) == Object(<<
  Field("type",     FALSE, JsonVulnerabilityType(z.type)),
  Field("hash",     FALSE, <<"hash", z.hash>>),
  Field("evidence", z.evidence = NilPointer, PointerDoc(z.evidence, JsonEvidence)),
  Field("location", z.location = NilPointer, PointerDoc(z.location, JsonLocation))>>)

(* A nil slice that is not left out is null.                               *)
JsonEvent(z) == Object(<<
  Field("sources", z.sources.items = <<>>, ArrayDoc(z.sources, JsonSource)),
  Field("vulnerabilities", FALSE,
    IF z.vulnerabilities.made THEN ArrayDoc(z.vulnerabilities, JsonVulnerability) ELSE <<"nil">>)>>)
=============================================================================
