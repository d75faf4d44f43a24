-------------------------- MODULE MCEventTransport ---------------------------
(***************************************************************************)
(* Small instances of EventTransport.                                      *)
(***************************************************************************)
EXTENDS EventDocument

(* No text, one at the limit of two characters although it takes four      *)
(* bytes, and one above it.                                                *)
Long == <<2, 1, 1>>
EvidenceTexts == {<<>>, <<2, 2>>, Long}

Part(tainted, redacted, text, sourceIndex, secureMarks) ==
  [tainted |-> tainted, redacted |-> redacted, text |-> text,
   sourceIndex |-> sourceIndex, secureMarks |-> secureMarks]

(* As many marks as need a longer header.                                  *)
Marks == SliceOf([i \in 1..16 |-> VulnerabilityType(IF i = 1 THEN "SQL_INJECTION" ELSE "XSS")])
PartLists == {
  <<>>,
  <<Part(TRUE, FALSE, Long, 0, SliceOf(<<>>)), Part(FALSE, FALSE, <<1>>, 0, NilSlice)>>,
  <<Part(FALSE, TRUE, <<1>>, 0, NilSlice), Part(TRUE, TRUE, Long, 1, Marks)>>}

Input(kind, text, parts) == [kind |-> kind, text |-> text, parts |-> parts]

Evidence ==
  {Input("string", t, <<>>) : t \in EvidenceTexts} \union {Input("redacted", Long, <<>>)}
    \union {Input("tainted", <<>>, parts) : parts \in PartLists}

(* Paths and classes of 32 and of 256 bytes, which need longer headers.    *)
Text(characters) == [i \in 1..characters |-> 4]
Method == NewPointer([ZeroLocation EXCEPT !.path = <<1>>, !.class = Text(64), !.method = <<1, 1>>])
Line == NewPointer([ZeroLocation EXCEPT !.spanId = 9, !.path = Text(8), !.line = 7, !.stackId = <<1>>])

Finding(type, evidence, location) ==
  [type |-> VulnerabilityType(type), evidence |-> evidence, location |-> location]

MCFindings ==
  {Finding("WEAK_HASH", NewPointer(e), Line) : e \in Evidence}
    \union {Finding("INSECURE_AUTH_PROTOCOL", NewPointer(Input("string", t, <<>>)), Method) : t \in {<<1>>, Long}}
    \union {Finding("HSTS_HEADER_MISSING", NewPointer(Input("empty", <<>>, <<>>)), NilPointer),
            Finding("WEAK_CIPHER", NilPointer, Method)}

MCSources ==
  {[redacted |-> FALSE, origin |-> 8, name |-> <<1>>, text |-> <<2, 2>>],
   [redacted |-> TRUE, origin |-> 18, name |-> <<>>, text |-> Long]}

(* A map of a list with a list in it, and a string.                        *)
MCNewerValue ==
  Token("map", 2) \o Token("name", "a") \o Token("array", 2) \o Token("array", 0) \o NilToken
    \o Token("name", "b") \o Token("str", <<1>>)
=============================================================================
