----------------------------- MODULE EventModel ------------------------------
(***************************************************************************)
(* The values an event is made of, internal/model, and their constructors. *)
(*                                                                         *)
(* A text is the sequence of its characters, a character the number of     *)
(* bytes it takes in UTF-8.                                                *)
(***************************************************************************)
EXTENDS MessagePack

CONSTANT TruncationMaxValue   \* config.TruncationMaxValue

ASSUME TruncationAssumption == TruncationMaxValue \in Nat

Bytes(text) == FoldSeq(LAMBDA width, sum : width + sum, 0, text)

-----------------------------------------------------------------------------
(* Enumerations: a constant, from 1 on, and its string.  Parsing knows the*)
(* strings of the constants only; String makes one up for other values.    *)

VulnerabilityTypes == <<
  "ADMIN_CONSOLE_ACTIVE", "CODE_INJECTION", "COMMAND_INJECTION",
  "DEFAULT_HTML_ESCAPE_INVALID", "DIRECTORY_LISTING_LEAK",
  "EMAIL_HTML_INJECTION", "HARDCODED_KEY", "HARDCODED_PASSWORD",
  "HARDCODED_SECRET", "HEADER_INJECTION", "HSTS_HEADER_MISSING",
  "INSECURE_AUTH_PROTOCOL", "INSECURE_COOKIE", "INSECURE_JSP_LAYOUT",
  "LDAP_INJECTION", "NOSQL_MONGODB_INJECTION", "NO_HTTPONLY_COOKIE",
  "NO_SAMESITE_COOKIE", "PATH_TRAVERSAL", "REFLECTION_INJECTION",
  "SESSION_REWRITING", "SESSION_TIMEOUT", "SQL_INJECTION", "SSRF",
  "STACKTRACE_LEAK", "TEMPLATE_INJECTION", "TRUST_BOUNDARY_VIOLATION",
  "UNTRUSTED_DESERIALIZATION", "UNVALIDATED_REDIRECT", "VERB_TAMPERING",
  "WEAK_CIPHER", "WEAK_HASH", "WEAK_RANDOMNESS",
  "XCONTENTTYPE_HEADER_MISSING", "XPATH_INJECTION", "XSS">>

Origins == <<
  "http.request.parameter", "http.request.parameter.name",
  "http.request.header", "http.request.header.name", "http.request.path",
  "http.request.body", "http.request.query", "http.request.path.parameter",
  "http.request.matrix.parameter", "http.request.cookie.name",
  "http.request.cookie.value", "http.request.uri", "grpc.request.body",
  "http.request.multipart.parameter", "kafka.message.key",
  "kafka.message.value", "graphql.resolver.argument", "sql.row.value">>

VulnerabilityType(s) == CHOOSE v \in DOMAIN VulnerabilityTypes : VulnerabilityTypes[v] = s

StringOf(table, v) == IF v \in DOMAIN table THEN table[v] ELSE "<invalid>"

(* [ok, v]: the constant with this string; 0 and an error if there is none.*)
ParseIn(table, s) ==
  IF \E v \in DOMAIN table : table[v] = s
    THEN [ok |-> TRUE, v |-> CHOOSE v \in DOMAIN table : table[v] = s]
    ELSE [ok |-> FALSE, v |-> 0]

TruncatedSideNone  == 0
TruncatedSideRight == 1
TruncatedSides == [side \in {TruncatedSideNone, TruncatedSideRight} |->
                     IF side = TruncatedSideRight THEN "right" ELSE ""]

VulnerabilityTypeString(v) == StringOf(VulnerabilityTypes, v)
ParseVulnerabilityType(s)  == ParseIn(VulnerabilityTypes, s)
OriginString(o)            == StringOf(Origins, o)
ParseOrigin(s)             == ParseIn(Origins, s)
TruncatedSideString(t)     == StringOf(TruncatedSides, t)
ParseTruncatedSide(s)      == ParseIn(TruncatedSides, s)

-----------------------------------------------------------------------------
(* Values of evidence and sources                                          *)

(* Mutant: the limit counts bytes where a value is cut.                    *)
TruncateString_Bytes(text) ==
  LET fits == {n \in 0..Len(text) : Bytes(SubSeq(text, 1, n)) <= TruncationMaxValue} IN
    IF Bytes(text) <= TruncationMaxValue
      THEN [text |-> text, truncated |-> FALSE]
      ELSE [text |-> SubSeq(text, 1, CHOOSE n \in fits : \A k \in fits : k <= n),
            truncated |-> TRUE]

(* truncation.String: a short value is known by its bytes; else it is cut  *)
(* before the character that follows the last one allowed, if there is one.*)
TruncateString(text) ==
  IF Bytes(text) <= TruncationMaxValue \/ Len(text) <= TruncationMaxValue
    THEN [text |-> text, truncated |-> FALSE]
    ELSE [text |-> SubSeq(text, 1, TruncationMaxValue), truncated |-> TRUE]

TruncateStringIfNeeded(text) ==
  LET t == TruncateString(text) IN
    [text |-> t.text, side |-> IF t.truncated THEN TruncatedSideRight ELSE TruncatedSideNone]

ZeroEvidence == [value |-> <<>>, pattern |-> <<>>, redacted |-> FALSE,
                 truncated |-> TruncatedSideNone, valueParts |-> NilSlice]
ZeroValuePart == [value |-> <<>>, pattern |-> <<>>, redacted |-> FALSE,
                  truncated |-> TruncatedSideNone, source |-> NilPointer,
                  secureMarks |-> NilSlice]
ZeroSource == [origin |-> 0, name |-> <<>>, value |-> <<>>, pattern |-> <<>>,
               redacted |-> FALSE, truncated |-> TruncatedSideNone]
ZeroLocation == [spanId |-> 0, path |-> <<>>, class |-> <<>>, line |-> 0,
                 method |-> <<>>, stackId |-> <<>>]
ZeroVulnerability == [type |-> 0, hash |-> <<>>, evidence |-> NilPointer,
                      location |-> NilPointer]
ZeroEvent == [sources |-> NilSlice, vulnerabilities |-> NilSlice]

(* z with the given value, or with the given pattern in its place.         *)
WithValue(z, text) ==
  LET t == TruncateStringIfNeeded(text) IN [z EXCEPT !.value = t.text, !.truncated = t.side]
WithPattern(z, text) ==
  LET t == TruncateStringIfNeeded(text) IN
    [z EXCEPT !.pattern = t.text, !.redacted = TRUE, !.truncated = t.side]

NewEvidenceString(value)           == WithValue(ZeroEvidence, value)
NewEvidenceRedactedString(pattern) == WithPattern(ZeroEvidence, pattern)
NewEvidenceTaintedValue(parts)     == [ZeroEvidence EXCEPT !.valueParts = SliceOf(parts)]
NewEvidenceEmpty                   == ZeroEvidence

Tainted(part, sourceIndex, marks) ==
  [part EXCEPT !.source = NewPointer(sourceIndex), !.secureMarks = marks]

NewValuePartString(value)           == WithValue(ZeroValuePart, value)
NewValuePartRedactedString(pattern) == WithPattern(ZeroValuePart, pattern)
NewValuePartTaintedString(value, sourceIndex, marks) ==
  Tainted(NewValuePartString(value), sourceIndex, marks)
NewValuePartTaintedRedactedString(pattern, sourceIndex, marks) ==
  Tainted(NewValuePartRedactedString(pattern), sourceIndex, marks)

NewSourceString(origin, name, value) ==
  WithValue([ZeroSource EXCEPT !.origin = origin, !.name = name], value)
NewSourceRedactedString(origin, name, pattern) ==
  WithPattern([ZeroSource EXCEPT !.origin = origin, !.name = name], pattern)

-----------------------------------------------------------------------------
(* Vulnerabilities and events                                              *)

EvidenceTypes == {VulnerabilityType("INSECURE_AUTH_PROTOCOL")}
ServiceTypes ==
  {VulnerabilityType("HSTS_HEADER_MISSING"), VulnerabilityType("XCONTENTTYPE_HEADER_MISSING"),
   VulnerabilityType("ADMIN_CONSOLE_ACTIVE"), VulnerabilityType("SESSION_REWRITING")}

(* What the hash is computed from, in its place.  The line is 0 if it is not known, and  *)
(* the method counts then.                                                 *)
HashInput(type, evidence, location) ==
  <<VulnerabilityTypeString(type)>> \o
    CASE type \in EvidenceTypes -> IF evidence = NilPointer THEN <<>> ELSE <<evidence[1].value>>
      [] type \in ServiceTypes  -> <<>>
      [] OTHER ->
           IF location = NilPointer THEN <<>>
           ELSE LET at == location[1] IN
                  <<at.line, at.path \o (IF at.line <= 0 THEN at.method ELSE <<>>)>>

NewVulnerability(type, evidence, location) ==
  [type |-> type, hash |-> HashInput(type, evidence, location),
   evidence |-> evidence, location |-> location]

NewEvent == [ZeroEvent EXCEPT !.vulnerabilities = SliceOf(<<>>)]
=============================================================================
