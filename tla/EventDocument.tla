---------------------------- MODULE EventDocument ----------------------------
(***************************************************************************)
(* The two encodings of an event compared: what a reader that knows nothing*)
(* of the model finds in each of them.                                     *)
(***************************************************************************)
EXTENDS EventTransport

EmptyArray == <<"array", <<>>>>

(* A reader without the model: [v, rest], the value b begins with.  It     *)
(* takes an empty list for an absent one.                                  *)
RECURSIVE Document(_), Members(_, _, _), Elements(_, _, _)
Document(b) ==
  CASE b[1][1] = "map"   -> Members(b[1][2], Tail(b), {})
    [] b[1][1] = "array" -> Elements(b[1][2], Tail(b), <<>>)
    [] OTHER             -> [v |-> b[1], rest |-> Tail(b)]
Members(n, b, found) ==
  IF n = 0 THEN [v |-> <<"map", found>>, rest |-> b]
  ELSE LET value == Document(Tail(b)) IN
         Members(n - 1, value.rest,
                 IF value.v = EmptyArray THEN found ELSE found \union {<<b[1][2], value.v>>})
Elements(n, b, found) ==
  IF n = 0 THEN [v |-> <<"array", found>>, rest |-> b]
  ELSE LET value == Document(b) IN Elements(n - 1, value.rest, Append(found, value.v))

(* An event is the same document whether the tracer takes it as a          *)
(* meta-struct or it is tagged as JSON, although the two encodings leave   *)
(* out fields by different rules (orchestrion.go:35-43).                   *)
SameDocument ==
  event.vulnerabilities.items # <<>> =>
    Document(MarshalEvent(event)).v = JsonEvent(event)
=============================================================================
