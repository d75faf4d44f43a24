---------------------------- MODULE MessagePack ------------------------------
(***************************************************************************)
(* What the code msgp generates for each type has in common: writing and   *)
(* reading maps, arrays, pointers and single values.                       *)
(*                                                                         *)
(* A message is a sequence of tokens, each of them a kind and a value.  A  *)
(* reader returns [ok, v, rest]: the value read and what follows it.  A    *)
(* pointer is a sequence of at most one element, and a slice knows whether *)
(* it is nil.                                                              *)
(***************************************************************************)
EXTENDS Integers, SequencesExt

NilPointer == <<>>
NewPointer(v) == <<v>>
NilSlice == [made |-> FALSE, items |-> <<>>]
SliceOf(items) == [made |-> TRUE, items |-> items]

Token(kind, v) == <<<<kind, v>>>>
NilToken == <<<<"nil">>>>

-----------------------------------------------------------------------------
(* Writers                                                                 *)

Field(key, isOmitted, value) == [key |-> key, isOmitted |-> isOmitted, value |-> value]

(* What a field adds to a map: its key and its value if it is not omitted. *)
Present(fields) == {i \in DOMAIN fields : ~fields[i].isOmitted}
AppendField(f) == IF f.isOmitted THEN <<>> ELSE Token("name", f.key) \o f.value
AppendFields(fields) == FlattenSeq([i \in DOMAIN fields |-> AppendField(fields[i])])
AppendMap(fields) == Token("map", Cardinality(Present(fields))) \o AppendFields(fields)

AppendArray(slice, Marshal(_)) ==
  Token("array", Len(slice.items)) \o
    FlattenSeq([i \in DOMAIN slice.items |-> Marshal(slice.items[i])])

AppendPointer(pointer, Marshal(_)) ==
  IF pointer = NilPointer THEN NilToken ELSE Marshal(pointer[1])

(* The message with one more field, first in the map at i.                 *)
WithField(message, i, field) ==
  SubSeq(message, 1, i - 1) \o Token("map", message[i][2] + 1)
    \o field \o SubSeq(message, i + 1, Len(message))

(* How a message comes from a writer that may know one more field.         *)
Encodings(message, field) ==
  {message} \union
    {WithField(message, i, field) : i \in {j \in DOMAIN message : message[j][1] = "map"}}

-----------------------------------------------------------------------------
(* Readers                                                                 *)

Success(v, rest) == [ok |-> TRUE, v |-> v, rest |-> rest]
Failure == [ok |-> FALSE, v |-> <<>>, rest |-> <<>>]

Read(kind, b) ==
  IF b # <<>> /\ b[1][1] = kind THEN Success(b[1][2], Tail(b)) ELSE Failure

(* What is left of b after the first value, whatever it is (msgp.Skip).    *)
Skip(b) ==
  LET due[i \in 0..Len(b)] ==   \* values still to come after i tokens
        IF i = 0 THEN 1
        ELSE due[i - 1] - 1 + CASE b[i][1] = "map"   -> 2 * b[i][2]
                                [] b[i][1] = "array" -> b[i][2]
                                [] OTHER             -> 0
      ends == {i \in 0..Len(b) : due[i] = 0}
  IN IF ends = {} THEN Failure
     ELSE Success(<<>>, SubSeq(b, 1 + CHOOSE i \in ends : \A j \in ends : i <= j, Len(b)))

(* Applies Step to r, n times over, until it fails.                        *)
Repeat(n, r, Step(_, _)) ==
  LET after[i \in 0..n] ==
        IF i = 0 THEN r
        ELSE LET before == after[i - 1] IN IF before.ok THEN Step(i, before) ELSE before
  IN after[n]

(* Mutant: the error of a reader is not tested.                            *)
SetField_Unchecked(z, f, r) == Success(IF r.ok THEN [z EXCEPT ![f] = r.v] ELSE z, r.rest)

(* The result of reading field f of z; other fields of z stay as they were.*)
SetField(z, f, r) == IF r.ok THEN Success([z EXCEPT ![f] = r.v], r.rest) ELSE Failure

(* Mutant: the value of a field that is not known is not skipped.          *)
SkipField_KeyOnly(z, b) == Success(z, b)

SkipField(z, b) == IF Skip(b).ok THEN Success(z, Skip(b).rest) ELSE Failure

(* Reads the fields of a map into z, one at a time and in any order.       *)
ReadMap(z, b, ReadField(_, _, _)) ==
  LET header == Read("map", b)
      Next(i, r) == LET key == Read("name", r.rest) IN
                      IF key.ok THEN ReadField(r.v, key.v, key.rest) ELSE Failure
  IN IF header.ok THEN Repeat(header.v, Success(z, header.rest), Next) ELSE Failure

(* Reads an array into a slice.  Its elements are used again if there are  *)
(* enough of them; the capacity of a slice is taken to be its length.      *)
ReadArray(slice, b, zero, Unmarshal(_, _)) ==
  LET header == Read("array", b)
      target == IF Len(slice.items) >= header.v
                  THEN [made |-> slice.made, items |-> SubSeq(slice.items, 1, header.v)]
                  ELSE SliceOf([i \in 1..header.v |-> zero])
      Next(i, r) == LET e == Unmarshal(r.v.items[i], r.rest) IN
                      IF e.ok THEN Success(SliceOf([r.v.items EXCEPT ![i] = e.v]), e.rest) ELSE Failure
  IN IF header.ok THEN Repeat(header.v, Success(target, header.rest), Next) ELSE Failure

ReadPointer(pointer, b, zero, Unmarshal(_, _)) ==
  LET e == Unmarshal(IF pointer = NilPointer THEN zero ELSE pointer[1], b)
  IN IF b # <<>> /\ b[1] = <<"nil">> THEN Success(NilPointer, Tail(b))
     ELSE IF e.ok THEN Success(NewPointer(e.v), e.rest) ELSE Failure

(* Enumerations travel as their strings.                                   *)
UnmarshalShim(b, Parse(_)) ==
  LET name == Read("name", b) IN
    IF name.ok /\ Parse(name.v).ok THEN Success(Parse(name.v).v, name.rest) ELSE Failure
=============================================================================
