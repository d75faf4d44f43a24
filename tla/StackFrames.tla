----------------------------- MODULE StackFrames ------------------------------
(***************************************************************************)
(* Stack frames and what is read from them, package stacktrace of          *)
(* internal/vulnerability.                                                 *)
(*                                                                         *)
(* A frame has a namespace, the class and the function of its symbol, and  *)
(* a file.  Classes and functions are sequences of the parts of a name:    *)
(* <<"Hash", "New">> is Hash.New, and the class of a pointer receiver      *)
(* begins with "*".                                                        *)
(***************************************************************************)
EXTENDS Integers, Sequences, SequencesExt

Generated == "<generated>"

(* File names are reduced to whether they end in <generated>.              *)
IsGeneratedFile(file) == file = Generated

SkipFrame(namespace, class, function) ==
  [namespace |-> namespace, class |-> class, function |-> function]

JoinedFunctionMatches(joined, class, function) ==
  class # <<>> /\ joined = class \o function

(* Mutant: a value receiver is always a class of its own.                  *)
Matches_NoJoined(candidate, frame) ==
  /\ candidate.namespace = frame.namespace
  /\ candidate.class = frame.class
  /\ candidate.function = frame.function

(* Whether a frame is of the candidate's symbol, whichever way the tracer  *)
(* lays out value receivers: a class, or a part of the function.           *)
Matches(candidate, frame) ==
  /\ candidate.namespace = frame.namespace
  /\ \/ candidate.class = frame.class /\ candidate.function = frame.function
     \/ /\ candidate.class = <<>>
        /\ JoinedFunctionMatches(candidate.function, frame.class, frame.function)
     \/ /\ candidate.class # <<>> /\ frame.class = <<>>
        /\ JoinedFunctionMatches(frame.function, candidate.class, candidate.function)

(* Mutant: the namespace of a function without a receiver is lost.         *)
LocationFromFrame_ClassOnly(frame) ==
  [class |-> IF frame.class = <<>> THEN <<>> ELSE <<frame.namespace>> \o frame.class,
   method |-> frame.function]

(* The class and the method of the location; the namespace goes to the     *)
(* class, if there is one.                                                 *)
LocationFromFrame(frame) ==
  LET qualified(name) == <<frame.namespace>> \o name IN
    IF frame.namespace = "" THEN [class |-> frame.class, method |-> frame.function]
    ELSE [class  |-> IF frame.class = <<>> THEN <<>>
                     ELSE IF frame.class[1] = "*" THEN qualified(<<"(">> \o frame.class \o <<")">>)
                     ELSE qualified(frame.class),
          method |-> IF frame.class = <<>> THEN qualified(frame.function) ELSE frame.function]
=============================================================================
