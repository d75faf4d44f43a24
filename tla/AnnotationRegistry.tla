------------------------- MODULE AnnotationRegistry -------------------------
(***************************************************************************)
(* What the package internal/spans promises to its callers, without saying *)
(* how: a bounded association of live spans to annotations.                *)
(*                                                                         *)
(*   - at most Capacity spans are registered at any time;                  *)
(*   - an annotation belongs to one span, and the entry of a registered    *)
(*     span is never replaced;                                             *)
(*   - the entry of a live span goes away only when that span is finished; *)
(*   - entries of dead (garbage collected) spans may be swept at any time. *)
(*                                                                         *)
(* AnnotationStore, the translation of the code, implements this module.   *)
(***************************************************************************)
EXTENDS Integers, FiniteSets

CONSTANTS Spans,        \* the spans of the program
          Annotations,  \* the annotation objects
          NoAnn,        \* the value of an absent entry
          Capacity      \* the bound on registered spans

VARIABLES entry,  \* the annotation registered for each span, or NoAnn
          alive   \* the spans the program can still reach

registryVars == <<entry, alive>>

Registered == {s \in Spans : entry[s] # NoAnn}

RegistryInit ==
  /\ entry = [s \in Spans |-> NoAnn]
  /\ alive = {}

(* A span comes to life; no entry of an earlier span can be taken for its  *)
(* own.                                                                    *)
Start(s) ==
  /\ s \notin alive
  /\ entry[s] = NoAnn
  /\ alive' = alive \union {s}
  /\ UNCHANGED entry

Die(s) ==
  /\ s \in alive
  /\ alive' = alive \ {s}
  /\ UNCHANGED entry

Register(s, a) ==
  /\ s \in alive
  /\ entry[s] = NoAnn
  /\ \A t \in Spans : entry[t] # a
  /\ Cardinality(Registered) < Capacity
  /\ entry' = [entry EXCEPT ![s] = a]
  /\ UNCHANGED alive

Finish(s) ==
  /\ s \in alive
  /\ entry' = [entry EXCEPT ![s] = NoAnn]
  /\ UNCHANGED alive

Sweep ==
  /\ entry' = [s \in Spans |-> IF s \in alive THEN entry[s] ELSE NoAnn]
  /\ UNCHANGED alive

RegistryNext ==
  \/ \E s \in Spans : Start(s) \/ Die(s) \/ Finish(s)
  \/ \E s \in Spans, a \in Annotations : Register(s, a)
  \/ Sweep

RegistrySpec == RegistryInit /\ [][RegistryNext]_registryVars
=============================================================================
