-------------------------- MODULE MCAnnotationStore --------------------------
(***************************************************************************)
(* Small instances of AnnotationStore.                                     *)
(***************************************************************************)
EXTENDS AnnotationStore, TLC

CONSTANTS g1, g2, g3, request1, request2, request3, request4, child, orphan,
          a1, a2, a3, a4, a5

MCRootOf == [s \in Spans |-> IF s = child THEN request1 ELSE s]

(* Goroutines and annotations are interchangeable.                         *)
MCSymmetry == Permutations(Goroutines) \union Permutations(Annotations)

(* What the future depends on: an annotation nothing refers to is garbage. *)
MCView ==
  <<spanState, tag, store, pc, span, root, hasSpace, ann,
    [a \in Annotations |-> IF Unused(a) THEN FALSE ELSE sampled[a]]>>
=============================================================================
