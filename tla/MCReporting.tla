----------------------------- MODULE MCReporting -----------------------------
(***************************************************************************)
(* Small instances of Reporting.                                           *)
(***************************************************************************)
EXTENDS Reporting, TLC

CONSTANTS g1, g2, g3, request, child, orphan, a1, a2, a3, a4, h1, h2, h3

MCRootOf == [s \in Spans |-> IF s = child THEN request ELSE s]

(* Goroutines, annotations and hashes are interchangeable (for the runs    *)
(* that check no liveness property).                                       *)
MCSymmetry == Permutations(Goroutines) \union Permutations(Annotations)
                \union Permutations(Hashes)
(* What the future depends on: an annotation nothing refers to is garbage, *)
(* and gets new contents before it is used again; so does the finding of a *)
(* goroutine that is not reporting.                                        *)
MCGarbage == {a \in Annotations : Unused(a) /\ \A s \in Spans : metaStruct[s] # a}
MCView ==
  <<spanState, tag, store, pc, span, root, hasSpace, ann, phase, readers, writer,
    metaStruct, json,
    [a \in Annotations |-> IF a \in MCGarbage THEN <<>> ELSE <<sampled[a], vulns[a]>>],
    [g \in Goroutines |-> IF pc[g] = "idle" THEN NoOne ELSE finding[g]]>>
=============================================================================
