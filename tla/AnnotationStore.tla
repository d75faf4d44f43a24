--------------------------- MODULE AnnotationStore ---------------------------
(***************************************************************************)
(* The association of tracer spans to IAST annotations, internal/spans.    *)
(*                                                                         *)
(* Goroutines of the host program call AnnotationFor (through              *)
(* vulnerability.Report) and Span.Finish, whose first statement is the     *)
(* injected call of Finished.  The store is a concurrent map keyed by weak *)
(* pointers: its operations are atomic, but AnnotationFor makes several of *)
(* them (Size, DeleteMatching, Size, LoadOrCompute), and whatever happens  *)
(* in between is part of this model.  The garbage collector takes spans    *)
(* away that the program dropped, finished or not; their keys stay in the  *)
(* store, dead, until a trim or for ever.                                  *)
(***************************************************************************)
EXTENDS Integers, FiniteSets

CONSTANTS Goroutines,             \* goroutines of the host program
          Spans,                  \* tracer spans (an identifier is reused once its span is gone)
          Orphans,                \* those that Report starts when its context has no span
          RootOf,                 \* the root of the trace of each span
          Annotations,            \* annotation objects
          NoSpan, NoAnn,          \* "nil"
          Enabled,                \* config.Enabled
          MaxConcurrentRequests,  \* config.MaxConcurrentRequests
          RequestSamplingPct,     \* config.RequestSamplingPct
          MaxInt                  \* math.MaxInt of the platform

ASSUME GoroutinesAssumption == IsFiniteSet(Goroutines) /\ Goroutines # {}
ASSUME SpansAssumption ==
  /\ IsFiniteSet(Spans)
  /\ NoSpan \notin Spans
  /\ Orphans \subseteq Spans
  /\ RootOf \in [Spans -> Spans]
  /\ \A s \in Spans : RootOf[RootOf[s]] = RootOf[s]
  /\ \A s \in Spans : s \in Orphans => \A t \in Spans : RootOf[t] = s <=> t = s
ASSUME AnnotationsAssumption == NoAnn \notin Annotations
ASSUME ConfigAssumption ==
  /\ Enabled \in BOOLEAN
  /\ MaxInt \in Nat
  /\ MaxConcurrentRequests \in 0..MaxInt
  /\ RequestSamplingPct \in 0..100

VARIABLES
  spanState,  \* "none" (not started, or collected), "open" or "finished"
  tag,        \* SpanTagEnabled of each span: "absent", "0" or "1"
  store,      \* the annotation stored for each span, NoAnn if its key is absent
  sampled,    \* Annotation.Sampled
  pc,         \* where each goroutine is
  span,       \* the span it reports on, or finishes
  root,       \* local variable root of AnnotationFor
  hasSpace,   \* local variable hasSpace of AnnotationFor
  ann         \* the annotation it holds; NoAnn stands for one that is not stored

storeVars == <<spanState, tag, store, sampled, pc, span, root, hasSpace, ann>>

-----------------------------------------------------------------------------
(* Constants of the package                                                *)

(* config.MaxConcurrentRequests*3 in a Go int: it wraps around.            *)
TripleMax ==
  IF MaxConcurrentRequests * 3 <= MaxInt
    THEN MaxConcurrentRequests * 3
    ELSE MaxConcurrentRequests * 3 - 2 * (MaxInt + 1)

triggerTrimThreshold ==
  IF TripleMax \div 4 < 1 THEN 1 ELSE TripleMax \div 4

(* samplingDecision: never with 0, always with 100, otherwise a draw.      *)
SamplingDecisions ==
  {decision \in BOOLEAN : IF decision THEN RequestSamplingPct # 0
                                      ELSE RequestSamplingPct # 100}

(* Mutant: the decision is formatted as a boolean.                         *)
SpanTag_Formatted(isSampled) == IF isSampled THEN "true" ELSE "false"

SpanTag(isSampled) == IF isSampled THEN "1" ELSE "0"

-----------------------------------------------------------------------------
(* State predicates                                                        *)

Stored == {s \in Spans : store[s] # NoAnn}
Dead   == {s \in Spans : spanState[s] = "none"}

(* Nothing refers to annotation a: it can stand for a new one.             *)
Unused(a) ==
  /\ \A s \in Spans : store[s] # a
  /\ \A g \in Goroutines : ann[g] # a

(* The result of span.Root(): once the root is finished, the tracer may    *)
(* or may not still give it.                                               *)
RootCandidates(s) ==
  IF spanState[RootOf[s]] = "open" THEN {RootOf[s]} ELSE {RootOf[s], s}

InUse(s) ==
  \/ \E g \in Goroutines : s \in {span[g], root[g]}
  \/ \E t \in Spans \ {s} : RootOf[t] = s /\ spanState[t] # "none"

StoreInit ==
  /\ spanState = [s \in Spans |-> "none"]
  /\ tag       = [s \in Spans |-> "absent"]
  /\ store     = [s \in Spans |-> NoAnn]
  /\ sampled   = [a \in Annotations |-> FALSE]
  /\ pc        = [g \in Goroutines |-> "idle"]
  /\ span      = [g \in Goroutines |-> NoSpan]
  /\ root      = [g \in Goroutines |-> NoSpan]
  /\ hasSpace  = [g \in Goroutines |-> FALSE]
  /\ ann       = [g \in Goroutines |-> NoAnn]

GoTo(g, from, to) ==
  /\ pc[g] = from
  /\ pc' = [pc EXCEPT ![g] = to]

(* g returns to the host program: its locals are gone.                     *)
Leave(g, from) ==
  /\ GoTo(g, from, "idle")
  /\ span' = [span EXCEPT ![g] = NoSpan]
  /\ root' = [root EXCEPT ![g] = NoSpan]
  /\ ann'  = [ann EXCEPT ![g] = NoAnn]
  /\ hasSpace' = [hasSpace EXCEPT ![g] = FALSE]

-----------------------------------------------------------------------------
(* The host program and its run-time                                       *)

(* The program starts a span; a child can outlive its root.                *)
StartSpan(s) ==
  /\ s \in Dead \ (Stored \union Orphans)
  /\ RootOf[s] = s \/ spanState[RootOf[s]] # "none"
  /\ spanState' = [spanState EXCEPT ![s] = "open"]
  /\ tag' = [tag EXCEPT ![s] = "absent"]
  /\ UNCHANGED <<store, sampled, pc, span, root, hasSpace, ann>>

(* The garbage collector frees a span nothing refers to: its weak pointer  *)
(* turns nil.                                                              *)
Collect(s) ==
  /\ s \notin Dead
  /\ ~InUse(s)
  /\ spanState' = [spanState EXCEPT ![s] = "none"]
  /\ tag' = [tag EXCEPT ![s] = "absent"]
  /\ UNCHANGED <<store, sampled, pc, span, root, hasSpace, ann>>

-----------------------------------------------------------------------------
(* AnnotationFor                                                           *)

(* Report with a span in its context, finished or not: Root() is read.     *)
ReportOnSpan(g, s) ==
  /\ Enabled
  /\ s \notin Dead \union Orphans
  /\ GoTo(g, "idle", "size")
  /\ span' = [span EXCEPT ![g] = s]
  /\ \E r \in RootCandidates(s) : root' = [root EXCEPT ![g] = r]
  /\ UNCHANGED <<spanState, tag, store, sampled, hasSpace, ann>>

(* Report without a span: NewOrphanVulnerabilitySpan, which is its own     *)
(* root.                                                                   *)
ReportOnOrphan(g, s) ==
  /\ Enabled
  /\ s \in (Orphans \intersect Dead) \ Stored
  /\ GoTo(g, "idle", "size")
  /\ spanState' = [spanState EXCEPT ![s] = "open"]
  /\ tag'  = [tag EXCEPT ![s] = "1"]
  /\ span' = [span EXCEPT ![g] = s]
  /\ root' = [root EXCEPT ![g] = s]
  /\ UNCHANGED <<store, sampled, hasSpace, ann>>

(* trimStore deletes dead keys only from here on.                          *)
ReachedTrimThreshold ==
  MaxConcurrentRequests # 0 /\ Cardinality(Stored) >= triggerTrimThreshold

(* trimStore, up to its first reading of the size; with a maximum of zero  *)
(* there is never space.                                                   *)
CheckUtilization(g) ==
  /\ \/ /\ ~ReachedTrimThreshold
        /\ GoTo(g, "size", "compute")
        /\ hasSpace' = [hasSpace EXCEPT ![g] = MaxConcurrentRequests # 0]
     \/ /\ ReachedTrimThreshold
        /\ GoTo(g, "size", "trim")
        /\ UNCHANGED hasSpace
  /\ UNCHANGED <<spanState, tag, store, sampled, span, root, ann>>

(* Mutant: the test of the weak pointer is inverted.                       *)
DeleteDeadKeys_Inverted(g) ==
  /\ GoTo(g, "trim", "recheck")
  /\ store' = [s \in Spans |-> IF s \notin Dead THEN NoAnn ELSE store[s]]
  /\ UNCHANGED <<spanState, tag, sampled, span, root, hasSpace, ann>>

(* store.DeleteMatching of the keys that turned nil.                       *)
DeleteDeadKeys(g) ==
  /\ GoTo(g, "trim", "recheck")
  /\ store' = [s \in Spans |-> IF s \in Dead THEN NoAnn ELSE store[s]]
  /\ UNCHANGED <<spanState, tag, sampled, span, root, hasSpace, ann>>

(* Mutant: a full store still has space.                                   *)
CheckCapacity_OffByOne(g) ==
  /\ GoTo(g, "recheck", "compute")
  /\ hasSpace' = [hasSpace EXCEPT
                    ![g] = Cardinality(Stored) <= MaxConcurrentRequests]
  /\ UNCHANGED <<spanState, tag, store, sampled, span, root, ann>>

(* trimStore's second reading of the size.                                 *)
CheckCapacity(g) ==
  /\ GoTo(g, "recheck", "compute")
  /\ hasSpace' = [hasSpace EXCEPT
                    ![g] = Cardinality(Stored) < MaxConcurrentRequests]
  /\ UNCHANGED <<spanState, tag, store, sampled, span, root, ann>>

(* LoadOrCompute finds the key.                                            *)
LoadStored(g) ==
  /\ GoTo(g, "compute", "annotated")
  /\ store[root[g]] # NoAnn
  /\ ann' = [ann EXCEPT ![g] = store[root[g]]]
  /\ UNCHANGED <<spanState, tag, store, sampled, span, root, hasSpace>>

(* No key and no space: the computation is cancelled, and the caller gets  *)
(* a fresh annotation, not sampled, that nobody else will ever see.        *)
CancelCompute(g) ==
  /\ GoTo(g, "compute", "annotated")
  /\ store[root[g]] = NoAnn
  /\ ~hasSpace[g]
  /\ UNCHANGED <<spanState, tag, store, sampled, span, root, hasSpace, ann>>

(* Mutant: Store in place of LoadOrCompute.                                *)
ComputeAnnotation_Store(g, a) ==
  /\ GoTo(g, "compute", "annotated")
  /\ hasSpace[g]
  /\ Unused(a)
  /\ store'   = [store EXCEPT ![root[g]] = a]
  /\ ann'     = [ann EXCEPT ![g] = a]
  /\ sampled' = [sampled EXCEPT ![a] = TRUE]
  /\ UNCHANGED <<spanState, tag, span, root, hasSpace>>

(* Mutant: the root is tagged only if the request is sampled.              *)
ComputeAnnotation_KeepTag(g, a) ==
  /\ GoTo(g, "compute", "annotated")
  /\ store[root[g]] = NoAnn
  /\ hasSpace[g]
  /\ Unused(a)
  /\ store' = [store EXCEPT ![root[g]] = a]
  /\ ann'   = [ann EXCEPT ![g] = a]
  /\ \E decision \in SamplingDecisions :
       /\ sampled' = [sampled EXCEPT ![a] = decision]
       /\ tag' = IF spanState[root[g]] = "open" /\ decision
                   THEN [tag EXCEPT ![root[g]] = SpanTag(TRUE)]
                   ELSE tag
  /\ UNCHANGED <<spanState, span, root, hasSpace>>

(* No key: a new annotation is stored, and the root is tagged with its     *)
(* sampling decision, unless it is finished (SetTag is then ignored).      *)
ComputeAnnotation(g, a) ==
  /\ GoTo(g, "compute", "annotated")
  /\ store[root[g]] = NoAnn
  /\ hasSpace[g]
  /\ Unused(a)
  /\ store' = [store EXCEPT ![root[g]] = a]
  /\ ann'   = [ann EXCEPT ![g] = a]
  /\ \E decision \in SamplingDecisions :
       /\ sampled' = [sampled EXCEPT ![a] = decision]
       /\ tag' = IF spanState[root[g]] = "open"
                   THEN [tag EXCEPT ![root[g]] = SpanTag(decision)]
                   ELSE tag
  /\ UNCHANGED <<spanState, span, root, hasSpace>>

(* Report returns; on an orphan span, its deferred span.Finish() runs.     *)
ReturnFromReport(g) ==
  /\ span[g] \notin Orphans
  /\ Leave(g, "annotated")
  /\ UNCHANGED <<spanState, tag, store, sampled>>

FinishOrphan(g) ==
  /\ span[g] \in Orphans
  /\ GoTo(g, "annotated", "delete")
  /\ ann' = [ann EXCEPT ![g] = NoAnn]
  /\ root' = [root EXCEPT ![g] = NoSpan]
  /\ hasSpace' = [hasSpace EXCEPT ![g] = FALSE]
  /\ UNCHANGED <<spanState, tag, store, sampled, span>>

-----------------------------------------------------------------------------
(* Finished, the prologue of Span.Finish                                   *)

(* The program finishes a span, possibly not for the first time.           *)
CallFinish(g, s) ==
  /\ s \notin Dead \union Orphans
  /\ GoTo(g, "idle", "delete")
  /\ span' = [span EXCEPT ![g] = s]
  /\ UNCHANGED <<spanState, tag, store, sampled, root, hasSpace, ann>>

(* Mutant: Load in place of LoadAndDelete.                                 *)
LoadAndDelete_Load(g) ==
  /\ GoTo(g, "delete", "finishing")
  /\ ann' = [ann EXCEPT ![g] = store[span[g]]]
  /\ UNCHANGED <<spanState, tag, store, sampled, span, root, hasSpace>>

LoadAndDelete(g) ==
  /\ GoTo(g, "delete", "finishing")
  /\ ann'   = [ann EXCEPT ![g] = store[span[g]]]
  /\ store' = [store EXCEPT ![span[g]] = NoAnn]
  /\ UNCHANGED <<spanState, tag, sampled, span, root, hasSpace>>

(* The rest of Span.Finish.                                                *)
FinishSpan(g) ==
  /\ Leave(g, "finishing")
  /\ spanState' = [spanState EXCEPT ![span[g]] = "finished"]
  /\ UNCHANGED <<tag, store, sampled>>

-----------------------------------------------------------------------------
StoreNext ==
  \/ \E s \in Spans : StartSpan(s) \/ Collect(s)
  \/ \E g \in Goroutines :
       \/ \E s \in Spans : ReportOnSpan(g, s) \/ ReportOnOrphan(g, s) \/ CallFinish(g, s)
       \/ CheckUtilization(g) \/ DeleteDeadKeys(g) \/ CheckCapacity(g)
       \/ LoadStored(g) \/ CancelCompute(g)
       \/ \E a \in Annotations : ComputeAnnotation(g, a)
       \/ ReturnFromReport(g) \/ FinishOrphan(g)
       \/ LoadAndDelete(g) \/ FinishSpan(g)

StoreSpec == StoreInit /\ [][StoreNext]_storeVars

-----------------------------------------------------------------------------
(* Properties                                                              *)

TypeOK ==
  /\ spanState \in [Spans -> {"none", "open", "finished"}]
  /\ tag       \in [Spans -> {"absent", "0", "1"}]
  /\ store     \in [Spans -> Annotations \union {NoAnn}]
  /\ sampled   \in [Annotations -> BOOLEAN]
  /\ pc        \in [Goroutines -> {"idle", "size", "trim", "recheck", "compute",
                                   "annotated", "delete", "finishing"}]
  /\ span      \in [Goroutines -> Spans \union {NoSpan}]
  /\ root      \in [Goroutines -> Spans \union {NoSpan}]
  /\ hasSpace  \in [Goroutines -> BOOLEAN]
  /\ ann       \in [Goroutines -> Annotations \union {NoAnn}]

(* The goroutines that were told there is space and have not used it yet.  *)
Pending == {g \in Goroutines : pc[g] = "compute" /\ hasSpace[g]}

(* How far check-then-act lets the store grow: every goroutine but one may *)
(* have been told there is space while the last slot was being taken.      *)
Capacity ==
  IF MaxConcurrentRequests = 0
    THEN 0
    ELSE MaxConcurrentRequests - 1 + Cardinality(Goroutines)

(* The overshoot of the store over DD_IAST_MAX_CONCURRENT_REQUESTS is at   *)
(* most the number of other goroutines inside AnnotationFor, whatever they *)
(* do between trimStore and LoadOrCompute (annotation.go:56-78).           *)
CapacityBound == Cardinality(Stored) <= Capacity

(* A goroutine holding an annotation it got from the store shares it with  *)
(* whoever asks for the same root: as long as nobody finishes that root,   *)
(* neither a trim nor another AnnotationFor replaces it                    *)
(* (annotation.go:59-78, 99-110).                                          *)
AnnotationShared ==
  \A g \in Goroutines :
    pc[g] = "annotated" /\ ann[g] # NoAnn =>
      \/ store[root[g]] = ann[g]
      \/ spanState[root[g]] = "finished"
      \/ \E h \in Goroutines : pc[h] = "finishing" /\ span[h] = root[g]

(* README.md:54 says that IAST processes at most                           *)
(* DD_IAST_MAX_CONCURRENT_REQUESTS requests at a time: that many requests  *)
(* in progress are sampled.                                                *)
Analyzed == {s \in Stored : spanState[s] = "open" /\ sampled[store[s]]}
DocumentedLimit == Cardinality(Analyzed) <= MaxConcurrentRequests

(* The store implements the registry it promises.                          *)
Registry == INSTANCE AnnotationRegistry
              WITH entry <- store, alive <- Spans \ Dead
ImplementsRegistry == Registry!RegistrySpec
=============================================================================
