------------------------ MODULE AnnotationStoreProofs ------------------------
(***************************************************************************)
(* Theorems about AnnotationStore, for any goroutines, spans, annotations  *)
(* and configuration.                                                      *)
(***************************************************************************)
EXTENDS AnnotationStore, FiniteSetTheorems, TLAPS

(***************************************************************************)
(* Types                                                                   *)
(***************************************************************************)

(* A draw of the sampler is a Boolean.                                     *)
LEMMA SamplingDecisionsBoolean == SamplingDecisions \subseteq BOOLEAN
  BY DEF SamplingDecisions

(* What the locals of a goroutine can be: a span it works on is alive, and *)
(* so is the root of its trace, and it holds no annotation before it asked *)
(* the store for one.                                                      *)
RootsAlive == \A s \in Spans : s \notin Dead => RootOf[s] \notin Dead

InAnnotationFor == {"size", "trim", "recheck", "compute", "annotated"}

LocalsAlive ==
  \A g \in Goroutines :
    /\ pc[g] # "idle" => span[g] \in Spans \ Dead
    /\ pc[g] \in InAnnotationFor => root[g] \in Spans \ Dead

NothingHeldYet ==
  \A g \in Goroutines :
    pc[g] \notin {"annotated", "finishing"} => ann[g] = NoAnn

LocalInv == TypeOK /\ RootsAlive /\ LocalsAlive /\ NothingHeldYet

(* Those four facts together are preserved by every step.                  *)
LEMMA LocalInvariant == StoreSpec => []LocalInv
<1>1. StoreInit => LocalInv
  BY DEF StoreInit, LocalInv, TypeOK, RootsAlive, LocalsAlive, NothingHeldYet,
         InAnnotationFor, Dead
<1>2. LocalInv /\ [StoreNext]_storeVars => LocalInv'
  <2> SUFFICES ASSUME LocalInv, [StoreNext]_storeVars
               PROVE  LocalInv'
    OBVIOUS
  <2> USE DEF LocalInv, TypeOK, RootsAlive, LocalsAlive, NothingHeldYet,
              InAnnotationFor, Dead, GoTo, Leave
  <2>1. ASSUME NEW s \in Spans, StartSpan(s) PROVE LocalInv'
    BY <2>1, SpansAssumption DEF StartSpan
  <2>2. ASSUME NEW s \in Spans, Collect(s) PROVE LocalInv'
    BY <2>2, SpansAssumption DEF Collect, InUse
  <2>3. ASSUME NEW g \in Goroutines, NEW s \in Spans, ReportOnSpan(g, s) PROVE LocalInv'
    BY <2>3, SpansAssumption DEF ReportOnSpan, RootCandidates
  <2>4. ASSUME NEW g \in Goroutines, NEW s \in Spans, ReportOnOrphan(g, s) PROVE LocalInv'
    BY <2>4, SpansAssumption DEF ReportOnOrphan
  <2>5. ASSUME NEW g \in Goroutines, NEW s \in Spans, CallFinish(g, s) PROVE LocalInv'
    BY <2>5 DEF CallFinish
  <2>6. ASSUME NEW g \in Goroutines, CheckUtilization(g) PROVE LocalInv'
    BY <2>6 DEF CheckUtilization
  <2>7. ASSUME NEW g \in Goroutines, DeleteDeadKeys(g) PROVE LocalInv'
    BY <2>7 DEF DeleteDeadKeys
  <2>8. ASSUME NEW g \in Goroutines, CheckCapacity(g) PROVE LocalInv'
    BY <2>8 DEF CheckCapacity
  <2>9. ASSUME NEW g \in Goroutines, LoadStored(g) PROVE LocalInv'
    BY <2>9 DEF LoadStored
  <2>10. ASSUME NEW g \in Goroutines, CancelCompute(g) PROVE LocalInv'
    BY <2>10 DEF CancelCompute
  <2>11. ASSUME NEW g \in Goroutines, NEW a \in Annotations, ComputeAnnotation(g, a) PROVE LocalInv'
    BY <2>11, SamplingDecisionsBoolean DEF ComputeAnnotation, SpanTag
  <2>12. ASSUME NEW g \in Goroutines, ReturnFromReport(g) PROVE LocalInv'
    BY <2>12 DEF ReturnFromReport
  <2>13. ASSUME NEW g \in Goroutines, FinishOrphan(g) PROVE LocalInv'
    BY <2>13 DEF FinishOrphan
  <2>14. ASSUME NEW g \in Goroutines, LoadAndDelete(g) PROVE LocalInv'
    BY <2>14 DEF LoadAndDelete
  <2>15. ASSUME NEW g \in Goroutines, FinishSpan(g) PROVE LocalInv'
    BY <2>15 DEF FinishSpan
  <2>16. CASE UNCHANGED storeVars
    BY <2>16 DEF storeVars
  <2>17. QED
    BY <2>1, <2>2, <2>3, <2>4, <2>5, <2>6, <2>7, <2>8, <2>9, <2>10, <2>11, <2>12,
       <2>13, <2>14, <2>15, <2>16 DEF StoreNext
<1>3. QED
  BY <1>1, <1>2, PTL DEF StoreSpec

(* Every variable has its type, whatever the steps of the goroutines, of   *)
(* the host program and of the garbage collector (annotation.go).          *)
THEOREM StoreTypeCorrect == StoreSpec => []TypeOK
  BY LocalInvariant, PTL DEF LocalInv

(***************************************************************************)
(* The overshoot of the store                                              *)
(***************************************************************************)

(* The trim starts before the store is full, even where the product in its *)
(* definition overflows (annotation.go:28).                                *)
LEMMA ThresholdBelowLimit ==
  MaxConcurrentRequests # 0 => triggerTrimThreshold \in 1..MaxConcurrentRequests
  BY ConfigAssumption DEF triggerTrimThreshold, TripleMax

(* Each pending goroutine may still take a slot: counting those slots as   *)
(* taken makes the bound inductive.                                        *)
SlotsInv ==
  IF MaxConcurrentRequests = 0
    THEN Stored = {} /\ Pending = {}
    ELSE Cardinality(Stored) + Cardinality(Pending) <= Capacity

(* Both sets are finite, now and after any step.                           *)
LEMMA FiniteSlots ==
  /\ IsFiniteSet(Stored) /\ Cardinality(Stored) \in Nat
  /\ IsFiniteSet(Pending) /\ Cardinality(Pending) \in 0..Cardinality(Goroutines)
  /\ Cardinality(Goroutines) \in Nat \ {0}
<1>1. Stored \subseteq Spans /\ Pending \subseteq Goroutines
  BY DEF Stored, Pending
<1>2. Cardinality(Goroutines) \in Nat \ {0}
  BY GoroutinesAssumption, FS_CardinalityType, FS_EmptySet
<1>3. QED
  BY <1>1, <1>2, GoroutinesAssumption, SpansAssumption, FS_Subset, FS_CardinalityType

(* The same of the next state.                                             *)
LEMMA FiniteSlotsNext ==
  /\ IsFiniteSet(Stored') /\ Cardinality(Stored') \in Nat
  /\ IsFiniteSet(Pending') /\ Cardinality(Pending') \in 0..Cardinality(Goroutines)
<1>1. Stored' \subseteq Spans /\ Pending' \subseteq Goroutines
  BY DEF Stored, Pending
<1>2. QED
  BY <1>1, GoroutinesAssumption, SpansAssumption, FS_Subset, FS_CardinalityType

(* A step that stores nothing and tells nobody that there is space keeps   *)
(* the bound.                                                              *)
LEMMA NoNewSlots ==
  ASSUME SlotsInv, Stored' \subseteq Stored, Pending' \subseteq Pending
  PROVE  SlotsInv'
<1>1. Cardinality(Stored') <= Cardinality(Stored) /\ Cardinality(Pending') <= Cardinality(Pending)
  BY FiniteSlots, FS_Subset
<1>2. Capacity \in Int
  BY FiniteSlots, ConfigAssumption DEF Capacity
<1>3. QED
  BY <1>1, <1>2, FiniteSlots, FiniteSlotsNext DEF SlotsInv, Capacity

(* A goroutine that is told there is space saw a store that was not full.  *)
LEMMA ToldThereIsSpace ==
  ASSUME Stored' = Stored,
         MaxConcurrentRequests # 0,
         Cardinality(Stored) < MaxConcurrentRequests
  PROVE  SlotsInv'
<1>1. Cardinality(Stored') <= MaxConcurrentRequests - 1
  BY FiniteSlots, ConfigAssumption
<1>2. Cardinality(Pending') <= Cardinality(Goroutines)
  BY FiniteSlotsNext
<1>3. QED
  BY <1>1, <1>2, FiniteSlots, FiniteSlotsNext, ConfigAssumption DEF SlotsInv, Capacity

(* The inductive form of the bound holds in every reachable state.         *)
LEMMA SlotsInvariant == StoreSpec => []SlotsInv
<1>1. StoreInit => SlotsInv
  <2> SUFFICES ASSUME StoreInit
               PROVE  SlotsInv
    OBVIOUS
  <2>1. Stored = {} /\ Pending = {}
    BY DEF StoreInit, Stored, Pending
  <2>2. QED
    BY <2>1, FS_EmptySet, FiniteSlots, ConfigAssumption DEF SlotsInv, Capacity
<1>2. LocalInv /\ SlotsInv /\ [StoreNext]_storeVars => SlotsInv'
  <2> SUFFICES ASSUME LocalInv, SlotsInv, [StoreNext]_storeVars
               PROVE  SlotsInv'
    OBVIOUS
  <2>0. TypeOK
    BY DEF LocalInv
  <2>1. ASSUME NEW s \in Spans, StartSpan(s) PROVE SlotsInv'
    BY <2>1, <2>0, NoNewSlots DEF StartSpan, TypeOK, Stored, Pending
  <2>2. ASSUME NEW s \in Spans, Collect(s) PROVE SlotsInv'
    BY <2>2, <2>0, NoNewSlots DEF Collect, TypeOK, Stored, Pending
  <2>3. ASSUME NEW g \in Goroutines, NEW s \in Spans, ReportOnSpan(g, s) PROVE SlotsInv'
    BY <2>3, <2>0, NoNewSlots DEF ReportOnSpan, GoTo, TypeOK, Stored, Pending
  <2>4. ASSUME NEW g \in Goroutines, NEW s \in Spans, ReportOnOrphan(g, s) PROVE SlotsInv'
    BY <2>4, <2>0, NoNewSlots DEF ReportOnOrphan, GoTo, TypeOK, Stored, Pending
  <2>5. ASSUME NEW g \in Goroutines, NEW s \in Spans, CallFinish(g, s) PROVE SlotsInv'
    BY <2>5, <2>0, NoNewSlots DEF CallFinish, GoTo, TypeOK, Stored, Pending
  <2>6. ASSUME NEW g \in Goroutines, CheckUtilization(g) PROVE SlotsInv'
    <3>1. Stored' = Stored
      BY <2>6 DEF CheckUtilization, Stored
    <3>2. CASE MaxConcurrentRequests # 0 /\ ~ReachedTrimThreshold
      <4>1. Cardinality(Stored) < MaxConcurrentRequests
        BY <3>2, ThresholdBelowLimit, FiniteSlots, ConfigAssumption DEF ReachedTrimThreshold
      <4>2. QED
        BY <3>1, <3>2, <4>1, ToldThereIsSpace
    <3>3. CASE MaxConcurrentRequests = 0 \/ ReachedTrimThreshold
      <4>1. Pending' \subseteq Pending
        BY <2>6, <3>3, <2>0 DEF CheckUtilization, ReachedTrimThreshold, GoTo, TypeOK, Pending
      <4>2. QED
        BY <3>1, <4>1, NoNewSlots
    <3>4. QED
      BY <3>2, <3>3
  <2>7. ASSUME NEW g \in Goroutines, DeleteDeadKeys(g) PROVE SlotsInv'
    BY <2>7, <2>0, NoNewSlots DEF DeleteDeadKeys, GoTo, TypeOK, Stored, Pending, Dead
  <2>8. ASSUME NEW g \in Goroutines, CheckCapacity(g) PROVE SlotsInv'
    <3>1. Stored' = Stored
      BY <2>8 DEF CheckCapacity, Stored
    <3>2. CASE MaxConcurrentRequests # 0 /\ Cardinality(Stored) < MaxConcurrentRequests
      BY <3>1, <3>2, ToldThereIsSpace
    <3>3. CASE ~(MaxConcurrentRequests # 0 /\ Cardinality(Stored) < MaxConcurrentRequests)
      <4>1. ~(Cardinality(Stored) < MaxConcurrentRequests)
        BY <3>3, FiniteSlots, ConfigAssumption
      <4>2. /\ ~hasSpace'[g]
            /\ \A h \in Goroutines \ {g} : hasSpace'[h] = hasSpace[h]
        BY <2>8, <4>1, <2>0 DEF CheckCapacity, TypeOK
      <4>3. Pending' \subseteq Pending
        BY <2>8, <4>2, <2>0 DEF CheckCapacity, GoTo, TypeOK, Pending
      <4>4. QED
        BY <3>1, <4>3, NoNewSlots
    <3>4. QED
      BY <3>2, <3>3
  <2>9. ASSUME NEW g \in Goroutines, LoadStored(g) PROVE SlotsInv'
    BY <2>9, <2>0, NoNewSlots DEF LoadStored, GoTo, TypeOK, Stored, Pending
  <2>10. ASSUME NEW g \in Goroutines, CancelCompute(g) PROVE SlotsInv'
    BY <2>10, <2>0, NoNewSlots DEF CancelCompute, GoTo, TypeOK, Stored, Pending
  <2>11. ASSUME NEW g \in Goroutines, NEW a \in Annotations, ComputeAnnotation(g, a) PROVE SlotsInv'
    <3>1. g \in Pending /\ Pending' = Pending \ {g}
      BY <2>11, <2>0 DEF ComputeAnnotation, GoTo, TypeOK, Pending
    <3>2. root[g] \in Spans /\ root[g] \notin Stored
      BY <2>11 DEF ComputeAnnotation, GoTo, LocalInv, LocalsAlive, InAnnotationFor, Stored
    <3>3. Stored' = Stored \union {root[g]}
      BY <2>11, <3>2, <2>0, AnnotationsAssumption DEF ComputeAnnotation, TypeOK, Stored
    <3>4. Cardinality(Pending') = Cardinality(Pending) - 1
      BY <3>1, FiniteSlots, FS_RemoveElement
    <3>5. Cardinality(Stored') = Cardinality(Stored) + 1
      BY <3>2, <3>3, FiniteSlots, FS_AddElement
    <3>6. QED
      BY <3>1, <3>4, <3>5, FiniteSlots, ConfigAssumption DEF SlotsInv, Capacity
  <2>12. ASSUME NEW g \in Goroutines, ReturnFromReport(g) PROVE SlotsInv'
    BY <2>12, <2>0, NoNewSlots DEF ReturnFromReport, GoTo, Leave, TypeOK, Stored, Pending
  <2>13. ASSUME NEW g \in Goroutines, FinishOrphan(g) PROVE SlotsInv'
    BY <2>13, <2>0, NoNewSlots DEF FinishOrphan, GoTo, TypeOK, Stored, Pending
  <2>14. ASSUME NEW g \in Goroutines, LoadAndDelete(g) PROVE SlotsInv'
    BY <2>14, <2>0, NoNewSlots DEF LoadAndDelete, GoTo, TypeOK, Stored, Pending
  <2>15. ASSUME NEW g \in Goroutines, FinishSpan(g) PROVE SlotsInv'
    BY <2>15, <2>0, NoNewSlots DEF FinishSpan, GoTo, Leave, TypeOK, Stored, Pending
  <2>16. CASE UNCHANGED storeVars
    BY <2>16, NoNewSlots DEF storeVars, Stored, Pending
  <2>17. QED
    BY <2>1, <2>2, <2>3, <2>4, <2>5, <2>6, <2>7, <2>8, <2>9, <2>10, <2>11, <2>12,
       <2>13, <2>14, <2>15, <2>16 DEF StoreNext
<1>3. QED
  BY <1>1, <1>2, LocalInvariant, PTL DEF StoreSpec

(* The number of spans with an annotation exceeds the configured limit by  *)
(* at most the number of other goroutines, for any limit, even one whose   *)
(* threshold overflows, and any number of goroutines (annotation.go:56-78).*)
THEOREM StoreCapacity == StoreSpec => []CapacityBound
<1>1. SlotsInv => CapacityBound
  BY FiniteSlots, ConfigAssumption, FS_EmptySet DEF SlotsInv, CapacityBound, Capacity
<1>2. QED
  BY <1>1, SlotsInvariant, PTL

(***************************************************************************)
(* One annotation per request                                              *)
(***************************************************************************)

(* What AnnotationShared says of goroutine g.                              *)
SharedBy(g) ==
  pc[g] = "annotated" /\ ann[g] # NoAnn =>
    \/ store[root[g]] = ann[g]
    \/ spanState[root[g]] = "finished"
    \/ \E h \in Goroutines : pc[h] = "finishing" /\ span[h] = root[g]

(* An annotation a goroutine got from the store stays there, for the other *)
(* goroutines of the request to find, until the root is finished: no trim  *)
(* and no other AnnotationFor replaces it (annotation.go:59-78, 99-110).   *)
THEOREM StoreShares == StoreSpec => []AnnotationShared
<1>1. StoreInit => AnnotationShared
  BY DEF StoreInit, AnnotationShared
<1>2. LocalInv /\ AnnotationShared /\ [StoreNext]_storeVars => AnnotationShared'
  <2> SUFFICES ASSUME LocalInv, AnnotationShared, [StoreNext]_storeVars,
                      NEW g \in Goroutines, (pc[g] = "annotated" /\ ann[g] # NoAnn)'
               PROVE  SharedBy(g)'
    BY DEF AnnotationShared, SharedBy
  <2> USE DEF SharedBy
  <2>0. LocalInv /\ AnnotationShared /\ pc'[g] = "annotated" /\ ann'[g] # NoAnn
    OBVIOUS
  <2>1. ASSUME NEW s \in Spans, StartSpan(s) PROVE SharedBy(g)'
    BY <2>1, <2>0 DEF StartSpan, GoTo, LocalInv, TypeOK, AnnotationShared,
       LocalsAlive, NothingHeldYet, InAnnotationFor, Dead
  <2>2. ASSUME NEW s \in Spans, Collect(s) PROVE SharedBy(g)'
    BY <2>2, <2>0 DEF Collect, GoTo, LocalInv, TypeOK, AnnotationShared,
       LocalsAlive, NothingHeldYet, InAnnotationFor, Dead, InUse
  <2>3. ASSUME NEW h \in Goroutines, NEW s \in Spans, ReportOnSpan(h, s) PROVE SharedBy(g)'
    BY <2>3, <2>0 DEF ReportOnSpan, GoTo, LocalInv, TypeOK, AnnotationShared,
       LocalsAlive, NothingHeldYet, InAnnotationFor, Dead
  <2>4. ASSUME NEW h \in Goroutines, NEW s \in Spans, ReportOnOrphan(h, s) PROVE SharedBy(g)'
    BY <2>4, <2>0 DEF ReportOnOrphan, GoTo, LocalInv, TypeOK, AnnotationShared,
       LocalsAlive, NothingHeldYet, InAnnotationFor, Dead
  <2>5. ASSUME NEW h \in Goroutines, NEW s \in Spans, CallFinish(h, s) PROVE SharedBy(g)'
    BY <2>5, <2>0 DEF CallFinish, GoTo, LocalInv, TypeOK, AnnotationShared,
       LocalsAlive, NothingHeldYet, InAnnotationFor, Dead
  <2>6. ASSUME NEW h \in Goroutines, CheckUtilization(h) PROVE SharedBy(g)'
    BY <2>6, <2>0 DEF CheckUtilization, GoTo, LocalInv, TypeOK, AnnotationShared,
       LocalsAlive, NothingHeldYet, InAnnotationFor, Dead
  <2>7. ASSUME NEW h \in Goroutines, DeleteDeadKeys(h) PROVE SharedBy(g)'
    BY <2>7, <2>0 DEF DeleteDeadKeys, GoTo, LocalInv, TypeOK, AnnotationShared,
       LocalsAlive, NothingHeldYet, InAnnotationFor, Dead
  <2>8. ASSUME NEW h \in Goroutines, CheckCapacity(h) PROVE SharedBy(g)'
    BY <2>8, <2>0 DEF CheckCapacity, GoTo, LocalInv, TypeOK, AnnotationShared,
       LocalsAlive, NothingHeldYet, InAnnotationFor, Dead
  <2>9. ASSUME NEW h \in Goroutines, LoadStored(h) PROVE SharedBy(g)'
    BY <2>9, <2>0 DEF LoadStored, GoTo, LocalInv, TypeOK, AnnotationShared,
       LocalsAlive, NothingHeldYet, InAnnotationFor, Dead
  <2>10. ASSUME NEW h \in Goroutines, CancelCompute(h) PROVE SharedBy(g)'
    BY <2>10, <2>0 DEF CancelCompute, GoTo, LocalInv, TypeOK, AnnotationShared,
       LocalsAlive, NothingHeldYet, InAnnotationFor, Dead
  <2>11. ASSUME NEW h \in Goroutines, NEW a \in Annotations, ComputeAnnotation(h, a) PROVE SharedBy(g)'
    <3>1. root[h] \in Spans
      BY <2>11, <2>0 DEF ComputeAnnotation, GoTo, LocalInv, LocalsAlive, InAnnotationFor
    <3>2. CASE g = h
      BY <2>11, <3>1, <3>2, <2>0 DEF ComputeAnnotation, GoTo, LocalInv, TypeOK
    <3>3. CASE g # h
      <4>1. pc[g] = "annotated" /\ ann[g] # NoAnn /\ ann'[g] = ann[g]
        BY <2>11, <3>3, <2>0 DEF ComputeAnnotation, GoTo, LocalInv, TypeOK
      <4>2. CASE store[root[g]] = ann[g]
        BY <2>11, <3>1, <4>1, <4>2, <2>0 DEF ComputeAnnotation, GoTo, LocalInv, TypeOK
      <4>3. CASE spanState[root[g]] = "finished"
        BY <2>11, <4>3 DEF ComputeAnnotation
      <4>4. CASE \E f \in Goroutines : pc[f] = "finishing" /\ span[f] = root[g]
        BY <2>11, <4>4, <2>0 DEF ComputeAnnotation, GoTo, LocalInv, TypeOK
      <4>5. QED
        BY <4>1, <4>2, <4>3, <4>4 DEF AnnotationShared
    <3>4. QED
      BY <3>2, <3>3
  <2>12. ASSUME NEW h \in Goroutines, ReturnFromReport(h) PROVE SharedBy(g)'
    BY <2>12, <2>0 DEF ReturnFromReport, GoTo, Leave, LocalInv, TypeOK, AnnotationShared,
       LocalsAlive, NothingHeldYet, InAnnotationFor, Dead
  <2>13. ASSUME NEW h \in Goroutines, FinishOrphan(h) PROVE SharedBy(g)'
    BY <2>13, <2>0 DEF FinishOrphan, GoTo, LocalInv, TypeOK, AnnotationShared,
       LocalsAlive, NothingHeldYet, InAnnotationFor, Dead
  <2>14. ASSUME NEW h \in Goroutines, LoadAndDelete(h) PROVE SharedBy(g)'
    BY <2>14, <2>0 DEF LoadAndDelete, GoTo, LocalInv, TypeOK, AnnotationShared,
       LocalsAlive, NothingHeldYet, InAnnotationFor, Dead
  <2>15. ASSUME NEW h \in Goroutines, FinishSpan(h) PROVE SharedBy(g)'
    BY <2>15, <2>0 DEF FinishSpan, GoTo, Leave, LocalInv, TypeOK, AnnotationShared,
       LocalsAlive, NothingHeldYet, InAnnotationFor, Dead
  <2>16. CASE UNCHANGED storeVars
    BY <2>16, <2>0 DEF storeVars, AnnotationShared
  <2>17. QED
    BY <2>1, <2>2, <2>3, <2>4, <2>5, <2>6, <2>7, <2>8, <2>9, <2>10, <2>11, <2>12,
       <2>13, <2>14, <2>15, <2>16 DEF StoreNext
<1>3. QED
  BY <1>1, <1>2, LocalInvariant, PTL DEF StoreSpec

(***************************************************************************)
(* The promise of the package                                              *)
(***************************************************************************)

(* Whatever the package does, its callers see the bounded registry of      *)
(* AnnotationRegistry: each step of the store is one of its operations, or *)
(* is invisible to them (annotation.go, orchestrion.go:23).                *)
THEOREM StoreImplementsRegistry == StoreSpec => ImplementsRegistry
<1>1. StoreInit => Registry!RegistryInit
  BY DEF StoreInit, Dead, Registry!RegistryInit
<1>2. LocalInv /\ SlotsInv /\ [StoreNext]_storeVars
        => [Registry!RegistryNext]_(Registry!registryVars)
  <2> SUFFICES ASSUME LocalInv, SlotsInv, [StoreNext]_storeVars
               PROVE  [Registry!RegistryNext]_(Registry!registryVars)
    OBVIOUS
  <2>0. TypeOK /\ LocalsAlive /\ SlotsInv
    BY DEF LocalInv
  <2>1. ASSUME NEW s \in Spans, StartSpan(s) PROVE [Registry!RegistryNext]_(Registry!registryVars)
    <3>1. Registry!Start(s)
      BY <2>1, <2>0 DEF StartSpan, TypeOK, Dead, Stored, Registry!Start
    <3>2. QED
      BY <3>1 DEF Registry!RegistryNext
  <2>2. ASSUME NEW s \in Spans, Collect(s) PROVE [Registry!RegistryNext]_(Registry!registryVars)
    <3>1. Registry!Die(s)
      BY <2>2, <2>0 DEF Collect, TypeOK, Dead, Stored, Registry!Die
    <3>2. QED
      BY <3>1 DEF Registry!RegistryNext
  <2>3. ASSUME NEW g \in Goroutines, NEW s \in Spans, ReportOnSpan(g, s) PROVE [Registry!RegistryNext]_(Registry!registryVars)
    BY <2>3, <2>0 DEF ReportOnSpan, Dead, Registry!registryVars
  <2>4. ASSUME NEW g \in Goroutines, NEW s \in Spans, ReportOnOrphan(g, s) PROVE [Registry!RegistryNext]_(Registry!registryVars)
    <3>1. Registry!Start(s)
      BY <2>4, <2>0 DEF ReportOnOrphan, TypeOK, Dead, Stored, Registry!Start
    <3>2. QED
      BY <3>1 DEF Registry!RegistryNext
  <2>5. ASSUME NEW g \in Goroutines, NEW s \in Spans, CallFinish(g, s) PROVE [Registry!RegistryNext]_(Registry!registryVars)
    BY <2>5, <2>0 DEF CallFinish, Dead, Registry!registryVars
  <2>6. ASSUME NEW g \in Goroutines, CheckUtilization(g) PROVE [Registry!RegistryNext]_(Registry!registryVars)
    BY <2>6, <2>0 DEF CheckUtilization, Dead, Registry!registryVars
  <2>7. ASSUME NEW g \in Goroutines, DeleteDeadKeys(g) PROVE [Registry!RegistryNext]_(Registry!registryVars)
    <3>1. Registry!Sweep
      BY <2>7, <2>0 DEF DeleteDeadKeys, TypeOK, Dead, Registry!Sweep
    <3>2. QED
      BY <3>1 DEF Registry!RegistryNext
  <2>8. ASSUME NEW g \in Goroutines, CheckCapacity(g) PROVE [Registry!RegistryNext]_(Registry!registryVars)
    BY <2>8, <2>0 DEF CheckCapacity, Dead, Registry!registryVars
  <2>9. ASSUME NEW g \in Goroutines, LoadStored(g) PROVE [Registry!RegistryNext]_(Registry!registryVars)
    BY <2>9, <2>0 DEF LoadStored, Dead, Registry!registryVars
  <2>10. ASSUME NEW g \in Goroutines, CancelCompute(g) PROVE [Registry!RegistryNext]_(Registry!registryVars)
    BY <2>10, <2>0 DEF CancelCompute, Dead, Registry!registryVars
  <2>11. ASSUME NEW g \in Goroutines, NEW a \in Annotations, ComputeAnnotation(g, a) PROVE [Registry!RegistryNext]_(Registry!registryVars)
    <3>1. root[g] \in Spans \ Dead
      BY <2>11, <2>0 DEF ComputeAnnotation, GoTo, LocalsAlive, InAnnotationFor
    <3>2. g \in Pending
      BY <2>11, <2>0 DEF ComputeAnnotation, GoTo, Pending
    <3>3. Cardinality(Pending) # 0
      BY <3>2, FiniteSlots, FS_EmptySet
    <3>4. Cardinality(Stored) < Capacity
      BY <3>2, <3>3, FiniteSlots, ConfigAssumption DEF SlotsInv, Capacity
    <3>5. Registry!Cardinality(Registry!Registered) < Capacity
      <4>1. Registry!Cardinality(Stored) = Cardinality(Stored)
        BY DEF Registry!Cardinality, Cardinality
      <4>2. QED
        BY <3>4, <4>1 DEF Stored, Registry!Registered
    <3>6. Registry!Register(root[g], a)
      BY <2>11, <2>0, <3>1, <3>5 DEF ComputeAnnotation, Unused, Dead, Registry!Register
    <3>7. QED
      BY <3>1, <3>6 DEF Registry!RegistryNext
  <2>12. ASSUME NEW g \in Goroutines, ReturnFromReport(g) PROVE [Registry!RegistryNext]_(Registry!registryVars)
    BY <2>12, <2>0 DEF ReturnFromReport, Dead, Registry!registryVars
  <2>13. ASSUME NEW g \in Goroutines, FinishOrphan(g) PROVE [Registry!RegistryNext]_(Registry!registryVars)
    BY <2>13, <2>0 DEF FinishOrphan, Dead, Registry!registryVars
  <2>14. ASSUME NEW g \in Goroutines, LoadAndDelete(g) PROVE [Registry!RegistryNext]_(Registry!registryVars)
    <3>1. span[g] \in Spans \ Dead
      BY <2>14, <2>0 DEF LoadAndDelete, GoTo, LocalsAlive
    <3>2. Registry!Finish(span[g])
      BY <2>14, <2>0, <3>1 DEF LoadAndDelete, Dead, Registry!Finish
    <3>3. QED
      BY <3>1, <3>2 DEF Registry!RegistryNext
  <2>15. ASSUME NEW g \in Goroutines, FinishSpan(g) PROVE [Registry!RegistryNext]_(Registry!registryVars)
    <3>1. span[g] \in Spans \ Dead
      BY <2>15, <2>0 DEF FinishSpan, Leave, GoTo, LocalsAlive
    <3>2. QED
      BY <2>15, <2>0, <3>1 DEF FinishSpan, TypeOK, Dead, Registry!registryVars
  <2>16. CASE UNCHANGED storeVars
    BY <2>16 DEF storeVars, Dead, Registry!registryVars
  <2>17. QED
    BY <2>1, <2>2, <2>3, <2>4, <2>5, <2>6, <2>7, <2>8, <2>9, <2>10, <2>11, <2>12,
       <2>13, <2>14, <2>15, <2>16 DEF StoreNext
<1>3. QED
  BY <1>1, <1>2, LocalInvariant, SlotsInvariant, PTL
     DEF StoreSpec, ImplementsRegistry, Registry!RegistrySpec
=============================================================================
