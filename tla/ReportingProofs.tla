--------------------------- MODULE ReportingProofs ---------------------------
(***************************************************************************)
(* Theorems about Reporting, for any goroutines, spans, annotations,       *)
(* vulnerabilities and configuration.                                      *)
(***************************************************************************)
EXTENDS Reporting, AnnotationStoreProofs, SequenceTheorems

(***************************************************************************)
(* Reporting uses the store as AnnotationStore describes it                *)
(***************************************************************************)

(* A step of a report is a step of the store, or does not touch it.        *)
LEMMA NextIsStoreNext == [Next]_vars => [StoreNext]_storeVars
<1> SUFFICES ASSUME [Next]_vars
             PROVE  [StoreNext]_storeVars
  OBVIOUS
<1>1. ASSUME NEW g \in Goroutines, StoreStep(g) PROVE [StoreNext]_storeVars
  BY <1>1 DEF StoreStep, StoreNext
<1>2. ASSUME NEW g \in Goroutines, ReportStep(g) PROVE [StoreNext]_storeVars
  BY <1>2 DEF ReportStep, StoreNext, Report_NotSampled, Report_Lock, AddVulnerability_Check,
     AddVulnerability_Append, Report_RecordStack, Report_SetStackID, Report_Unlock
<1>3. ASSUME NEW g \in Goroutines, FinishedStep(g) PROVE [StoreNext]_storeVars
  BY <1>3 DEF FinishedStep, StoreNext, Finished_LoadAndDelete, Finished_RLock,
     Finished_Attach, FinishSpanStep
<1>4. ASSUME NEW g \in Goroutines, NEW a \in Annotations, NewAnnotation(g, a)
      PROVE  [StoreNext]_storeVars
  BY <1>4 DEF NewAnnotation, StoreNext
<1>5. ASSUME NEW s \in Spans, HostStartsSpan(s) \/ CollectSpan(s) \/ Serialize(s)
      PROVE  [StoreNext]_storeVars
  BY <1>5 DEF HostStartsSpan, CollectSpan, Serialize, StoreNext
<1>6. CASE UNCHANGED vars
  BY <1>6 DEF vars, storeVars
<1>7. QED
  BY <1>1, <1>2, <1>3, <1>4, <1>5, <1>6 DEF Next

(* Reporting is a use of the store: whatever is proved of AnnotationStore  *)
(* holds of the whole.                                                     *)
THEOREM ReportingUsesStore == Spec => StoreSpec
<1>1. Init => StoreInit
  BY DEF Init
<1>2. QED
  BY <1>1, NextIsStoreNext, PTL DEF Spec, StoreSpec

(***************************************************************************)
(* Types                                                                   *)
(***************************************************************************)

(* Marking the last vulnerability of an event leaves an event, of the same *)
(* length and the same hashes.                                             *)
LEMMA MarkLastIsEvent ==
  ASSUME NEW event \in Seq(Vulnerability), event # <<>>,
         NEW isRecorded \in BOOLEAN, NEW hasStackID \in BOOLEAN
  PROVE  /\ MarkLast(event, isRecorded, hasStackID) \in Seq(Vulnerability)
         /\ Len(MarkLast(event, isRecorded, hasStackID)) = Len(event)
         /\ \A i \in 1..Len(event) :
              /\ MarkLast(event, isRecorded, hasStackID)[i].hash = event[i].hash
              /\ i # Len(event) => MarkLast(event, isRecorded, hasStackID)[i] = event[i]
         /\ MarkLast(event, isRecorded, hasStackID)[Len(event)].recorded = isRecorded
         /\ MarkLast(event, isRecorded, hasStackID)[Len(event)].stackID = hasStackID
<1>1. Len(event) \in 1..Len(event)
  BY EmptySeq, LenProperties
<1>2. \A i \in 1..Len(event) : event[i] \in Vulnerability
  BY ElementOfSeq
<1>3. QED
  BY <1>1, <1>2 DEF MarkLast, Vulnerability

(***************************************************************************)
(* Who holds which lock                                                    *)
(***************************************************************************)

(* A step of the store by g moves no other goroutine, and g is not one     *)
(* that holds a lock.                                                      *)
LEMMA StoreStepMovesOne ==
  ASSUME TypeOK, NEW g \in Goroutines, StoreStep(g)
  PROVE  /\ pc[g] \notin {"annotated", "finishing"}
         /\ \A h \in Goroutines \ {g} : pc'[h] = pc[h] /\ ann'[h] = ann[h]
         /\ UNCHANGED reportVars
  BY DEF TypeOK, StoreStep, ReportOnSpan, ReportOnOrphan, CallFinish, CheckUtilization,
     DeleteDeadKeys, CheckCapacity, LoadStored, CancelCompute, GoTo

(* Returning from Report moves no other goroutine either.                  *)
LEMMA ReturnMovesOne ==
  ASSUME TypeOK, NEW g \in Goroutines, ReturnFromReport(g) \/ FinishOrphan(g)
  PROVE  /\ pc[g] = "annotated"
         /\ \A h \in Goroutines \ {g} : pc'[h] = pc[h] /\ ann'[h] = ann[h]
         /\ UNCHANGED <<store, sampled>>
  BY DEF TypeOK, ReturnFromReport, FinishOrphan, Leave, GoTo

(* The types of the control state.                                         *)
ControlTypeOK ==
  /\ phase      \in [Goroutines -> {"none", "check", "append", "record", "stackID",
                                    "unlock", "rlock", "attach"}]
  /\ finding    \in [Goroutines -> Hashes]
  /\ writer     \in [Annotations -> Goroutines \union {NoOne}]
  /\ readers    \in [Annotations -> SUBSET Goroutines]
  /\ metaStruct \in [Spans -> Annotations \union {NoAnn}]

WritePhases == {"check", "append", "record", "stackID", "unlock"}

(* In the phases of Report after Lock the goroutine is the writer of its   *)
(* annotation; in those of Finished it has one, and reads it under the     *)
(* read lock; readers keep writers out.                                    *)
LocksHeld ==
  \A g \in Goroutines :
    /\ phase[g] \in WritePhases =>
         pc[g] = "annotated" /\ ann[g] \in Annotations /\ writer[ann[g]] = g
    /\ phase[g] \in {"rlock", "attach"} =>
         pc[g] = "finishing" /\ ann[g] \in Annotations
    /\ phase[g] = "attach" => g \in readers[ann[g]]

ReadersExcludeWriter ==
  \A a \in Annotations : readers[a] # {} => writer[a] = NoOne

LockInv == ControlTypeOK /\ LocksHeld /\ ReadersExcludeWriter

(* The locks are held as the phases say, in every reachable state.         *)
LEMMA LockInvariant == Spec => []LockInv
<1>1. Init => LockInv
  BY DEF Init, LockInv, ControlTypeOK, LocksHeld, ReadersExcludeWriter, WritePhases
<1>2. LocalInv /\ LockInv /\ [Next]_vars => LockInv'
  <2> SUFFICES ASSUME LocalInv, LockInv, [Next]_vars
               PROVE  LockInv'
    OBVIOUS
  <2>0. TypeOK
    BY DEF LocalInv
  <2> USE <2>0 DEF LockInv, ControlTypeOK, LocksHeld, ReadersExcludeWriter, WritePhases
  <2>1. ASSUME NEW g \in Goroutines, StoreStep(g) PROVE LockInv'
    BY <2>1, StoreStepMovesOne DEF reportVars
  <2>2. ASSUME NEW g \in Goroutines, Report_NotSampled(g) PROVE LockInv'
    BY <2>2, ReturnMovesOne DEF Report_NotSampled, reportVars
  <2>3. ASSUME NEW g \in Goroutines, NEW hash \in Hashes, Report_Lock(g, hash) PROVE LockInv'
    BY <2>3, ReportingAssumption DEF Report_Lock, IsSampled, Step, storeVars, TypeOK
  <2>4. ASSUME NEW g \in Goroutines, AddVulnerability_Check(g) PROVE LockInv'
    BY <2>4 DEF AddVulnerability_Check, Step, storeVars
  <2>5. ASSUME NEW g \in Goroutines, AddVulnerability_Append(g) PROVE LockInv'
    BY <2>5 DEF AddVulnerability_Append, Step, storeVars
  <2>6. ASSUME NEW g \in Goroutines, Report_RecordStack(g) PROVE LockInv'
    BY <2>6 DEF Report_RecordStack, Step, storeVars
  <2>7. ASSUME NEW g \in Goroutines, Report_SetStackID(g) PROVE LockInv'
    BY <2>7 DEF Report_SetStackID, Step, storeVars
  <2>8. ASSUME NEW g \in Goroutines, Report_Unlock(g) PROVE LockInv'
    BY <2>8, ReturnMovesOne DEF Report_Unlock, Step
  <2>9. ASSUME NEW g \in Goroutines, Finished_LoadAndDelete(g) PROVE LockInv'
    BY <2>9 DEF Finished_LoadAndDelete, LoadAndDelete, GoTo, Step, LocalInv, LocalsAlive, TypeOK
  <2>10. ASSUME NEW g \in Goroutines, Finished_RLock(g) PROVE LockInv'
    BY <2>10 DEF Finished_RLock, Step, storeVars
  <2>11. ASSUME NEW g \in Goroutines, Finished_Attach(g) PROVE LockInv'
    BY <2>11 DEF Finished_Attach, AttachEvent, Step, storeVars
  <2>12. ASSUME NEW g \in Goroutines, FinishSpanStep(g) PROVE LockInv'
    BY <2>12 DEF FinishSpanStep, FinishSpan, Leave, GoTo, reportVars, TypeOK
  <2>13. ASSUME NEW g \in Goroutines, NEW a \in Annotations, NewAnnotation(g, a) PROVE LockInv'
    BY <2>13 DEF NewAnnotation, ComputeAnnotation, GoTo, TypeOK
  <2>14. ASSUME NEW s \in Spans, HostStartsSpan(s) PROVE LockInv'
    BY <2>14 DEF HostStartsSpan, StartSpan, reportVars
  <2>15. ASSUME NEW s \in Spans, CollectSpan(s) PROVE LockInv'
    BY <2>15 DEF CollectSpan, Collect, reportVars
  <2>16. ASSUME NEW s \in Spans, Serialize(s) PROVE LockInv'
    BY <2>16 DEF Serialize, storeVars
  <2>17. CASE UNCHANGED vars
    BY <2>17 DEF vars
  <2>18. QED
    BY <2>1, <2>2, <2>3, <2>4, <2>5, <2>6, <2>7, <2>8, <2>9, <2>10, <2>11, <2>12,
       <2>13, <2>14, <2>15, <2>16, <2>17 DEF Next, ReportStep, FinishedStep
<1>3. QED
  BY <1>1, <1>2, ReportingUsesStore, LocalInvariant, PTL DEF Spec

(***************************************************************************)
(* What an event can hold                                                  *)
(***************************************************************************)

EventTypeOK ==
  /\ vulns \in [Annotations -> Seq(Vulnerability)]
  /\ json  \in [Spans -> Seq(Vulnerability)]

(* Between the check of AddVulnerability and its append, the event has     *)
(* room for the finding: nobody else can have changed it.                  *)
RoomToAppend ==
  \A g \in Goroutines :
    /\ phase[g] = "append" =>
         ~AtCapacity(vulns[ann[g]]) /\ ~IsDuplicate(vulns[ann[g]], finding[g])
    /\ phase[g] \in {"record", "stackID"} => vulns[ann[g]] # NoEvent

EventInv == EventTypeOK /\ EventWithinLimit /\ NoDuplicates /\ RoomToAppend

(* Two goroutines between Lock and Unlock hold different annotations.      *)
LEMMA OneWriter ==
  ASSUME LocksHeld,
         NEW g \in Goroutines, NEW h \in Goroutines,
         phase[g] \in WritePhases, phase[h] \in WritePhases, ann[g] = ann[h]
  PROVE  g = h
  BY DEF LocksHeld

(* A step that leaves the events alone, and lets nobody start appending,   *)
(* keeps what is said of them.                                             *)
LEMMA EventsUnchanged ==
  ASSUME EventInv, EventTypeOK', UNCHANGED vulns,
         \A g \in Goroutines :
           phase'[g] \in {"append", "record", "stackID"} =>
             phase'[g] = phase[g] /\ ann'[g] = ann[g] /\ finding'[g] = finding[g]
  PROVE  EventInv'
  BY DEF EventInv, EventWithinLimit, NoDuplicates, RoomToAppend, AtCapacity, IsDuplicate

(* Appending to an event.                                                  *)
LEMMA AppendToEvent ==
  ASSUME NEW event \in Seq(Vulnerability), NEW v \in Vulnerability
  PROVE  /\ Append(event, v) \in Seq(Vulnerability)
         /\ Len(event) \in Nat
         /\ Len(Append(event, v)) = Len(event) + 1
         /\ DOMAIN event = 1..Len(event)
         /\ DOMAIN Append(event, v) = 1..(Len(event) + 1)
         /\ \A i \in 1..Len(event) : Append(event, v)[i] = event[i]
         /\ Append(event, v)[Len(event) + 1] = v
         /\ Append(event, v) # <<>>
  BY AppendProperties, LenProperties

(* Marking the last vulnerability of an event one has locked disturbs      *)
(* neither its limits nor the other writers.                               *)
LEMMA EventMarked ==
  ASSUME EventInv, ControlTypeOK, LocksHeld, EventTypeOK',
         NEW g \in Goroutines, phase[g] \in {"record", "stackID"},
         NEW r \in BOOLEAN, NEW id \in BOOLEAN,
         vulns' = [vulns EXCEPT ![ann[g]] = MarkLast(vulns[ann[g]], r, id)],
         phase' = [phase EXCEPT ![g] = phase'[g]],
         phase'[g] \in {"stackID", "unlock"},
         UNCHANGED <<ann, finding>>
  PROVE  EventInv'
<1> DEFINE old == vulns[ann[g]]
           new == MarkLast(old, r, id)
<1>1. /\ ann[g] \in Annotations /\ old \in Seq(Vulnerability) /\ old # <<>>
  BY DEF LocksHeld, WritePhases, EventInv, EventTypeOK, RoomToAppend, NoEvent
<1> HIDE DEF old
<1>2. /\ new \in Seq(Vulnerability) /\ Len(new) = Len(old)
      /\ \A i \in 1..Len(old) : new[i].hash = old[i].hash
  <2> HIDE DEF new
  <2>1. MarkLast(old, r, id) \in Seq(Vulnerability)
    BY <1>1, MarkLastIsEvent, Zenon
  <2>2. Len(MarkLast(old, r, id)) = Len(old)
    BY <1>1 DEF MarkLast
  <2>3. \A i \in 1..Len(old) : MarkLast(old, r, id)[i].hash = old[i].hash
    <3>1. \A i \in 1..Len(old) : old[i] \in Vulnerability
      BY <1>1, ElementOfSeq
    <3>2. QED
      BY <1>1, <3>1, EmptySeq, LenProperties DEF MarkLast, Vulnerability
  <2>4. QED
    BY <2>1, <2>2, <2>3 DEF new
<1>3. DOMAIN new = DOMAIN old /\ DOMAIN old = 1..Len(old) /\ Len(old) \in Nat /\ new # <<>>
  BY <1>1, <1>2, LenProperties, EmptySeq
<1>4. vulns'[ann[g]] = new /\ \A a \in Annotations \ {ann[g]} : vulns'[a] = vulns[a]
  BY <1>1 DEF EventInv, EventTypeOK, old
<1> HIDE DEF new
<1>5. EventWithinLimit'
  BY <1>1, <1>2, <1>4 DEF EventInv, EventWithinLimit, old
<1>6. NoDuplicates'
  <2> SUFFICES ASSUME DeduplicationEnabled, NEW a \in Annotations,
                      NEW i \in DOMAIN vulns'[a], NEW j \in DOMAIN vulns'[a],
                      vulns'[a][i].hash = vulns'[a][j].hash
               PROVE  i = j
    BY DEF NoDuplicates
  <2>1. CASE a # ann[g]
    BY <1>4, <2>1 DEF EventInv, NoDuplicates
  <2>2. CASE a = ann[g]
    BY <1>1, <1>2, <1>3, <1>4, <2>2 DEF EventInv, NoDuplicates, old
  <2>3. QED
    BY <2>1, <2>2
<1>7. RoomToAppend'
  <2> SUFFICES ASSUME NEW h \in Goroutines
               PROVE  /\ phase'[h] = "append" =>
                           ~AtCapacity(vulns'[ann'[h]]) /\ ~IsDuplicate(vulns'[ann'[h]], finding'[h])
                      /\ phase'[h] \in {"record", "stackID"} => vulns'[ann'[h]] # NoEvent
    BY DEF RoomToAppend, AtCapacity, IsDuplicate
  <2>1. CASE h = g
    BY <1>3, <1>4, <2>1 DEF NoEvent
  <2>2. CASE h # g
    <3>1. phase'[h] = phase[h]
      BY <2>2 DEF ControlTypeOK
    <3>2. CASE phase[h] \in {"append", "record", "stackID"}
      <4>1. ann[h] # ann[g]
        BY <2>2, <3>2, OneWriter DEF WritePhases
      <4>2. vulns'[ann'[h]] = vulns[ann[h]]
        BY <1>4, <3>2, <4>1 DEF LocksHeld, WritePhases
      <4>3. QED
        BY <3>1, <4>2 DEF EventInv, RoomToAppend
    <3>3. QED
      BY <3>1, <3>2
  <2>3. QED
    BY <2>1, <2>2
<1>8. QED
  BY <1>5, <1>6, <1>7 DEF EventInv

(* The events keep their limits in every reachable state.                  *)
LEMMA EventInvariant == Spec => []EventInv
<1>1. Init => EventInv
  BY ReportingAssumption
     DEF Init, EventInv, EventTypeOK, EventWithinLimit, NoDuplicates, RoomToAppend, NoEvent
<1>2. LocalInv /\ LockInv /\ EventInv /\ [Next]_vars => EventInv'
  <2> SUFFICES ASSUME LocalInv, LockInv, EventInv, [Next]_vars
               PROVE  EventInv'
    OBVIOUS
  <2>0. TypeOK /\ ControlTypeOK /\ LocksHeld /\ EventTypeOK
    BY DEF LocalInv, LockInv, EventInv
  <2>1. ASSUME NEW g \in Goroutines, StoreStep(g) PROVE EventInv'
    <3>1. ASSUME NEW h \in Goroutines, phase[h] \in WritePhases
          PROVE  ann'[h] = ann[h]
      BY <2>1, <2>0, <3>1, StoreStepMovesOne DEF LocksHeld
    <3>2. UNCHANGED reportVars
      BY <2>1, <2>0, StoreStepMovesOne
    <3>3. QED
      BY <2>0, <3>1, <3>2, EventsUnchanged DEF reportVars, EventTypeOK, WritePhases
  <2>2. ASSUME NEW g \in Goroutines, Report_NotSampled(g) PROVE EventInv'
    <3>1. ASSUME NEW h \in Goroutines, phase'[h] \in {"append", "record", "stackID"}
          PROVE  phase'[h] = phase[h] /\ ann'[h] = ann[h]
      BY <2>2, <2>0, <3>1, ReturnMovesOne DEF Report_NotSampled, Step, ControlTypeOK, reportVars
    <3>2. QED
      BY <2>2, <2>0, <3>1, EventsUnchanged DEF Report_NotSampled, EventTypeOK, reportVars
  <2>3. ASSUME NEW g \in Goroutines, NEW hash \in Hashes, Report_Lock(g, hash) PROVE EventInv'
    BY <2>3, <2>0, EventsUnchanged DEF Report_Lock, IsSampled, Step, storeVars, EventTypeOK, ControlTypeOK
  <2>4. ASSUME NEW g \in Goroutines, AddVulnerability_Check(g) PROVE EventInv'
    <3>1. EventTypeOK'
      BY <2>4, <2>0 DEF AddVulnerability_Check, EventTypeOK
    <3>2. RoomToAppend'
      <4> SUFFICES ASSUME NEW h \in Goroutines
                   PROVE  /\ phase'[h] = "append" =>
                               ~AtCapacity(vulns'[ann'[h]]) /\ ~IsDuplicate(vulns'[ann'[h]], finding'[h])
                          /\ phase'[h] \in {"record", "stackID"} => vulns'[ann'[h]] # NoEvent
        BY DEF RoomToAppend, AtCapacity, IsDuplicate
      <4>1. UNCHANGED <<vulns, ann, finding>>
        BY <2>4 DEF AddVulnerability_Check, storeVars
      <4>2. CASE h = g
        BY <2>4, <2>0, <4>1, <4>2
           DEF AddVulnerability_Check, Step, ControlTypeOK
      <4>3. CASE h # g
        BY <2>4, <2>0, <4>1, <4>3
           DEF AddVulnerability_Check, Step, ControlTypeOK, EventInv, RoomToAppend
      <4>4. QED
        BY <4>2, <4>3
    <3>3. EventWithinLimit' /\ NoDuplicates'
      BY <2>4 DEF AddVulnerability_Check, EventInv, EventWithinLimit, NoDuplicates
    <3>4. QED
      BY <3>1, <3>2, <3>3 DEF EventInv
  <2>5. ASSUME NEW g \in Goroutines, AddVulnerability_Append(g) PROVE EventInv'
    <3> DEFINE v == [hash |-> finding[g], recorded |-> FALSE, stackID |-> FALSE]
               old == vulns[ann[g]]
    <3>1. /\ ann[g] \in Annotations /\ phase[g] \in WritePhases
          /\ old \in Seq(Vulnerability) /\ v \in Vulnerability
      BY <2>5, <2>0
         DEF AddVulnerability_Append, Step, LocksHeld, WritePhases, EventTypeOK, ControlTypeOK,
             Vulnerability
    <3>2. vulns' = [vulns EXCEPT ![ann[g]] = Append(old, v)]
      BY <2>5 DEF AddVulnerability_Append
    <3>3. /\ Len(old) < VulnerabilitiesPerRequest
          /\ DeduplicationEnabled => \A i \in DOMAIN old : old[i].hash # v.hash
      <4>1. ~AtCapacity(old) /\ ~IsDuplicate(old, finding[g])
        BY <2>5 DEF AddVulnerability_Append, Step, EventInv, RoomToAppend
      <4>2. Len(old) \in Nat
        BY <3>1, LenProperties
      <4>3. v.hash = finding[g]
        OBVIOUS
      <4> HIDE DEF v, old
      <4>4. QED
        BY <4>1, <4>2, <4>3, ReportingAssumption DEF AtCapacity, IsDuplicate
    <3> HIDE DEF v, old
    <3>4. EventTypeOK'
      BY <2>5, <2>0, <3>1, <3>2, AppendToEvent DEF AddVulnerability_Append, EventTypeOK
    <3>5. EventWithinLimit'
      BY <2>0, <3>1, <3>2, <3>3, AppendToEvent, ReportingAssumption
         DEF EventInv, EventTypeOK, EventWithinLimit
    <3>6. NoDuplicates'
      <4> SUFFICES ASSUME DeduplicationEnabled, NEW a \in Annotations,
                          NEW i \in DOMAIN vulns'[a], NEW j \in DOMAIN vulns'[a],
                          vulns'[a][i].hash = vulns'[a][j].hash
                   PROVE  i = j
        BY DEF NoDuplicates
      <4>1. CASE a # ann[g]
        BY <2>0, <3>1, <3>2, <4>1 DEF EventInv, EventTypeOK, NoDuplicates
      <4>2. CASE a = ann[g]
        <5>1. vulns'[a] = Append(old, v)
          BY <2>0, <3>1, <3>2, <4>2 DEF EventTypeOK
        <5>2. \A m, n \in DOMAIN old : old[m].hash = old[n].hash => m = n
          BY <3>1, <4>2 DEF EventInv, NoDuplicates, old
        <5>3. QED
          BY <3>1, <3>3, <5>1, <5>2, AppendToEvent
      <4>3. QED
        BY <4>1, <4>2
    <3>7. RoomToAppend'
      <4> SUFFICES ASSUME NEW h \in Goroutines
                   PROVE  /\ phase'[h] = "append" =>
                               ~AtCapacity(vulns'[ann'[h]]) /\ ~IsDuplicate(vulns'[ann'[h]], finding'[h])
                          /\ phase'[h] \in {"record", "stackID"} => vulns'[ann'[h]] # NoEvent
        BY DEF RoomToAppend, AtCapacity, IsDuplicate
      <4>1. UNCHANGED <<ann, finding>>
        BY <2>5 DEF AddVulnerability_Append, storeVars
      <4>2. CASE h = g
        BY <2>5, <2>0, <3>1, <3>2, <4>1, <4>2, AppendToEvent
           DEF AddVulnerability_Append, Step, ControlTypeOK, EventTypeOK, NoEvent
      <4>3. CASE h # g
        <5>1. phase'[h] = phase[h]
          BY <2>5, <2>0, <4>3 DEF AddVulnerability_Append, Step, ControlTypeOK
        <5>2. CASE phase[h] \in {"append", "record", "stackID"}
          <6>1. ann[h] # ann[g]
            BY <2>0, <3>1, <4>3, <5>2, OneWriter DEF WritePhases
          <6>2. vulns'[ann'[h]] = vulns[ann[h]]
            BY <2>0, <3>1, <3>2, <4>1, <6>1, <5>2 DEF EventTypeOK, LocksHeld, WritePhases
          <6>3. QED
            BY <4>1, <5>1, <6>2 DEF EventInv, RoomToAppend
        <5>3. QED
          BY <5>1, <5>2
      <4>4. QED
        BY <4>2, <4>3
    <3>8. QED
      BY <3>4, <3>5, <3>6, <3>7 DEF EventInv
  <2>6. ASSUME NEW g \in Goroutines, Report_RecordStack(g) PROVE EventInv'
    <3> DEFINE old == vulns[ann[g]]
    <3>1. /\ ann[g] \in Annotations /\ phase[g] \in {"record", "stackID"}
          /\ old \in Seq(Vulnerability) /\ old # <<>>
      BY <2>6, <2>0
         DEF Report_RecordStack, Step, LocksHeld, WritePhases, EventTypeOK, EventInv, RoomToAppend, NoEvent
    <3>2. PICK recorded \in RecordOutcomes :
            /\ Step(g, "record", IF recorded THEN "stackID" ELSE "unlock")
            /\ vulns' = [vulns EXCEPT ![ann[g]] = MarkLast(old, recorded, FALSE)]
      BY <2>6 DEF Report_RecordStack
    <3>3. PICK r \in BOOLEAN, id \in BOOLEAN :
            vulns' = [vulns EXCEPT ![ann[g]] = MarkLast(old, r, id)]
      BY <3>2, ReportingAssumption
    <3>4. EventTypeOK' /\ phase' = [phase EXCEPT ![g] = phase'[g]]
            /\ phase'[g] \in {"stackID", "unlock"} /\ UNCHANGED <<ann, finding>>
      BY <2>6, <2>0, <3>1, <3>3, MarkLastIsEvent
         DEF Report_RecordStack, Step, EventTypeOK, ControlTypeOK, storeVars
    <3>5. QED
      BY <2>0, <3>1, <3>3, <3>4, EventMarked
  <2>7. ASSUME NEW g \in Goroutines, Report_SetStackID(g) PROVE EventInv'
    <3> DEFINE old == vulns[ann[g]]
    <3>1. /\ ann[g] \in Annotations /\ phase[g] \in {"record", "stackID"}
          /\ old \in Seq(Vulnerability) /\ old # <<>>
      BY <2>7, <2>0
         DEF Report_SetStackID, Step, LocksHeld, WritePhases, EventTypeOK, EventInv, RoomToAppend, NoEvent
    <3>3. PICK r \in BOOLEAN, id \in BOOLEAN :
            vulns' = [vulns EXCEPT ![ann[g]] = MarkLast(old, r, id)]
      BY <2>7 DEF Report_SetStackID
    <3>4. EventTypeOK' /\ phase' = [phase EXCEPT ![g] = phase'[g]]
            /\ phase'[g] \in {"stackID", "unlock"} /\ UNCHANGED <<ann, finding>>
      <4> HIDE DEF old
      <4>1. MarkLast(old, r, id) \in Seq(Vulnerability)
        BY <3>1, MarkLastIsEvent, Zenon
      <4>2. EventTypeOK'
        BY <2>7, <2>0, <3>1, <3>3, <4>1 DEF Report_SetStackID, EventTypeOK
      <4>3. QED
        BY <2>7, <2>0, <4>2 DEF Report_SetStackID, Step, ControlTypeOK, storeVars
    <3>5. QED
      BY <2>0, <3>1, <3>3, <3>4, EventMarked
  <2>8. ASSUME NEW g \in Goroutines, Report_Unlock(g) PROVE EventInv'
    <3>1. ASSUME NEW h \in Goroutines, phase'[h] \in {"append", "record", "stackID"}
          PROVE  phase'[h] = phase[h] /\ ann'[h] = ann[h]
      BY <2>8, <2>0, <3>1, ReturnMovesOne DEF Report_Unlock, Step, ControlTypeOK, reportVars
    <3>2. QED
      BY <2>8, <2>0, <3>1, EventsUnchanged DEF Report_Unlock, EventTypeOK, reportVars
  <2>9. ASSUME NEW g \in Goroutines, Finished_LoadAndDelete(g) PROVE EventInv'
    <3>1. ASSUME NEW h \in Goroutines, phase'[h] \in {"append", "record", "stackID"}
          PROVE  phase'[h] = phase[h] /\ ann'[h] = ann[h]
      BY <2>9, <2>0, <3>1
         DEF Finished_LoadAndDelete, LoadAndDelete, GoTo, Step, TypeOK, ControlTypeOK
    <3>2. QED
      BY <2>9, <2>0, <3>1, EventsUnchanged DEF Finished_LoadAndDelete, EventTypeOK, reportVars
  <2>10. ASSUME NEW g \in Goroutines, Finished_RLock(g) PROVE EventInv'
    BY <2>10, <2>0, EventsUnchanged DEF Finished_RLock, Step, storeVars, EventTypeOK, ControlTypeOK
  <2>11. ASSUME NEW g \in Goroutines, Finished_Attach(g) PROVE EventInv'
    <3>1. span[g] \in Spans /\ ann[g] \in Annotations
      BY <2>11, <2>0 DEF Finished_Attach, Step, LocksHeld, LocalInv, LocalsAlive
    <3>2. EventTypeOK' /\ UNCHANGED vulns
      BY <2>11, <2>0, <3>1 DEF Finished_Attach, AttachEvent, EventTypeOK
    <3>3. QED
      BY <2>11, <2>0, <3>2, EventsUnchanged DEF Finished_Attach, Step, ControlTypeOK, storeVars
  <2>12. ASSUME NEW g \in Goroutines, FinishSpanStep(g) PROVE EventInv'
    <3>1. ASSUME NEW h \in Goroutines, phase'[h] \in {"append", "record", "stackID"}
          PROVE  phase'[h] = phase[h] /\ ann'[h] = ann[h]
      BY <2>12, <2>0, <3>1
         DEF FinishSpanStep, FinishSpan, Leave, GoTo, reportVars, TypeOK, ControlTypeOK
    <3>2. QED
      BY <2>12, <2>0, <3>1, EventsUnchanged DEF FinishSpanStep, EventTypeOK, reportVars
  <2>13. ASSUME NEW g \in Goroutines, NEW a \in Annotations, NewAnnotation(g, a) PROVE EventInv'
    <3>1. /\ vulns' = [vulns EXCEPT ![a] = NoEvent]
          /\ UNCHANGED <<phase, finding, json>>
          /\ ann' = [ann EXCEPT ![g] = a]
          /\ \A h \in Goroutines : ann[h] # a
          /\ pc[g] = "compute"
      BY <2>13 DEF NewAnnotation, ComputeAnnotation, Unused, GoTo
    <3>2. EventTypeOK'
      BY <2>0, <3>1 DEF EventTypeOK, NoEvent
    <3>3. EventWithinLimit' /\ NoDuplicates'
      BY <2>0, <3>1, ReportingAssumption
         DEF EventInv, EventTypeOK, EventWithinLimit, NoDuplicates, NoEvent
    <3>4. ASSUME NEW h \in Goroutines, phase[h] \in {"append", "record", "stackID"}
          PROVE  vulns'[ann'[h]] = vulns[ann[h]]
      <4>1. h # g /\ ann[h] \in Annotations
        BY <2>0, <3>1, <3>4 DEF LocksHeld, WritePhases
      <4>2. QED
        BY <2>0, <3>1, <4>1 DEF TypeOK, EventTypeOK
    <3>5. RoomToAppend'
      BY <3>1, <3>4 DEF EventInv, RoomToAppend, AtCapacity, IsDuplicate
    <3>6. QED
      BY <3>2, <3>3, <3>5 DEF EventInv
  <2>14. ASSUME NEW s \in Spans, HostStartsSpan(s) PROVE EventInv'
    BY <2>14, <2>0, EventsUnchanged DEF HostStartsSpan, StartSpan, reportVars, EventTypeOK, ControlTypeOK
  <2>15. ASSUME NEW s \in Spans, CollectSpan(s) PROVE EventInv'
    BY <2>15, <2>0, EventsUnchanged DEF CollectSpan, Collect, reportVars, EventTypeOK, ControlTypeOK
  <2>16. ASSUME NEW s \in Spans, Serialize(s) PROVE EventInv'
    <3>1. EventTypeOK'
      BY <2>16, <2>0 DEF Serialize, EventTypeOK, NoEvent
    <3>2. QED
      BY <2>16, <3>1, EventsUnchanged DEF Serialize, storeVars
  <2>17. CASE UNCHANGED vars
    BY <2>17, <2>0, EventsUnchanged DEF vars, EventTypeOK
  <2>18. QED
    BY <2>1, <2>2, <2>3, <2>4, <2>5, <2>6, <2>7, <2>8, <2>9, <2>10, <2>11, <2>12,
       <2>13, <2>14, <2>15, <2>16, <2>17 DEF Next, ReportStep, FinishedStep
<1>3. QED
  BY <1>1, <1>2, ReportingUsesStore, LocalInvariant, LockInvariant, PTL DEF Spec

(***************************************************************************)
(* What a reader should know of                                            *)
(***************************************************************************)

(* AddVulnerability never takes an event over its limit, although it tests *)
(* the length in one step and appends in another: the write lock of Report *)
(* makes the two one (report.go:100-107, event.go:35-49).                  *)
THEOREM EventsStayWithinLimit == Spec => []EventWithinLimit
<1>1. EventInv => EventWithinLimit
  BY DEF EventInv
<1>2. QED
  BY <1>1, EventInvariant, PTL

(* With deduplication no event ever holds two vulnerabilities of the same  *)
(* hash, whatever the goroutines of the request do at the same time        *)
(* (event.go:40-47).                                                       *)
THEOREM EventsHaveNoDuplicates == Spec => []NoDuplicates
<1>1. EventInv => NoDuplicates
  BY DEF EventInv
<1>2. QED
  BY <1>1, EventInvariant, PTL

(* The state of a report has its types in every reachable state: events    *)
(* are sequences of vulnerabilities, and locks are held by goroutines.     *)
THEOREM ReportingTypeCorrect == Spec => []ReportingTypeOK
<1>1. LocalInv /\ LockInv /\ EventInv => ReportingTypeOK
  BY DEF LocalInv, LockInv, EventInv, ControlTypeOK, EventTypeOK, ReportingTypeOK
<1>2. QED
  BY <1>1, EventInvariant, LockInvariant, LocalInvariant, ReportingUsesStore, PTL

(* A report keeps the promise of the registry: the whole of reporting      *)
(* implements AnnotationRegistry, and so never holds more annotations than *)
(* check-then-act allows.                                                  *)
THEOREM ReportingImplementsRegistry == Spec => ImplementsRegistry /\ []CapacityBound
  BY ReportingUsesStore, StoreImplementsRegistry, StoreCapacity, PTL

-----------------------------------------------------------------------------
(***************************************************************************)
(* What Reporting delivers with a span: the stack traces an event refers   *)
(* to, who can still change an attached event, and what the spans carry    *)
(* that Report starts for a vulnerability outside any span.                *)
(***************************************************************************)

(***************************************************************************)
(* Stack identifiers                                                       *)
(***************************************************************************)

(* What the writer of an event guarantees of it in phase p: all of it      *)
(* resolves, but for the vulnerability whose identifier comes next.        *)
ResolvesInPhase(event, p) ==
  \A i \in DOMAIN event :
    (p = "stackID" /\ i = Len(event)) \/ event[i].stackID = event[i].recorded

StackInv ==
  /\ StackIDsResolve
  /\ \A g \in Goroutines :
       phase[g] \in WritePhases => ResolvesInPhase(vulns[ann[g]], phase[g])

(* A writer changes its event, and resolves what its next phase asks for.  *)
LEMMA WriterResolves ==
  ASSUME StackInv, ControlTypeOK, LocksHeld, EventTypeOK,
         NEW g \in Goroutines, phase[g] \in WritePhases,
         NEW p \in WritePhases, NEW event,
         vulns' = [vulns EXCEPT ![ann[g]] = event],
         phase' = [phase EXCEPT ![g] = p],
         ResolvesInPhase(event, p),
         UNCHANGED <<ann, writer, json>>
  PROVE  StackInv'
<1>0. ann[g] \in Annotations /\ writer[ann[g]] = g /\ g # NoOne
  BY ReportingAssumption DEF LocksHeld
<1>1. vulns'[ann[g]] = event /\ \A a \in Annotations \ {ann[g]} : vulns'[a] = vulns[a]
  BY <1>0 DEF EventTypeOK
<1>2. StackIDsResolve'
  BY <1>0, <1>1 DEF StackInv, StackIDsResolve, StackIDsResolveIn
<1>3. ASSUME NEW h \in Goroutines, phase'[h] \in WritePhases
      PROVE  ResolvesInPhase(vulns'[ann'[h]], phase'[h])
  <2>1. CASE h = g
    BY <1>1, <2>1 DEF ControlTypeOK
  <2>2. CASE h # g
    <3>1. phase'[h] = phase[h]
      BY <2>2 DEF ControlTypeOK
    <3>2. ann[h] # ann[g] /\ ann[h] \in Annotations
      BY <1>3, <2>2, <3>1, OneWriter DEF LocksHeld
    <3>3. QED
      BY <1>1, <1>3, <3>1, <3>2 DEF StackInv
  <2>3. QED
    BY <2>1, <2>2
<1>4. QED
  BY <1>2, <1>3 DEF StackInv, ResolvesInPhase

(* Marking the last vulnerability as recorded or not, with an identifier   *)
(* exactly if it is asked for.                                             *)
LEMMA LastMarked ==
  ASSUME NEW event \in Seq(Vulnerability), event # <<>>, ResolvesInPhase(event, "stackID")
  PROVE  /\ \A r \in BOOLEAN :
              ResolvesInPhase(MarkLast(event, r, FALSE), IF r THEN "stackID" ELSE "unlock")
         /\ ResolvesInPhase(MarkLast(event, TRUE, TRUE), "unlock")
<1>1. ASSUME NEW r \in BOOLEAN, NEW id \in BOOLEAN, NEW p, p = "stackID" \/ id = r
      PROVE  ResolvesInPhase(MarkLast(event, r, id), p)
  <2> DEFINE new == MarkLast(event, r, id)
  <2>1. /\ new \in Seq(Vulnerability) /\ Len(new) = Len(event)
        /\ \A i \in 1..Len(event) : i # Len(event) => new[i] = event[i]
        /\ new[Len(event)].recorded = r /\ new[Len(event)].stackID = id
    <3>1. new \in Seq(Vulnerability)
      BY MarkLastIsEvent, Zenon
    <3>2. Len(new) = Len(event)
      BY DEF MarkLast
    <3>3. Len(event) \in 1..Len(event) /\ event[Len(event)] \in Vulnerability
      BY EmptySeq, LenProperties, ElementOfSeq
    <3>4. /\ \A i \in 1..Len(event) : i # Len(event) => new[i] = event[i]
          /\ new[Len(event)].recorded = r /\ new[Len(event)].stackID = id
      BY <3>3 DEF MarkLast, Vulnerability
    <3>5. QED
      BY <3>1, <3>2, <3>4
  <2> HIDE DEF new
  <2>2. DOMAIN new = 1..Len(event) /\ DOMAIN event = 1..Len(event)
    BY <2>1, LenProperties
  <2>3. ASSUME NEW i \in 1..Len(event), i # Len(event)
        PROVE  new[i].stackID = new[i].recorded
    BY <2>1, <2>2, <2>3 DEF ResolvesInPhase
  <2>4. QED
    BY <1>1, <2>1, <2>2, <2>3 DEF ResolvesInPhase, new
<1>2. QED
  BY <1>1

(* A step that changes no event, unlocks none and attaches none as JSON.   *)
LEMMA StillResolves ==
  ASSUME StackInv, UNCHANGED <<vulns, writer, json>>,
         \A g \in Goroutines :
           phase'[g] \in WritePhases => phase'[g] = phase[g] /\ ann'[g] = ann[g]
  PROVE  StackInv'
  BY DEF StackInv, StackIDsResolve, StackIDsResolveIn, ResolvesInPhase

(* Stack identifiers resolve, in the form that steps preserve.             *)
LEMMA StackInvariant == Spec => []StackInv
<1>1. Init => StackInv
  BY DEF Init, StackInv, StackIDsResolve, StackIDsResolveIn, NoEvent, WritePhases
<1>2. LocalInv /\ LockInv /\ EventInv /\ StackInv /\ [Next]_vars => StackInv'
  <2> SUFFICES ASSUME LocalInv, LockInv, EventInv, StackInv, [Next]_vars
               PROVE  StackInv'
    OBVIOUS
  <2>0. TypeOK /\ ControlTypeOK /\ LocksHeld /\ EventTypeOK /\ ReadersExcludeWriter /\ RoomToAppend
    BY DEF LocalInv, LockInv, EventInv
  <2>1. ASSUME NEW g \in Goroutines, StoreStep(g) PROVE StackInv'
    <3>1. ASSUME NEW h \in Goroutines, phase[h] \in WritePhases PROVE ann'[h] = ann[h]
      BY <2>1, <2>0, <3>1, StoreStepMovesOne DEF LocksHeld
    <3>2. QED
      BY <2>1, <2>0, <3>1, StoreStepMovesOne, StillResolves DEF reportVars
  <2>2. ASSUME NEW g \in Goroutines, Report_NotSampled(g) PROVE StackInv'
    <3>1. phase[g] = "none" /\ UNCHANGED reportVars
           /\ \A h \in Goroutines \ {g} : ann'[h] = ann[h]
      BY <2>2, <2>0, ReturnMovesOne DEF Report_NotSampled
    <3>2. QED
      BY <3>1, StillResolves DEF reportVars, WritePhases
  <2>3. ASSUME NEW g \in Goroutines, NEW hash \in Hashes, Report_Lock(g, hash) PROVE StackInv'
    <3>1. /\ ann[g] \in Annotations /\ writer[ann[g]] = NoOne
          /\ phase' = [phase EXCEPT ![g] = "check"]
          /\ writer' = [writer EXCEPT ![ann[g]] = g]
          /\ UNCHANGED <<vulns, json, ann>>
      BY <2>3, <2>0 DEF Report_Lock, IsSampled, Step, storeVars, TypeOK
    <3>2. StackIDsResolve'
      BY <2>0, <3>1, ReportingAssumption DEF StackInv, StackIDsResolve, ControlTypeOK, StackIDsResolveIn
    <3>3. ResolvesInPhase(vulns[ann[g]], "check")
      BY <3>1 DEF StackInv, StackIDsResolve, StackIDsResolveIn, ResolvesInPhase
    <3>4. ASSUME NEW h \in Goroutines, phase'[h] \in WritePhases
          PROVE  ResolvesInPhase(vulns[ann[h]], phase'[h])
      BY <2>0, <3>1, <3>3, <3>4 DEF StackInv, ControlTypeOK
    <3>5. QED
      BY <3>1, <3>2, <3>4 DEF StackInv, ResolvesInPhase
  <2>4. ASSUME NEW g \in Goroutines, AddVulnerability_Check(g) PROVE StackInv'
    <3>1. PICK p \in {"append", "unlock"} : phase' = [phase EXCEPT ![g] = p]
      BY <2>4 DEF AddVulnerability_Check, Step
    <3>2. phase[g] = "check" /\ UNCHANGED <<vulns, ann, writer, json>>
      BY <2>4 DEF AddVulnerability_Check, Step, storeVars
    <3>3. ResolvesInPhase(vulns[ann[g]], p) /\ p \in WritePhases /\ phase[g] \in WritePhases
      BY <3>2 DEF StackInv, WritePhases, ResolvesInPhase
    <3>4. vulns' = [vulns EXCEPT ![ann[g]] = vulns[ann[g]]]
      BY <2>0, <3>2 DEF EventTypeOK
    <3>5. QED
      BY <2>0, <3>1, <3>2, <3>3, <3>4, WriterResolves
  <2>5. ASSUME NEW g \in Goroutines, AddVulnerability_Append(g) PROVE StackInv'
    <3> DEFINE v == [hash |-> finding[g], recorded |-> FALSE, stackID |-> FALSE]
               old == vulns[ann[g]]
    <3>1. PICK p \in {"record", "unlock"} : phase' = [phase EXCEPT ![g] = p]
      BY <2>5 DEF AddVulnerability_Append, Step
    <3>2. /\ phase[g] = "append" /\ phase[g] \in WritePhases /\ p \in WritePhases
          /\ vulns' = [vulns EXCEPT ![ann[g]] = Append(old, v)]
          /\ UNCHANGED <<ann, writer, json>>
      BY <2>5 DEF AddVulnerability_Append, Step, storeVars, WritePhases
    <3>3. /\ ann[g] \in Annotations /\ old \in Seq(Vulnerability) /\ v \in Vulnerability
          /\ v.recorded = v.stackID
      BY <2>0, <3>2 DEF LocksHeld, EventTypeOK, ControlTypeOK, Vulnerability
    <3>4. ResolvesInPhase(old, "append")
      BY <3>2 DEF StackInv
    <3> HIDE DEF v, old
    <3>5. ResolvesInPhase(Append(old, v), p)
      BY <3>3, <3>4, AppendToEvent DEF ResolvesInPhase
    <3>6. QED
      BY <2>0, <3>1, <3>2, <3>5, WriterResolves DEF old
  <2>6. ASSUME NEW g \in Goroutines, Report_RecordStack(g) PROVE StackInv'
    <3> DEFINE old == vulns[ann[g]]
    <3>1. PICK r \in BOOLEAN :
            /\ phase' = [phase EXCEPT ![g] = IF r THEN "stackID" ELSE "unlock"]
            /\ vulns' = [vulns EXCEPT ![ann[g]] = MarkLast(old, r, FALSE)]
      BY <2>6, ReportingAssumption DEF Report_RecordStack, Step
    <3>2. phase[g] = "record" /\ phase[g] \in WritePhases /\ UNCHANGED <<ann, writer, json>>
      BY <2>6 DEF Report_RecordStack, Step, storeVars, WritePhases
    <3>3. old \in Seq(Vulnerability) /\ old # <<>> /\ ResolvesInPhase(old, "stackID")
      BY <2>0, <3>2 DEF LocksHeld, EventTypeOK, RoomToAppend, NoEvent, StackInv, ResolvesInPhase
    <3> HIDE DEF old
    <3>4. ResolvesInPhase(MarkLast(old, r, FALSE), IF r THEN "stackID" ELSE "unlock")
      BY <3>3, LastMarked
    <3>5. QED
      BY <2>0, <3>1, <3>2, <3>4, WriterResolves DEF old, WritePhases
  <2>7. ASSUME NEW g \in Goroutines, Report_SetStackID(g) PROVE StackInv'
    <3> DEFINE old == vulns[ann[g]]
    <3>1. /\ phase' = [phase EXCEPT ![g] = "unlock"]
          /\ vulns' = [vulns EXCEPT ![ann[g]] = MarkLast(old, TRUE, TRUE)]
          /\ phase[g] = "stackID" /\ phase[g] \in WritePhases /\ UNCHANGED <<ann, writer, json>>
      BY <2>7 DEF Report_SetStackID, Step, storeVars, WritePhases
    <3>2. old \in Seq(Vulnerability) /\ old # <<>> /\ ResolvesInPhase(old, "stackID")
      BY <2>0, <3>1 DEF LocksHeld, EventTypeOK, RoomToAppend, NoEvent, StackInv
    <3> HIDE DEF old
    <3>3. ResolvesInPhase(MarkLast(old, TRUE, TRUE), "unlock")
      BY <3>2, LastMarked
    <3>4. QED
      BY <2>0, <3>1, <3>3, WriterResolves DEF old, WritePhases
  <2>8. ASSUME NEW g \in Goroutines, Report_Unlock(g) PROVE StackInv'
    <3>1. /\ phase[g] = "unlock" /\ phase[g] \in WritePhases
          /\ phase' = [phase EXCEPT ![g] = "none"]
          /\ writer' = [writer EXCEPT ![ann[g]] = NoOne]
          /\ \A h \in Goroutines \ {g} : ann'[h] = ann[h]
          /\ UNCHANGED <<vulns, json>>
      BY <2>8, <2>0, ReturnMovesOne DEF Report_Unlock, Step, WritePhases
    <3>2. StackIDsResolveIn(vulns[ann[g]])
      BY <3>1 DEF StackInv, ResolvesInPhase, StackIDsResolveIn
    <3>3. StackIDsResolve'
      BY <2>0, <3>1, <3>2 DEF StackInv, StackIDsResolve, StackIDsResolveIn, ControlTypeOK
    <3>4. ASSUME NEW h \in Goroutines, phase'[h] \in WritePhases
          PROVE  ResolvesInPhase(vulns'[ann'[h]], phase'[h])
      <4>1. h # g /\ phase'[h] = phase[h] /\ ann'[h] = ann[h]
        BY <2>0, <3>1, <3>4 DEF ControlTypeOK, WritePhases
      <4>2. QED
        BY <3>1, <3>4, <4>1 DEF StackInv
    <3>5. QED
      BY <3>3, <3>4 DEF StackInv, ResolvesInPhase
  <2>9. ASSUME NEW g \in Goroutines, Finished_LoadAndDelete(g) PROVE StackInv'
    <3>1. ASSUME NEW h \in Goroutines, phase'[h] \in WritePhases
          PROVE  phase'[h] = phase[h] /\ ann'[h] = ann[h]
      BY <2>9, <2>0, <3>1
         DEF Finished_LoadAndDelete, LoadAndDelete, GoTo, Step, TypeOK, ControlTypeOK, WritePhases
    <3>2. QED
      BY <2>9, <3>1, StillResolves DEF Finished_LoadAndDelete
  <2>10. ASSUME NEW g \in Goroutines, Finished_RLock(g) PROVE StackInv'
    BY <2>10, <2>0, StillResolves DEF Finished_RLock, Step, storeVars, ControlTypeOK, WritePhases
  <2>11. ASSUME NEW g \in Goroutines, Finished_Attach(g) PROVE StackInv'
    <3>1. /\ phase[g] = "attach" /\ phase' = [phase EXCEPT ![g] = "none"]
          /\ UNCHANGED <<vulns, writer, ann>>
      BY <2>11 DEF Finished_Attach, Step, storeVars
    <3>2. span[g] \in Spans /\ StackIDsResolveIn(vulns[ann[g]])
      BY <2>0, <3>1
         DEF LocksHeld, ReadersExcludeWriter, StackInv, StackIDsResolve, LocalInv, LocalsAlive
    <3>3. UNCHANGED json \/ json' = [json EXCEPT ![span[g]] = vulns[ann[g]]]
      BY <2>11 DEF Finished_Attach, AttachEvent
    <3>4. \A s \in Spans : json'[s] = json[s] \/ json'[s] = vulns[ann[g]]
      BY <2>0, <3>3 DEF EventTypeOK
    <3>5. StackIDsResolve'
      BY <3>1, <3>2, <3>4 DEF StackInv, StackIDsResolve, StackIDsResolveIn
    <3>6. \A h \in Goroutines : phase'[h] \in WritePhases => phase'[h] = phase[h]
      BY <2>0, <3>1 DEF ControlTypeOK, WritePhases
    <3>7. QED
      BY <3>1, <3>5, <3>6 DEF StackInv, ResolvesInPhase
  <2>12. ASSUME NEW g \in Goroutines, FinishSpanStep(g) PROVE StackInv'
    <3>1. ASSUME NEW h \in Goroutines, phase'[h] \in WritePhases
          PROVE  phase'[h] = phase[h] /\ ann'[h] = ann[h]
      BY <2>12, <2>0, <3>1
         DEF FinishSpanStep, FinishSpan, Leave, GoTo, reportVars, TypeOK, ControlTypeOK, WritePhases
    <3>2. QED
      BY <2>12, <3>1, StillResolves DEF FinishSpanStep, reportVars
  <2>13. ASSUME NEW g \in Goroutines, NEW a \in Annotations, NewAnnotation(g, a) PROVE StackInv'
    <3>1. /\ vulns' = [vulns EXCEPT ![a] = NoEvent]
          /\ UNCHANGED <<phase, writer, json>>
          /\ ann' = [ann EXCEPT ![g] = a]
          /\ \A h \in Goroutines : ann[h] # a
          /\ pc[g] = "compute"
      BY <2>13 DEF NewAnnotation, ComputeAnnotation, Unused, GoTo
    <3>2. StackIDsResolve'
      BY <2>0, <3>1 DEF StackInv, StackIDsResolve, StackIDsResolveIn, EventTypeOK, NoEvent
    <3>3. ASSUME NEW h \in Goroutines, phase[h] \in WritePhases
          PROVE  vulns'[ann'[h]] = vulns[ann[h]]
      <4>1. h # g /\ ann[h] \in Annotations
        BY <2>0, <3>1, <3>3 DEF LocksHeld
      <4>2. QED
        BY <2>0, <3>1, <4>1 DEF TypeOK, EventTypeOK
    <3>4. QED
      BY <3>1, <3>2, <3>3 DEF StackInv, ResolvesInPhase
  <2>14. ASSUME NEW s \in Spans, HostStartsSpan(s) \/ CollectSpan(s) PROVE StackInv'
    BY <2>14, StillResolves DEF HostStartsSpan, StartSpan, CollectSpan, Collect, reportVars
  <2>15. ASSUME NEW s \in Spans, Serialize(s) PROVE StackInv'
    <3>1. UNCHANGED <<phase, ann, vulns, writer>> /\ json' = [json EXCEPT ![s] = NoEvent]
      BY <2>15 DEF Serialize, storeVars
    <3>2. \A t \in Spans : json'[t] = json[t] \/ json'[t] = NoEvent
      BY <2>0, <3>1 DEF EventTypeOK
    <3>3. QED
      BY <3>1, <3>2 DEF StackInv, StackIDsResolve, StackIDsResolveIn, ResolvesInPhase, NoEvent
  <2>16. CASE UNCHANGED vars
    BY <2>16, StillResolves DEF vars
  <2>17. QED
    BY <2>1, <2>2, <2>3, <2>4, <2>5, <2>6, <2>7, <2>8, <2>9, <2>10, <2>11, <2>12,
       <2>13, <2>14, <2>15, <2>16 DEF Next, ReportStep, FinishedStep
<1>3. QED
  BY <1>1, <1>2, ReportingUsesStore, LocalInvariant, LockInvariant, EventInvariant, PTL DEF Spec

(* An event nobody is changing, and an event frozen as JSON, refers to a   *)
(* stack trace exactly where the tracer recorded one, however reports and  *)
(* Finished interleave (report.go:100-110, orchestrion.go:30-36).          *)
THEOREM StackIDsAlwaysResolve == Spec => []StackIDsResolve
<1>1. StackInv => StackIDsResolve
  BY DEF StackInv
<1>2. QED
  BY <1>1, StackInvariant, PTL

(***************************************************************************)
(* What is attached has left the store                                     *)
(***************************************************************************)

(* An annotation is stored for one span only.                              *)
StoredOnce == \A s, t \in Spans : store[s] = store[t] /\ store[s] # NoAnn => s = t

(* What Finished removed is in the store no more, and only annotations of  *)
(* sampled requests are ever reported on.                                  *)
RemovedForGood ==
  \A g \in Goroutines : phase[g] \in {"rlock", "attach"} => \A t \in Spans : store[t] # ann[g]

EventsSampled ==
  /\ \A g \in Goroutines : phase[g] \in WritePhases => sampled[ann[g]]
  /\ \A a \in Annotations : vulns[a] # NoEvent => sampled[a]

DetachedInv == StoredOnce /\ RemovedForGood /\ EventsSampled /\ PublishedDetached

(* A step that stores nothing new, publishes nothing new and leaves the    *)
(* events of others alone.                                                 *)
LEMMA StillDetached ==
  ASSUME DetachedInv, LocksHeld, ControlTypeOK,
         \A s \in Spans : store'[s] \in {store[s], NoAnn},
         \A s \in Spans : metaStruct'[s] \in {metaStruct[s], NoAnn},
         \A g \in Goroutines :
           phase'[g] # "none" =>
             /\ ann'[g] = ann[g]
             /\ phase'[g] \in WritePhases => phase[g] \in WritePhases
             /\ phase'[g] \in {"rlock", "attach"} => phase[g] \in {"rlock", "attach"},
         \A a \in Annotations : vulns'[a] # NoEvent => vulns[a] # NoEvent \/ sampled[a],
         UNCHANGED sampled
  PROVE  DetachedInv'
<1>1. StoredOnce'
  BY DEF DetachedInv, StoredOnce
<1>2. RemovedForGood'
  BY AnnotationsAssumption DEF DetachedInv, RemovedForGood, LocksHeld
<1>3. EventsSampled'
  BY DEF DetachedInv, EventsSampled, WritePhases
<1>4. PublishedDetached'
  BY AnnotationsAssumption DEF DetachedInv, PublishedDetached, ControlTypeOK
<1>5. QED
  BY <1>1, <1>2, <1>3, <1>4 DEF DetachedInv

(* Attached events have left the store, in the form that steps preserve.   *)
LEMMA DetachedInvariant == Spec => []DetachedInv
<1>1. Init => DetachedInv
  BY DEF Init, StoreInit, DetachedInv, StoredOnce, RemovedForGood, EventsSampled,
     PublishedDetached, WritePhases
<1>2. LocalInv /\ LockInv /\ EventInv /\ DetachedInv /\ [Next]_vars => DetachedInv'
  <2> SUFFICES ASSUME LocalInv, LockInv, EventInv, DetachedInv, [Next]_vars
               PROVE  DetachedInv'
    OBVIOUS
  <2>0. TypeOK /\ ControlTypeOK /\ LocksHeld /\ EventTypeOK
    BY DEF LocalInv, LockInv, EventInv
  <2>1. ASSUME NEW g \in Goroutines, StoreStep(g) PROVE DetachedInv'
    <3>1. \A s \in Spans : store'[s] \in {store[s], NoAnn}
      BY <2>1, <2>0
         DEF StoreStep, ReportOnSpan, ReportOnOrphan, CallFinish, CheckUtilization, DeleteDeadKeys,
             CheckCapacity, LoadStored, CancelCompute, TypeOK
    <3>2. UNCHANGED sampled
      BY <2>1
         DEF StoreStep, ReportOnSpan, ReportOnOrphan, CallFinish, CheckUtilization, DeleteDeadKeys,
             CheckCapacity, LoadStored, CancelCompute
    <3>3. UNCHANGED reportVars /\ \A h \in Goroutines : phase[h] # "none" => ann'[h] = ann[h]
      BY <2>1, <2>0, StoreStepMovesOne DEF LocksHeld, ControlTypeOK, WritePhases
    <3>4. QED
      BY <2>0, <3>1, <3>2, <3>3, StillDetached DEF reportVars
  <2>2. ASSUME NEW g \in Goroutines, Report_NotSampled(g) PROVE DetachedInv'
    <3>1. phase[g] = "none" /\ UNCHANGED reportVars /\ UNCHANGED <<store, sampled>>
           /\ \A h \in Goroutines \ {g} : ann'[h] = ann[h]
      BY <2>2, <2>0, ReturnMovesOne DEF Report_NotSampled
    <3>2. QED
      BY <2>0, <3>1, StillDetached DEF reportVars
  <2>3. ASSUME NEW g \in Goroutines, NEW hash \in Hashes, Report_Lock(g, hash) PROVE DetachedInv'
    <3>1. /\ sampled[ann[g]] /\ phase' = [phase EXCEPT ![g] = "check"]
          /\ UNCHANGED <<vulns, ann, store, sampled, metaStruct>>
      BY <2>3 DEF Report_Lock, IsSampled, Step, storeVars
    <3>2. EventsSampled'
      BY <2>0, <3>1 DEF DetachedInv, EventsSampled, ControlTypeOK
    <3>3. RemovedForGood'
      BY <2>0, <3>1 DEF DetachedInv, RemovedForGood, ControlTypeOK
    <3>4. QED
      BY <3>1, <3>2, <3>3 DEF DetachedInv, StoredOnce, PublishedDetached
  <2>4. ASSUME NEW g \in Goroutines, AddVulnerability_Check(g) PROVE DetachedInv'
    BY <2>4, <2>0, StillDetached
       DEF AddVulnerability_Check, Step, storeVars, ControlTypeOK, WritePhases
  <2>5. ASSUME NEW g \in Goroutines,
               AddVulnerability_Append(g) \/ Report_RecordStack(g) \/ Report_SetStackID(g)
        PROVE  DetachedInv'
    <3>1. /\ phase[g] \in WritePhases /\ UNCHANGED <<ann, store, sampled, metaStruct>>
          /\ \E p \in WritePhases : phase' = [phase EXCEPT ![g] = p]
          /\ \A a \in Annotations \ {ann[g]} : vulns'[a] = vulns[a]
      BY <2>5, <2>0
         DEF AddVulnerability_Append, Report_RecordStack, Report_SetStackID, Step, storeVars,
             EventTypeOK, WritePhases
    <3>2. sampled[ann[g]]
      BY <3>1 DEF DetachedInv, EventsSampled
    <3>3. \A a \in Annotations : vulns'[a] # NoEvent => vulns[a] # NoEvent \/ sampled[a]
      BY <3>1, <3>2
    <3>4. \A h \in Goroutines :
            /\ phase'[h] \in WritePhases => phase[h] \in WritePhases
            /\ phase'[h] \in {"rlock", "attach"} => phase[h] \in {"rlock", "attach"}
      BY <2>0, <3>1 DEF ControlTypeOK, WritePhases
    <3>5. QED
      BY <2>0, <3>1, <3>3, <3>4, StillDetached
  <2>6. ASSUME NEW g \in Goroutines, Report_Unlock(g) PROVE DetachedInv'
    <3>1. /\ phase' = [phase EXCEPT ![g] = "none"]
          /\ UNCHANGED <<vulns, store, sampled, metaStruct>>
          /\ \A h \in Goroutines \ {g} : ann'[h] = ann[h]
      BY <2>6, <2>0, ReturnMovesOne DEF Report_Unlock, Step
    <3>2. \A h \in Goroutines : phase'[h] # "none" => phase'[h] = phase[h] /\ ann'[h] = ann[h]
      BY <2>0, <3>1 DEF ControlTypeOK
    <3>3. QED
      BY <2>0, <3>1, <3>2, StillDetached
  <2>7. ASSUME NEW g \in Goroutines, Finished_LoadAndDelete(g) PROVE DetachedInv'
    <3>1. /\ ann' = [ann EXCEPT ![g] = store[span[g]]]
          /\ store' = [store EXCEPT ![span[g]] = NoAnn]
          /\ phase' = [phase EXCEPT ![g] = IF store[span[g]] = NoAnn THEN "none" ELSE "rlock"]
          /\ UNCHANGED <<sampled, vulns, metaStruct>>
      BY <2>7 DEF Finished_LoadAndDelete, LoadAndDelete, Step
    <3>2. span[g] \in Spans
      BY <2>7 DEF Finished_LoadAndDelete, LoadAndDelete, GoTo, LocalInv, LocalsAlive
    <3>3. StoredOnce' /\ PublishedDetached'
      BY <2>0, <3>1, <3>2, AnnotationsAssumption
         DEF DetachedInv, StoredOnce, PublishedDetached, TypeOK, ControlTypeOK
    <3>4. RemovedForGood'
      BY <2>0, <3>1, <3>2, AnnotationsAssumption
         DEF DetachedInv, StoredOnce, RemovedForGood, TypeOK, ControlTypeOK, LocksHeld
    <3>5. EventsSampled'
      BY <2>0, <3>1 DEF DetachedInv, EventsSampled, ControlTypeOK, TypeOK, WritePhases
    <3>6. QED
      BY <3>3, <3>4, <3>5 DEF DetachedInv
  <2>8. ASSUME NEW g \in Goroutines, Finished_RLock(g) PROVE DetachedInv'
    BY <2>8, <2>0, StillDetached DEF Finished_RLock, Step, storeVars, ControlTypeOK, WritePhases
  <2>9. ASSUME NEW g \in Goroutines, Finished_Attach(g) PROVE DetachedInv'
    <3>1. /\ phase[g] = "attach" /\ phase' = [phase EXCEPT ![g] = "none"]
          /\ UNCHANGED <<vulns, ann, store, sampled>>
      BY <2>9 DEF Finished_Attach, Step, storeVars
    <3>2. span[g] \in Spans /\ ann[g] \in Annotations /\ \A t \in Spans : store[t] # ann[g]
      BY <2>0, <3>1 DEF LocksHeld, LocalInv, LocalsAlive, DetachedInv, RemovedForGood
    <3>3. \/ UNCHANGED metaStruct
          \/ metaStruct' = [metaStruct EXCEPT ![span[g]] = ann[g]] /\ sampled[ann[g]]
      BY <2>9, <3>2 DEF Finished_Attach, AttachEvent, DetachedInv, EventsSampled
    <3>4. PublishedDetached'
      BY <2>0, <3>1, <3>2, <3>3 DEF DetachedInv, PublishedDetached, ControlTypeOK
    <3>5. RemovedForGood' /\ EventsSampled'
      BY <2>0, <3>1 DEF DetachedInv, RemovedForGood, EventsSampled, ControlTypeOK, WritePhases
    <3>6. QED
      BY <3>1, <3>4, <3>5 DEF DetachedInv, StoredOnce
  <2>10. ASSUME NEW g \in Goroutines, FinishSpanStep(g) PROVE DetachedInv'
    <3>1. phase[g] = "none" /\ UNCHANGED reportVars /\ UNCHANGED <<store, sampled>>
           /\ \A h \in Goroutines \ {g} : ann'[h] = ann[h]
      BY <2>10, <2>0 DEF FinishSpanStep, FinishSpan, Leave, TypeOK
    <3>2. QED
      BY <2>0, <3>1, StillDetached DEF reportVars
  <2>11. ASSUME NEW g \in Goroutines, NEW a \in Annotations, NewAnnotation(g, a) PROVE DetachedInv'
    <3>1. /\ pc[g] = "compute" /\ root[g] \in Spans
          /\ \A s \in Spans : store[s] # a
          /\ \A s \in Spans : metaStruct[s] # a
          /\ \A h \in Goroutines : ann[h] # a
          /\ store' = [store EXCEPT ![root[g]] = a]
          /\ ann' = [ann EXCEPT ![g] = a]
          /\ \E decision \in SamplingDecisions : sampled' = [sampled EXCEPT ![a] = decision]
          /\ vulns' = [vulns EXCEPT ![a] = NoEvent]
          /\ UNCHANGED <<phase, metaStruct>>
      BY <2>11
         DEF NewAnnotation, ComputeAnnotation, Unused, GoTo, LocalInv, LocalsAlive, InAnnotationFor
    <3>2. \A b \in Annotations \ {a} : sampled'[b] = sampled[b] /\ vulns'[b] = vulns[b]
      BY <2>0, <3>1 DEF TypeOK, EventTypeOK
    <3>3. ASSUME NEW h \in Goroutines, phase[h] # "none"
          PROVE  h # g /\ ann'[h] = ann[h] /\ ann[h] \in Annotations \ {a}
      BY <2>0, <3>1, <3>3 DEF LocksHeld, ControlTypeOK, WritePhases, TypeOK
    <3>4. StoredOnce'
      BY <2>0, <3>1 DEF DetachedInv, StoredOnce, TypeOK
    <3>5. RemovedForGood'
      BY <2>0, <3>1, <3>3 DEF DetachedInv, RemovedForGood, TypeOK
    <3>6. EventsSampled'
      <4>1. vulns'[a] = NoEvent
        BY <2>0, <3>1 DEF EventTypeOK
      <4>2. QED
        BY <3>1, <3>2, <3>3, <4>1 DEF DetachedInv, EventsSampled, WritePhases
    <3>7. PublishedDetached'
      BY <2>0, <3>1, <3>2 DEF DetachedInv, PublishedDetached, TypeOK, ControlTypeOK
    <3>8. QED
      BY <3>4, <3>5, <3>6, <3>7 DEF DetachedInv
  <2>12. ASSUME NEW s \in Spans, HostStartsSpan(s) \/ CollectSpan(s) PROVE DetachedInv'
    BY <2>12, <2>0, StillDetached DEF HostStartsSpan, StartSpan, CollectSpan, Collect, reportVars
  <2>13. ASSUME NEW s \in Spans, Serialize(s) PROVE DetachedInv'
    BY <2>13, <2>0, StillDetached DEF Serialize, storeVars, ControlTypeOK
  <2>14. CASE UNCHANGED vars
    BY <2>14, <2>0, StillDetached DEF vars
  <2>15. QED
    BY <2>1, <2>2, <2>3, <2>4, <2>5, <2>6, <2>7, <2>8, <2>9, <2>10, <2>11, <2>12, <2>13, <2>14
       DEF Next, ReportStep, FinishedStep
<1>3. QED
  BY <1>1, <1>2, ReportingUsesStore, LocalInvariant, LockInvariant, EventInvariant, PTL DEF Spec

(* An event attached to a span was sampled and is out of the store: no     *)
(* AnnotationFor that begins later can find it, whatever was finished,     *)
(* collected or trimmed in between (orchestrion.go:23, report.go:56-58).   *)
THEOREM PublishedEventsDetached == Spec => []PublishedDetached
<1>1. DetachedInv => PublishedDetached
  BY DEF DetachedInv
<1>2. QED
  BY <1>1, DetachedInvariant, PTL

(***************************************************************************)
(* An orphan span and its annotation belong to one goroutine               *)
(***************************************************************************)

(* g reports on, or finishes, an orphan span.                              *)
HasOrphan(g) == span[g] \in Orphans

(* Nobody else works on an orphan span, which is the root of nothing but   *)
(* itself, and it stays open as long as its goroutine does.                *)
OwnSpan ==
  \A g \in Goroutines :
    /\ pc[g] = "idle" => span[g] = NoSpan
    /\ HasOrphan(g) => spanState[span[g]] = "open"
    /\ HasOrphan(g) /\ pc[g] \in InAnnotationFor => root[g] = span[g]
    /\ root[g] \in Orphans => root[g] = span[g]
    /\ \A h \in Goroutines : HasOrphan(g) /\ span[h] = span[g] => h = g

(* The annotation of g's orphan span, whether g holds it or the store does.*)
OwnAnn(g) == IF pc[g] \in {"annotated", "finishing"} THEN ann[g] ELSE store[span[g]]

(* Nobody else has the annotation of g's orphan span.                      *)
Exclusive(g) ==
  OwnAnn(g) # NoAnn =>
    /\ \A h \in Goroutines \ {g} : ann[h] # OwnAnn(g)
    /\ \A t \in Spans : store[t] = OwnAnn(g) => t = span[g]

(* The tag is that of the sampling decision, once there is one, and 1      *)
(* before.                                                                 *)
TaggedAsDecided(g) ==
  tag[span[g]] = IF OwnAnn(g) = NoAnn THEN "1" ELSE SpanTag(sampled[OwnAnn(g)])

IsTheFinding(g, event) == Len(event) = 1 /\ event[1].hash = finding[g]

(* The event of g's orphan span is empty up to the append; then it holds   *)
(* the one vulnerability g reports.                                        *)
HoldsTheFinding(g) ==
  OwnAnn(g) # NoAnn =>
    IF ~sampled[OwnAnn(g)] \/ (pc[g] = "annotated" /\ phase[g] \in {"none", "check", "append"})
      THEN vulns[OwnAnn(g)] = NoEvent
      ELSE IsTheFinding(g, vulns[OwnAnn(g)])

Nothing(s) == metaStruct[s] = NoAnn /\ json[s] = NoEvent

(* What the orphan span carries is its event, from Finished on.            *)
CarriesOwnEvent(g) ==
  /\ metaStruct[span[g]] \in {NoAnn, OwnAnn(g)}
  /\ ~(pc[g] = "finishing" /\ phase[g] = "none") => Nothing(span[g])
  /\ pc[g] = "finishing" /\ phase[g] = "none" =>
       IF IsSampled(g)
         THEN IsTheFinding(g, AttachedEvent(span[g]))
         ELSE AttachedEvent(span[g]) = NoEvent

StoredAsHeld(g) ==
  /\ pc[g] \in {"size", "trim", "recheck", "compute"} => store[span[g]] = NoAnn
  /\ pc[g] = "annotated" => ann[g] = store[span[g]]

OrphanState(g) ==
  /\ Exclusive(g) /\ TaggedAsDecided(g) /\ HoldsTheFinding(g)
  /\ CarriesOwnEvent(g) /\ StoredAsHeld(g)

(* A span that is gone, or was never started, carries nothing.             *)
DeadCarryNothing == \A s \in Dead : Nothing(s)

OrphanInv ==
  /\ \A g \in Goroutines : HasOrphan(g) => OrphanState(g)
  /\ DeadCarryNothing

(* An orphan span stays with its goroutine.                                *)
LEMMA OwnSpanInvariant == StoreSpec => []OwnSpan
<1>1. StoreInit => OwnSpan
  BY SpansAssumption DEF StoreInit, OwnSpan, HasOrphan, InAnnotationFor
<1>2. LocalInv /\ OwnSpan /\ [StoreNext]_storeVars => OwnSpan'
  <2> SUFFICES ASSUME LocalInv, OwnSpan, [StoreNext]_storeVars
               PROVE  OwnSpan'
    OBVIOUS
  <2> USE SpansAssumption DEF LocalInv, TypeOK, LocalsAlive, InAnnotationFor, OwnSpan, HasOrphan,
                              Dead, GoTo, Leave
  <2>1. ASSUME NEW s \in Spans, StartSpan(s) PROVE OwnSpan'
    BY <2>1 DEF StartSpan
  <2>2. ASSUME NEW s \in Spans, Collect(s) PROVE OwnSpan'
    BY <2>2 DEF Collect, InUse
  <2>3. ASSUME NEW g \in Goroutines, NEW s \in Spans, ReportOnSpan(g, s) PROVE OwnSpan'
    <3>1. PICK r \in RootCandidates(s) : root' = [root EXCEPT ![g] = r]
      BY <2>3 DEF ReportOnSpan
    <3>2. r \in Spans \ Orphans /\ s \notin Orphans
      BY <2>3, <3>1 DEF ReportOnSpan, RootCandidates
    <3>3. QED
      BY <2>3, <3>1, <3>2 DEF ReportOnSpan
  <2>4. ASSUME NEW g \in Goroutines, NEW s \in Spans, ReportOnOrphan(g, s) PROVE OwnSpan'
    BY <2>4 DEF ReportOnOrphan
  <2>5. ASSUME NEW g \in Goroutines, NEW s \in Spans, CallFinish(g, s) PROVE OwnSpan'
    BY <2>5 DEF CallFinish
  <2>6. ASSUME NEW g \in Goroutines, CheckUtilization(g) PROVE OwnSpan'
    BY <2>6 DEF CheckUtilization
  <2>7. ASSUME NEW g \in Goroutines,
               DeleteDeadKeys(g) \/ CheckCapacity(g) \/ LoadStored(g) \/ CancelCompute(g)
        PROVE  OwnSpan'
    BY <2>7 DEF DeleteDeadKeys, CheckCapacity, LoadStored, CancelCompute
  <2>8. ASSUME NEW g \in Goroutines, NEW a \in Annotations, ComputeAnnotation(g, a) PROVE OwnSpan'
    BY <2>8 DEF ComputeAnnotation
  <2>9. ASSUME NEW g \in Goroutines, ReturnFromReport(g) \/ FinishOrphan(g) PROVE OwnSpan'
    BY <2>9 DEF ReturnFromReport, FinishOrphan
  <2>10. ASSUME NEW g \in Goroutines, LoadAndDelete(g) \/ FinishSpan(g) PROVE OwnSpan'
    BY <2>10 DEF LoadAndDelete, FinishSpan
  <2>11. CASE UNCHANGED storeVars
    BY <2>11 DEF storeVars
  <2>12. QED
    BY <2>1, <2>2, <2>3, <2>4, <2>5, <2>6, <2>7, <2>8, <2>9, <2>10, <2>11 DEF StoreNext
<1>3. QED
  BY <1>1, <1>2, LocalInvariant, PTL DEF StoreSpec

(***************************************************************************)
(* What happens to the orphan span of one goroutine                        *)
(***************************************************************************)

(* The goroutine does not move, and nobody touches its span or its         *)
(* annotation.                                                             *)
LEMMA Undisturbed ==
  ASSUME NEW h \in Goroutines, OrphanState(h),
         /\ pc'[h] = pc[h] /\ span'[h] = span[h] /\ ann'[h] = ann[h]
         /\ phase'[h] = phase[h] /\ finding'[h] = finding[h],
         /\ store'[span[h]] = store[span[h]] /\ tag'[span[h]] = tag[span[h]]
         /\ metaStruct'[span[h]] = metaStruct[span[h]] /\ json'[span[h]] = json[span[h]],
         OwnAnn(h) # NoAnn =>
           /\ sampled'[OwnAnn(h)] = sampled[OwnAnn(h)] /\ vulns'[OwnAnn(h)] = vulns[OwnAnn(h)]
           /\ \A k \in Goroutines \ {h} : ann'[k] # OwnAnn(h)
           /\ \A t \in Spans : store'[t] = OwnAnn(h) => t = span[h]
  PROVE  OrphanState(h)'
<1>1. OwnAnn(h)' = OwnAnn(h)
  BY DEF OwnAnn
<1>2. Exclusive(h)'
  BY <1>1 DEF Exclusive
<1>3. TaggedAsDecided(h)' /\ StoredAsHeld(h)'
  BY <1>1 DEF OrphanState, TaggedAsDecided, StoredAsHeld
<1>4. HoldsTheFinding(h)'
  BY <1>1 DEF OrphanState, HoldsTheFinding, IsTheFinding
<1>5. AttachedEvent(span[h])' = AttachedEvent(span[h])
  BY <1>1 DEF OrphanState, CarriesOwnEvent, AttachedEvent
<1>6. CarriesOwnEvent(h)'
  <2>1. pc[h] = "finishing" => OwnAnn(h) = ann[h]
    BY DEF OwnAnn
  <2>2. pc[h] = "finishing" => IsSampled(h)' = IsSampled(h)
    BY <1>1, <2>1 DEF IsSampled
  <2>3. (metaStruct[span[h]] \in {NoAnn, OwnAnn(h)})'
    BY <1>1 DEF OrphanState, CarriesOwnEvent
  <2>4. (~(pc[h] = "finishing" /\ phase[h] = "none") => Nothing(span[h]))'
    BY DEF OrphanState, CarriesOwnEvent, Nothing
  <2>5. (pc[h] = "finishing" /\ phase[h] = "none" =>
           IF IsSampled(h)
             THEN IsTheFinding(h, AttachedEvent(span[h]))
             ELSE AttachedEvent(span[h]) = NoEvent)'
    BY <1>5, <2>2 DEF OrphanState, CarriesOwnEvent, IsTheFinding
  <2>6. QED
    BY <2>3, <2>4, <2>5 DEF CarriesOwnEvent
<1>7. QED
  BY <1>2, <1>3, <1>4, <1>6 DEF OrphanState

(* A goroutine moves on inside Report or Finish, without touching events,  *)
(* decisions, tags or its annotation.                                      *)
LEMMA MovesOn ==
  ASSUME NEW g \in Goroutines, OrphanState(g),
         /\ span'[g] = span[g] /\ finding'[g] = finding[g],
         UNCHANGED <<sampled, vulns>>,
         /\ tag'[span[g]] = tag[span[g]]
         /\ metaStruct'[span[g]] = metaStruct[span[g]] /\ json'[span[g]] = json[span[g]],
         OwnAnn(g)' = OwnAnn(g),
         OwnAnn(g) # NoAnn =>
           /\ \A k \in Goroutines \ {g} : ann'[k] # OwnAnn(g)
           /\ \A t \in Spans : store'[t] = OwnAnn(g) => t = span[g],
         HoldsTheFinding(g)', StoredAsHeld(g)',
         ~(pc[g] = "finishing" /\ phase[g] = "none"),
         (pc[g] = "finishing" /\ phase[g] = "none")' => OwnAnn(g)' = NoAnn /\ ann'[g] = NoAnn
  PROVE  OrphanState(g)'
<1>1. Exclusive(g)' /\ TaggedAsDecided(g)'
  BY DEF OrphanState, Exclusive, TaggedAsDecided
<1>2. Nothing(span[g])
  BY DEF OrphanState, CarriesOwnEvent
<1>3. CarriesOwnEvent(g)'
  BY <1>2 DEF Nothing, CarriesOwnEvent, AttachedEvent, IsSampled
<1>4. QED
  BY <1>1, <1>3 DEF OrphanState

(***************************************************************************)
(* Step by step                                                            *)
(***************************************************************************)

(* Every orphan span is in the state its goroutine left it in: one case    *)
(* per action, and in each what the goroutine g that moves does to its own *)
(* orphan span and to those of others.                                     *)
LEMMA OrphanInvariant == Spec => []OrphanInv
<1>1. Init => OrphanInv
  BY SpansAssumption
     DEF Init, StoreInit, OrphanInv, HasOrphan, DeadCarryNothing, Nothing, Dead
<1>2. LocalInv /\ LockInv /\ EventInv /\ DetachedInv /\ OwnSpan /\ OrphanInv /\ [Next]_vars
        => OrphanInv'
  <2> SUFFICES ASSUME LocalInv, LockInv, EventInv, DetachedInv, OwnSpan, OrphanInv, [Next]_vars
               PROVE  OrphanInv'
    OBVIOUS
  <2>0. TypeOK /\ ControlTypeOK /\ LocksHeld /\ EventTypeOK
    BY DEF LocalInv, LockInv, EventInv
  <2>1. ASSUME NEW g \in Goroutines, NEW s \in Spans,
               ReportOnSpan(g, s) \/ ReportOnOrphan(g, s) \/ CallFinish(g, s), UNCHANGED reportVars
        PROVE  OrphanInv'
    <3>1. /\ pc[g] = "idle" /\ span' = [span EXCEPT ![g] = s]
          /\ \A h \in Goroutines \ {g} : pc'[h] = pc[h]
          /\ UNCHANGED <<store, sampled, ann>>
          /\ ReportOnOrphan(g, s) \/ (UNCHANGED <<spanState, tag>> /\ s \notin Orphans)
      BY <2>1, <2>0 DEF ReportOnSpan, ReportOnOrphan, CallFinish, GoTo, TypeOK
    <3>2. ASSUME NEW h \in Goroutines, HasOrphan(h)' PROVE OrphanState(h)'
      <4>1. CASE h # g
        <5>1. HasOrphan(h) /\ span'[h] = span[h]
          BY <3>1, <3>2, <4>1, <2>0 DEF HasOrphan, TypeOK
        <5>2. tag'[span[h]] = tag[span[h]]
          BY <3>1, <5>1, <2>0 DEF ReportOnOrphan, OwnSpan, HasOrphan, Dead, TypeOK
        <5>3. QED
          BY <3>1, <4>1, <5>1, <5>2, <2>1, Undisturbed
             DEF OrphanInv, OrphanState, Exclusive, reportVars
      <4>2. CASE h = g
        <5>1. ReportOnOrphan(g, s) /\ span'[g] = s /\ s \in Dead
          BY <3>1, <3>2, <4>2, <2>0 DEF HasOrphan, TypeOK, ReportOnOrphan
        <5>2. pc'[g] = "size" /\ store[s] = NoAnn /\ store'[s] = NoAnn
          BY <5>1, <3>1, <2>0 DEF ReportOnOrphan, GoTo, TypeOK, Stored
        <5>3. Nothing(s)'
          BY <5>1, <2>1 DEF OrphanInv, DeadCarryNothing, Nothing, reportVars
        <5>4. OwnAnn(g)' = NoAnn /\ tag'[s] = "1"
          BY <5>1, <5>2, <2>0 DEF OwnAnn, ReportOnOrphan, Dead, TypeOK
        <5>5. QED
          BY <4>2, <5>1, <5>2, <5>3, <5>4
             DEF OrphanState, Exclusive, TaggedAsDecided, HoldsTheFinding, CarriesOwnEvent,
                 StoredAsHeld, Nothing
      <4>3. QED
        BY <4>1, <4>2
    <3>3. DeadCarryNothing'
      BY <2>1, <3>1, <2>0
         DEF OrphanInv, DeadCarryNothing, Nothing, Dead, reportVars, ReportOnOrphan, TypeOK
    <3>4. QED
      BY <3>2, <3>3 DEF OrphanInv
  <2>2. ASSUME NEW g \in Goroutines,
               \/ CheckUtilization(g) \/ DeleteDeadKeys(g) \/ CheckCapacity(g)
               \/ LoadStored(g) \/ CancelCompute(g),
               UNCHANGED reportVars
        PROVE  OrphanInv'
    <3>1. /\ \A h \in Goroutines \ {g} : pc'[h] = pc[h] /\ ann'[h] = ann[h]
          /\ UNCHANGED <<spanState, tag, span, sampled>>
          /\ \A s \in Spans : store'[s] = store[s] \/ (s \in Dead /\ store'[s] = NoAnn)
          /\ ann'[g] = ann[g] \/ (root[g] \in Spans /\ ann'[g] = store[root[g]])
          /\ pc[g] \in {"size", "trim", "recheck", "compute"}
          /\ pc'[g] \in {"trim", "recheck", "compute"} \/
               (pc[g] = "compute" /\ pc'[g] = "annotated" /\
                  (LoadStored(g) \/ ann'[g] = NoAnn))
      BY <2>2, <2>0
         DEF CheckUtilization, DeleteDeadKeys, CheckCapacity, LoadStored, CancelCompute, GoTo, TypeOK,
             LocalInv, LocalsAlive, InAnnotationFor, NothingHeldYet
    <3>2. ASSUME NEW h \in Goroutines, HasOrphan(h)' PROVE OrphanState(h)'
      <4>0. HasOrphan(h) /\ store'[span[h]] = store[span[h]]
        BY <3>1, <3>2, SpansAssumption DEF HasOrphan, OwnSpan, Dead
      <4>1. CASE h # g
        <5>1. root[g] # span[h]
          BY <4>0, <4>1 DEF OwnSpan, HasOrphan
        <5>2. OwnAnn(h) # NoAnn =>
                /\ \A k \in Goroutines \ {h} : ann'[k] # OwnAnn(h)
                /\ \A t \in Spans : store'[t] = OwnAnn(h) => t = span[h]
          BY <3>1, <4>0, <4>1, <5>1 DEF OrphanInv, OrphanState, Exclusive
        <5>3. QED
          BY <2>2, <3>1, <4>0, <4>1, <5>2, Undisturbed DEF OrphanInv, reportVars
      <4>2. CASE h = g
        <5>1. store[span[g]] = NoAnn /\ OwnAnn(g) = NoAnn /\ root[g] = span[g]
          BY <3>1, <4>0, <4>2
             DEF OrphanInv, OrphanState, StoredAsHeld, OwnAnn, OwnSpan, InAnnotationFor
        <5>2. ~LoadStored(g)
          BY <5>1 DEF LoadStored
        <5>3. OwnAnn(g)' = NoAnn /\ StoredAsHeld(g)'
          BY <3>1, <4>0, <4>2, <5>1, <5>2 DEF OwnAnn, StoredAsHeld
        <5>4. HoldsTheFinding(g)'
          BY <5>3 DEF HoldsTheFinding
        <5>5. QED
          BY <2>2, <3>1, <4>0, <4>2, <5>1, <5>3, <5>4, MovesOn DEF OrphanInv, reportVars
      <4>3. QED
        BY <4>1, <4>2
    <3>3. DeadCarryNothing'
      BY <2>2, <3>1 DEF OrphanInv, DeadCarryNothing, Nothing, Dead, reportVars
    <3>4. QED
      BY <3>2, <3>3 DEF OrphanInv
  <2>3. ASSUME NEW g \in Goroutines, Report_NotSampled(g) \/ Report_Unlock(g)
        PROVE  OrphanInv'
    <3>1. /\ pc[g] = "annotated" /\ (ReturnFromReport(g) \/ FinishOrphan(g))
          /\ \A h \in Goroutines \ {g} :
               pc'[h] = pc[h] /\ ann'[h] = ann[h] /\ span'[h] = span[h] /\ phase'[h] = phase[h]
          /\ UNCHANGED <<spanState, tag, store, sampled, vulns, finding, metaStruct, json>>
          /\ ann'[g] = NoAnn
          /\ \/ phase[g] = "none" /\ ~IsSampled(g)
             \/ phase[g] = "unlock"
      BY <2>3, <2>0
         DEF Report_NotSampled, Report_Unlock, ReturnFromReport, FinishOrphan, Leave, GoTo, Step,
             TypeOK, ControlTypeOK, reportVars
    <3>2. ASSUME NEW h \in Goroutines, HasOrphan(h)' PROVE OrphanState(h)'
      <4>1. CASE h # g
        BY <3>1, <3>2, <4>1, Undisturbed DEF HasOrphan, OrphanInv, OrphanState, Exclusive
      <4>2. CASE h = g
        <5>1. /\ FinishOrphan(g) /\ HasOrphan(g) /\ span'[g] = span[g] /\ pc'[g] = "delete"
          BY <3>1, <3>2, <4>2, <2>0, SpansAssumption
             DEF HasOrphan, FinishOrphan, ReturnFromReport, Leave, GoTo, TypeOK
        <5>2. OwnAnn(g) = ann[g] /\ OwnAnn(g)' = ann[g]
          BY <3>1, <5>1 DEF OrphanInv, OrphanState, StoredAsHeld, OwnAnn
        <5>3. phase[g] = "unlock" => sampled[ann[g]]
          BY DEF DetachedInv, EventsSampled, WritePhases
        <5>4. HoldsTheFinding(g)'
          BY <3>1, <5>1, <5>2, <5>3
             DEF OrphanInv, OrphanState, HoldsTheFinding, IsSampled, IsTheFinding
        <5>5. StoredAsHeld(g)'
          BY <5>1 DEF StoredAsHeld
        <5>6. OwnAnn(g) # NoAnn =>
                /\ \A k \in Goroutines \ {g} : ann'[k] # OwnAnn(g)
                /\ \A t \in Spans : store'[t] = OwnAnn(g) => t = span[g]
          BY <3>1, <5>1 DEF OrphanInv, OrphanState, Exclusive
        <5>7. QED
          BY <3>1, <4>2, <5>1, <5>2, <5>4, <5>5, <5>6, MovesOn DEF OrphanInv
      <4>3. QED
        BY <4>1, <4>2
    <3>3. DeadCarryNothing'
      BY <3>1 DEF OrphanInv, DeadCarryNothing, Nothing, Dead
    <3>4. QED
      BY <3>2, <3>3 DEF OrphanInv
  <2>4. ASSUME NEW g \in Goroutines, NEW hash \in Hashes, Report_Lock(g, hash) PROVE OrphanInv'
    <3>1. /\ phase[g] = "none" /\ pc[g] = "annotated"
          /\ phase' = [phase EXCEPT ![g] = "check"]
          /\ finding' = [finding EXCEPT ![g] = hash]
          /\ UNCHANGED <<pc, span, ann, store, tag, spanState, sampled, vulns, metaStruct, json>>
      BY <2>4 DEF Report_Lock, Step, storeVars
    <3>2. ASSUME NEW h \in Goroutines, HasOrphan(h)' PROVE OrphanState(h)'
      <4>0. HasOrphan(h)
        BY <3>1, <3>2 DEF HasOrphan
      <4>1. CASE h # g
        BY <2>0, <3>1, <4>0, <4>1, Undisturbed
           DEF OrphanInv, OrphanState, Exclusive, ControlTypeOK
      <4>2. CASE h = g
        BY <2>0, <3>1, <4>0, <4>2
           DEF OrphanInv, OrphanState, Exclusive, TaggedAsDecided, HoldsTheFinding, CarriesOwnEvent,
               StoredAsHeld, Nothing, OwnAnn, ControlTypeOK
      <4>3. QED
        BY <4>1, <4>2
    <3>3. QED
      BY <3>1, <3>2 DEF OrphanInv, DeadCarryNothing, Nothing, Dead
  <2>5. ASSUME NEW g \in Goroutines, AddVulnerability_Check(g) PROVE OrphanInv'
    <3>1. /\ phase[g] = "check" /\ pc[g] = "annotated"
          /\ UNCHANGED <<pc, span, ann, store, tag, spanState, sampled, vulns, finding,
                         metaStruct, json>>
          /\ \A h \in Goroutines \ {g} : phase'[h] = phase[h]
      BY <2>5, <2>0 DEF AddVulnerability_Check, Step, storeVars, LocksHeld, WritePhases, ControlTypeOK
    <3>2. ASSUME NEW h \in Goroutines, HasOrphan(h)' PROVE OrphanState(h)'
      <4>0. HasOrphan(h)
        BY <3>1, <3>2 DEF HasOrphan
      <4>1. CASE h # g
        BY <3>1, <4>0, <4>1, Undisturbed DEF OrphanInv, OrphanState, Exclusive
      <4>2. CASE h = g
        <5>1. vulns[ann[g]] = NoEvent /\ ann[g] # NoAnn
          BY <2>0, <3>1, <4>0, <4>2, AnnotationsAssumption
             DEF OrphanInv, OrphanState, HoldsTheFinding, OwnAnn, LocksHeld, WritePhases
        <5>2. ~AtCapacity(vulns[ann[g]]) /\ ~IsDuplicate(vulns[ann[g]], finding[g])
          BY <5>1, ReportingAssumption DEF AtCapacity, IsDuplicate, NoEvent
        <5>3. phase'[g] = "append"
          BY <2>5, <2>0, <5>2 DEF AddVulnerability_Check, Step, ControlTypeOK
        <5>4. QED
          BY <3>1, <4>0, <4>2, <5>3
             DEF OrphanInv, OrphanState, Exclusive, TaggedAsDecided, HoldsTheFinding, CarriesOwnEvent,
                 StoredAsHeld, Nothing, OwnAnn
      <4>3. QED
        BY <4>1, <4>2
    <3>3. QED
      BY <3>1, <3>2 DEF OrphanInv, DeadCarryNothing, Nothing, Dead
  <2>6. ASSUME NEW g \in Goroutines,
               AddVulnerability_Append(g) \/ Report_RecordStack(g) \/ Report_SetStackID(g)
        PROVE  OrphanInv'
    <3>1. /\ phase[g] \in {"append", "record", "stackID"}
          /\ UNCHANGED <<pc, span, ann, store, tag, spanState, sampled, finding, metaStruct, json>>
          /\ \A h \in Goroutines \ {g} : phase'[h] = phase[h]
          /\ phase'[g] \in {"record", "stackID", "unlock"}
          /\ \A a \in Annotations \ {ann[g]} : vulns'[a] = vulns[a]
      BY <2>6, <2>0
         DEF AddVulnerability_Append, Report_RecordStack, Report_SetStackID, Step, storeVars,
             ControlTypeOK, EventTypeOK
    <3>2. pc[g] = "annotated" /\ ann[g] \in Annotations /\ sampled[ann[g]]
      BY <3>1, <2>0 DEF LocksHeld, WritePhases, DetachedInv, EventsSampled
    <3>3. ASSUME NEW h \in Goroutines, HasOrphan(h)' PROVE OrphanState(h)'
      <4>0. HasOrphan(h) /\ (OwnAnn(h) # NoAnn => OwnAnn(h) \in Annotations)
        BY <3>1, <3>3, <2>0, SpansAssumption DEF HasOrphan, OwnAnn, TypeOK
      <4>1. CASE h # g
        BY <3>1, <4>0, <4>1, Undisturbed DEF OrphanInv, OrphanState, Exclusive
      <4>2. CASE h = g
        <5>1. OwnAnn(g) = ann[g] /\ OwnAnn(g)' = ann[g]
          BY <3>1, <3>2 DEF OwnAnn
        <5>2. IsTheFinding(g, vulns[ann[g]])'
          <6>1. CASE AddVulnerability_Append(g)
            <7>1. vulns[ann[g]] = NoEvent
              BY <3>1, <3>2, <4>0, <4>2, <5>1, <6>1, AnnotationsAssumption
                 DEF OrphanInv, OrphanState, HoldsTheFinding, AddVulnerability_Append, Step
            <7> DEFINE v == [hash |-> finding[g], recorded |-> FALSE, stackID |-> FALSE]
            <7>2. vulns'[ann[g]] = Append(<<>>, v) /\ v \in Vulnerability
              BY <2>0, <3>2, <6>1, <7>1
                 DEF AddVulnerability_Append, EventTypeOK, NoEvent, Vulnerability, ControlTypeOK
            <7>3. <<>> \in Seq(Vulnerability) /\ Len(<<>>) = 0 /\ v.hash = finding[g]
              OBVIOUS
            <7> HIDE DEF v
            <7>4. QED
              BY <3>1, <7>2, <7>3, AppendToEvent DEF IsTheFinding
          <6>2. CASE Report_RecordStack(g) \/ Report_SetStackID(g)
            <7> DEFINE old == vulns[ann[g]]
            <7>1. IsTheFinding(g, old)
              BY <3>1, <3>2, <4>0, <4>2, <5>1, <6>2, AnnotationsAssumption
                 DEF OrphanInv, OrphanState, HoldsTheFinding, Report_RecordStack, Report_SetStackID,
                     Step
            <7>2. PICK r \in BOOLEAN, id \in BOOLEAN : vulns'[ann[g]] = MarkLast(old, r, id)
              BY <2>0, <3>2, <6>2, ReportingAssumption
                 DEF Report_RecordStack, Report_SetStackID, EventTypeOK
            <7>3. old \in Seq(Vulnerability)
              BY <2>0, <3>2 DEF EventTypeOK
            <7> HIDE DEF old
            <7>4. old[1] \in Vulnerability
              <8>1. 1 \in 1..Len(old)
                BY <7>1 DEF IsTheFinding
              <8>2. QED
                BY <7>3, <8>1, ElementOfSeq
            <7>5. Len(MarkLast(old, r, id)) = 1 /\ MarkLast(old, r, id)[1].hash = old[1].hash
              BY <7>1, <7>3, <7>4 DEF IsTheFinding, MarkLast, Vulnerability
            <7>6. QED
              BY <3>1, <7>1, <7>2, <7>5 DEF IsTheFinding
          <6>3. QED
            BY <2>6, <6>1, <6>2
        <5>3. HoldsTheFinding(g)'
          BY <3>1, <3>2, <5>1, <5>2 DEF HoldsTheFinding
        <5>4. CarriesOwnEvent(g)'
          BY <3>1, <3>2, <4>0, <4>2, <5>1 DEF OrphanInv, OrphanState, CarriesOwnEvent, Nothing
        <5>5. QED
          BY <3>1, <4>0, <4>2, <5>1, <5>3, <5>4
             DEF OrphanInv, OrphanState, Exclusive, TaggedAsDecided, StoredAsHeld
      <4>3. QED
        BY <4>1, <4>2
    <3>4. QED
      BY <3>1, <3>3 DEF OrphanInv, DeadCarryNothing, Nothing, Dead
  <2>7. ASSUME NEW g \in Goroutines, Finished_LoadAndDelete(g) PROVE OrphanInv'
    <3>1. /\ pc[g] = "delete" /\ pc' = [pc EXCEPT ![g] = "finishing"]
          /\ ann' = [ann EXCEPT ![g] = store[span[g]]]
          /\ store' = [store EXCEPT ![span[g]] = NoAnn]
          /\ phase' = [phase EXCEPT ![g] = IF store[span[g]] = NoAnn THEN "none" ELSE "rlock"]
          /\ UNCHANGED <<span, tag, spanState, sampled, vulns, finding, metaStruct, json>>
          /\ span[g] \in Spans
      BY <2>7
         DEF Finished_LoadAndDelete, LoadAndDelete, GoTo, Step, LocalInv, LocalsAlive
    <3>2. ASSUME NEW h \in Goroutines, HasOrphan(h)' PROVE OrphanState(h)'
      <4>0. HasOrphan(h)
        BY <3>1, <3>2 DEF HasOrphan
      <4>1. CASE h # g
        <5>1. span[g] # span[h]
          BY <4>0, <4>1 DEF OwnSpan
        <5>2. OwnAnn(h) # NoAnn =>
                /\ \A k \in Goroutines \ {h} : ann'[k] # OwnAnn(h)
                /\ \A t \in Spans : store'[t] = OwnAnn(h) => t = span[h]
          BY <2>0, <3>1, <4>0, <4>1, <5>1 DEF OrphanInv, OrphanState, Exclusive, TypeOK
        <5>3. /\ pc'[h] = pc[h] /\ ann'[h] = ann[h] /\ phase'[h] = phase[h]
              /\ store'[span[h]] = store[span[h]]
          BY <2>0, <3>1, <4>0, <4>1, <5>1, SpansAssumption DEF HasOrphan, TypeOK, ControlTypeOK
        <5>4. QED
          BY <3>1, <4>0, <5>2, <5>3, Undisturbed DEF OrphanInv
      <4>2. CASE h = g
        <5>1. /\ pc'[g] = "finishing" /\ ann'[g] = store[span[g]]
              /\ phase'[g] = IF store[span[g]] = NoAnn THEN "none" ELSE "rlock"
              /\ \A k \in Goroutines \ {g} : ann'[k] = ann[k]
              /\ \A t \in Spans : store'[t] \in {store[t], NoAnn}
          BY <2>0, <3>1 DEF TypeOK, ControlTypeOK
        <5>2. OwnAnn(g) = store[span[g]] /\ OwnAnn(g)' = OwnAnn(g)
          BY <3>1, <5>1 DEF OwnAnn
        <5>3. HoldsTheFinding(g)' /\ StoredAsHeld(g)'
          BY <3>1, <4>0, <4>2, <5>1, <5>2
             DEF OrphanInv, OrphanState, HoldsTheFinding, IsTheFinding, StoredAsHeld
        <5>4. OwnAnn(g) # NoAnn =>
                /\ \A k \in Goroutines \ {g} : ann'[k] # OwnAnn(g)
                /\ \A t \in Spans : store'[t] = OwnAnn(g) => t = span[g]
          BY <3>1, <4>0, <4>2, <5>1 DEF OrphanInv, OrphanState, Exclusive
        <5>5. QED
          BY <3>1, <4>0, <4>2, <5>1, <5>2, <5>3, <5>4, MovesOn DEF OrphanInv
      <4>3. QED
        BY <4>1, <4>2
    <3>3. QED
      BY <3>1, <3>2 DEF OrphanInv, DeadCarryNothing, Nothing, Dead
  <2>8. ASSUME NEW g \in Goroutines, Finished_RLock(g) PROVE OrphanInv'
    <3>1. /\ phase[g] = "rlock" /\ phase' = [phase EXCEPT ![g] = "attach"]
          /\ UNCHANGED <<pc, span, ann, store, tag, spanState, sampled, vulns, finding,
                         metaStruct, json>>
      BY <2>8 DEF Finished_RLock, Step, storeVars
    <3>2. ASSUME NEW h \in Goroutines, HasOrphan(h)' PROVE OrphanState(h)'
      <4>0. HasOrphan(h)
        BY <3>1, <3>2 DEF HasOrphan
      <4>1. CASE h # g
        BY <2>0, <3>1, <4>0, <4>1, Undisturbed
           DEF OrphanInv, OrphanState, Exclusive, ControlTypeOK
      <4>2. CASE h = g
        <5>1. pc[g] = "finishing" /\ phase'[g] = "attach"
          BY <2>0, <3>1 DEF LocksHeld, ControlTypeOK
        <5>2. QED
          BY <3>1, <4>0, <4>2, <5>1
             DEF OrphanInv, OrphanState, Exclusive, TaggedAsDecided, HoldsTheFinding, CarriesOwnEvent,
                 StoredAsHeld, Nothing, OwnAnn, IsTheFinding
      <4>3. QED
        BY <4>1, <4>2
    <3>3. QED
      BY <3>1, <3>2 DEF OrphanInv, DeadCarryNothing, Nothing, Dead
  <2>9. ASSUME NEW g \in Goroutines, Finished_Attach(g) PROVE OrphanInv'
    <3>1. /\ phase[g] = "attach" /\ phase' = [phase EXCEPT ![g] = "none"]
          /\ UNCHANGED <<pc, span, ann, store, tag, spanState, sampled, vulns, finding>>
          /\ AttachEvent(span[g], ann[g])
      BY <2>9 DEF Finished_Attach, Step, storeVars
    <3>2. span[g] \in Spans \ Dead /\ ann[g] \in Annotations /\ pc[g] = "finishing"
      BY <2>0, <3>1 DEF LocksHeld, LocalInv, LocalsAlive
    <3>3. \A t \in Spans \ {span[g]} : metaStruct'[t] = metaStruct[t] /\ json'[t] = json[t]
      BY <2>0, <3>1 DEF AttachEvent, ControlTypeOK, EventTypeOK
    <3>4. ASSUME NEW h \in Goroutines, HasOrphan(h)' PROVE OrphanState(h)'
      <4>0. HasOrphan(h)
        BY <3>1, <3>4 DEF HasOrphan
      <4>1. CASE h # g
        <5>1. span[g] # span[h] /\ span[h] \in Spans
          BY <4>0, <4>1, SpansAssumption DEF OwnSpan, HasOrphan
        <5>2. QED
          BY <2>0, <3>1, <3>3, <4>0, <4>1, <5>1, Undisturbed
             DEF OrphanInv, OrphanState, Exclusive, ControlTypeOK
      <4>2. CASE h = g
        <5>1. OwnAnn(g) = ann[g] /\ OwnAnn(g)' = ann[g] /\ ann[g] # NoAnn /\ phase'[g] = "none"
          BY <2>0, <3>1, <3>2, AnnotationsAssumption DEF OwnAnn, ControlTypeOK
        <5>2. spanState[span[g]] = "open" /\ Nothing(span[g])
          BY <3>1, <4>0, <4>2 DEF OwnSpan, OrphanInv, OrphanState, CarriesOwnEvent
        <5>3. IF sampled[ann[g]] THEN IsTheFinding(g, vulns[ann[g]]) ELSE vulns[ann[g]] = NoEvent
          BY <3>1, <3>2, <4>0, <4>2, <5>1 DEF OrphanInv, OrphanState, HoldsTheFinding
        <5>4. \/ /\ vulns[ann[g]] = NoEvent
                 /\ metaStruct'[span[g]] = NoAnn /\ json'[span[g]] = NoEvent
              \/ metaStruct'[span[g]] = ann[g]
              \/ metaStruct'[span[g]] = NoAnn /\ json'[span[g]] = vulns[ann[g]]
          BY <2>0, <3>1, <3>2, <5>2 DEF AttachEvent, Nothing, ControlTypeOK, EventTypeOK
        <5>5. AttachedEvent(span[g])' = vulns[ann[g]]
          BY <3>1, <5>1, <5>4 DEF AttachedEvent
        <5>6. CarriesOwnEvent(g)'
          BY <3>1, <3>2, <5>1, <5>3, <5>4, <5>5 DEF CarriesOwnEvent, IsSampled, IsTheFinding
        <5>7. HoldsTheFinding(g)'
          BY <3>1, <3>2, <5>1, <5>3 DEF HoldsTheFinding, IsTheFinding
        <5>8. QED
          BY <3>1, <3>2, <4>0, <4>2, <5>1, <5>6, <5>7
             DEF OrphanInv, OrphanState, Exclusive, TaggedAsDecided, StoredAsHeld
      <4>3. QED
        BY <4>1, <4>2
    <3>5. DeadCarryNothing'
      BY <3>1, <3>2, <3>3 DEF OrphanInv, DeadCarryNothing, Nothing, Dead
    <3>6. QED
      BY <3>4, <3>5 DEF OrphanInv
  <2>10. ASSUME NEW g \in Goroutines, FinishSpanStep(g) PROVE OrphanInv'
    <3>1. /\ pc[g] = "finishing" /\ span[g] \in Spans \ Dead
          /\ \A h \in Goroutines \ {g} : pc'[h] = pc[h] /\ ann'[h] = ann[h] /\ span'[h] = span[h]
          /\ span'[g] = NoSpan /\ ann'[g] = NoAnn
          /\ spanState' = [spanState EXCEPT ![span[g]] = "finished"]
          /\ UNCHANGED <<tag, store, sampled, phase, vulns, finding, metaStruct, json>>
      BY <2>10, <2>0
         DEF FinishSpanStep, FinishSpan, Leave, GoTo, TypeOK, reportVars, LocalInv, LocalsAlive
    <3>2. ASSUME NEW h \in Goroutines, HasOrphan(h)' PROVE OrphanState(h)'
      <4>1. h # g
        BY <3>1, <3>2, SpansAssumption DEF HasOrphan
      <4>2. QED
        BY <3>1, <3>2, <4>1, Undisturbed DEF HasOrphan, OrphanInv, OrphanState, Exclusive
    <3>3. DeadCarryNothing'
      BY <2>0, <3>1 DEF OrphanInv, DeadCarryNothing, Nothing, Dead, TypeOK
    <3>4. QED
      BY <3>2, <3>3 DEF OrphanInv
  <2>11. ASSUME NEW g \in Goroutines, NEW a \in Annotations, NewAnnotation(g, a) PROVE OrphanInv'
    <3>1. PICK decision \in BOOLEAN :
            /\ sampled' = [sampled EXCEPT ![a] = decision]
            /\ tag' = IF spanState[root[g]] = "open"
                        THEN [tag EXCEPT ![root[g]] = SpanTag(decision)]
                        ELSE tag
      BY <2>11, SamplingDecisionsBoolean DEF NewAnnotation, ComputeAnnotation
    <3>2. /\ pc[g] = "compute" /\ root[g] \in Spans /\ phase[g] = "none"
          /\ \A s \in Spans : store[s] # a
          /\ \A h \in Goroutines : ann[h] # a
          /\ pc' = [pc EXCEPT ![g] = "annotated"]
          /\ store' = [store EXCEPT ![root[g]] = a]
          /\ ann' = [ann EXCEPT ![g] = a]
          /\ vulns' = [vulns EXCEPT ![a] = NoEvent]
          /\ UNCHANGED <<phase, finding, span, spanState, metaStruct, json>>
      BY <2>11, <2>0
         DEF NewAnnotation, ComputeAnnotation, Unused, GoTo, LocalInv, LocalsAlive, InAnnotationFor,
             LocksHeld, ControlTypeOK, WritePhases
    <3>3. ASSUME NEW h \in Goroutines, HasOrphan(h)' PROVE OrphanState(h)'
      <4>0. HasOrphan(h) /\ span[h] \in Spans
        BY <3>2, <3>3, SpansAssumption DEF HasOrphan
      <4>1. CASE h # g
        <5>1. root[g] # span[h]
          BY <4>0, <4>1 DEF OwnSpan, HasOrphan
        <5>2. /\ pc'[h] = pc[h] /\ ann'[h] = ann[h]
              /\ store'[span[h]] = store[span[h]] /\ tag'[span[h]] = tag[span[h]]
          BY <2>0, <3>1, <3>2, <4>0, <4>1, <5>1 DEF TypeOK
        <5>3. OwnAnn(h) # a /\ (OwnAnn(h) # NoAnn => OwnAnn(h) \in Annotations)
          BY <2>0, <3>2, <4>0 DEF OwnAnn, TypeOK
        <5>4. OwnAnn(h) # NoAnn =>
                /\ sampled'[OwnAnn(h)] = sampled[OwnAnn(h)] /\ vulns'[OwnAnn(h)] = vulns[OwnAnn(h)]
          BY <2>0, <3>1, <3>2, <5>3 DEF TypeOK, EventTypeOK
        <5>5. OwnAnn(h) # NoAnn =>
                /\ \A k \in Goroutines \ {h} : ann'[k] # OwnAnn(h)
                /\ \A t \in Spans : store'[t] = OwnAnn(h) => t = span[h]
          BY <2>0, <3>2, <4>0, <4>1, <5>3 DEF OrphanInv, OrphanState, Exclusive, TypeOK
        <5>6. QED
          BY <3>2, <4>0, <5>2, <5>4, <5>5, Undisturbed DEF OrphanInv
      <4>2. CASE h = g
        <5>1. root[g] = span[g] /\ spanState[span[g]] = "open"
          BY <3>2, <4>0, <4>2 DEF OwnSpan, InAnnotationFor
        <5>2. /\ pc'[g] = "annotated" /\ ann'[g] = a /\ store'[span[g]] = a
              /\ tag'[span[g]] = SpanTag(decision) /\ sampled'[a] = decision
              /\ vulns'[a] = NoEvent
              /\ \A k \in Goroutines \ {g} : ann'[k] = ann[k]
              /\ \A t \in Spans \ {span[g]} : store'[t] = store[t]
          BY <2>0, <3>1, <3>2, <4>0, <4>2, <5>1 DEF TypeOK, EventTypeOK
        <5>3. OwnAnn(g)' = a
          BY <5>2 DEF OwnAnn
        <5>4. Exclusive(g)' /\ TaggedAsDecided(g)' /\ HoldsTheFinding(g)' /\ StoredAsHeld(g)'
          BY <3>2, <5>2, <5>3, AnnotationsAssumption
             DEF Exclusive, TaggedAsDecided, HoldsTheFinding, StoredAsHeld
        <5>5. CarriesOwnEvent(g)'
          BY <3>2, <4>0, <4>2, <5>2, <5>3
             DEF OrphanInv, OrphanState, CarriesOwnEvent, Nothing
        <5>6. QED
          BY <4>2, <5>4, <5>5 DEF OrphanState
      <4>3. QED
        BY <4>1, <4>2
    <3>4. QED
      BY <3>2, <3>3 DEF OrphanInv, DeadCarryNothing, Nothing, Dead
  <2>12. ASSUME NEW s \in Spans, HostStartsSpan(s) \/ CollectSpan(s) \/ Serialize(s)
         PROVE  OrphanInv'
    <3>1. /\ UNCHANGED <<pc, span, ann, store, sampled, phase, vulns, finding>>
          /\ \A t \in Spans \ {s} :
               /\ tag'[t] = tag[t] /\ spanState'[t] = spanState[t]
               /\ metaStruct'[t] = metaStruct[t] /\ json'[t] = json[t]
          /\ s \notin Orphans \/ spanState[s] = "finished" \/ ~InUse(s)
      BY <2>12, <2>0
         DEF HostStartsSpan, StartSpan, CollectSpan, Collect, Serialize, reportVars, storeVars,
             TypeOK, ControlTypeOK, EventTypeOK
    <3>2. ASSUME NEW h \in Goroutines, HasOrphan(h)' PROVE OrphanState(h)'
      <4>1. HasOrphan(h) /\ span[h] \in Spans
        BY <3>1, <3>2, SpansAssumption DEF HasOrphan
      <4>2. span[h] # s
        BY <3>1, <4>1 DEF OwnSpan, HasOrphan, InUse
      <4>3. QED
        BY <3>1, <4>1, <4>2, Undisturbed DEF OrphanInv, OrphanState, Exclusive
    <3>3. DeadCarryNothing'
      BY <2>12, <2>0
         DEF OrphanInv, DeadCarryNothing, Nothing, Dead, HostStartsSpan, StartSpan, CollectSpan,
             Collect, Serialize, reportVars, storeVars, TypeOK, ControlTypeOK, EventTypeOK
    <3>4. QED
      BY <3>2, <3>3 DEF OrphanInv
  <2>13. CASE UNCHANGED vars
    <3>1. ASSUME NEW h \in Goroutines, HasOrphan(h)' PROVE OrphanState(h)'
      BY <2>13, <3>1, Undisturbed DEF vars, HasOrphan, OrphanInv, OrphanState, Exclusive
    <3>2. QED
      BY <2>13, <3>1 DEF vars, OrphanInv, DeadCarryNothing, Nothing, Dead
  <2>14. QED
    BY <2>1, <2>2, <2>3, <2>4, <2>5, <2>6, <2>7, <2>8, <2>9, <2>10, <2>11, <2>12, <2>13
       DEF Next, StoreStep, ReportStep, FinishedStep
<1>3. QED
  BY <1>1, <1>2, ReportingUsesStore, LocalInvariant, LockInvariant, EventInvariant,
     DetachedInvariant, OwnSpanInvariant, PTL DEF Spec

(***************************************************************************)
(* What a reader should know of                                            *)
(***************************************************************************)

(* A vulnerability reported outside any span is delivered: the span Report *)
(* starts for it carries exactly that vulnerability when it finishes if it *)
(* was sampled, and nothing if not, whatever else the store and the other  *)
(* goroutines do (report.go:50-53, orchestrion.go:22-44).                  *)
THEOREM OrphansDelivered == Spec => []OrphanDelivered
<1>1. OrphanInv => OrphanDelivered
  BY DEF OrphanInv, OrphanState, CarriesOwnEvent, HasOrphan, OrphanDelivered, IsTheFinding
<1>2. QED
  BY <1>1, OrphanInvariant, PTL

(* Such a span finishes with the tag of its sampling decision, or with the *)
(* 1 it was started with if the store had no room for one                  *)
(* (vulnerability.go:16, annotation.go:59-75).                             *)
THEOREM OrphansTagged == Spec => []OrphanTagged
<1>1. OrphanInv => OrphanTagged
  BY DEF OrphanInv, OrphanState, TaggedAsDecided, HasOrphan, OrphanTagged, OwnAnn
<1>2. QED
  BY <1>1, OrphanInvariant, PTL
=============================================================================
