------------------------------ MODULE Reporting ------------------------------
(***************************************************************************)
(* Reporting of vulnerabilities: vulnerability.Report, the event an        *)
(* annotation carries, and its delivery with the span by Finished.         *)
(*                                                                         *)
(* The goroutines and the store are those of AnnotationStore; this module  *)
(* adds what a goroutine does with the annotation it got (pc "annotated")  *)
(* and what Finished does with the one it removed (pc "finishing").  An    *)
(* annotation is guarded by its read-write lock, and a lock is held over   *)
(* several steps, so that a guard that is missing shows.                   *)
(*                                                                         *)
(* The tracer is external: SetMetaStruct and SetTag ignore a finished span *)
(* and, once the span is finished, its serializer reads what is attached.  *)
(***************************************************************************)
EXTENDS AnnotationStore, Sequences

CONSTANTS Hashes,                     \* what tells two vulnerabilities apart
          NoOne,                      \* no goroutine holds the write lock
          VulnerabilitiesPerRequest,  \* config.VulnerabilitiesPerRequest
          DeduplicationEnabled,       \* config.DeduplicationEnabled
          StackTraceEnabled,          \* config.StackTraceEnabled
          MetaStructOutcomes,         \* what Span.SetMetaStruct can return
          RecordOutcomes              \* what RecordStackTrace can return

(* The configuration loader clamps VulnerabilitiesPerRequest to at least 1 *)
(* (config.go:83).                                                         *)
ASSUME ReportingAssumption ==
  /\ NoOne \notin Goroutines
  /\ VulnerabilitiesPerRequest \in Nat \ {0}
  /\ DeduplicationEnabled \in BOOLEAN
  /\ StackTraceEnabled \in BOOLEAN
  /\ MetaStructOutcomes \subseteq BOOLEAN
  /\ RecordOutcomes \subseteq BOOLEAN

VARIABLES
  phase,       \* the step of Report or Finished a goroutine is at
  finding,     \* Hash of the vulnerability it reports
  vulns,       \* Event.Vulnerabilities of each annotation
  writer,      \* the goroutine holding the write lock of each annotation
  readers,     \* those holding its read lock
  metaStruct,  \* the annotation whose event is attached to a span by reference
  json         \* the event attached to a span as JSON

reportVars == <<phase, finding, vulns, writer, readers, metaStruct, json>>
vars == <<spanState, tag, store, sampled, pc, span, root, hasSpace, ann,
          phase, finding, vulns, writer, readers, metaStruct, json>>

(* A vulnerability: its hash, whether the tracer recorded a stack trace    *)
(* for it, and whether its location refers to that stack trace.            *)
Vulnerability == [hash : Hashes, recorded : BOOLEAN, stackID : BOOLEAN]

NoEvent == <<>>

Init ==
  /\ StoreInit
  /\ phase      = [g \in Goroutines |-> "none"]
  /\ finding    \in [Goroutines -> Hashes]
  /\ vulns      = [a \in Annotations |-> NoEvent]
  /\ writer     = [a \in Annotations |-> NoOne]
  /\ readers    = [a \in Annotations |-> {}]
  /\ metaStruct = [s \in Spans |-> NoAnn]
  /\ json       = [s \in Spans |-> NoEvent]

Step(g, from, to) ==
  /\ phase[g] = from
  /\ phase' = [phase EXCEPT ![g] = to]

-----------------------------------------------------------------------------
(* Steps of the store that leave the events alone.                         *)

StoreStep(g) ==
  /\ \/ \E s \in Spans : ReportOnSpan(g, s) \/ ReportOnOrphan(g, s) \/ CallFinish(g, s)
     \/ CheckUtilization(g) \/ DeleteDeadKeys(g) \/ CheckCapacity(g)
     \/ LoadStored(g) \/ CancelCompute(g)
  /\ UNCHANGED reportVars

HostStartsSpan(s) == StartSpan(s) /\ UNCHANGED reportVars

(* Mutant: the new annotation has no event at all.                         *)
NewAnnotation_NilEvent(g, a) ==
  /\ ComputeAnnotation(g, a)
  /\ vulns' = [vulns EXCEPT ![a] = NoAnn]
  /\ UNCHANGED <<phase, finding, writer, readers, metaStruct, json>>

(* A new annotation has an empty event; the object is not one a span still *)
(* refers to.                                                              *)
NewAnnotation(g, a) ==
  /\ ComputeAnnotation(g, a)
  /\ \A s \in Spans : metaStruct[s] # a
  /\ vulns' = [vulns EXCEPT ![a] = NoEvent]
  /\ UNCHANGED <<phase, finding, writer, readers, metaStruct, json>>

-----------------------------------------------------------------------------
(* Report                                                                  *)

(* ann.Sampled, of the annotation g holds.                                 *)
IsSampled(g) == ann[g] # NoAnn /\ sampled[ann[g]]

(* Not sampled: nothing is reported.                                       *)
Report_NotSampled(g) ==
  /\ pc[g] = "annotated"
  /\ phase[g] = "none"
  /\ ~IsSampled(g)
  /\ ReturnFromReport(g) \/ FinishOrphan(g)
  /\ UNCHANGED reportVars

(* Mutant: a read lock is taken in place of the write lock.                *)
Report_Lock_Shared(g, hash) ==
  /\ pc[g] = "annotated"
  /\ IsSampled(g)
  /\ Step(g, "none", "check")
  /\ finding' = [finding EXCEPT ![g] = hash]
  /\ UNCHANGED <<vulns, writer, readers, metaStruct, json>>
  /\ UNCHANGED storeVars

(* The execution is counted (Execute of Heartbeat), the stack trace        *)
(* captured and the vulnerability built from it (SelectLocation); then the *)
(* annotation is locked.                                                   *)
Report_Lock(g, hash) ==
  /\ pc[g] = "annotated"
  /\ IsSampled(g)
  /\ writer[ann[g]] = NoOne
  /\ readers[ann[g]] = {}
  /\ Step(g, "none", "check")
  /\ writer' = [writer EXCEPT ![ann[g]] = g]
  /\ finding' = [finding EXCEPT ![g] = hash]
  /\ UNCHANGED <<vulns, readers, metaStruct, json>>
  /\ UNCHANGED storeVars

(* Mutant: one too many.                                                   *)
AtCapacity_OffByOne(event) == Len(event) > VulnerabilitiesPerRequest

AtCapacity(event) == Len(event) >= VulnerabilitiesPerRequest

IsDuplicate(event, hash) ==
  DeduplicationEnabled /\ \E i \in DOMAIN event : event[i].hash = hash

(* AddVulnerability refuses the vulnerability, or goes on to append it.    *)
AddVulnerability_Check(g) ==
  /\ LET event == vulns[ann[g]] IN
       Step(g, "check", IF AtCapacity(event) \/ IsDuplicate(event, finding[g])
                          THEN "unlock" ELSE "append")
  /\ UNCHANGED <<finding, vulns, writer, readers, metaStruct, json>>
  /\ UNCHANGED storeVars

AddVulnerability_Append(g) ==
  /\ Step(g, "append", IF StackTraceEnabled THEN "record" ELSE "unlock")
  /\ vulns' = [vulns EXCEPT ![ann[g]] =
                 Append(@, [hash |-> finding[g], recorded |-> FALSE, stackID |-> FALSE])]
  /\ UNCHANGED <<finding, writer, readers, metaStruct, json>>
  /\ UNCHANGED storeVars

MarkLast(event, isRecorded, hasStackID) ==
  [event EXCEPT ![Len(event)].recorded = isRecorded, ![Len(event)].stackID = hasStackID]

(* RecordStackTrace hands the stack trace to the tracer, or fails.         *)
Report_RecordStack(g) ==
  /\ \E recorded \in RecordOutcomes :
       /\ Step(g, "record", IF recorded THEN "stackID" ELSE "unlock")
       /\ vulns' = [vulns EXCEPT ![ann[g]] = MarkLast(@, recorded, FALSE)]
  /\ UNCHANGED <<finding, writer, readers, metaStruct, json>>
  /\ UNCHANGED storeVars

(* location.StackID = id: the event's last vulnerability has this location.*)
Report_SetStackID(g) ==
  /\ Step(g, "stackID", "unlock")
  /\ vulns' = [vulns EXCEPT ![ann[g]] = MarkLast(@, TRUE, TRUE)]
  /\ UNCHANGED <<finding, writer, readers, metaStruct, json>>
  /\ UNCHANGED storeVars

(* Mutant: the deferred calls in the other order, Finish of an orphan span *)
(* before the Unlock, which is never reached.                              *)
Report_Unlock_AfterFinish(g) ==
  /\ Step(g, "unlock", "none")
  /\ \/ ReturnFromReport(g) /\ writer' = [writer EXCEPT ![ann[g]] = NoOne]
     \/ FinishOrphan(g) /\ UNCHANGED writer
  /\ UNCHANGED <<finding, vulns, readers, metaStruct, json>>

(* The deferred calls, last first: Unlock, then Finish of an orphan span.  *)
Report_Unlock(g) ==
  /\ Step(g, "unlock", "none")
  /\ writer' = [writer EXCEPT ![ann[g]] = NoOne]
  /\ ReturnFromReport(g) \/ FinishOrphan(g)
  /\ UNCHANGED <<finding, vulns, readers, metaStruct, json>>

-----------------------------------------------------------------------------
(* Finished                                                                *)

Finished_LoadAndDelete(g) ==
  /\ LoadAndDelete(g)
  /\ Step(g, "none", IF store[span[g]] = NoAnn THEN "none" ELSE "rlock")
  /\ UNCHANGED <<finding, vulns, writer, readers, metaStruct, json>>

(* Mutant: the event is read without its lock.                             *)
Finished_RLock_Unguarded(g) ==
  /\ Step(g, "rlock", "attach")
  /\ UNCHANGED <<finding, vulns, writer, readers, metaStruct, json>>
  /\ UNCHANGED storeVars

Finished_RLock(g) ==
  /\ Step(g, "rlock", "attach")
  /\ writer[ann[g]] = NoOne
  /\ readers' = [readers EXCEPT ![ann[g]] = @ \union {g}]
  /\ UNCHANGED <<finding, vulns, writer, metaStruct, json>>
  /\ UNCHANGED storeVars

(* Mutant: an event needs more than one vulnerability to be attached.      *)
AttachEvent_MoreThanOne(s, a) ==
  IF Len(vulns[a]) <= 1
    THEN UNCHANGED <<metaStruct, json>>
    ELSE metaStruct' = [metaStruct EXCEPT ![s] = a] /\ UNCHANGED json

(* An event with vulnerabilities is attached by reference, or as JSON if   *)
(* that is not possible.                                                   *)
AttachEvent(s, a) ==
  IF vulns[a] = NoEvent \/ spanState[s] = "finished"
    THEN UNCHANGED <<metaStruct, json>>
    ELSE \E isSet \in MetaStructOutcomes :
           IF isSet
             THEN metaStruct' = [metaStruct EXCEPT ![s] = a] /\ UNCHANGED json
             ELSE json' = [json EXCEPT ![s] = vulns[a]] /\ UNCHANGED metaStruct

Finished_Attach(g) ==
  /\ Step(g, "attach", "none")
  /\ AttachEvent(span[g], ann[g])
  /\ readers' = [readers EXCEPT ![ann[g]] = @ \ {g}]
  /\ UNCHANGED <<finding, vulns, writer>>
  /\ UNCHANGED storeVars

FinishSpanStep(g) ==
  /\ phase[g] = "none"
  /\ FinishSpan(g)
  /\ UNCHANGED reportVars

-----------------------------------------------------------------------------
(* The tracer                                                              *)

(* The serializer reads what is attached to a finished span, and the trace *)
(* is sent.  It takes no lock; whatever it reads, nothing in this system   *)
(* depends on it.                                                          *)
Serialize(s) ==
  /\ spanState[s] = "finished"
  /\ metaStruct[s] # NoAnn \/ json[s] # NoEvent
  /\ metaStruct' = [metaStruct EXCEPT ![s] = NoAnn]
  /\ json' = [json EXCEPT ![s] = NoEvent]
  /\ UNCHANGED <<phase, finding, vulns, writer, readers>>
  /\ UNCHANGED storeVars

(* A finished span is freed after it was sent.                             *)
CollectSpan(s) ==
  /\ metaStruct[s] = NoAnn
  /\ json[s] = NoEvent
  /\ Collect(s)
  /\ UNCHANGED reportVars

-----------------------------------------------------------------------------
ReportStep(g) ==
  \/ Report_NotSampled(g)
  \/ \E hash \in Hashes : Report_Lock(g, hash)
  \/ AddVulnerability_Check(g) \/ AddVulnerability_Append(g)
  \/ Report_RecordStack(g) \/ Report_SetStackID(g) \/ Report_Unlock(g)

FinishedStep(g) ==
  \/ Finished_LoadAndDelete(g) \/ Finished_RLock(g) \/ Finished_Attach(g)
  \/ FinishSpanStep(g)

Next ==
  \/ \E g \in Goroutines :
       \/ StoreStep(g) \/ ReportStep(g) \/ FinishedStep(g)
       \/ \E a \in Annotations : NewAnnotation(g, a)
  \/ \E s \in Spans : HostStartsSpan(s) \/ CollectSpan(s) \/ Serialize(s)

Spec == Init /\ [][Next]_vars

(* What goroutine g does once it is inside Report or Finish.               *)
Inside(g) ==
  /\ pc[g] # "idle"
  /\ \/ StoreStep(g) \/ ReportStep(g) \/ FinishedStep(g)
     \/ \E a \in Annotations : NewAnnotation(g, a)

(* Go schedules every runnable goroutine, and a blocked sync.RWMutex       *)
(* operation is served even if the lock is taken again and again: Lock     *)
(* holds off later readers, Unlock lets waiting readers in.                *)
Fairness ==
  \A g \in Goroutines :
    /\ WF_vars(Inside(g))
    /\ SF_vars(\E hash \in Hashes : Report_Lock(g, hash))
    /\ SF_vars(Finished_RLock(g))

FairSpec == Spec /\ Fairness

-----------------------------------------------------------------------------
(* Properties                                                              *)

ReportingTypeOK ==
  /\ TypeOK
  /\ phase      \in [Goroutines -> {"none", "check", "append", "record", "stackID",
                                    "unlock", "rlock", "attach"}]
  /\ finding    \in [Goroutines -> Hashes]
  /\ vulns      \in [Annotations -> Seq(Vulnerability)]
  /\ writer     \in [Annotations -> Goroutines \union {NoOne}]
  /\ readers    \in [Annotations -> SUBSET Goroutines]
  /\ metaStruct \in [Spans -> Annotations \union {NoAnn}]
  /\ json       \in [Spans -> Seq(Vulnerability)]

(* No event holds more vulnerabilities than VulnerabilitiesPerRequest,     *)
(* however many goroutines of the request report at once (event.go:35).    *)
EventWithinLimit ==
  \A a \in Annotations : Len(vulns[a]) <= VulnerabilitiesPerRequest

(* With deduplication, no event holds the same vulnerability twice, even   *)
(* if two goroutines report it at once (event.go:40-47, report.go:100).    *)
NoDuplicates ==
  DeduplicationEnabled =>
    \A a \in Annotations : \A i, j \in DOMAIN vulns[a] :
      vulns[a][i].hash = vulns[a][j].hash => i = j

StackIDsResolveIn(event) ==
  \A i \in DOMAIN event : event[i].stackID = event[i].recorded

(* An event that no goroutine is changing, and every event frozen as JSON, *)
(* refers to a stack trace exactly for the vulnerabilities whose stack     *)
(* trace the tracer recorded (report.go:100-110, orchestrion.go:30-36).    *)
StackIDsResolve ==
  /\ \A a \in Annotations : writer[a] = NoOne => StackIDsResolveIn(vulns[a])
  /\ \A s \in Spans : StackIDsResolveIn(json[s])

AttachedEvent(s) == IF metaStruct[s] # NoAnn THEN vulns[metaStruct[s]] ELSE json[s]

(* A vulnerability reported outside any span is never lost: the span Report*)
(* starts for it carries exactly that vulnerability when it finishes, if   *)
(* the span was analyzed (report.go:50-53, orchestrion.go:22-44).          *)
OrphanDelivered ==
  \A g \in Goroutines :
    pc[g] = "finishing" /\ phase[g] = "none" /\ span[g] \in Orphans =>
      IF IsSampled(g)
        THEN Len(AttachedEvent(span[g])) = 1 /\ AttachedEvent(span[g])[1].hash = finding[g]
        ELSE AttachedEvent(span[g]) = NoEvent

(* The span started for a report outside any span is tagged 1 before it is *)
(* known whether it is analyzed: it finishes with the tag of its sampling  *)
(* decision, and where the store had no room for one with the 1 it was     *)
(* started with, analyzed or not, against what constants.go:12 says of the *)
(* tag (vulnerability.go:16, annotation.go:59-75).                         *)
OrphanTagged ==
  \A g \in Goroutines :
    pc[g] = "finishing" /\ span[g] \in Orphans =>
      tag[span[g]] = IF ann[g] = NoAnn THEN "1" ELSE SpanTag(sampled[ann[g]])

(* What is attached to a span was sampled, and has left the store: only    *)
(* the goroutines that already held the annotation can still change it     *)
(* (orchestrion.go:23, report.go:56-58).                                   *)
PublishedDetached ==
  \A s \in Spans :
    metaStruct[s] # NoAnn =>
      sampled[metaStruct[s]] /\ \A t \in Spans : store[t] # metaStruct[s]

(* Every call of Report, and every Finish, returns: nobody waits for ever  *)
(* for the lock of an annotation.                                          *)
CallsReturn == \A g \in Goroutines : pc[g] # "idle" ~> pc[g] = "idle"

(* annotation.go:33 says that the event is only accessed under its lock:   *)
(* the serializer never reads it while a goroutine changes it.             *)
EventGuarded ==
  [][\A s \in Spans :
       metaStruct[s] # NoAnn /\ metaStruct'[s] = NoAnn => writer[metaStruct[s]] = NoOne]_vars

(* constants.go:9-12 says that the tag is 1 when the request was analyzed  *)
(* and 0 when it was dropped: a span carrying findings is not tagged 0.    *)
AnalyzedTag == \A s \in Spans : AttachedEvent(s) # NoEvent => tag[s] = "1"
=============================================================================
