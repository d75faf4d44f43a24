---------------------------- MODULE SelectLocation ----------------------------
(***************************************************************************)
(* The choice of the stack frame a vulnerability is located at,            *)
(* selectLocationTrace of internal/vulnerability.                          *)
(*                                                                         *)
(* The call stack below the reporting wrapper is a sequence of frames,     *)
(* leaf first.  Some of them are to be skipped, because the instrumentation*)
(* generated them or the sink lists them; some are hidden, which the tracer*)
(* leaves out of every capture.  A captured frame keeps the number of call *)
(* stack frames above it, hidden ones included, as its index.              *)
(*                                                                         *)
(* CaptureStackTrace is external: it keeps the frames at both ends of a    *)
(* deep stack, and with a depth of 1 only the leaf.                        *)
(***************************************************************************)
EXTENDS StackFrames

CONSTANTS TraceDepth,                    \* frames the tracer captures of a call stack ...
          TopFrames,                     \* ... of which these are at its root
          MaxLocationRecaptureAttempts,  \* maxLocationRecaptureAttempts
          Uint32                         \* the number of values of an index

ASSUME LocationAssumption ==
  /\ TopFrames \in Nat
  /\ TraceDepth \in Nat /\ TraceDepth > TopFrames
  /\ MaxLocationRecaptureAttempts \in Nat
  /\ Uint32 \in Nat

VARIABLES
  stack,              \* the frames of the call stack
  skipFrames,         \* parameter of selectLocationTrace
  stackTraceEnabled,  \* parameter of selectLocationTrace
  captures,           \* whether the tracer captures stacks at all
  pc,                 \* "skip" or "recapture", "done" when the frame is chosen
  trace,              \* the frames of the trace, the result in the end
  rawFramesSkipped,   \* local variable of selectLocationTrace
  attempts            \* how often it captured again

vars == <<stack, skipFrames, stackTraceEnabled, captures, pc, trace, rawFramesSkipped, attempts>>
inputs == <<stack, skipFrames, stackTraceEnabled, captures>>

(* Positions of the frames a trace can show, from the frame after the     *)
(* first skip ones.                                                        *)
Shown(frames, skip) == {i \in (skip + 1)..Len(frames) : ~frames[i].hidden}

(* The n-th of a set of positions, from the leaf.                          *)
Nth(positions, n) == CHOOSE i \in positions : Cardinality({j \in positions : j <= i}) = n

(* Those frames, leaf first.                                               *)
Visible(frames, skip) ==
  LET shown == Shown(frames, skip) IN
    [n \in 1..Cardinality(shown) |->
       [raw |-> Nth(shown, n), index |-> Nth(shown, n) - skip - 1]]

(* The trace of a capture without the depth option.                        *)
Capture(frames) ==
  LET visible == Visible(frames, 0) IN
    IF ~captures THEN <<>>
    ELSE IF Len(visible) <= TraceDepth THEN visible
    ELSE SubSeq(visible, 1, TraceDepth - TopFrames)
           \o SubSeq(visible, Len(visible) - TopFrames + 1, Len(visible))

CaptureLeaf(frames, skip) ==
  IF captures /\ Visible(frames, skip) # <<>> THEN <<Visible(frames, skip)[1]>> ELSE <<>>

ShouldSkipLocationFrame(frame) ==
  \/ IsGeneratedFile(frame.file)
  \/ \E i \in DOMAIN skipFrames : Matches(skipFrames[i], frame)

ShouldSkip(captured) == ShouldSkipLocationFrame(stack[captured.raw])

(* Report captures the stack and asks for the location.                    *)
Begin(frames, list) ==
  /\ stack' = frames
  /\ skipFrames' = list
  /\ pc' = "skip"
  /\ trace' = IF stackTraceEnabled THEN Capture(frames) ELSE CaptureLeaf(frames, 0)
  /\ rawFramesSkipped' = 0
  /\ attempts' = 0
  /\ UNCHANGED <<stackTraceEnabled, captures>>

-----------------------------------------------------------------------------
SkipLeading ==
  /\ pc = "skip"
  /\ trace # <<>>
  /\ ShouldSkip(Head(trace))
  /\ rawFramesSkipped' = Head(trace).index + 1
  /\ trace' = Tail(trace)
  /\ UNCHANGED <<inputs, pc, attempts>>

(* Mutant: one too many is subtracted.                                     *)
ShiftIndices_OffByOne(frames) ==
  [n \in DOMAIN frames |->
     [frames[n] EXCEPT !.index = (@ - rawFramesSkipped - 1) % Uint32]]

(* Unsigned subtraction.                                                   *)
ShiftIndices(frames) ==
  [n \in DOMAIN frames |-> [frames[n] EXCEPT !.index = (@ - rawFramesSkipped) % Uint32]]

KeepTrace ==
  /\ pc = "skip"
  /\ trace # <<>>
  /\ ~ShouldSkip(Head(trace))
  /\ trace' = IF stackTraceEnabled /\ rawFramesSkipped > 0
                THEN ShiftIndices(trace) ELSE trace
  /\ pc' = "done"
  /\ UNCHANGED <<inputs, rawFramesSkipped, attempts>>

TraceExhausted ==
  /\ pc = "skip"
  /\ trace = <<>>
  /\ pc' = "recapture"
  /\ UNCHANGED <<inputs, trace, rawFramesSkipped, attempts>>

(* Mutant: one attempt too many.                                           *)
Recapture_OneMore ==
  /\ pc = "recapture"
  /\ attempts <= MaxLocationRecaptureAttempts
  /\ LET leaf == CaptureLeaf(stack, rawFramesSkipped) IN
       IF leaf = <<>> \/ ~ShouldSkip(leaf[1])
         THEN trace' = leaf /\ pc' = "done" /\ UNCHANGED <<rawFramesSkipped, attempts>>
         ELSE /\ rawFramesSkipped' = rawFramesSkipped + leaf[1].index + 1
              /\ attempts' = attempts + 1
              /\ UNCHANGED <<trace, pc>>
  /\ UNCHANGED inputs

(* Mutant: the hidden frames above the captured one are not counted.       *)
Recapture_NoHidden ==
  /\ pc = "recapture"
  /\ attempts < MaxLocationRecaptureAttempts
  /\ LET leaf == CaptureLeaf(stack, rawFramesSkipped) IN
       IF leaf = <<>> \/ ~ShouldSkip(leaf[1])
         THEN trace' = leaf /\ pc' = "done" /\ UNCHANGED <<rawFramesSkipped, attempts>>
         ELSE /\ rawFramesSkipped' = rawFramesSkipped + 1
              /\ attempts' = attempts + 1
              /\ UNCHANGED <<trace, pc>>
  /\ UNCHANGED inputs

(* One frame is captured beyond those that were skipped.                   *)
Recapture ==
  /\ pc = "recapture"
  /\ attempts < MaxLocationRecaptureAttempts
  /\ LET leaf == CaptureLeaf(stack, rawFramesSkipped) IN
       IF leaf = <<>> \/ ~ShouldSkip(leaf[1])
         THEN trace' = leaf /\ pc' = "done" /\ UNCHANGED <<rawFramesSkipped, attempts>>
         ELSE /\ rawFramesSkipped' = rawFramesSkipped + leaf[1].index + 1
              /\ attempts' = attempts + 1
              /\ UNCHANGED <<trace, pc>>
  /\ UNCHANGED inputs

GiveUp ==
  /\ pc = "recapture"
  /\ attempts = MaxLocationRecaptureAttempts
  /\ pc' = "done"
  /\ UNCHANGED <<inputs, trace, rawFramesSkipped, attempts>>

SelectStep == SkipLeading \/ KeepTrace \/ TraceExhausted \/ Recapture \/ GiveUp
=============================================================================
