------------------------------ MODULE Heartbeat ------------------------------
(***************************************************************************)
(* The IAST telemetry counters and their heartbeat, heartbeat.Report.      *)
(*                                                                         *)
(* Goroutines of the program add to run-time counters, init functions that *)
(* the instrumentation injects add to build-time counters, and the         *)
(* telemetry client calls Report at each heartbeat, possibly before the    *)
(* init functions are done.  Report reads one counter after the other;     *)
(* every access is atomic, and nothing else is.                            *)
(***************************************************************************)
EXTENDS Integers, Sequences

CONSTANTS InstrumentedOrder,        \* build-time counters, in the order Report reads them
          InstrumentedPropagation,  \* the one that is submitted even if zero
          ExecutedOrder,            \* ExecutedTainted, ExecutedSource.Each, ExecutedSink.Each
          ExecutedPropagation,      \* the run-time counter for the DEBUG verbosity
          TelemetryVerbosity,       \* config.TelemetryVerbosity
          InitFunctions,            \* the injected init functions
          Registers,                \* what each of them adds, and to which build-time counter
          MaxExecuted               \* bound of the model: events of a counter

ElementsOf(order) == {order[i] : i \in DOMAIN order}

Instrumented == ElementsOf(InstrumentedOrder)
Executed     == ElementsOf(ExecutedOrder) \union {ExecutedPropagation}
Counters     == Instrumented \union Executed

ASSUME HeartbeatAssumption ==
  /\ InstrumentedOrder \in Seq(Instrumented)
  /\ InstrumentedPropagation \in Instrumented
  /\ ExecutedOrder \in Seq(Executed)
  /\ Instrumented \intersect Executed = {}
  /\ TelemetryVerbosity \in {"OFF", "MANDATORY", "INFORMATION", "DEBUG"}
  /\ Registers \in [InitFunctions -> [metric : Instrumented, count : Nat]]
  /\ MaxExecuted \in Nat

VARIABLES
  counter,      \* the atomic counters
  initialized,  \* the init functions that have run
  position,     \* where Report is among the counters it reads, 0 if it is not running
  cnt,          \* local variable cnt of Report
  submitted,    \* what was submitted of each run-time counter so far
  reported,     \* the last value submitted of each build-time counter
  happened      \* history: the events of each run-time counter

vars == <<counter, initialized, position, cnt, submitted, reported, happened>>

NoCount == -1

Init ==
  /\ counter     = [c \in Counters |-> 0]
  /\ initialized = {}
  /\ position    = 0
  /\ cnt         = NoCount
  /\ submitted   = [c \in Executed |-> 0]
  /\ reported    = [c \in Instrumented |-> 0]
  /\ happened    = [c \in Executed |-> 0]

-----------------------------------------------------------------------------
(* The program                                                             *)

(* Report of a vulnerability: executed.Add(1).                             *)
Execute(c) ==
  /\ happened[c] < MaxExecuted
  /\ counter'  = [counter EXCEPT ![c] = @ + 1]
  /\ happened' = [happened EXCEPT ![c] = @ + 1]
  /\ UNCHANGED <<initialized, position, cnt, submitted, reported>>

RegisterInstrumentedSinks(f) ==
  /\ f \notin initialized
  /\ initialized' = initialized \union {f}
  /\ counter' = [counter EXCEPT ![Registers[f].metric] = @ + Registers[f].count]
  /\ UNCHANGED <<position, cnt, submitted, reported, happened>>

-----------------------------------------------------------------------------
(* Report                                                                  *)

(* Mutant: the last counter is left out.                                   *)
Walk_OffByOne == InstrumentedOrder \o SubSeq(ExecutedOrder, 1, Len(ExecutedOrder) - 1)

(* The counters Report reads, in order.                                    *)
Walk ==
  InstrumentedOrder \o ExecutedOrder \o
    (IF TelemetryVerbosity = "DEBUG" THEN <<ExecutedPropagation>> ELSE <<>>)

(* Mutant: one counter too far.                                            *)
Advance_OffByOne == position' = IF position > Len(Walk) THEN 0 ELSE position + 1

(* On to the next counter, or return after the last.                       *)
Advance == position' = IF position = Len(Walk) THEN 0 ELSE position + 1

(* The telemetry client calls Report at a heartbeat.                       *)
Begin ==
  /\ position = 0
  /\ TelemetryVerbosity # "OFF"
  /\ position' = 1
  /\ UNCHANGED <<counter, initialized, cnt, submitted, reported, happened>>

(* Mutant: a run-time counter is loaded, not swapped.                      *)
AfterRead_Load(c) == UNCHANGED counter

(* Mutant: a build-time counter is swapped, too.                           *)
AfterRead_Swap(c) == counter' = [counter EXCEPT ![c] = 0]

(* A build-time counter is loaded, a run-time counter swapped with 0.      *)
AfterRead(c) ==
  counter' = IF c \in Executed THEN [counter EXCEPT ![c] = 0] ELSE counter

(* A counter that is zero is passed over, but for one.                     *)
ReadCounter ==
  /\ position # 0
  /\ cnt = NoCount
  /\ LET c == Walk[position] IN
       /\ AfterRead(c)
       /\ IF counter[c] = 0 /\ c # InstrumentedPropagation
            THEN Advance /\ UNCHANGED cnt
            ELSE cnt' = counter[c] /\ UNCHANGED position
  /\ UNCHANGED <<initialized, submitted, reported, happened>>

(* Mutant: the counter is read again when it is submitted.                 *)
Submit_ReadAgain ==
  /\ position # 0
  /\ cnt # NoCount
  /\ LET c == Walk[position] IN
       IF c \in Executed
         THEN submitted' = [submitted EXCEPT ![c] = @ + counter[c]] /\ UNCHANGED reported
         ELSE reported' = [reported EXCEPT ![c] = counter[c]] /\ UNCHANGED submitted
  /\ cnt' = NoCount
  /\ Advance
  /\ UNCHANGED <<counter, initialized, happened>>

(* count(...): the value is submitted.                                     *)
Submit ==
  /\ position # 0
  /\ cnt # NoCount
  /\ LET c == Walk[position] IN
       IF c \in Executed
         THEN submitted' = [submitted EXCEPT ![c] = @ + cnt] /\ UNCHANGED reported
         ELSE reported' = [reported EXCEPT ![c] = cnt] /\ UNCHANGED submitted
  /\ cnt' = NoCount
  /\ Advance
  /\ UNCHANGED <<counter, initialized, happened>>

-----------------------------------------------------------------------------
Next ==
  \/ \E c \in Executed : Execute(c)
  \/ \E f \in InitFunctions : RegisterInstrumentedSinks(f)
  \/ Begin \/ ReadCounter \/ Submit

Spec == Init /\ [][Next]_vars

(* The telemetry client keeps sending heartbeats, and every init function  *)
(* runs.                                                                   *)
Fairness ==
  /\ WF_vars(Begin \/ ReadCounter \/ Submit)
  /\ \A f \in InitFunctions : WF_vars(RegisterInstrumentedSinks(f))

FairSpec == Spec /\ Fairness

-----------------------------------------------------------------------------
(* Properties                                                              *)

TypeOK ==
  /\ counter     \in [Counters -> Nat]
  /\ initialized \subseteq InitFunctions
  /\ position    \in 0..Len(Walk)
  /\ cnt         \in Nat \union {NoCount}
  /\ submitted   \in [Executed -> Nat]
  /\ reported    \in [Instrumented -> Nat]
  /\ happened    \in [Executed -> Nat]

(* What Report took out of counter c and has not submitted yet.            *)
InFlight(c) == IF position # 0 /\ cnt # NoCount /\ Walk[position] = c THEN cnt ELSE 0

Pending == [c \in Executed |-> counter[c] + InFlight(c)]

(* No event is lost and none is submitted twice, however the additions     *)
(* fall between the reads of a heartbeat: every event is in its counter, on*)
(* its way, or submitted (heartbeat.go:59-82, report.go:60-62).            *)
Conservation == \A c \in Executed : happened[c] = Pending[c] + submitted[c]

(* Heartbeats promise of the run-time counters what a ledger does.         *)
Ledger == INSTANCE CountLedger
            WITH Metrics <- Executed, pending <- Pending, delivered <- submitted
ImplementsLedger == Ledger!LedgerSpec

IsReported(c) == c # ExecutedPropagation \/ TelemetryVerbosity = "DEBUG"

(* Every event of a run-time counter is submitted in the end; those of     *)
(* ExecutedPropagation at the verbosity DEBUG only (heartbeat.go:59-82).   *)
EventsSubmitted ==
  \A c \in Executed : \A n \in 1..MaxExecuted :
    happened[c] >= n /\ IsReported(c) ~> submitted[c] >= n

(* In the end every heartbeat reports the whole of a build-time counter,   *)
(* although heartbeats begin before the init functions are done            *)
(* (heartbeat.go:41-57, telemetry.go:20-32).                               *)
BuildTimeReported ==
  <>[](\A c \in Instrumented : reported[c] = counter[c] /\ initialized = InitFunctions)
=============================================================================
