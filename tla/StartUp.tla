------------------------------- MODULE StartUp -------------------------------
(***************************************************************************)
(* The start of an instrumented program.  Packages are initialized one     *)
(* after the other; meanwhile packages of the application that had their   *)
(* turn already run sinks and finish spans, in their init functions or in  *)
(* goroutines these started, and the tracer sends heartbeats once such a   *)
(* package has started it.  Code the instrumentation injects reaches       *)
(* packages of this repository by linkname, initialized or not.            *)
(*                                                                         *)
(* The Go run-time initializes, of the packages whose imports are all      *)
(* initialized, the first by import path.                                  *)
(***************************************************************************)
EXTENDS Heartbeat

CONSTANTS
  PathOrder,              \* the packages, in the order of their import paths
  ApplicationImports,     \* of each application package: what it imports, directly or not
  Background,             \* application packages that leave goroutines running
  Enabled,                \* DD_IAST_ENABLED
  MaxConcurrentRequests   \* DD_IAST_MAX_CONCURRENT_REQUESTS

Packages    == ElementsOf(PathOrder)
Application == DOMAIN ApplicationImports

(* telemetry has nothing to initialize, and what otelc injects into a      *)
(* package of the library imports nothing of this repository.              *)
OwnImports ==
  [instrumentation |-> {},
   config          |-> {"instrumentation"},
   heartbeat       |-> {"config", "instrumentation"},
   spans           |-> {"config", "instrumentation", "heartbeat", "tracer", "xsync"}]
Own == DOMAIN OwnImports

ASSUME StartUpAssumption ==
  /\ Own \union {"tracer", "xsync"} \subseteq Packages
  /\ InitFunctions \subseteq Packages \ Own
  /\ ApplicationImports \in [Application -> SUBSET Packages]
  /\ Background \subseteq Application /\ Application \subseteq Packages \ Own
  /\ Enabled \in BOOLEAN
  /\ MaxConcurrentRequests \in Nat

VARIABLES
  done,                   \* the packages that are initialized
  enabled,                \* config.Enabled
  maxConcurrentRequests,  \* config.MaxConcurrentRequests
  storeMade,              \* spans.store is not nil
  triggerTrimThreshold,   \* spans.triggerTrimThreshold
  tracerStarted,          \* somebody started the tracer, and its heartbeats
  spanOpen,               \* the application holds a span that is not finished
  panicked                \* the program is gone

startVars == <<done, enabled, maxConcurrentRequests, storeMade, triggerTrimThreshold,
               tracerStarted, spanOpen, panicked>>

StartInit ==
  /\ Init
  /\ done = {}
  /\ enabled = FALSE
  /\ maxConcurrentRequests = 0
  /\ storeMade = FALSE
  /\ triggerTrimThreshold = 0
  /\ tracerStarted = FALSE
  /\ spanOpen = FALSE
  /\ panicked = FALSE

-----------------------------------------------------------------------------
(* Initialization                                                          *)

Imports(p) ==
  IF p \in Own THEN OwnImports[p]
  ELSE IF p \in Application THEN ApplicationImports[p] ELSE {}

Ready == {p \in Packages \ done : Imports(p) \subseteq done}

Path(p) == CHOOSE i \in DOMAIN PathOrder : PathOrder[i] = p

IsNext(p) == p \in Ready /\ \A q \in Ready : Path(p) <= Path(q)

InitPackage(p) == IsNext(p) /\ done' = done \union {p}

(* Mutant: load is left to whoever needs the configuration first.          *)
InitConfig_Lazy ==
  /\ InitPackage("config")
  /\ UNCHANGED <<enabled, maxConcurrentRequests, storeMade, triggerTrimThreshold,
                 tracerStarted, spanOpen, panicked>>
  /\ UNCHANGED vars

InitConfig ==
  /\ InitPackage("config")
  /\ enabled' = Enabled
  /\ maxConcurrentRequests' = MaxConcurrentRequests
  /\ UNCHANGED <<storeMade, triggerTrimThreshold, tracerStarted, spanOpen, panicked>>
  /\ UNCHANGED vars

(* With any limit whose triple is an int; AnnotationStore has the others.   *)
TrimThreshold(max) == LET threshold == (max * 3) \div 4 IN IF threshold > 1 THEN threshold ELSE 1

(* The package-level variables of spans ...                                *)
MakeStore ==
  /\ IsNext("spans")
  /\ ~storeMade
  /\ storeMade' = TRUE
  /\ triggerTrimThreshold' = TrimThreshold(maxConcurrentRequests)
  /\ UNCHANGED <<done, enabled, maxConcurrentRequests, tracerStarted, spanOpen, panicked>>
  /\ UNCHANGED vars

(* ... and its init function, which registers heartbeat.Report.            *)
RegisterHeartbeat ==
  /\ storeMade
  /\ InitPackage("spans")
  /\ UNCHANGED <<enabled, maxConcurrentRequests, storeMade, triggerTrimThreshold,
                 tracerStarted, spanOpen, panicked>>
  /\ UNCHANGED vars

(* The init function injected into a package with sinks.                   *)
InitInstrumented(p) ==
  /\ InitPackage(p)
  /\ RegisterInstrumentedSinks(p)
  /\ UNCHANGED <<enabled, maxConcurrentRequests, storeMade, triggerTrimThreshold,
                 tracerStarted, spanOpen, panicked>>

(* A package that does nothing of interest here, or an application package *)
(* whose init functions return.                                            *)
InitOther(p) ==
  /\ p \notin {"config", "spans"} \union InitFunctions
  /\ InitPackage(p)
  /\ UNCHANGED <<enabled, maxConcurrentRequests, storeMade, triggerTrimThreshold,
                 tracerStarted, spanOpen, panicked>>
  /\ UNCHANGED vars

-----------------------------------------------------------------------------
(* The application                                                         *)

(* Code of p runs: its init functions, or goroutines they started.         *)
IsRunning(p) == IF p \in done THEN p \in Background ELSE IsNext(p)

RunsWith(imported) ==
  \E p \in Application : IsRunning(p) /\ ApplicationImports[p] \intersect imported # {}

(* Mutant: whether IAST is enabled is not asked.                           *)
ReportSink_Unchecked(c) ==
  /\ RunsWith(InitFunctions)
  /\ IF ~storeMade THEN panicked' = TRUE /\ UNCHANGED vars
     ELSE Execute(c) /\ UNCHANGED panicked
  /\ UNCHANGED <<done, enabled, maxConcurrentRequests, storeMade, triggerTrimThreshold,
                 tracerStarted, spanOpen>>

(* A sink runs: Report does nothing unless IAST is enabled; then           *)
(* AnnotationFor uses the store, and a sampled execution is counted.       *)
ReportSink(c) ==
  /\ RunsWith(InitFunctions)
  /\ IF ~enabled THEN UNCHANGED <<vars, panicked>>
     ELSE IF ~storeMade THEN panicked' = TRUE /\ UNCHANGED vars
     ELSE Execute(c) /\ UNCHANGED panicked
  /\ UNCHANGED <<done, enabled, maxConcurrentRequests, storeMade, triggerTrimThreshold,
                 tracerStarted, spanOpen>>

(* tracer.Start; a span is only made once the tracer runs.                 *)
StartTracer ==
  /\ RunsWith({"tracer"})
  /\ ~tracerStarted
  /\ tracerStarted' = TRUE
  /\ UNCHANGED <<done, enabled, maxConcurrentRequests, storeMade, triggerTrimThreshold,
                 spanOpen, panicked>>
  /\ UNCHANGED vars

StartSpan ==
  /\ RunsWith({"tracer"})
  /\ tracerStarted
  /\ ~spanOpen
  /\ spanOpen' = TRUE
  /\ UNCHANGED <<done, enabled, maxConcurrentRequests, storeMade, triggerTrimThreshold,
                 tracerStarted, panicked>>
  /\ UNCHANGED vars

(* Finish calls Finished, whether IAST is enabled or not.                  *)
FinishSpan ==
  /\ RunsWith({"tracer"})
  /\ spanOpen
  /\ spanOpen' = FALSE
  /\ panicked' = ~storeMade
  /\ UNCHANGED <<done, enabled, maxConcurrentRequests, storeMade, triggerTrimThreshold,
                 tracerStarted>>
  /\ UNCHANGED vars

(* The telemetry client calls what is registered, once the tracer runs.    *)
SendHeartbeat ==
  /\ tracerStarted
  /\ "spans" \in done
  /\ Begin
  /\ UNCHANGED startVars

ReportHeartbeat == (ReadCounter \/ Submit) /\ UNCHANGED startVars

-----------------------------------------------------------------------------
InitStep ==
  \/ InitConfig \/ MakeStore \/ RegisterHeartbeat
  \/ \E p \in InitFunctions : InitInstrumented(p)
  \/ \E p \in Packages : InitOther(p)

StartNext ==
  /\ ~panicked
  /\ \/ InitStep
     \/ \E c \in Executed : ReportSink(c)
     \/ StartTracer \/ StartSpan \/ FinishSpan
     \/ SendHeartbeat \/ ReportHeartbeat

allVars == <<counter, initialized, position, cnt, submitted, reported, happened,
             done, enabled, maxConcurrentRequests, storeMade, triggerTrimThreshold,
             tracerStarted, spanOpen, panicked>>

StartSpec == StartInit /\ [][StartNext]_allVars

(* Init functions return, main starts the tracer, which goes on sending    *)
(* heartbeats.                                                             *)
StartFairness ==
  /\ WF_allVars(~panicked /\ InitStep)
  /\ WF_allVars(~panicked /\ StartTracer)
  /\ WF_allVars(~panicked /\ (SendHeartbeat \/ ReportHeartbeat))

FairStartSpec == StartSpec /\ StartFairness

-----------------------------------------------------------------------------
(* Properties                                                              *)

(* A sink, or a span that is finished, never panics, however early it      *)
(* comes (cmd/app/main.go:24, cipher.go:70-72).                            *)
NoPanic == ~panicked

(* The store is made for the configured number of requests and heartbeats  *)
(* obey the configured verbosity: neither comes before the configuration is*)
(* loaded and keeps a zero value (annotation.go:23-29, 124-132).           *)
ConfigPrecedesUse ==
  /\ storeMade => triggerTrimThreshold = TrimThreshold(MaxConcurrentRequests)
  /\ position # 0 => "config" \in done /\ enabled = Enabled
=============================================================================
