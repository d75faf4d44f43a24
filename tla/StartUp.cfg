\* No application package that uses the tracer comes before this repository's.
\* Heartbeats, at the verbosity DEBUG, begin before md4 is initialized.
SPECIFICATION FairStartSpec
CONSTANTS
  instrumentedSource = instrumentedSource
  instrumentedPropagation = instrumentedPropagation
  instrumentedSink = instrumentedSink
  executedTainted = executedTainted
  executedSink = executedSink
  executedPropagation = executedPropagation
  InstrumentedOrder <- MCInstrumentedOrder
  InstrumentedPropagation = instrumentedPropagation
  ExecutedOrder <- MCExecutedOrder
  ExecutedPropagation = executedPropagation
  TelemetryVerbosity = "DEBUG"
  InitFunctions <- MCInitFunctions
  Registers <- MCRegisters
  MaxExecuted = 2
  PathOrder <- MCPathOrder
  ApplicationImports <- MCApplicationImports
  Background <- MCBackground
  Enabled = TRUE
  MaxConcurrentRequests = 4
INVARIANTS TypeOK Conservation NoPanic ConfigPrecedesUse
PROPERTIES ImplementsLedger EventsSubmitted BuildTimeReported
