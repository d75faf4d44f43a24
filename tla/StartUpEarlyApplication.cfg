\* An application package that uses the tracer is initialized before the store is made.
SPECIFICATION StartSpec
CONSTANTS
  instrumentedSource = instrumentedSource
  instrumentedPropagation = instrumentedPropagation
  instrumentedSink = instrumentedSink
  executedTainted = executedTainted
  executedSink = executedSink
  executedPropagation = executedPropagation
  InstrumentedOrder <- MCInstrumentedOrder
  InstrumentedPropagation = instrumentedPropagation
  ExecutedOrder <- MCExecutedOrder
  ExecutedPropagation = executedPropagation
  TelemetryVerbosity = "INFORMATION"
  InitFunctions <- MCInitFunctions
  Registers <- MCRegisters
  MaxExecuted = 1
  PathOrder <- MCEarlyPathOrder
  ApplicationImports <- MCApplicationImports
  Background <- MCBackground
  Enabled = TRUE
  MaxConcurrentRequests = 4
INVARIANT NoPanic
