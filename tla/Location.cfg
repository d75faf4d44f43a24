\* Every call of a sink with up to 3 frames of the application above it; traces of
\* 4 frames, 1 of them at the root. The call returns in the end: no deadlock check.
SPECIFICATION Spec
CONSTANTS
  MaxCallers = 3
  MaxHashes = 2
  TraceDepth = 4
  TopFrames = 1
  MaxLocationRecaptureAttempts = 2
  Uint32 = 16
INVARIANTS TypeOK OneReportPerUse LocatedAtTheCaller IndicesFromTheLeaf LocationNamesTheCaller
CHECK_DEADLOCK FALSE
