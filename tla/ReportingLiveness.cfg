\* Every call returns, under the fairness of the scheduler and of the locks.
\* A request, and a span started for a report, whose deferred Finish follows the Unlock.
\* Span identifiers can be used up by dead keys in the store: no deadlock check.
SPECIFICATION FairSpec
CONSTANTS
  g1 = g1  g2 = g2  g3 = g3
  request = request  child = child  orphan = orphan
  a1 = a1  a2 = a2  a3 = a3  a4 = a4
  h1 = h1  h2 = h2  h3 = h3
  Goroutines = {g1, g2}
  Spans = {request, orphan}
  Orphans = {orphan}
  RootOf <- MCRootOf
  Annotations = {a1, a2, a3}
  NoSpan = NoSpan
  NoAnn = NoAnn
  NoOne = NoOne
  Enabled = TRUE
  MaxConcurrentRequests = 1
  RequestSamplingPct = 100
  MaxInt = 7
  Hashes = {h1}
  VulnerabilitiesPerRequest = 1
  DeduplicationEnabled = FALSE
  StackTraceEnabled = TRUE
  MetaStructOutcomes = {FALSE}
  RecordOutcomes = {TRUE}
PROPERTY CallsReturn
CHECK_DEADLOCK FALSE
