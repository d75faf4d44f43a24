\* A report between the removal of an annotation and the end of its span.
SPECIFICATION Spec
CONSTANTS
  g1 = g1  g2 = g2  g3 = g3
  request = request  child = child  orphan = orphan
  a1 = a1  a2 = a2  a3 = a3  a4 = a4
  h1 = h1  h2 = h2  h3 = h3
  Goroutines = {g1, g2}
  Spans = {request}
  Orphans = {}
  RootOf <- MCRootOf
  Annotations = {a1, a2, a3}
  NoSpan = NoSpan
  NoAnn = NoAnn
  NoOne = NoOne
  Enabled = TRUE
  MaxConcurrentRequests = 1
  RequestSamplingPct = 30
  MaxInt = 7
  Hashes = {h1, h2}
  VulnerabilitiesPerRequest = 1
  DeduplicationEnabled = TRUE
  StackTraceEnabled = TRUE
  MetaStructOutcomes = {TRUE, FALSE}
  RecordOutcomes = {TRUE}
INVARIANT AnalyzedTag
CHECK_DEADLOCK FALSE
