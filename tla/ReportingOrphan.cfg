\* Reports with and without a span; events attached by reference or as JSON.
\* Span identifiers can be used up by dead keys in the store: no deadlock check.
SPECIFICATION Spec
CONSTANTS
  g1 = g1  g2 = g2  g3 = g3
  request = request  child = child  orphan = orphan
  a1 = a1  a2 = a2  a3 = a3  a4 = a4
  h1 = h1  h2 = h2  h3 = h3
  Goroutines = {g1, g2}
  Spans = {request, orphan}
  Orphans = {orphan}
  RootOf <- MCRootOf
  Annotations = {a1, a2, a3}
  NoSpan = NoSpan
  NoAnn = NoAnn
  NoOne = NoOne
  Enabled = TRUE
  MaxConcurrentRequests = 1
  RequestSamplingPct = 30
  MaxInt = 7
  Hashes = {h1, h2}
  VulnerabilitiesPerRequest = 1
  DeduplicationEnabled = TRUE
  StackTraceEnabled = TRUE
  MetaStructOutcomes = {TRUE, FALSE}
  RecordOutcomes = {TRUE}
VIEW MCView
SYMMETRY MCSymmetry
INVARIANTS EventWithinLimit OrphanDelivered OrphanTagged PublishedDetached
CHECK_DEADLOCK FALSE
