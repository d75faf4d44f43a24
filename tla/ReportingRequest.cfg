\* Two goroutines report on and finish one request; events travel as JSON.
\* The only span identifier is used up once its key is dead in the store: no deadlock check.
SPECIFICATION Spec
CONSTANTS
  g1 = g1  g2 = g2  g3 = g3
  request = request  child = child  orphan = orphan
  a1 = a1  a2 = a2  a3 = a3  a4 = a4
  h1 = h1  h2 = h2  h3 = h3
  Goroutines = {g1, g2}
  Spans = {request}
  Orphans = {}
  RootOf <- MCRootOf
  Annotations = {a1, a2, a3}
  NoSpan = NoSpan
  NoAnn = NoAnn
  NoOne = NoOne
  Enabled = TRUE
  MaxConcurrentRequests = 1
  RequestSamplingPct = 100
  MaxInt = 7
  Hashes = {h1, h2}
  VulnerabilitiesPerRequest = 2
  DeduplicationEnabled = TRUE
  StackTraceEnabled = TRUE
  MetaStructOutcomes = {FALSE}
  RecordOutcomes = {TRUE, FALSE}
VIEW MCView
SYMMETRY MCSymmetry
INVARIANTS ReportingTypeOK NoDuplicates StackIDsResolve
CHECK_DEADLOCK FALSE
