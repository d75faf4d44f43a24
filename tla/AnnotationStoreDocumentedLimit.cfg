\* Two goroutines race for the last slot of the store.
SPECIFICATION StoreSpec
CONSTANTS
  g1 = g1  g2 = g2  g3 = g3
  request1 = request1  request2 = request2  request3 = request3  request4 = request4
  child = child  orphan = orphan
  a1 = a1  a2 = a2  a3 = a3  a4 = a4  a5 = a5
  Goroutines = {g1, g2}
  Spans = {request1, request2}
  Orphans = {}
  RootOf <- MCRootOf
  Annotations = {a1, a2, a3, a4}
  NoSpan = NoSpan
  NoAnn = NoAnn
  Enabled = TRUE
  MaxConcurrentRequests = 1
  RequestSamplingPct = 100
  MaxInt = 7
VIEW MCView
SYMMETRY MCSymmetry
INVARIANTS DocumentedLimit
