\* Five settings, each unset, not an integer, or an integer around its bounds.
\* The program goes on after its configuration is loaded: no deadlock check.
SPECIFICATION Spec
CONSTANTS
  enabled = enabled
  requestSampling = requestSampling
  maxConcurrentRequests = maxConcurrentRequests
  vulnerabilitiesPerRequest = vulnerabilitiesPerRequest
  truncationMaxValue = truncationMaxValue
  Order <- MCOrder
  Enabled = enabled
  Unset = Unset
  NotParsed = NotParsed
  EnvIntegers <- MCIntegers
  Parsable <- MCParsable
  Bounded <- MCBounded
  Default <- MCDefault
  Lower <- MCLower
  Upper <- MCUpper
  MaxInt = 15
  MaxUint8 = 7
  MaxUint64 = 31
INVARIANTS WithinRange Closest ReportedAsEffective
CHECK_DEADLOCK FALSE
