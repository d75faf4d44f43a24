\* Two messages of two vulnerabilities and one source in all, each possibly with a field
\* of a newer version in any of its maps.
SPECIFICATION Spec
CONSTANTS
  TruncationMaxValue = 2
  Findings <- MCFindings
  Sources <- MCSources
  NewerValue <- MCNewerValue
  VulnerabilitiesPerRequest = 2
  DeduplicationEnabled = TRUE
  MaxVulnerabilities = 2
  MaxSources = 1
  MaxMessages = 2
INVARIANTS RoundTrip CutMessageRejected SizeBound SameDocument RetainedText
CHECK_DEADLOCK FALSE
