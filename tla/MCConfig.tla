------------------------------- MODULE MCConfig -------------------------------
(***************************************************************************)
(* A small instance of Config: integers of 5 bits, bytes of 3, and a range *)
(* of 0 to 4 for the sampling percentage.                                  *)
(***************************************************************************)
EXTENDS Config

CONSTANTS enabled, requestSampling, maxConcurrentRequests, vulnerabilitiesPerRequest,
          truncationMaxValue

MCOrder ==
  <<enabled, requestSampling, maxConcurrentRequests, vulnerabilitiesPerRequest,
    truncationMaxValue>>
MCIntegers == {-1, 0, 1, 5, 8, 16, 32}

MCParsable == [s \in Settings |-> IF s = enabled THEN 0..1 ELSE 0..MaxUint64]
MCBounded == {requestSampling, maxConcurrentRequests, vulnerabilitiesPerRequest}
MCDefault ==
  [s \in Settings |->
     IF s = enabled THEN 1 ELSE IF s = requestSampling THEN 3 ELSE 2]
MCLower == [s \in Settings |-> IF s = vulnerabilitiesPerRequest THEN 1 ELSE 0]
MCUpper ==
  [s \in Settings |->
     IF s = enabled THEN 1 ELSE IF s = requestSampling THEN 4
     ELSE IF s = truncationMaxValue THEN MaxUint64 ELSE MaxInt]
=============================================================================
