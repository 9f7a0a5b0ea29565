\* The handler's comment: the engine converts an exception to the FAILED state.
SPECIFICATION Spec
CONSTANTS
  MaxExperiments = 2
  Threshold = 60
  FailureLists <- OneFailure
  Proposals <- PairProposals
  MaxFaults = 1
INVARIANT CaughtMeansFailed
