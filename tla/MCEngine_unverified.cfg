\* propose_patch's docstring: a patch is built for a verified hypothesis.
SPECIFICATION Spec
CONSTANTS
  MaxExperiments = 2
  Threshold = 60
  FailureLists <- OneFailure
  Proposals <- PairProposals
  MaxFaults = 0
INVARIANT PatchForVerified
