\* More hypotheses than the budget has experiments; every run must end.
SPECIFICATION FairSpec
CONSTANTS
  MaxExperiments = 2
  Threshold = 60
  FailureLists <- FewFailures
  Proposals <- LongProposals
  MaxFaults = 1
INVARIANTS
  EvidenceLinked
  RootCauseBacked
  RootCauseIsBest
  ExperimentsAccounted
PROPERTIES
  NothingRewritten
  Termination
