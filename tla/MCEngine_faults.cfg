\* Every list of up to two hypotheses, two exceptions or interrupts anywhere.
SPECIFICATION Spec
CONSTANTS
  MaxExperiments = 2
  Threshold = 60
  FailureLists <- OneFailure
  Proposals <- PairProposals
  MaxFaults = 2
INVARIANTS
  TypeOK
  LegalRequests
  ExitZeroEarned
  ExitOneExplained
  ReportsAgree
  CaughtIsReported
  CleanupTried
  OutcomesExclusive
PROPERTIES
  LifecycleSpec
  InvestigationSpec
