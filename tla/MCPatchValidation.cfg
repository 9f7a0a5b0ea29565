\* Every set of failing tests, every effect of the patch, a flaky test.
SPECIFICATION Spec
CONSTANTS
  t1 = t1
  t2 = t2
  t3 = t3
  Tests <- MC_Tests
  Flaky <- MC_Flaky
INVARIANTS
  TypeOK
  AcceptedWorks
  RunsAreTheirOwn
  RejectionIsJust
  ReturnsKnownResult
