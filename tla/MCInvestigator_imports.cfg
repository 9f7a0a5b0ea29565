\* The claim that a test is mapped to what it reaches.
SPECIFICATION Spec
CONSTANTS
  Parts = {"pkg", "a", "b", "f", "tests", "test_a", "test_b", "other", "Case"}
  Keys = {"username", "user_name", "age"}
  MaxLine = 2
  Cases <- MC_Cases
  Similar <- MC_Similar
  Threshold = 60
INVARIANT
  ReachedIsMapped
