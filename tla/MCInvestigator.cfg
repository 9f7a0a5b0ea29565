\* Small repositories: their imports, their defects, their failing tests.
SPECIFICATION Spec
CONSTANTS
  Parts = {"pkg", "a", "b", "f", "tests", "test_a", "test_b", "other", "Case"}
  Keys = {"username", "user_name", "age"}
  MaxLine = 2
  Cases <- MC_Cases
  Similar <- MC_Similar
  Threshold = 60
INVARIANTS
  TypeOK
  TestMapBounds
  
  EveryFailureExplained
  SuspectsAreImplicated
  OneExperimentDecides
