\* Three runs that overlap and die in every way.
SPECIFICATION Spec
CONSTANTS
  r1 = r1
  r2 = r2
  r3 = r3
  Runs <- MC_Runs
  Overlap = TRUE
  MaxEvents = 2
SYMMETRY Symmetric
INVARIANTS
  TypeOK
  SavedIdsHaveNoGap
  PlacesTaken
  StreamMatchesReport
  RowMatchesReport
PROPERTY FreshId
