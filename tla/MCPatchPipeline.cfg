\* Generated and foreign diffs, fresh and stale, with failing reads and writes.
SPECIFICATION PipelineSpec
CONSTANTS
  Paths = {"f", "g"}
  NoPath = "elsewhere"
  Bodies <- MC_Bodies
  Empty = ""
  Dashed = {"dash", "dash_glued"}
  Plussed <- MC_Plussed
  Context = 1
  Glued <- MC_Glued
  Jobs <- MC_Jobs
INVARIANTS
  TypeOK
  AllOrNothing
  OneTornFile
  AppliedIsReplayed
  FreshDiffApplies
  PatchedAsIntended
PROPERTY
  Terminates
