\* The claim that the generator's diffs are the applier's to use.
SPECIFICATION PipelineSpec
CONSTANTS
  Paths = {"f", "g"}
  NoPath = "elsewhere"
  Bodies <- MC_Bodies
  Empty = ""
  Dashed = {"dash", "dash_glued"}
  Plussed <- MC_Plussed
  Context = 1
  Glued <- MC_Glued
  Jobs <- GeneratedJobs
INVARIANT
  GeneratedDiffApplies
