\* The claim that the lines a diff shows are verified before a file is written.
SPECIFICATION PipelineSpec
CONSTANTS
  Paths = {"f", "g"}
  NoPath = "elsewhere"
  Bodies <- MC_Bodies
  Empty = ""
  Dashed = {"dash", "dash_glued"}
  Plussed <- MC_Plussed
  Context = 1
  Glued <- MC_Glued
  Jobs <- ForeignJobs
INVARIANT
  ContextVerified
