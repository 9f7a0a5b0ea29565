\* One run after the other; a run may die before it saves its session.
SPECIFICATION Spec
CONSTANTS
  r1 = r1
  r2 = r2
  r3 = r3
  Runs <- MC_Runs
  Overlap = FALSE
  MaxEvents = 2
SYMMETRY Symmetric
INVARIANT StoreSeesEveryEvent
