SPECIFICATION Spec
CONSTANTS
  EngineId = {1, 2, 3}
  Event = {"e", "e1", "e2"}
  Max_frames = 2
  Self = 2
  Host = 1
  Founders = {1, 3}
  Joiners = {2}
  Droppable = {}
  Bootstrapped = TRUE
  BaseFrame = 3
  FirstTick = 3
  Inputs <- OwnInput
  Callers = {c1, c2}
  AskedFrames = {5}
  MaxFrame = 7
  MaxLead = 2
  MaxAhead = 1
  MaxGroup = 2
SYMMETRY CallerSymmetry
INVARIANTS WindowHoldsReceived SpeculationUpToDate FinalFollowsIssued NoPanic
PROPERTIES FastRequestsPassed
