SPECIFICATION Spec
CONSTANTS
  EngineId = {1, 2, 3}
  Event = {"e", "e1", "e2"}
  Max_frames = 2
  Self = 1
  Host = 1
  Founders = {1, 2}
  Joiners = {3}
  Droppable = {2}
  Bootstrapped = FALSE
  BaseFrame = 0
  FirstTick = 1
  Inputs <- SomeInputs
  Callers = {}
  AskedFrames = {}
  MaxFrame = 4
  MaxLead = 2
  MaxAhead = 1
  MaxGroup = 2
INVARIANTS TypeOK WindowHoldsReceived SpeculationUpToDate NotStalled NoPanic
PROPERTIES ImplementsFinalLog
