SPECIFICATION FairSpec
CONSTANTS
  EngineId = {1, 2}
  Event = {"e", "e1", "e2"}
  Max_frames = 2
  Self = 1
  Host = 1
  Founders = {1, 2}
  Joiners = {}
  Droppable = {}
  Bootstrapped = FALSE
  BaseFrame = 0
  FirstTick = 1
  Inputs <- OneInput
  Callers = {c1, c2}
  AskedFrames = {2}
  MaxFrame = 3
  MaxLead = 2
  MaxAhead = 1
  MaxGroup = 1
PROPERTIES FinalRequestsAnswered
