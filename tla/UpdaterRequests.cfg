SPECIFICATION FairSpec
CONSTANTS
  EngineId = {1, 2}
  Event = {"e", "e1", "e2"}
  Max_frames = 2
  Self = 1
  Host = 1
  Founders = {1, 2}
  Joiners = {}
  Droppable = {}
  Bootstrapped = FALSE
  BaseFrame = 0
  FirstTick = 1
  Inputs <- SomeInputs
  Callers = {c1}
  AskedFrames <- AnyFrame
  MaxFrame = 4
  MaxLead = 2
  MaxAhead = 1
  MaxGroup = 2
INVARIANTS FinalAnswersAgree FastAnswersHoldLocalEvents
PROPERTIES EveryFrameBecomesFinal FinalRequestsAnswered
