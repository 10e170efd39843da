SPECIFICATION TickerSpec
CONSTANTS
  Event = {e1, e2}
  EngineEvent = {j}
  Frame_ms = 2
  Start_ms = 3
  Deltas <- SomeDeltas
  MaxMs = 7
  MaxEvents = 2
INVARIANTS EventsConserved FramesConsecutive TwoLateTicks
PROPERTY EventsAreSent
CHECK_DEADLOCK FALSE
