SPECIFICATION EventSpec
CONSTANTS
  Viewers = {v1}
  NoEvent = NoEvent
  RingSize = 1
  BatchSize = 2
  MaxEvents = 2
PROPERTY PageEventsAreStored
CHECK_DEADLOCK FALSE
