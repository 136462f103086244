SPECIFICATION Spec
CONSTANTS
  QueueSize = 10
  MaxPolls = 3
  Message <- MCMessage
  MaxNetEvents = 3
INVARIANTS
  TypeOK
  NoEventLost
PROPERTIES
  LoopReturns
  BackInReach
