SPECIFICATION Spec
CONSTANTS
  EventId = {0, 1, 2}
  MaxEvents = 2
  ByteMod = 4
  MaxQueue = 2
  CountMod = 3
  Block = {b1, b2, b3}
  NoBlock = NoBlock
  NoEvent = NoEvent
  IrqPoints = {"idle", "put", "undo", "get", "callback"}
  Burst = 2
  MaxAccepted = 3
INVARIANTS
  TypeOK
  ParamsOwned
  DispatchInOrder
PROPERTY
  EventuallyDispatched
