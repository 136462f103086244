SPECIFICATION MCSpec
CONSTANTS
  MaxTimers = 2
  TickMs = 100
  Interval = {99, 100, 250}
  Kind <- MCKind
  IrqPoints = {"idle", "start2", "start3", "stop2", "stop3", "pause2", "scan", "callback"}
  SelfDestroy = FALSE
  MaxExpiry = 1
  Burst = 2
INVARIANTS
  NoCallbackAfterStop
  NoEarlyCallback
  SlotsCounted
PROPERTY
  CoarseExpiryDelivered
