SPECIFICATION MCSpec
CONSTANTS
  MaxTimers = 1
  TickMs = 100
  Interval = {100, 200}
  Kind <- MCLowPrio
  IrqPoints = {"idle", "start2", "start3", "stop2", "stop3", "pause2", "scan", "callback"}
  SelfDestroy = FALSE
  MaxExpiry = 1
  Burst = 2
PROPERTY
  ExpiryDelivered
