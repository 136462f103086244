SPECIFICATION MCSpec
CONSTANTS
  Wait = {0, 1, 2}
  FirstWait = 2
  StopDelay = 1
  Command = {"off", "on", "case1", "case2", "case3", "case4", "checkHv"}
  Reading <- MCReading
  Stored <- MCStored
  MaxBoots = 1
INVARIANTS
  HvOnlyWhileMisting
  NeverStuck
  AlertHolds
  AutoMotorsFollowState
PROPERTIES
  MistingPauses
  AutoAlertStopsDevice
  AutoOnMists
  WaitsSettle
