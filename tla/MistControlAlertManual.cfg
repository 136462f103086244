SPECIFICATION MCSpec
CONSTANTS
  Wait = {0, 1, 2}
  FirstWait = 2
  StopDelay = 1
  Command = {"on", "case2"}
  Reading <- MCReading
  Stored <- MCStored
  MaxBoots = 1
PROPERTY
  AlertStopsDevice
