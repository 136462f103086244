SPECIFICATION Spec
CONSTANTS
  MotorOrder <- MCMotorOrder
  Value <- MCEmptyValue
  KeyLen <- MCKeyLen
  ValueLen <- MCValueLen
  Reloaded <- MCReloaded
  NULL = NULL
  DefaultName = "x"
  gEpCfgLength = 26
INVARIANT Durable
CHECK_DEADLOCK FALSE
