SPECIFICATION Spec
CONSTANTS
  MotorOrder <- MCMotorOrder
  Value <- MCValue
  KeyLen <- MCKeyLen
  ValueLen <- MCValueLen
  Reloaded <- MCReloaded
  NULL = NULL
  DefaultName = "x"
  gEpCfgLength = 26
INVARIANTS AreaNotOverrun PlainDurable FlagsHonest AnotherPairStays
CHECK_DEADLOCK FALSE
