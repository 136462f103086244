SPECIFICATION MCSpec
CONSTANTS
  Client = {"a", "b"}
  Asker = {"x", "y"}
  Size = {0, 3}
  Terminators = {2}
  Cmdr = {"devRg", "other", "none"}
  BufLen = 5
  RestartBelow = 2
  MaxMessages = 2
  MaxPackets = 2
INVARIANTS
  TypeOK
  MutexHonest
  Framed
  OneLostPerTear
  AnswersAsker
PROPERTIES
  IdNeedsRegistration
  DiscoveryGetsTurn
  EachServed
