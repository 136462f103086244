SPECIFICATION MCSpec
CONSTANTS
  Data = {d1, d2}
  NoData = NoData
  QueueLen = 3
  CountMod = 5
  Block = {"b1", "b2", "b3", "b4"}
  Value = {1, 2}
  MaxAdds = 4
  Letter = {"a", "b", "c"}
  Rocks = 3
INVARIANTS
  RingInv
  SortSorts
  NoLetterMissed
PROPERTIES
  ImplementsFifo
  BreaksOnlyThere
CHECK_DEADLOCK FALSE
