SPECIFICATION HomeSpec
CONSTANTS
  Process = {p1, p2, p3}
  None = None
  Slot = {s1, s2}
  File = {f1, f2}
  Junk = junk
  NoFile = NoFile
  MaxFaults = 2
INVARIANTS SerialStartsExclude JobsHaveTheirTree
PROPERTIES AcquireEnds Heals
CHECK_DEADLOCK FALSE
