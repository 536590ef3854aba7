SPECIFICATION FolderSpec
CONSTANTS
  Shipper = {s1, s2}
  Repairer = {p1}
  Version = {1, 2}
  MaxEdits = 1
  MaxMishaps = 1
INVARIANTS ReleaseProved
PROPERTIES Immutable NeverOlder StartIsAnswered
CHECK_DEADLOCK FALSE
