SPECIFICATION FairLocalSpec
CONSTANTS
  Run = {1, 2}
  ExitCode <- MCExitCode
  Assignment = {1, 2}
  Worker = {w1, w2}
  None = None
  MaxFaults = 1
INVARIANTS OwnFolder RecordSeals RowIsEvidence NoStrayJob
PROPERTIES Concluded
CHECK_DEADLOCK FALSE
