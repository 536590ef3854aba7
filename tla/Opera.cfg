SPECIFICATION OperaSpec
CONSTANTS
  Report = {1, 2, 3}
  Tab = {1, 2}
  Requests <- MCRequests
INVARIANTS ResultsTrue OneWriter
PROPERTIES SuccessorSurvives JobEnds
CHECK_DEADLOCK FALSE
