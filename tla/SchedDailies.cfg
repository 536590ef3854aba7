SPECIFICATION SchedSpec
CONSTANTS
  Client = {c1}
  Hash = {h1}
  Ident = {n1}
  Schedule = {s1}
  Ticker = {k1}
  MaxOccasions = 2
  MaxDeaths = 0
  None = None
PROPERTIES DailiesFire
CHECK_DEADLOCK FALSE
