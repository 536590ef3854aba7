SPECIFICATION SchedSpec
CONSTANTS
  Client = {c1}
  Hash = {h1}
  Ident = {n1}
  Schedule = {s1, s2}
  Ticker = {k1, k2}
  MaxOccasions = 2
  MaxDeaths = 1
  None = None
INVARIANTS OncePerOccasion
PROPERTIES FiresWhatIsSet IntervalsFire
CHECK_DEADLOCK FALSE
