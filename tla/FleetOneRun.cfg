SPECIFICATION FleetSpec
CONSTANTS
  Machine = {m1, m2}
  Assignment = {a1}
  Attempt = {t1, t2}
  Tag = {}
  RequiredTags <- MCRequiredTags
  AgentTags <- MCAgentTags
  LeaseSeconds <- MCLeaseSeconds
  Retention = 0
  Outcome = {"failed"}
  None = None
  Slots = 1
  MaxFaults = 0
  MaxExits = 1
  OnTime = TRUE
  LargeZips = FALSE
  Pruning = FALSE
  MayTear = FALSE
  Windows = FALSE
SYMMETRY MCSymmetry
INVARIANTS OnlyLeftOvertaken
