SPECIFICATION FleetSpec
CONSTANTS
  Machine = {m1}
  Assignment = {a1}
  Attempt = {t1, t2}
  Tag = {}
  RequiredTags <- MCRequiredTags
  AgentTags <- MCAgentTags
  LeaseSeconds <- MCLeaseSeconds
  Retention = 0
  Outcome = {"failed"}
  None = None
  Slots = 1
  MaxFaults = 1
  MaxExits = 1
  OnTime = FALSE
  LargeZips = TRUE
  Pruning = TRUE
  MayTear = TRUE
  Windows = FALSE
SYMMETRY MCSymmetry
INVARIANTS SentIsAccepted
PROPERTIES DeleteAfterAccept
