SPECIFICATION FairFleetSpec
CONSTANTS
  Machine = {m1}
  Assignment = {a1}
  Attempt = {t1, t2, t3}
  Tag = {}
  RequiredTags <- MCRequiredTags
  AgentTags <- MCAgentTags
  LeaseSeconds <- MCLeaseSeconds
  Retention = 0
  Outcome = {"failed"}
  None = None
  Slots = 1
  MaxFaults = 1
  MaxExits = 1
  OnTime = TRUE
  LargeZips = FALSE
  Pruning = FALSE
  MayTear = FALSE
  Windows = FALSE
PROPERTIES Settled DrainHolds OutboxDrains
