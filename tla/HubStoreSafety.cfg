SPECIFICATION Spec
CONSTANTS
  Machine = {m1, m2}
  Assignment = {a1}
  Attempt = {t1, t2}
  Tag = {}
  RequiredTags <- MCTaggedFirst
  LeaseSeconds <- MCLeaseSeconds
  Retention = 0
  Outcome = {"succeeded", "failed"}
  None = None
SYMMETRY MCSymmetry
INVARIANTS TypeOK RunningIsFenced SingleResult EvidenceDurable
PROPERTIES FencedOff NoEarlyReclaim ImplementsLedger
