SPECIFICATION RecoverySpec
CONSTANTS
  j1 = j1
  j2 = j2
  j3 = j3
  k1 = k1
  k2 = k2
  NoJob = NoJob
  NoWorker = NoWorker
  NoResult = NoResult
  Job = {j1}
  Key = {k1}
  Worker = {w1, w2}
  Result = {r1}
  Request <- EffectJob
  MaxSlots = 1
  CutoverSlots = 16
  LeaseTicks = 2
  GraceTicks = 1
  HeartbeatTicks = 1
  MaxJobs = 4
  MaxTerminal = 0
  MaxTombstones = 0
  LegacyJobs = {}
  MaxApprovals = 0
  MaxCrashes = 1
INVARIANTS
  RepairedOnceReconciled
PROPERTIES
  LostLeaseIsReleased
  StartsUp
