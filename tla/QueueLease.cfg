SPECIFICATION Spec
CONSTANTS
  j1 = j1
  j2 = j2
  j3 = j3
  k1 = k1
  k2 = k2
  NoJob = NoJob
  NoWorker = NoWorker
  NoResult = NoResult
  Job = {j1, j2}
  Key = {k1, k2}
  Worker = {w1, w2}
  Result = {r1}
  Request <- LeaseJobs
  MaxSlots = 2
  CutoverSlots = 4
  LeaseTicks = 1
  GraceTicks = 0
  HeartbeatTicks = 1
  MaxJobs = 4
  MaxTerminal = 2
  MaxTombstones = 0
  LegacyJobs = {}
  MaxApprovals = 0
  MaxCrashes = 0
SYMMETRY WorkerSymmetry
INVARIANTS
  CountersExact
  LeaseConsistent
  EffectOncePerApproval
  CompletedByLatestLease
PROPERTIES
  CheckpointsAdvance
