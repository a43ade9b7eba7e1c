SPECIFICATION Spec
CONSTANTS
  j1 = j1
  j2 = j2
  j3 = j3
  j4 = j4
  k1 = k1
  k2 = k2
  NoJob = NoJob
  NoWorker = NoWorker
  NoResult = NoResult
  Job = {j1, j2, j3, j4}
  Key = {k1, k2}
  Worker = {w1}
  Result = {r1, r2}
  Request <- ContractJobs
  MaxSlots = 1
  CutoverSlots = 16
  LeaseTicks = 1
  GraceTicks = 0
  HeartbeatTicks = 1
  MaxJobs = 2
  MaxTerminal = 1
  MaxTombstones = 0
  LegacyJobs = {j3}
  MaxApprovals = 1
  MaxCrashes = 1
INVARIANTS
  TypeOK
  FenceMatchesRow
  NonIdempotentKeyOnce
  AckedOnce
PROPERTIES
  KeepsContract
