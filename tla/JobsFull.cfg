SPECIFICATION Spec
CONSTANTS
  Job = {j1, j2, j3}
  Oversized = {}
  MaxWorkers = 1
  QueueCapacity = 1
  MaxFaults = 0
  MaxThreadFailures = 0
  MaxCancels = 0
  MaxCrashes = 0
SYMMETRY JobSymmetry
INVARIANTS
  SlotsExact
