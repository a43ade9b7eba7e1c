SPECIFICATION FairSpec
CONSTANTS
  Job = {j1}
  Oversized = {}
  MaxWorkers = 1
  QueueCapacity = 1
  MaxFaults = 3
  MaxThreadFailures = 0
  MaxCancels = 1
  MaxCrashes = 0
PROPERTIES
  ShutdownDrains
