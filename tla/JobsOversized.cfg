SPECIFICATION FairSpec
CONSTANTS
  Job = {j1}
  Oversized = {j1}
  MaxWorkers = 1
  QueueCapacity = 1
  MaxFaults = 0
  MaxThreadFailures = 0
  MaxCancels = 0
  MaxCrashes = 0
PROPERTIES
  SlotsComeBack
