SPECIFICATION Spec
CONSTANTS
  Job = {j1, j2}
  Oversized = {}
  MaxWorkers = 2
  QueueCapacity = 1
  MaxFaults = 1
  MaxThreadFailures = 1
  MaxCancels = 1
  MaxCrashes = 1
SYMMETRY JobSymmetry
INVARIANTS
  TypeOK
  SuccessNotRewritten
  RunsOnlyRunning
  SlotsExact
  OwnedUntilDurable
PROPERTIES
  TerminalRowIsFinal
  DrainedIsQuiet
