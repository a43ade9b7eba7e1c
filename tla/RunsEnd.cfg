SPECIFICATION FairSpec
CONSTANTS
  r1 = r1
  r2 = r2
  q1 = q1
  q2 = q2
  h1 = h1
  Runs = {r1}
  Request = {q1, q2}
  Host = {h1}
  RunOf <- BothOfOne
  HostOf <- OneHost
  RunWorkers = 1
  Ceiling <- AllOne
  GateLimit = 2
  HostLimit = 1
  Controlled = {r1}
  MaxControls = 2
  MaxDelays = 1
  MaxFaults = 1
  MaxThreadFailures = 1
INVARIANTS
  OwnedUntilDurable
  RowShowsControl
PROPERTIES
  EndedRunIsFinal
  RunsEnd
  ShutdownCompletes
