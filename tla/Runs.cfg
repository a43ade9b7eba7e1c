SPECIFICATION Spec
CONSTANTS
  r1 = r1
  r2 = r2
  q1 = q1
  q2 = q2
  h1 = h1
  Runs = {r1, r2}
  Request = {q1, q2}
  Host = {h1}
  RunOf <- OneEach
  HostOf <- OneHost
  RunWorkers = 2
  Ceiling <- AllTwo
  GateLimit = 1
  HostLimit = 1
  Controlled = {r1, r2}
  MaxControls = 1
  MaxDelays = 0
  MaxFaults = 0
  MaxThreadFailures = 1
SYMMETRY RunSymmetry
INVARIANTS
  TypeOK
  CountsExact
  FetcherClosedLast
  WaitersWait
