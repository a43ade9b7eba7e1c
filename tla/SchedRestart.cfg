SPECIFICATION FairSpec
CONSTANTS
  s1 = s1
  s2 = s2
  n1 = n1
  n2 = n2
  n3 = n3
  c1 = c1
  c2 = c2
  NoCall = NoCall
  Sched = {s1}
  Call = {n1, n2}
  Caller = {c1}
  Workers = 1
  Period = 1
  MaxClock = 2
  MaxChanges = 2
  MaxFaults = 0
  MaxThreadFailures = 1
  MaxCrashes = 1
PROPERTIES
  RunningEnds
  ShutdownDrains
