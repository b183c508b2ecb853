SPECIFICATION FairSpec
CONSTANTS
  Procs = {sched, op}
  Sched = sched
  Methods = {c3, c5, v3, a1}
  c3 = c3
  c5 = c5
  v3 = v3
  a1 = a1
  h1 = h1
  Grid = {c3, c5}
  CliIds = {h1}
  Hash <- MCHash
  Score <- MCScore
  Saved <- MCSaved
  RunOptions <- MCOptions
  K = 1
  MaxCandidates = 2
  ScoredAsSeeds = FALSE
  Overlap = TRUE
  CanCrash = TRUE
  MaxCycles = 2
  MaxCommands = 1
INVARIANTS
  TypeOK
  ProvenanceOnDisk
  ReportMatchesDisk
PROPERTIES
  RunsEnd
CHECK_DEADLOCK FALSE
