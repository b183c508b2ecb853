SPECIFICATION Spec
CONSTANTS
  Procs = {sched, op}
  Sched = sched
  Methods = {c3, c5, v3, a1}
  c3 = c3
  c5 = c5
  v3 = v3
  a1 = a1
  h1 = h1
  Grid = {c3, c5}
  CliIds = {h1}
  Hash <- MCHash
  Score <- MCScore
  Saved <- MCSaved
  RunOptions <- MCOptions
  K = 2
  MaxCandidates = 3
  ScoredAsSeeds = FALSE
  Overlap = FALSE
  CanCrash = TRUE
  MaxCycles = 2
  MaxCommands = 2
PROPERTIES
  AdvancedStatusPreserved
CHECK_DEADLOCK FALSE
