SPECIFICATION Spec
CONSTANTS
  Agent = agent
  User = user
  Procs = {agent, user}
  Methods = {m1, m2}
  Hyps = {h1}
  h1 = h1
  m1 = m1
  m2 = m2
  Saved <- MCSaved
  Overlap = FALSE
  CanCrash = TRUE
  Calls <- MCCalls
  Answers <- MCAnswers
  MaxSteps = 2
  MaxToolCalls = 2
  MaxWall = 2
  LlmMax = 2
INVARIANTS
  TypeOK
  EveryCallAnswered
  TranscriptFaithful
  SucceededIsTrue
  BudgetsHold
  HeldFollowsDisk
PROPERTIES
  WorkspaceSpec
  LifecycleSpec
  ScoresSurvive
  RunEnds
CHECK_DEADLOCK FALSE
