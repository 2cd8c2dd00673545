CONSTANTS
  a = a
  b = b
  c = c
  MaxSteps = 2
  MaxToolCalls = 3
  CallsPerStep = 2
  Plans <- MCPlans
  StepRetryLimit = 1
  ReplanLimit = 2
  HasMatcher = TRUE
SPECIFICATION Spec
INVARIANTS
  TypeOK
  AnswerIsSpoken
  AnswerCoversPlan
  DependenciesSucceeded
  NoDoublePreservation
  NothingLeftBehind
PROPERTIES
  CompletedWorkKept
  TurnEnds
CHECK_DEADLOCK FALSE
