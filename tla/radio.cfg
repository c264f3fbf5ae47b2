\* Two attempts; then a governor with a queue of two and a budget of three.
SPECIFICATION Spec
CONSTANTS
  None = None
  Window = 2
  Budget = 3
  MaxQueue = 2
  Cost <- Costs
  Interval = 1
  Sends = {"order", "digest", "req"}
  Horizon = 4
  Platforms <- OneOfEach
  Rejections <- Refusals
  MaxAttempts = 2
INVARIANTS DrawerTells WithinDutyCycle FailedLinksAreClosed
PROPERTIES UrgentFirst OrdersSurvive AttemptEnds
CHECK_DEADLOCK FALSE
