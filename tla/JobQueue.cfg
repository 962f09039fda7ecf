SPECIFICATION Spec
CONSTANTS
  j1 = j1
  j2 = j2
  w1 = w1
  w2 = w2
  Jobs <- TwoJobs
  Workers = {w1, w2}
  NoWorker = NoWorker
  Priority <- MCPriority
  MaxAttempts <- MCMaxAttempts
  MaxJobs = 2
  ReapLimit = 1
  LeaseTTL = 2
  StartDelays = {0, 1}
  RetryDelays <- PolicyOrIllegal
  PolicyDelay <- MCPolicyDelay
  MaxLag = 1
  PostgresStore = TRUE
INVARIANTS TypeOK LeaseIsOneOpenAttempt BudgetIsKept OutcomeIsLastResult
PROPERTIES HistoryOnlyGrows ImplementsLifecycle
