SPECIFICATION Spec
CONSTANTS
  e1 = e1
  e2 = e2
  Executors = {e1, e2}
  Nobody = Nobody
  Challenges = 2
  ChallengeTypes = {"dns-01", "http-01"}
  MaxAttempts = 3
  Temporary <- CallsOnTheWay
  Permanent <- AllPermanent
  MaxFaults = 1
  Crashes = FALSE
  Overlap = TRUE
  StoreFaults = FALSE
  Prompt = TRUE
CHECK_DEADLOCK FALSE
INVARIANT FailedMeansFlowFailed
