SPECIFICATION Spec
CONSTANTS
  e1 = e1
  e2 = e2
  Executors = {e1, e2}
  Nobody = Nobody
  Challenges = 2
  ChallengeTypes = {"dns-01"}
  MaxAttempts = 2
  Temporary <- AllTemporary
  Permanent <- AllPermanent
  MaxFaults = 0
  Crashes = FALSE
  Overlap = FALSE
  StoreFaults = FALSE
  Prompt = FALSE
CHECK_DEADLOCK FALSE
SYMMETRY ExecutorSymmetry
INVARIANTS AcceptedIsDriven
