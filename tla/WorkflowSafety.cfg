SPECIFICATION Spec
CONSTANTS
  e1 = e1
  e2 = e2
  Executors = {e1, e2}
  Nobody = Nobody
  Challenges = 2
  ChallengeTypes = {"dns-01", "http-01"}
  MaxAttempts = 2
  Temporary <- AllTemporary
  Permanent <- AnyAnswer
  MaxFaults = 2
  Crashes = TRUE
  Overlap = TRUE
  StoreFaults = TRUE
  Prompt = FALSE
CHECK_DEADLOCK FALSE
SYMMETRY ExecutorSymmetry
INVARIANTS TypeOK CompletedMeansIssued IssuedMeansValid PresentedMeansPublished
PROPERTIES ImplementsCertificateLifecycle
