SPECIFICATION FairSpec
CONSTANTS
  new = new
  resumes = resumes
  other = other
  t = t
  u = u
  None = None
  Run <- Runs
  Token <- Tokens
  TokenOf <- TokenOfRuns
  Resuming = {resumes, other}
  Asking = {new}
CHECK_DEADLOCK FALSE
INVARIANTS SessionExclusive LockNotLeaked NoOrphanAgent
PROPERTIES CancelEndsAgent SessionHandedOver
