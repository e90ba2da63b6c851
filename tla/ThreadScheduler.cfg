SPECIFICATION FairSpec
CONSTANTS
  j1 = j1  j2 = j2  j3 = j3
  r1 = r1
  t1 = t1
  None = None
  Job = {j1, j2, j3}
  FirstRun = {r1}
  Thread = {t1}
  Tracked = {j2}
  Announcing = {r1}
  ThreadOf <- OneThread
INVARIANTS NoStrandedJob JobInOnePlace StartsAfterRunAhead
PROPERTY AcceptedJobsRun
CHECK_DEADLOCK FALSE
