SPECIFICATION Spec
CONSTANTS
  p1 = p1
  p2 = p2
  Pid = {p1, p2}
  Token = {"a"}
  NoLock = NoLock
  MaxFaults = 2
  Schedule <- MCSchedule
  CronTick = {1, 2}
  MaxClock = 2
  Ahead <- MCAhead
  Recent = 2
  Edit <- MCEdit
  MaxEdits = 1
  Never = Never
INVARIANTS OneInstance LedgerKept BotsDoNotClobber
CONSTRAINT RaceAlone
PROPERTIES ListCatchesUp DueJobsFire
CHECK_DEADLOCK FALSE
