\* The bot and a command, three updates, two faults.
CONSTANTS
  Process = {bot, cli}
  Update = {u1, u2, u3}
  Garbage = Garbage
  MaxFaults = 2
SPECIFICATION Spec
CONSTRAINT Followed
SYMMETRY Symmetry
INVARIANTS UpdatesSurvive OperationsAreFresh
