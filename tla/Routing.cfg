\* Two projects and engines, two edits, one prompt.
CONSTANTS
  proj1 = proj1
  proj2 = proj2
  e1 = e1
  e2 = e2
  b = b
  Project = {proj1, proj2}
  EngineId = {e1, e2}
  Installed = {e1, e2}
  None = None
  Absent = Absent
  Enabled = Enabled
  Overrides = {None, e2}
  HandWritten <- MCHandWritten
  Requests <- MCRequests
  Messages <- MCMessages
  Settings <- Base
  MaxEdits = 2
  MaxPrompts = 1
SPECIFICATION RoutingSpec
INVARIANTS RunsWhereAsked EditsSurvive
PROPERTY EditsReachRuntime
CHECK_DEADLOCK FALSE
