\* Two contexts and engines, two topics, three commands.
CONSTANTS
  a = a
  b = b
  e1 = e1
  e2 = e2
  m = m
  l = l
  Context = {a, b}
  Engine = {e1, e2}
  Model = {m}
  Level = {l}
  DefaultEngine = e1
  ProjectEngine <- MCProjectEngine
  None = None
  MaxTopics = 2
  Requests <- MCRequests
  MaxCommands = 3
SPECIFICATION CommandsSpec
CONSTRAINT BesideHandoff
INVARIANTS LastCommandHolds NamesTellContexts
CHECK_DEADLOCK FALSE
