SPECIFICATION FairSpec
CONSTANTS
  e1 = e1
  e2 = e2
  s1 = s1
  private = private
  group = group
  message = message
  GroupChat = {group}
  PrivateInterval = 1
  GroupInterval = 2
  NoChat = NoChat
  NoMessage = NoMessage
  Op <- EditsAndSend
  Key <- KeysOfOps
  KeyOf <- KeyOfOps
  Priority <- PriorityOfOps
  Interval <- IntervalOfOps
  Waited <- WaitedOps
  RetryDelay = {0, 2}
  MaxRefusals = 2
  None = None
INVARIANT NewestAppliedLast
PROPERTIES ImplementsContract PacedStarts WaitersReleased CloseCompletes
