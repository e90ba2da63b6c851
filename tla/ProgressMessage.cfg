SPECIFICATION ProgressFairSpec
CONSTANTS
  final_edit = final_edit
  final_send = final_send
  removal = removal
  edit = edit
  send = send
  delete = delete
  MaxEvents = 2
  FinalEdit = final_edit
  FinalSend = final_send
  Removal = removal
  EditKey = edit
  Op <- ProgressOps
  Key = {edit, send, delete}
  KeyOf <- KeyOfOps
  Priority <- PriorityOfOps
  Interval <- IntervalOfOps
  Waited = {final_edit, final_send, removal}
  RetryDelay = {1}
  MaxRefusals = 1
  None = None
PROPERTIES NoLateProgress ProgressCatchesUp RunEnds
CHECK_DEADLOCK FALSE
