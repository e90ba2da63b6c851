SPECIFICATION Spec
CONSTANTS
  chat = chat
  topic = topic
  fork = fork
  Chat = {chat}
  Topic = {topic, fork}
  Bare = {}
  StatelessTopic = {}
  Forked = {fork}
  CronChat = {chat}
  Observed = topic
  MaxPrompts = 3
INVARIANTS SessionsStayHome FollowersFollow NewLeavesBehind
CHECK_DEADLOCK FALSE
