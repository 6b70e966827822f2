CONSTANTS
  TopicOrder <- OneTopic
  Notice = "notice"
  MaxRevision = 2
  MaxTopicChanges = 2
  MaxNotices = 0
  MaxLoads = 0
SPECIFICATION MessagesSpec
INVARIANT EarlyMessagesAreNotOlder
CHECK_DEADLOCK FALSE
