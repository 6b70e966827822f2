CONSTANTS
  TopicOrder <- TwoTopics
  Notice = "notice"
  MaxRevision = 2
  MaxTopicChanges = 3
  MaxNotices = 2
  MaxLoads = 1
SPECIFICATION FairSpec
INVARIANTS NoticesInOrderOnce
PROPERTIES ReplicaNeverGoesBack PageCatchesUp
CHECK_DEADLOCK FALSE
