\* One request and the tasks of many events.  A stopped service leaves nothing
\* to do.
CONSTANTS
  TEST_CONNECT_RETRY_COUNT = 1
  FAST_CONNECT_RETRY_NUM = 2
  MaxRequests = 1
  MaxEvents = 4
SPECIFICATION FairSpec
CHECK_DEADLOCK FALSE
INVARIANT SuccessStands
PROPERTY RequestAnswered
