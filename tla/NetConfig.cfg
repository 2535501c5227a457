\* A second request may arrive before the first is through.  A stopped service
\* leaves nothing to do.
CONSTANTS
  TEST_CONNECT_RETRY_COUNT = 1
  FAST_CONNECT_RETRY_NUM = 2
  MaxRequests = 2
  MaxEvents = 2
SPECIFICATION Spec
CHECK_DEADLOCK FALSE
INVARIANTS TypeOK NewestNetwork FailureIsPatient
