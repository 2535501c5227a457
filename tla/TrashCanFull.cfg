\* IotSendMsg never fails here: only the WiFi status decides.
CONSTANTS
  MaxVisits = 1
  MaxReports = 2
  SendMayFail = FALSE
SPECIFICATION FairSpec
PROPERTY FullIsReported
