CONSTANTS
  MaxEvents = 3
  MaxVisits = 1
  MaxReports = 1
  MaxDumps = 1
  SendMayFail = TRUE
SPECIFICATION Spec
PROPERTY IoTMainFirst
