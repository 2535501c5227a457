CONSTANTS
  MaxDumps = 3
  SendMayFail = TRUE
  MaxEvents = 4
  Reporters = {r1}
  MaxTicks = 2
  MaxFails = 1
  MAX_SPEED = 1
  MIN_SPEED = 2
  CAR_SPEED_CHANGE_VALUE = 1
  U16 = 3
  U32 = 6
SPECIFICATION PartsSpec
INVARIANTS PartsTypeOK FlagCountsReports StationInStep MemorySafe WholeTreeSent ClockShown WheelsObey
PROPERTIES DumpIsReported BecomesReady LowBatteryStops
