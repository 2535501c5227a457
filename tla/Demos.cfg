\* SendMayFail: allocation and queue failures lose reports too.
CONSTANTS
  MaxVisits = 3
  MaxReports = 3
  SendMayFail = TRUE
  PowerBound = 1
  BmpBound = 2
  OledBound = 1
  MpuBound = 3
  Bits = 4
  Readings = 2
  MaxResets = 1
  Levels = {1, 3}
  MaxLevel = 3
  Samples = 2
  Chunk = 2
  TempSize = 3
  BufferSize = 11
  FifoSize = 4
  MaxSentence = 8
  MaxSentences = 2
  Voltages = {7040, 6896}
  MpuReports = 2
  StartBound = 2
  Step = 256
  Coarse = 2048
  Limit = 32768
  MAX_DATA_LEN = 3
  MaxLen = 5
  CN_HMAC256_LEN = 2
  BufLengths = {4, 5, 6}
  HashBytes = {0, 9, 10, 144, 175, 255}
  LevelBits = 4
  MaxLevelArg = 7
SPECIFICATION DemosSpec
INVARIANTS DemosTypeOK LampNeedsOpenLid CloudKnowsCan BoardWakesRight ReadingsBelong
  ScaleInStep ShownIsSteady DisplayHeals AnglesPoint PinsReady BuffersFit
PROPERTIES PositionIsNew ReportsAreNews
