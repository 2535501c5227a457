------------------------------ MODULE MCParts ------------------------------
(***************************************************************************)
(* The parts that share nothing with each other: the gyroscope's task on   *)
(* its own, the station's, the report builder, the clock and the car.  A   *)
(* behaviour picks one of them and runs it; the others keep their initial  *)
(* state.  (wifi_status is the station's and the gyroscope's.)             *)
(***************************************************************************)
EXTENDS Gyro

VARIABLES
  part,
  cjson, hooks, pc, payload, at, roots, kv, text, topic, live, keyless, printed, mixed, early,
  rtc, time, ticks, fails, pointer, rtc_data, ch, screen, steady, over, spoiled,
  sta, registered, netif, gScanDone, scanning, link, events, raised, dhcp, ip,
  g_car_speed, call, temp, pins, power, voltage, drive, alone

CONSTANTS MaxEvents, Reporters, MaxTicks, MaxFails, MAX_SPEED, MIN_SPEED, CAR_SPEED_CHANGE_VALUE, U16, U32

\* What the application reports: one service with one or two values, with and
\* without its time; two services; and command responses.
Service(kvs, eventTime) == [kvs |-> kvs, eventTime |-> eventTime]
Payloads ==
  {[kind |-> "report", services |-> <<Service(2, FALSE)>>],
   [kind |-> "report", services |-> <<Service(1, TRUE), Service(1, FALSE)>>],
   [kind |-> "resp", respName |-> TRUE, paras |-> 1],
   [kind |-> "resp", respName |-> FALSE, paras |-> 0]}

Time(year, month, date, day, hour, minute, second) ==
  [year |-> year, month |-> month, date |-> date, day |-> day,
   hour |-> hour, minute |-> minute, second |-> second]

\* The chip is about to turn the year, and to turn a minute below ten.
YearEnds == Time(29, 12, 31, 7, 23, 59, 58)
Starts == {YearEnds, Time(30, 9, 9, 3, 9, 8, 58)}
SetTime == Time(21, 3, 4, 4, 10, 40, 30)   \* app_demo_rtc.c 94-100
Others == {3}                              \* its control byte as it powers up

Wifi == INSTANCE WifiSta
Prof == INSTANCE IotProfile
Clk  == INSTANCE Rtc
Crr  == INSTANCE Car

ASSUME WifiAssumption == Wifi!MaxEventsAssumption
ASSUME ClockAssumption == Clk!BoundsAssumption
ASSUME CarAssumption == Crr!SpeedAssumption

wifiVars == <<sta, registered, netif, gScanDone, scanning, link, events, raised, dhcp, ip>>
profileVars == <<cjson, hooks, pc, payload, at, roots, kv, text, topic, live,
                 keyless, printed, mixed, early>>
clockVars == <<rtc, time, ticks, fails, pointer, rtc_data, ch, screen, steady, over, spoiled>>
carVars == <<g_car_speed, call, temp, pins, power, voltage, drive, alone>>
allVars == <<part, gyroVars, wifiVars, profileVars, clockVars, carVars>>

PartsInit ==
  /\ part \in {"gyro", "wifi", "profile", "clock", "car"}
  /\ Init /\ Wifi!Init /\ Prof!Init /\ Clk!Init /\ Crr!Init
  /\ part # "gyro" => posture = "other"
  /\ part # "clock" => time = YearEnds /\ pointer = 0
  /\ part # "car" => g_car_speed = MIN_SPEED

Only(p) == part = p /\ UNCHANGED part

GyroPart    == Only("gyro") /\ UNCHANGED <<wifiVars, profileVars, clockVars, carVars>>
WifiPart    == Only("wifi") /\ UNCHANGED <<gyVars, queued, missed, profileVars, clockVars, carVars>>
ProfilePart == Only("profile") /\ UNCHANGED <<gyroVars, wifiVars, clockVars, carVars>>
ClockPart   == Only("clock") /\ UNCHANGED <<gyroVars, wifiVars, profileVars, carVars>>
CarPart     == Only("car") /\ UNCHANGED <<gyroVars, wifiVars, profileVars, clockVars>>

PartsNext ==
  \/ GyroPart /\ Next
  \/ WifiPart /\ Wifi!Next
  \/ ProfilePart /\ Prof!Next
  \/ ClockPart /\ Clk!Next
  \/ CarPart /\ Crr!Next

PartsSpec ==
  /\ PartsInit /\ [][PartsNext]_allVars
  /\ WF_allVars(GyroPart /\ GyroTask) /\ WF_allVars(CarPart /\ Crr!BatteryTask)
  /\ WF_allVars(WifiPart /\ Wifi!WifiStaReadyWait) /\ WF_allVars(WifiPart /\ Wifi!ScanFinishes)
  /\ WF_allVars(WifiPart /\ Wifi!WpaEventCB) /\ WF_allVars(WifiPart /\ Wifi!Lease)

----------------------------------------------------------------------------
\* The types of the part that runs.
PartsTypeOK ==
  CASE part = "gyro"    -> TypeOK
    [] part = "wifi"    -> Wifi!TypeOK
    [] part = "profile" -> Prof!TypeOK
    [] part = "clock"   -> Clk!TypeOK
    [] part = "car"     -> Crr!TypeOK

\* The end of a scan is not missed, and an address does not outlive the loss of
\* its link (WifiSta).
StationInStep == part = "wifi" => Wifi!ScanNotLost /\ Wifi!AddressNeedsLink

\* If the station joins and stays, WifiStaReadyWait returns (WifiSta).
BecomesReady == part = "wifi" => Wifi!BecomesReady

\* No failed allocation loses a block, and only calls older than cJsonInit free
\* with another allocator than the one that made it (IotProfile).
MemorySafe == part = "profile" => Prof!BlocksReachable /\ Prof!FreedAsMade

\* A message that is sent has all its nodes (IotProfile).
WholeTreeSent == part = "profile" => Prof!WholeTreeSent

\* A pass without ticks or faults leaves the right time on the display (Rtc).
ClockShown == part = "clock" => Clk!ClockShown

\* No wheel's duty leaves the range of speeds, and a pattern the battery task
\* did not disturb is complete (Car).
WheelsObey == part = "car" => Crr!DutiesInRange /\ Crr!DriveIsDone

\* Low power stops the car for good (Car).
LowBatteryStops == part = "car" => Crr!LowBatteryStops
=============================================================================
