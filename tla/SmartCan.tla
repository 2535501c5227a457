------------------------------ MODULE SmartCan ------------------------------
(***************************************************************************)
(* The tasks app_main starts together (app/demo/src/app_main.c 508-515):   *)
(* DemoEntry, which joins the WiFi and then starts the MQTT pump           *)
(* (app/demo/iot_demo/app_demo_iot.c), the trash can and the gyroscope.    *)
(* (The GPS receiver has no part in it: see Gps.)                          *)
(*                                                                         *)
(* They meet in wifi_status, written by the driver's task and read by two  *)
(* others, and in the queue of IotSendMsg, which exists only once          *)
(* DemoEntry has called IoTMain.                                           *)
(***************************************************************************)
EXTENDS Integers, Sequences

CONSTANTS MaxEvents, MaxVisits, MaxReports, MaxDumps, SendMayFail

ASSUME BoundsAssumption ==
  /\ MaxEvents \in Nat /\ MaxVisits \in Nat \ {0}
  /\ MaxReports \in Nat /\ MaxDumps \in Nat /\ SendMayFail \in BOOLEAN

VARIABLES
  sta, registered, netif, gScanDone, wifi_status, scanning, link, events, raised, dhcp, ip,
  can, lid, lamp, g_num, full_flag, person, night, full,
  gy, flag_demped, posture, bus, lost,
  queued, missed,
  demo,      \* program point of DemoEntry
  queueUp    \* IoTMain created the message queue

Wifi == INSTANCE WifiSta
Can  == INSTANCE TrashCan
Gyr  == INSTANCE Gyro

wifiVars == <<sta, registered, netif, gScanDone, scanning, link, events, raised, dhcp, ip>>
canVars  == <<can, lid, lamp, g_num, full_flag, person, night, full>>
gyVars   == <<gy, flag_demped, posture, bus, lost>>
demoVars == <<demo, queueUp>>
vars == <<wifiVars, wifi_status, canVars, gyVars, queued, missed, demoVars>>

Init ==
  /\ Wifi!Init /\ Can!Init /\ Gyr!Init
  /\ demo = "wifi" /\ queueUp = FALSE

----------------------------------------------------------------------------
WifiStep ==
  /\ Wifi!Next
  /\ UNCHANGED <<canVars, gyVars, queued, missed, demoVars>>

\* IotSendMsg has nothing to put a report on before IoTMain.
IfQueued == queued' # queued => queueUp

CanStep ==
  /\ Can!CanTask \/ Can!Surroundings
  /\ IfQueued
  /\ UNCHANGED <<wifiVars, gyVars, demoVars>>

\* The bus works: what its failures do to this task is in the runs of Gyro.
GyroStep ==
  /\ Gyr!GyroTask \/ Gyr!Tilts
  /\ IfQueued
  /\ UNCHANGED <<wifiVars, canVars, demoVars>>

NotDemo == <<wifiVars, wifi_status, canVars, gyVars, queued, missed>>

\* WifiStaReadyWait has returned; cJsonInit follows.
StaIsReady ==
  /\ demo = "wifi" /\ sta = "ready"
  /\ demo' = "iotMain"
  /\ UNCHANGED <<NotDemo, queueUp>>

\* Seeded fault: the pump is started without waiting for the station.
CallIoTMain_NoWait ==
  /\ demo \in {"wifi", "iotMain"}
  /\ demo' = "loop"
  /\ queueUp' \in BOOLEAN
  /\ UNCHANGED NotDemo

\* The creation of the queue may fail; that is only logged.
CallIoTMain ==
  /\ demo = "iotMain"
  /\ demo' = "loop"
  /\ queueUp' \in BOOLEAN
  /\ UNCHANGED NotDemo

DemoEntry == StaIsReady \/ CallIoTMain

Next == WifiStep \/ CanStep \/ GyroStep \/ DemoEntry

Spec == Init /\ [][Next]_vars

----------------------------------------------------------------------------
\* The cloud hears from the can only after the station was joined and
\* addressed: the tasks that report do not wait for it themselves.
ReportsNeedNetwork == queued # <<>> => sta = "ready" /\ gScanDone

\* In the composition too, the three kinds of reports that share one queue
\* keep telling the truth, each about its own task.
ReportsStayTrue ==
  Can!CountsFollowOpenings /\ Can!CloudKnowsLevel /\ Gyr!FlagCountsReports

\* "This is the iot main function. Please call this function first"
\* (iot_main.h 15): no task reaches IotSendMsg before IoTMain has run.
Reporting ==
  /\ wifi_status = "CONNECTED"
  /\ \/ can \in {"count", "reportFull", "reportEmpty"} /\ can' # can
     \/ gy \in {"dumped", "upright"} /\ gy' # gy

IoTMainFirst == [][Reporting => demo = "loop"]_vars
=============================================================================
