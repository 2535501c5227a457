--------------------------- MODULE SmartCanProofs ---------------------------
(***************************************************************************)
(* Proofs about SmartCan: the invariants of the station, the can and the   *)
(* gyroscope, proved of each alone, survive the steps of the others.       *)
(***************************************************************************)
EXTENDS SmartCan, TLAPS

WifiP == INSTANCE WifiStaProofs
CanP  == INSTANCE TrashCanProofs
GyrP  == INSTANCE GyroProofs

----------------------------------------------------------------------------
(* The components of the composition are those the lemmas are about.       *)

\* Each instance has a Cardinality of its own.
LEMMA SameCardinality ==
  /\ \A S : Can!Cardinality(S) = CanP!Cardinality(S)
  /\ \A S : Gyr!Cardinality(S) = GyrP!Cardinality(S)
BY DEF Can!Cardinality, CanP!Cardinality, Gyr!Cardinality, GyrP!Cardinality

LEMMA SameWifi ==
  (Wifi!Next => [WifiP!Next]_(WifiP!staVars)) /\ (Wifi!Init => WifiP!Init)
BY DEF Wifi!Init, WifiP!Init, Wifi!Next, WifiP!Next, Wifi!staVars, WifiP!staVars,
  Wifi!driverVars, WifiP!driverVars, Wifi!Call, WifiP!Call,
  Wifi!WifiStaReadyWait, WifiP!WifiStaReadyWait, Wifi!InitWifi, WifiP!InitWifi,
  Wifi!StartSta, WifiP!StartSta, Wifi!RegisterCallback, WifiP!RegisterCallback,
  Wifi!FindNetif, WifiP!FindNetif, Wifi!ArmScan, WifiP!ArmScan,
  Wifi!StartScan, WifiP!StartScan, Wifi!ScanWait, WifiP!ScanWait,
  Wifi!ScanResults, WifiP!ScanResults, Wifi!StaStartConnect, WifiP!StaStartConnect,
  Wifi!WifiReady, WifiP!WifiReady, Wifi!Polls, WifiP!Polls,
  Wifi!Network, WifiP!Network, Wifi!Raise, WifiP!Raise,
  Wifi!ScanFinishes, WifiP!ScanFinishes, Wifi!Joins, WifiP!Joins,
  Wifi!Leaves, WifiP!Leaves, Wifi!WpsTimesOut, WifiP!WpsTimesOut, Wifi!Lease, WifiP!Lease,
  Wifi!WpaEventCB, WifiP!WpaEventCB, Wifi!OnScanDone, WifiP!OnScanDone,
  Wifi!OnConnected, WifiP!OnConnected, Wifi!OnDisconnected, WifiP!OnDisconnected,
  Wifi!OnDisconnected_StopDhcp, WifiP!OnDisconnected_StopDhcp,
  Wifi!OnWpsTimeout, WifiP!OnWpsTimeout

LEMMA SameCan ==
  /\ Can!CanTask \/ Can!Surroundings => CanP!CanTask \/ CanP!Surroundings
  /\ Can!Init => CanP!Init
<1>1. Can!IsSomeoneThere => CanP!IsSomeoneThere
  BY DEF Can!IsSomeoneThere, CanP!IsSomeoneThere, Can!Silent, CanP!Silent, Can!Sensors, CanP!Sensors
<1>2. Can!IsNightTime => CanP!IsNightTime
  BY DEF Can!IsNightTime, CanP!IsNightTime, Can!Silent, CanP!Silent, Can!Sensors, CanP!Sensors
<1>3. Can!TrashCanOpen => CanP!TrashCanOpen
  BY DEF Can!TrashCanOpen, CanP!TrashCanOpen, Can!Silent, CanP!Silent, Can!Sensors, CanP!Sensors
<1>4. Can!PublishPersonTime => CanP!PublishPersonTime
  BY DEF Can!PublishPersonTime, CanP!PublishPersonTime, Can!Report, CanP!Report, Can!Sensors, CanP!Sensors
<1>5. Can!IsNobodyThere => CanP!IsNobodyThere
  BY DEF Can!IsNobodyThere, CanP!IsNobodyThere, Can!Silent, CanP!Silent, Can!Sensors, CanP!Sensors
<1>6. Can!TrashCanClose => CanP!TrashCanClose
  BY DEF Can!TrashCanClose, CanP!TrashCanClose, Can!Silent, CanP!Silent, Can!Sensors, CanP!Sensors
<1>7. Can!IsTrashCanFull => CanP!IsTrashCanFull
  BY DEF Can!IsTrashCanFull, CanP!IsTrashCanFull, Can!Silent, CanP!Silent, Can!Sensors, CanP!Sensors
<1>8. Can!ReportFull => CanP!ReportFull
  BY DEF Can!ReportFull, CanP!ReportFull, Can!Report, CanP!Report, Can!Sensors, CanP!Sensors
<1>9. Can!IsTrashCanEmpty => CanP!IsTrashCanEmpty
  BY DEF Can!IsTrashCanEmpty, CanP!IsTrashCanEmpty, Can!Silent, CanP!Silent, Can!Sensors, CanP!Sensors
<1>10. Can!ReportEmpty => CanP!ReportEmpty
  BY DEF Can!ReportEmpty, CanP!ReportEmpty, Can!Report, CanP!Report, Can!Sensors, CanP!Sensors
<1>11. Can!SleepCan => CanP!SleepCan
  BY DEF Can!SleepCan, CanP!SleepCan, Can!Silent, CanP!Silent, Can!Sensors, CanP!Sensors
<1>12. Can!PersonMoves => CanP!PersonMoves
  BY DEF Can!PersonMoves, CanP!PersonMoves, Can!Silent, CanP!Silent
<1>13. Can!NightFalls => CanP!NightFalls
  BY DEF Can!NightFalls, CanP!NightFalls, Can!Silent, CanP!Silent
<1>14. Can!LevelChanges => CanP!LevelChanges
  <2>1. Can!FullReports = CanP!FullReports
    BY DEF Can!FullReports, CanP!FullReports, Can!Sent, CanP!Sent
  <2> QED BY <2>1, SameCardinality DEF Can!LevelChanges, CanP!LevelChanges, Can!Silent, CanP!Silent
<1>15. Can!Init => CanP!Init
  BY DEF Can!Init, CanP!Init
<1> QED BY <1>1, <1>2, <1>3, <1>4, <1>5, <1>6, <1>7, <1>8, <1>9, <1>10, <1>11, <1>12, <1>13, <1>14, <1>15
         DEF Can!CanTask, CanP!CanTask, Can!Surroundings, CanP!Surroundings

\* An equation between two CASE expressions is Zenon's: with it the SMT
\* backend of tlapm 1.4.5 proves too much.
LEMMA SameOperators ==
  /\ Gyr!DumpReports = GyrP!DumpReports
  /\ Gyr!Gy521_Write_Byte = GyrP!Gy521_Write_Byte
  /\ Gyr!Losses = GyrP!Losses
  /\ \A nan : Gyr!Boxes(nan) = GyrP!Boxes(nan)
  /\ \A box : Gyr!Decision(box) = GyrP!Decision(box)
<1>1. Gyr!DumpReports = GyrP!DumpReports
  BY DEF Gyr!DumpReports, GyrP!DumpReports
<1>2. Gyr!Gy521_Write_Byte = GyrP!Gy521_Write_Byte
  BY Zenon DEF Gyr!Gy521_Write_Byte, GyrP!Gy521_Write_Byte
<1>3. Gyr!Losses = GyrP!Losses
  BY Zenon DEF Gyr!Losses, GyrP!Losses
<1>4. ASSUME NEW nan PROVE Gyr!Boxes(nan) = GyrP!Boxes(nan)
  <2>1. Gyr!Cardinality(Gyr!DumpReports) = GyrP!Cardinality(GyrP!DumpReports)
    BY <1>1, SameCardinality
  <2> QED BY <2>1, Zenon DEF Gyr!Boxes, GyrP!Boxes, Gyr!Postures, GyrP!Postures
<1>5. ASSUME NEW box PROVE Gyr!Decision(box) = GyrP!Decision(box)
  BY Zenon DEF Gyr!Decision, GyrP!Decision
<1> QED BY <1>1, <1>2, <1>3, <1>4, <1>5

LEMMA SameGyro ==
  /\ Gyr!GyroTask \/ Gyr!Tilts => GyrP!GyroTask \/ GyrP!Tilts
  /\ Gyr!Init => GyrP!Init
<1>1. Gyr!InitMPU6050 => GyrP!InitMPU6050
  BY SameOperators DEF Gyr!InitMPU6050, GyrP!InitMPU6050
<1>2. Gyr!Sample => GyrP!Sample
  BY SameOperators DEF Gyr!Sample, GyrP!Sample
<1>3. Gyr!ReportDumped => GyrP!ReportDumped
  BY DEF Gyr!ReportDumped, GyrP!ReportDumped, Gyr!PublishDumped, GyrP!PublishDumped
<1>4. Gyr!ReportUpright => GyrP!ReportUpright
  BY DEF Gyr!ReportUpright, GyrP!ReportUpright, Gyr!PublishDumped, GyrP!PublishDumped
<1>5. Gyr!SleepGyro => GyrP!SleepGyro
  BY DEF Gyr!SleepGyro, GyrP!SleepGyro
<1>6. Gyr!Tilts => GyrP!Tilts
  BY SameOperators, SameCardinality DEF Gyr!Tilts, GyrP!Tilts, Gyr!Postures, GyrP!Postures
<1>7. Gyr!Init => GyrP!Init
  BY DEF Gyr!Init, GyrP!Init, Gyr!Postures, GyrP!Postures
<1> QED BY <1>1, <1>2, <1>3, <1>4, <1>5, <1>6, <1>7
         DEF Gyr!GyroTask, GyrP!GyroTask

----------------------------------------------------------------------------
(* Nothing is queued before the queue, no queue before IoTMain, and DemoEntry *)
(* calls IoTMain when the station is ready - and a ready station stays so.    *)

Up ==
  /\ queued # <<>> => queueUp
  /\ queueUp => demo = "loop"
  /\ demo # "wifi" => sta = "ready"

Inv == WifiP!StaInv /\ CanP!CanInv /\ GyrP!GyInv /\ Up

\* What the components assume of their constants.
LEMMA Bounds ==
  /\ WifiP!MaxEventsAssumption
  /\ CanP!VisitsAssumption /\ CanP!ReportsAssumption /\ CanP!SendAssumption
  /\ GyrP!DumpsAssumption /\ GyrP!SendAssumption
BY BoundsAssumption DEF WifiP!MaxEventsAssumption, CanP!VisitsAssumption,
   CanP!ReportsAssumption, CanP!SendAssumption, GyrP!DumpsAssumption, GyrP!SendAssumption

LEMMA InvInit == Init => Inv
<1> SUFFICES ASSUME Init PROVE Inv
  OBVIOUS
<1>1. WifiP!Init /\ CanP!Init /\ GyrP!Init
  BY SameWifi, SameCan, SameGyro DEF Init
<1>2. WifiP!StaInv /\ CanP!CanInv /\ GyrP!GyInv
  BY <1>1, Bounds, WifiP!StaInvInit, CanP!CanInvInit, GyrP!GyInvInit
<1>3. Up
  BY DEF Init, Up, Can!Init
<1> QED BY <1>2, <1>3 DEF Inv

\* A ready station has left hi_wifi_start_sta for good.
LEMMA ReadyStays ==
  ASSUME Wifi!Next, sta = "ready"
  PROVE  sta' = "ready"
BY DEF Wifi!Next, Wifi!staVars, Wifi!Call,
  Wifi!WifiStaReadyWait, Wifi!InitWifi, Wifi!StartSta, Wifi!RegisterCallback,
  Wifi!FindNetif, Wifi!ArmScan, Wifi!StartScan, Wifi!ScanWait, Wifi!ScanResults,
  Wifi!StaStartConnect, Wifi!WifiReady, Wifi!Polls, Wifi!Network,
  Wifi!ScanFinishes, Wifi!Joins, Wifi!Leaves, Wifi!WpsTimesOut, Wifi!Lease, Wifi!WpaEventCB

LEMMA WifiStepKeeps ==
  ASSUME Inv, WifiStep
  PROVE  Inv'
<1>1. WifiP!StaInv'
  BY SameWifi, Bounds, WifiP!StaInvNext DEF Inv, WifiStep
<1>2. wifi_status' \in {"none", "SCAN_DONE", "CONNECTED", "WPS_TIMEOUT"}
  BY <1>1 DEF WifiP!StaInv, WifiP!TypeOK
<1>3. UNCHANGED <<canVars, gyVars, queued, missed, demoVars>>
  BY DEF WifiStep
<1>4. missed \in BOOLEAN
  BY DEF Inv, GyrP!GyInv, GyrP!GyOK
<1>5. CanP!CanInv'
  BY <1>2, <1>3, <1>4, Bounds, CanP!ForeignStep DEF Inv, canVars, CanP!canVars, CanP!Statuses
<1>6. GyrP!GyInv'
  BY <1>2, <1>3, <1>4, Bounds, GyrP!GyInvForeign DEF Inv, gyVars, GyrP!gyVars
<1>7. Up'
  BY <1>3, ReadyStays DEF Inv, Up, WifiStep, demoVars
<1> QED BY <1>1, <1>5, <1>6, <1>7 DEF Inv

LEMMA CanStepKeeps ==
  ASSUME Inv, CanStep
  PROVE  Inv'
<1>1. CanP!CanTask \/ CanP!Surroundings
  BY SameCan DEF CanStep
<1>2. CanP!CanInv'
  BY <1>1, Bounds, CanP!CanInvStep DEF Inv
<1>3. /\ queued' = queued \/ \E k \in {"Person_times", "full"}, v \in Nat : CanP!Adds(k, v)
      /\ missed' \in BOOLEAN /\ (missed' \/ ~missed)
      /\ wifi_status' = wifi_status
  BY <1>1, Bounds, CanP!CanShares DEF Inv, CanP!CanInv
<1>4. UNCHANGED <<wifiVars, gyVars, demoVars>>
  BY DEF CanStep
<1>5. WifiP!StaInv'
  BY <1>3, <1>4, WifiP!StaInvUnchanged DEF Inv, wifiVars, WifiP!staVars, WifiP!driverVars
<1>6. GyrP!GyInv'
  <2>1. queued' = queued \/ \E k \in GyrP!Keys \ {"dumped"}, v \in Nat : GyrP!Adds(k, v)
    BY <1>3 DEF GyrP!Keys, GyrP!Adds, CanP!Adds
  <2>2. wifi_status \in {"none", "SCAN_DONE", "CONNECTED", "WPS_TIMEOUT"}
    BY DEF Inv, GyrP!GyInv, GyrP!GyOK
  <2> QED BY <1>3, <1>4, <2>1, <2>2, Bounds, GyrP!GyInvForeign DEF Inv, gyVars, GyrP!gyVars
<1>7. Up'
  BY <1>4 DEF Inv, Up, CanStep, IfQueued, demoVars, wifiVars
<1> QED BY <1>2, <1>5, <1>6, <1>7 DEF Inv

LEMMA GyroStepKeeps ==
  ASSUME Inv, GyroStep
  PROVE  Inv'
<1>1. GyrP!GyroTask \/ GyrP!Tilts
  BY SameGyro DEF GyroStep
<1>2. GyrP!GyInv'
  BY <1>1, Bounds, GyrP!GyInvTask DEF Inv
<1>3. /\ queued' = queued \/ GyrP!Adds("dumped", 1)
      /\ missed' \in BOOLEAN /\ (missed' \/ ~missed)
      /\ wifi_status' = wifi_status
  BY <1>1, Bounds, GyrP!TaskShares DEF Inv
<1>4. UNCHANGED <<wifiVars, canVars, demoVars>>
  BY DEF GyroStep
<1>5. WifiP!StaInv'
  BY <1>3, <1>4, WifiP!StaInvUnchanged DEF Inv, wifiVars, WifiP!staVars, WifiP!driverVars
<1>6. CanP!CanInv'
  <2>1. queued' = queued \/ \E v \in Nat : CanP!Adds("dumped", v)
    BY <1>3 DEF GyrP!Adds, CanP!Adds
  <2>2. wifi_status \in CanP!Statuses
    BY DEF Inv, CanP!CanInv, CanP!CanShape, CanP!CanOK
  <2> QED BY <1>3, <1>4, <2>1, <2>2, Bounds, CanP!ForeignStep DEF Inv, canVars, CanP!canVars
<1>7. Up'
  BY <1>4 DEF Inv, Up, GyroStep, IfQueued, demoVars, wifiVars
<1> QED BY <1>2, <1>5, <1>6, <1>7 DEF Inv

\* Steps of DemoEntry, and stuttering, are none of the other tasks'.
LEMMA ComponentsUnchanged ==
  ASSUME Inv, UNCHANGED NotDemo
  PROVE  (WifiP!StaInv /\ CanP!CanInv /\ GyrP!GyInv)'
<1>1. /\ UNCHANGED <<WifiP!staVars, CanP!canVars, GyrP!gyVars>>
      /\ UNCHANGED <<wifi_status, queued, missed>>
  BY DEF NotDemo, wifiVars, canVars, gyVars, WifiP!staVars, WifiP!driverVars,
         CanP!canVars, GyrP!gyVars
<1>2. /\ missed \in BOOLEAN /\ wifi_status \in CanP!Statuses
      /\ wifi_status \in {"none", "SCAN_DONE", "CONNECTED", "WPS_TIMEOUT"}
  BY DEF Inv, CanP!CanInv, CanP!CanShape, CanP!CanOK, GyrP!GyInv, GyrP!GyOK
<1>3. WifiP!StaInv'
  BY <1>1, WifiP!StaInvUnchanged DEF Inv
<1>4. CanP!CanInv'
  BY <1>1, <1>2, Bounds, CanP!ForeignStep DEF Inv
<1>5. GyrP!GyInv'
  BY <1>1, <1>2, Bounds, GyrP!GyInvForeign DEF Inv
<1> QED BY <1>3, <1>4, <1>5

LEMMA InvNext == Inv /\ [Next]_vars => Inv'
<1> SUFFICES ASSUME Inv, [Next]_vars PROVE Inv'
  OBVIOUS
<1>1. CASE DemoEntry \/ UNCHANGED vars
  <2>1. UNCHANGED NotDemo
    BY <1>1 DEF DemoEntry, StaIsReady, CallIoTMain, vars, NotDemo
  <2>2. UNCHANGED <<sta, queued>>
    BY <2>1 DEF NotDemo, wifiVars
  <2>3. Up'
    BY <1>1, <2>2 DEF Inv, Up, DemoEntry, StaIsReady, CallIoTMain, vars, demoVars
  <2> QED BY <2>1, <2>3, ComponentsUnchanged DEF Inv
<1> QED BY <1>1, WifiStepKeeps, CanStepKeeps, GyroStepKeeps DEF Next

\* The cloud hears from the can only after the station was joined and
\* addressed, although neither task that reports waits for it
\* (app_main.c 508-515, app_demo_iot.c).
THEOREM ReportsFollowNetwork == Spec => []ReportsNeedNetwork
<1>1. Inv => ReportsNeedNetwork
  BY DEF Inv, Up, ReportsNeedNetwork, WifiP!StaInv, WifiP!JoinsScanned
<1> QED BY <1>1, InvInit, InvNext, PTL DEF Spec

\* The reports that share one queue keep telling the truth, each about its
\* own task.
THEOREM SharedQueueTrue == Spec => []ReportsStayTrue
<1>1. Inv => ReportsStayTrue
  <2>1. Can!FullReports = CanP!FullReports /\ Can!Counts = CanP!Counts
    BY DEF Can!FullReports, CanP!FullReports, Can!Counts, CanP!Counts, Can!Sent, CanP!Sent
  <2>2. Inv => Can!CountsFollowOpenings
    BY <2>1, SameCardinality, Bounds, CanP!CanInvImplies
       DEF Inv, Can!CountsFollowOpenings, CanP!CountsFollowOpenings
  <2>3. Inv => Can!CloudKnowsLevel
    BY <2>1, SameCardinality, Bounds, CanP!CanInvImplies
       DEF Inv, Can!CloudKnowsLevel, CanP!CloudKnowsLevel
  <2>4. Inv => Gyr!FlagCountsReports
    BY SameOperators, SameCardinality
       DEF Inv, GyrP!GyInv, Gyr!FlagCountsReports, GyrP!FlagCountsReports
  <2> QED BY <2>2, <2>3, <2>4 DEF ReportsStayTrue
<1> QED BY <1>1, InvInit, InvNext, PTL DEF Spec
=============================================================================
