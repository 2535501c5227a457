---------------------------- MODULE PartsProofs ----------------------------
(***************************************************************************)
(* Proofs about the parts of MCParts, each within a behaviour that picks   *)
(* it: the station's, the car's, the report builder's, the clock's; and    *)
(* the types of all of them.                                               *)
(***************************************************************************)
EXTENDS MCParts, GyroProofs, TLAPS, SequenceTheorems, FiniteSetTheorems, WellFoundedInduction

WifiP == INSTANCE WifiStaProofs

\* A behaviour runs one part to its end.
LEMMA PartsStep ==
  ASSUME [PartsNext]_allVars
  PROVE  /\ part' = part
         /\ part = "wifi" => Wifi!Next \/ UNCHANGED <<wifiVars, wifi_status>>
         /\ part = "car" => Crr!Next \/ UNCHANGED carVars
         /\ part = "profile" => Prof!Next \/ UNCHANGED profileVars
         /\ part = "clock" => Clk!Next \/ UNCHANGED clockVars
         /\ part = "gyro" => [Next]_gyroVars
<1>1. CASE UNCHANGED allVars
  BY <1>1 DEF allVars, gyroVars
<1>2. CASE PartsNext
  BY <1>2 DEF PartsNext, GyroPart, WifiPart, ProfilePart, ClockPart, CarPart, Only, gyroVars
<1> QED BY <1>1, <1>2

----------------------------------------------------------------------------
(* The station (WifiStaProofs).                                            *)

LEMMA SameWifi ==
  (Wifi!Next => [WifiP!Next]_(WifiP!staVars)) /\ (Wifi!Init => WifiP!Init)
BY DEF Wifi!Init, WifiP!Init, Wifi!Next, WifiP!Next, Wifi!staVars, WifiP!staVars,
  Wifi!driverVars, WifiP!driverVars, Wifi!Call, WifiP!Call,
  Wifi!WifiStaReadyWait, WifiP!WifiStaReadyWait, Wifi!InitWifi, WifiP!InitWifi,
  Wifi!StartSta, WifiP!StartSta, Wifi!RegisterCallback, WifiP!RegisterCallback,
  Wifi!FindNetif, WifiP!FindNetif, Wifi!ArmScan, WifiP!ArmScan,
  Wifi!StartScan, WifiP!StartScan, Wifi!ScanWait, WifiP!ScanWait,
  Wifi!ScanResults, WifiP!ScanResults, Wifi!StaStartConnect, WifiP!StaStartConnect,
  Wifi!WifiReady, WifiP!WifiReady, Wifi!Polls, WifiP!Polls,
  Wifi!Network, WifiP!Network, Wifi!Raise, WifiP!Raise,
  Wifi!ScanFinishes, WifiP!ScanFinishes, Wifi!Joins, WifiP!Joins,
  Wifi!Leaves, WifiP!Leaves, Wifi!WpsTimesOut, WifiP!WpsTimesOut, Wifi!Lease, WifiP!Lease,
  Wifi!WpaEventCB, WifiP!WpaEventCB, Wifi!OnScanDone, WifiP!OnScanDone,
  Wifi!OnConnected, WifiP!OnConnected, Wifi!OnDisconnected, WifiP!OnDisconnected,
  Wifi!OnDisconnected_StopDhcp, WifiP!OnDisconnected_StopDhcp,
  Wifi!OnWpsTimeout, WifiP!OnWpsTimeout

StationInv == part = "wifi" => WifiP!StaInv

LEMMA StationInvInit == PartsInit => StationInv
BY WifiAssumption, SameWifi, WifiP!StaInvInit
   DEF PartsInit, StationInv, Wifi!MaxEventsAssumption, WifiP!MaxEventsAssumption

LEMMA StationInvNext == StationInv /\ [PartsNext]_allVars => StationInv'
<1> USE WifiAssumption DEF Wifi!MaxEventsAssumption, WifiP!MaxEventsAssumption
<1> SUFFICES ASSUME StationInv, [PartsNext]_allVars, part' = "wifi" PROVE WifiP!StaInv'
  BY DEF StationInv
<1>1. WifiP!StaInv /\ (Wifi!Next \/ UNCHANGED <<wifiVars, wifi_status>>)
  BY PartsStep DEF StationInv
<1>2. Wifi!Next \/ UNCHANGED <<wifiVars, wifi_status>> => [WifiP!Next]_(WifiP!staVars)
  BY SameWifi DEF wifiVars, WifiP!staVars, WifiP!driverVars
<1> QED BY <1>1, <1>2, WifiP!StaInvNext

\* The end of a scan is not missed, and an address does not outlive the loss
\* of its link, for any number of events.
THEOREM StationKeepsStep == PartsSpec => []StationInStep
<1>1. StationInv => StationInStep
  BY DEF StationInv, StationInStep, WifiP!StaInv, WifiP!ScanNotLost, Wifi!ScanNotLost,
         WifiP!AddressNeedsLink, Wifi!AddressNeedsLink
<1> QED BY <1>1, StationInvInit, StationInvNext, PTL DEF PartsSpec

----------------------------------------------------------------------------
(* The car.  The battery task only stops; each task has corrected the speed *)
(* before its first pin, and the other task stores only bounds meanwhile.   *)

Calls == [op : Crr!Drives \cup Crr!Speeds \cup {"none"}, at : Crr!Points, step : 0..4]

InCall(c) ==
  /\ c.at = "idle" <=> c = Crr!Idle
  /\ c.at # "idle" => c.op # "none" /\ c.step >= 1
  /\ c.at \in {"load", "store"} => c.op \in Crr!Speeds
  /\ c.at # "pins" => c.step <= 1

CallsOK ==
  /\ call \in [Crr!Tasks -> Calls]
  /\ call["battery"].op \in {"none", "stop"}
  /\ \A t \in Crr!Tasks : InCall(call[t])

SpeedOK ==
  /\ g_car_speed \in 0..U32 - 1 /\ temp \in 0..U32 - 1
  /\ call["driver"].at = "high" => g_car_speed >= MAX_SPEED
  /\ call["driver"].at = "pins" => g_car_speed \in MAX_SPEED..MIN_SPEED

LEMMA CallsInit == Crr!Init => CallsOK
BY DEF Crr!Init, CallsOK, Calls, InCall, Crr!Idle, Crr!Tasks, Crr!Drives, Crr!Speeds, Crr!Points

\* What a step of a task makes of its own call.
LEMMA CallsStep ==
  ASSUME CallsOK, NEW t \in Crr!Tasks, Crr!CarStep(t)
  PROVE  CallsOK' /\ \A u \in Crr!Tasks \ {t} : call'[u] = call[u]
<1> USE DEF CallsOK
<1>1. CASE \E here, there : /\ Crr!Goto(t, here, there) /\ here # "pins" /\ here # "idle"
                            /\ there \in Crr!Points /\ there # "idle"
                            /\ there = "store" => here = "load"
                            /\ there # "load"
  <2>1. PICK here, there : /\ Crr!Goto(t, here, there) /\ here # "pins" /\ here # "idle"
                           /\ there \in Crr!Points /\ there # "idle"
                           /\ there = "store" => here = "load"
                           /\ there # "load"
    BY <1>1
  <2>2. /\ call' = [call EXCEPT ![t] = [call[t] EXCEPT !.at = there]]
        /\ call[t].at = here
    BY <2>1 DEF Crr!Goto
  <2>3. [call[t] EXCEPT !.at = there] \in Calls
    BY <2>1 DEF Calls
  <2>4. InCall([call[t] EXCEPT !.at = there])
    BY <2>1, <2>2 DEF InCall, Calls, Crr!Idle
  <2> QED BY <2>2, <2>3, <2>4 DEF Calls, Crr!Tasks
<1>2. CASE Crr!SpeedChanged(t)
  <2>1. Crr!Idle \in Calls /\ InCall(Crr!Idle)
    BY DEF Crr!Idle, Calls, InCall, Crr!Points, Crr!Speeds
  <2> QED BY <1>2, <2>1 DEF Crr!SpeedChanged, Crr!Tasks, Crr!Idle
<1>3. CASE Crr!SetPin(t)
  <2> DEFINE c == IF call[t].step = 4 THEN Crr!Idle ELSE [call[t] EXCEPT !.step = call[t].step + 1]
  <2>1. call' = [call EXCEPT ![t] = c] /\ call[t].at = "pins" /\ call[t].op \in Crr!Drives
    BY <1>3 DEF Crr!SetPin
  <2>2. call[t].step \in 1..4
    BY <2>1 DEF Calls, InCall
  <2>3. c \in Calls /\ c.op \in {call[t].op, "none"}
    BY <2>2 DEF Crr!Idle, Calls, Crr!Points
  <2>4. InCall(c)
    BY <2>1, <2>2 DEF Crr!Idle, Calls, InCall, Crr!Speeds
  <2> HIDE DEF c
  <2> QED BY <2>1, <2>3, <2>4 DEF Crr!Tasks
<1> QED BY <1>1, <1>2, <1>3 DEF Crr!CarStep, Crr!LoadSpeed, Crr!StoreSpeed, Crr!CorrectLow,
     Crr!StoreMax, Crr!CorrectHigh, Crr!StoreMin, Crr!Points

LEMMA SpeedStep ==
  ASSUME CallsOK, SpeedOK, NEW t \in Crr!Tasks, Crr!CarStep(t)
  PROVE  SpeedOK'
<1> USE CarAssumption DEF CallsOK, SpeedOK, Crr!SpeedAssumption, Crr!Goto, Crr!Tasks
<1>1. CallsOK' /\ \A u \in Crr!Tasks \ {t} : call'[u] = call[u]
  BY CallsStep
<1>2. /\ MAX_SPEED \in 0..U32 - 1 /\ MIN_SPEED \in 0..U32 - 1 /\ U32 \in Nat \ {0}
      /\ MAX_SPEED <= MIN_SPEED
  OBVIOUS
<1>3. call[t] \in Calls /\ InCall(call[t]) /\ (t = "battery" => call[t].op \notin Crr!Speeds)
  BY DEF Crr!Speeds
<1>4. CASE Crr!LoadSpeed(t)
  <2>1. temp' \in 0..U32 - 1
    BY <1>2, <1>4 DEF Crr!LoadSpeed
  <2>2. UNCHANGED g_car_speed /\ call'[t].at = "store"
    BY <1>3, <1>4 DEF Crr!LoadSpeed, Calls
  <2> QED BY <1>1, <2>1, <2>2
<1>5. CASE Crr!StoreSpeed(t)
  <2>1. t = "driver" /\ call'[t].at = "low"
    BY <1>3, <1>5 DEF Crr!StoreSpeed, Calls, InCall
  <2>2. temp' = 0 /\ g_car_speed' \in 0..U32 - 1
    BY <1>5 DEF Crr!StoreSpeed
  <2> QED BY <1>2, <2>1, <2>2
<1>6. CASE Crr!CorrectLow(t)
  <2>1. /\ UNCHANGED <<g_car_speed, temp>>
        /\ call'[t].at = IF g_car_speed < MAX_SPEED THEN "max" ELSE "high"
    BY <1>3, <1>6 DEF Crr!CorrectLow, Calls
  <2> QED BY <1>1, <1>2, <2>1
<1>7. CASE Crr!StoreMax(t)
  <2>1. temp' = temp /\ g_car_speed' = MAX_SPEED /\ call'[t].at = "high"
    BY <1>3, <1>7 DEF Crr!StoreMax, Calls
  <2> QED BY <1>1, <1>2, <2>1
<1>8. CASE Crr!CorrectHigh(t)
  <2>1. /\ UNCHANGED <<g_car_speed, temp>> /\ call[t].at = "high"
        /\ call'[t].at = IF g_car_speed > MIN_SPEED THEN "min" ELSE "pins"
    BY <1>3, <1>8 DEF Crr!CorrectHigh, Calls
  <2> QED BY <1>1, <1>2, <2>1
<1>9. CASE Crr!StoreMin(t)
  <2>1. temp' = temp /\ g_car_speed' = MIN_SPEED /\ call'[t].at = "pins"
    BY <1>3, <1>9 DEF Crr!StoreMin, Calls
  <2> QED BY <1>1, <1>2, <2>1
<1>10. CASE Crr!SpeedChanged(t) \/ Crr!SetPin(t)
  <2>1. /\ UNCHANGED <<g_car_speed, temp>> /\ call[t].at = "pins"
        /\ call'[t].at \in {"pins", "idle"}
    BY <1>3, <1>10 DEF Crr!SpeedChanged, Crr!SetPin, Calls, Crr!Idle
  <2> QED BY <1>1, <1>2, <2>1
<1> QED BY <1>4, <1>5, <1>6, <1>7, <1>8, <1>9, <1>10 DEF Crr!CarStep

\* Every pattern sets the same four pins, in the same order.
PinAt(n) == <<0, 1, 9, 10>>[n]

LEMMA PatternSets ==
  ASSUME NEW op \in Crr!Drives, NEW n \in 1..4
  PROVE  LET s == Crr!Pattern(op)[n]
         IN /\ s[1] = PinAt(n) /\ s[1] \in Crr!Pins
            /\ \/ s[2] = "gpio" /\ s[3] \in {0, 1}
               \/ s[2] = "pwm" /\ s[3] \in {Crr!PWM_DUTY_STOP, Crr!PWM_DUTY_LEFT_RIGHT}
               \/ s[2] = "pwm" /\ s[3] = Crr!Speed /\ op \in {"forward", "back"}
<1> USE DEF Crr!Pattern, Crr!Gpio, Crr!Pwm, PinAt, Crr!Pins
<1>1. n = 1 \/ n = 2 \/ n = 3 \/ n = 4
  OBVIOUS
<1>2. CASE op = "forward"
  BY <1>1, <1>2
<1>3. CASE op = "stop"
  BY <1>1, <1>3
<1>4. CASE op = "left"
  BY <1>1, <1>4
<1>5. CASE op = "back"
  BY <1>1, <1>5
<1>6. CASE op = "right"
  BY <1>1, <1>6
<1> QED BY <1>2, <1>3, <1>4, <1>5, <1>6 DEF Crr!Drives

PinsOK == pins \in [Crr!Pins -> Crr!Outputs] /\ Crr!DutiesInRange

\* What SetPin makes of its pin.
SetsPin(op, n) ==
  LET s == Crr!Pattern(op)[n]
  IN pins' = [pins EXCEPT ![PinAt(n)] =
                 <<s[2], IF s[3] = Crr!Speed THEN g_car_speed % U16 ELSE s[3]>>]

LEMMA SetPinSets ==
  ASSUME CallsOK, NEW t \in Crr!Tasks, Crr!SetPin(t)
  PROVE  /\ call[t].at = "pins" /\ call[t].op \in Crr!Drives /\ call[t].step \in 1..4
         /\ SetsPin(call[t].op, call[t].step)
         /\ call'[t] = IF call[t].step = 4 THEN Crr!Idle
                                           ELSE [call[t] EXCEPT !.step = call[t].step + 1]
<1>1. /\ call[t].at = "pins" /\ call[t].op \in Crr!Drives /\ call[t].step \in 1..4
      /\ call'[t] = IF call[t].step = 4 THEN Crr!Idle
                                        ELSE [call[t] EXCEPT !.step = call[t].step + 1]
  BY DEF Crr!SetPin, CallsOK, InCall, Calls
<1>2. SetsPin(call[t].op, call[t].step)
  <2>1. Crr!Pattern(call[t].op)[call[t].step][1] = PinAt(call[t].step)
    BY <1>1, PatternSets
  <2> QED BY <2>1, Zenon DEF Crr!SetPin, SetsPin
<1> QED BY <1>1, <1>2

\* A speed in range loses nothing as a duty of fewer bits.
LEMMA DutyFits ==
  ASSUME NEW duty \in Nat, NEW limit \in Nat, duty < limit
  PROVE  duty % limit = duty
OBVIOUS

LEMMA PinsSet ==
  ASSUME CallsOK, SpeedOK, PinsOK, NEW t \in Crr!Tasks, Crr!SetPin(t)
  PROVE  PinsOK'
<1> DEFINE op == call[t].op
           n == call[t].step
           s == Crr!Pattern(op)[n]
           duty == IF s[3] = Crr!Speed THEN g_car_speed % U16 ELSE s[3]
<1>1. /\ op \in Crr!Drives /\ n \in 1..4
      /\ pins' = [pins EXCEPT ![PinAt(n)] = <<s[2], duty>>]
  BY SetPinSets DEF SetsPin
<1>2. op \in {"forward", "back"} => t = "driver" /\ g_car_speed % U16 \in MAX_SPEED..MIN_SPEED
  <2>1. op \in {"forward", "back"} => t = "driver" /\ g_car_speed \in MAX_SPEED..MIN_SPEED
    BY SetPinSets DEF CallsOK, SpeedOK, Crr!Tasks
  <2>2. /\ MAX_SPEED \in Nat /\ MIN_SPEED \in Nat /\ U16 \in Nat /\ MIN_SPEED < U16
    BY CarAssumption DEF Crr!SpeedAssumption
  <2>3. g_car_speed \in MAX_SPEED..MIN_SPEED => g_car_speed % U16 = g_car_speed
    BY <2>2, DutyFits
  <2> QED BY <2>1, <2>3
<1>3. /\ PinAt(n) \in Crr!Pins
      /\ \/ s[2] = "gpio" /\ s[3] \in {0, 1}
         \/ s[2] = "pwm" /\ s[3] \in {U32, U32 + 1}
         \/ s[2] = "pwm" /\ s[3] = U32 + 2 /\ op \in {"forward", "back"}
  BY <1>1, PatternSets DEF Crr!PWM_DUTY_STOP, Crr!PWM_DUTY_LEFT_RIGHT, Crr!Speed
<1> HIDE DEF s, op, n
<1>4. U32 \in Nat /\ MAX_SPEED \in Nat /\ MIN_SPEED \in Nat /\ MIN_SPEED < U32
  BY CarAssumption DEF Crr!SpeedAssumption
<1>5. \/ s[2] = "gpio" /\ duty \in {0, 1}
      \/ s[2] = "pwm" /\ duty \in {U32, U32 + 1}
      \/ s[2] = "pwm" /\ duty \in MAX_SPEED..MIN_SPEED
  BY <1>2, <1>3, <1>4 DEF Crr!Speed
<1> HIDE DEF duty
<1>6. <<s[2], duty>> \in Crr!Outputs
  BY <1>4, <1>5 DEF Crr!Outputs, Crr!PWM_DUTY_STOP, Crr!PWM_DUTY_LEFT_RIGHT
<1>7. s[2] = "pwm" /\ duty < U32 => duty \in MAX_SPEED..MIN_SPEED
  BY <1>4, <1>5
<1> QED BY <1>1, <1>3, <1>6, <1>7 DEF PinsOK, Crr!DutiesInRange

\* The pattern the driver asked for, as far as it is set, while the battery
\* task keeps off.
IsSet(op, n) ==
  LET s == Crr!Pattern(op)[n]
  IN /\ pins[PinAt(n)][1] = s[2]
     /\ s[2] = "gpio" => pins[PinAt(n)][2] = s[3]

DriveOK ==
  /\ drive \in Crr!Drives \cup {"none"} /\ alone \in BOOLEAN
  /\ alone => call["battery"] = Crr!Idle
  /\ call["driver"].op \in Crr!Drives => call["driver"].op = drive
  /\ alone /\ drive # "none" =>
       \A n \in 1..4 :
         (call["driver"].op \in Crr!Drives => n < call["driver"].step) => IsSet(drive, n)

CarInv ==
  /\ CallsOK /\ SpeedOK /\ PinsOK /\ DriveOK
  /\ power \in {"oled_init", "measure", "car_stop", "sleep"} /\ voltage \in {"low", "other"}

LEMMA DrivesOn ==
  ASSUME CarInv, Crr!CarStep("driver")
  PROVE  DriveOK'
<1> USE DEF CarInv, DriveOK, CallsOK
<1>1. CallsOK' /\ call'["battery"] = call["battery"] /\ UNCHANGED <<drive, alone>>
  BY CallsStep DEF Crr!Tasks, Crr!CarStep, Crr!driveVars
<1>2. call["driver"] \in Calls /\ InCall(call["driver"]) /\ "none" \notin Crr!Drives
  BY DEF Crr!Tasks, Crr!Drives
<1>3. CASE Crr!SetPin("driver")
  <2>0. PICK m \in 1..4 : m = call["driver"].step
    BY <1>3, SetPinSets DEF Crr!Tasks
  <2>1. /\ call["driver"].op = drive /\ drive \in Crr!Drives
        /\ SetsPin(drive, m)
        /\ call'["driver"] = IF m = 4 THEN Crr!Idle ELSE [call["driver"] EXCEPT !.step = m + 1]
    BY <1>3, <2>0, SetPinSets DEF Crr!Tasks
  <2>2. call'["driver"].op \in Crr!Drives => call'["driver"].op = drive /\ call'["driver"].step = m + 1 /\ m # 4
    BY <1>2, <2>1 DEF Calls, Crr!Idle
  <2>3. ASSUME NEW n \in 1..4, n # m, IsSet(drive, n) PROVE IsSet(drive, n)'
    <3>1. PinAt(n) # PinAt(m)
      BY <2>1, <2>3 DEF PinAt
    <3>2. pins'[PinAt(n)] = pins[PinAt(n)]
      BY <2>1, <3>1, <2>3 DEF SetsPin, PinsOK, Crr!Pins, PinAt
    <3> QED BY <1>1, <2>3, <3>2 DEF IsSet
  <2>4. IsSet(drive, m)'
    <3>1. PinAt(m) \in Crr!Pins
      BY <2>1, PatternSets
    <3>2. pins'[PinAt(m)] = <<Crr!Pattern(drive)[m][2], IF Crr!Pattern(drive)[m][3] = Crr!Speed
                                  THEN g_car_speed % U16 ELSE Crr!Pattern(drive)[m][3]>>
      BY <2>1, <3>1 DEF SetsPin, PinsOK
    <3>3. Crr!Pattern(drive)[m][2] = "gpio" => Crr!Pattern(drive)[m][3] # Crr!Speed
      <4>1. U32 \in Nat
        BY CarAssumption DEF Crr!SpeedAssumption
      <4> QED BY <2>1, <4>1, PatternSets DEF Crr!Speed
    <3> QED BY <1>1, <3>2, <3>3 DEF IsSet
  <2>5. ASSUME alone, NEW n \in 1..4,
               call'["driver"].op \in Crr!Drives => n < call'["driver"].step
        PROVE  IsSet(drive, n)'
    <3>1. n = m \/ (n # m /\ IsSet(drive, n))
      <4>1. CASE n < m
        BY <1>2, <2>0, <2>1, <2>5, <4>1
      <4>2. CASE n > m
        BY <2>0, <2>1, <2>2, <2>5, <4>2 DEF Crr!Idle, Crr!Drives, Calls
      <4> QED BY <4>1, <4>2
    <3> QED BY <3>1, <2>3, <2>4
  <2> QED BY <1>1, <2>0, <2>1, <2>2, <2>5
<1>4. CASE ~Crr!SetPin("driver")
  <2>1. pins' = pins
    BY <1>4 DEF Crr!CarStep, Crr!LoadSpeed, Crr!StoreSpeed, Crr!CorrectLow, Crr!StoreMax,
      Crr!CorrectHigh, Crr!StoreMin, Crr!SpeedChanged
  <2>2. \A n \in 1..4 : IsSet(drive, n)' <=> IsSet(drive, n)
    BY <1>1, <2>1 DEF IsSet
  <2>3. \/ /\ call'["driver"].op = call["driver"].op
           /\ call'["driver"].step = call["driver"].step
        \/ call'["driver"].op = "none" /\ call["driver"].op \notin Crr!Drives
    BY <1>2, <1>4 DEF Crr!CarStep, Crr!LoadSpeed, Crr!StoreSpeed, Crr!CorrectLow, Crr!StoreMax,
      Crr!CorrectHigh, Crr!StoreMin, Crr!SpeedChanged, Crr!Goto, Crr!Idle, Crr!Tasks, Calls,
      Crr!Drives, Crr!Speeds
  <2> QED BY <1>1, <1>2, <2>2, <2>3
<1> QED BY <1>3, <1>4

LEMMA CarInvInit == Crr!Init => CarInv
<1> SUFFICES ASSUME Crr!Init PROVE CarInv
  OBVIOUS
<1>1. CallsOK
  BY CallsInit
<1>2. SpeedOK
  <2>1. U32 \in Nat /\ MIN_SPEED \in Nat /\ MIN_SPEED < U32
    BY CarAssumption DEF Crr!SpeedAssumption
  <2> QED BY <2>1 DEF Crr!Init, SpeedOK, Crr!Tasks, Crr!Idle
<1>3. PinsOK
  BY DEF Crr!Init, PinsOK, Crr!Outputs, Crr!DutiesInRange
<1>4. DriveOK
  BY DEF Crr!Init, DriveOK, Crr!Tasks, Crr!Idle, Crr!Drives
<1> QED BY <1>1, <1>2, <1>3, <1>4 DEF CarInv, Crr!Init

LEMMA CarStepKeeps ==
  ASSUME CarInv, NEW t \in Crr!Tasks, Crr!CarStep(t)
  PROVE  CarInv'
<1>1. CallsOK' /\ SpeedOK'
  BY CallsStep, SpeedStep DEF CarInv
<1>2. PinsOK'
  <2>1. CASE Crr!SetPin(t)
    BY <2>1, PinsSet DEF CarInv
  <2>2. CASE ~Crr!SetPin(t)
    BY <2>2 DEF CarInv, PinsOK, Crr!DutiesInRange, Crr!CarStep, Crr!LoadSpeed, Crr!StoreSpeed,
      Crr!CorrectLow, Crr!StoreMax, Crr!CorrectHigh, Crr!StoreMin, Crr!SpeedChanged
  <2> QED BY <2>1, <2>2
<1>3. DriveOK'
  <2>1. CASE t = "driver"
    BY <2>1, DrivesOn
  <2>2. CASE t = "battery"
    <3>1. call["battery"].at # "idle"
      BY <2>2 DEF Crr!CarStep, Crr!LoadSpeed, Crr!StoreSpeed, Crr!CorrectLow, Crr!StoreMax,
        Crr!CorrectHigh, Crr!StoreMin, Crr!SpeedChanged, Crr!SetPin, Crr!Goto
    <3>2. ~alone /\ UNCHANGED <<drive, alone>> /\ call'["driver"] = call["driver"]
      BY <2>2, <3>1, CallsStep DEF CarInv, DriveOK, Crr!CarStep, Crr!driveVars, Crr!Tasks, Crr!Idle
    <3> QED BY <3>2 DEF CarInv, DriveOK
  <2> QED BY <2>1, <2>2 DEF Crr!Tasks
<1> QED BY <1>1, <1>2, <1>3 DEF CarInv, Crr!CarStep, Crr!powerVars

\* A task begins a call; the other one's, the speed and the pins stay.
LEMMA EnterCalls ==
  ASSUME CallsOK, NEW t \in Crr!Tasks, NEW op \in Crr!Drives \cup Crr!Speeds, Crr!Enter(t, op),
         t = "battery" => op = "stop"
  PROVE  /\ CallsOK' /\ \A u \in Crr!Tasks \ {t} : call'[u] = call[u]
         /\ call'[t].op = op /\ call'[t].at \in {"load", "low"} /\ call'[t].step = 1
<1> DEFINE c == [op |-> op, at |-> IF op \in Crr!Speeds THEN "load" ELSE "low", step |-> 1]
<1>1. call' = [call EXCEPT ![t] = c]
  BY DEF Crr!Enter
<1>2. c \in Calls /\ InCall(c) /\ c.op = op /\ c.at \in {"load", "low"} /\ c.step = 1
  BY DEF Calls, InCall, Crr!Idle, Crr!Points, Crr!Drives, Crr!Speeds
<1> HIDE DEF c
<1> QED BY <1>1, <1>2 DEF CallsOK, Crr!Tasks

LEMMA CarInvNext ==
  ASSUME CarInv, Crr!Next \/ UNCHANGED carVars
  PROVE  CarInv'
<1> USE DEF CarInv
<1>1. ASSUME NEW op \in Crr!Drives \cup Crr!Speeds, Crr!Drive(op) PROVE CarInv'
  <2>1. /\ CallsOK' /\ call'["battery"] = call["battery"]
        /\ call["driver"] = Crr!Idle
        /\ call'["driver"].op = op /\ call'["driver"].at \in {"load", "low"}
        /\ call'["driver"].step = 1
    BY <1>1, EnterCalls DEF Crr!Drive, Crr!Tasks
  <2>2. UNCHANGED <<g_car_speed, temp, pins, power, voltage>>
    BY <1>1 DEF Crr!Drive, Crr!powerVars
  <2>3. SpeedOK' /\ PinsOK'
    BY <2>1, <2>2 DEF SpeedOK, PinsOK, Crr!DutiesInRange
  <2>4. CASE op \in Crr!Drives
    <3>1. drive' = op /\ alone' = (call["battery"] = Crr!Idle)
      BY <1>1, <2>4 DEF Crr!Drive
    <3>2. \A n \in 1..4 : ~(n < 1)
      OBVIOUS
    <3> QED BY <2>1, <2>2, <2>3, <2>4, <3>1, <3>2 DEF DriveOK
  <2>5. CASE op \notin Crr!Drives
    <3>1. UNCHANGED <<drive, alone>>
      BY <1>1, <2>5 DEF Crr!Drive, Crr!driveVars
    <3>2. call["driver"].op = "none" /\ "none" \notin Crr!Drives
      BY <2>1 DEF Crr!Idle, Crr!Drives
    <3>3. DriveOK'
      BY <2>1, <2>2, <2>5, <3>1, <3>2 DEF DriveOK, IsSet
    <3> QED BY <2>1, <2>2, <2>3, <3>3
  <2> QED BY <2>4, <2>5
<1>2. CASE Crr!power_writeread
  <2>1. UNCHANGED <<g_car_speed, temp, pins, voltage, drive>> /\ power' \in {"car_stop", "sleep"}
    BY <1>2 DEF Crr!power_writeread
  <2>2. CASE voltage = "low"
    <3>1. CallsOK' /\ call'["driver"] = call["driver"] /\ alone' = FALSE
      BY <1>2, <2>2, EnterCalls DEF Crr!power_writeread, Crr!Tasks, Crr!Drives
    <3>2. SpeedOK' /\ PinsOK' /\ DriveOK'
      BY <2>1, <3>1 DEF SpeedOK, PinsOK, Crr!DutiesInRange, DriveOK
    <3> QED BY <2>1, <3>1, <3>2
  <2>3. CASE voltage # "low"
    <3>1. UNCHANGED <<call, alone>>
      BY <1>2, <2>3 DEF Crr!power_writeread
    <3> QED BY <2>1, <3>1 DEF CallsOK, SpeedOK, PinsOK, Crr!DutiesInRange, DriveOK, IsSet
  <2> QED BY <2>2, <2>3
<1>3. CASE Crr!oled_init \/ Crr!CarStopReturns \/ Crr!SleepPower \/ Crr!VoltageChanges
           \/ UNCHANGED carVars
  <2>1. /\ UNCHANGED <<g_car_speed, call, temp, pins, drive, alone>>
        /\ power' \in {"oled_init", "measure", "car_stop", "sleep"} /\ voltage' \in {"low", "other"}
    BY <1>3 DEF Crr!oled_init, Crr!CarStopReturns, Crr!SleepPower, Crr!VoltageChanges,
      Crr!carVars, Crr!driveVars, carVars
  <2> QED BY <2>1 DEF CallsOK, SpeedOK, PinsOK, Crr!DutiesInRange, DriveOK, IsSet
<1> QED BY <1>1, <1>2, <1>3, CarStepKeeps DEF Crr!Next, Crr!BatteryTask, Crr!Tasks

\* The driver's pattern is complete when its function returns.
LEMMA DriveEnds ==
  ASSUME CarInv
  PROVE  Crr!DriveIsDone
<1> SUFFICES ASSUME call["driver"] = Crr!Idle, drive # "none", alone
             PROVE  CASE drive = "forward" -> Crr!Runs(0, 1) /\ Crr!Runs(9, 10)
                      [] drive = "stop"    -> Crr!Stands(0, 1) /\ Crr!Stands(9, 10)
                      [] drive = "left"    -> Crr!Runs(0, 1) /\ Crr!Stands(9, 10)
                      [] drive = "back"    -> Crr!Backs(0, 1) /\ Crr!Backs(9, 10)
                      [] drive = "right"   -> Crr!Stands(0, 1) /\ Crr!Runs(9, 10)
  BY DEF Crr!DriveIsDone
<1>1. drive \in Crr!Drives /\ IsSet(drive, 1) /\ IsSet(drive, 2) /\ IsSet(drive, 3) /\ IsSet(drive, 4)
  BY DEF CarInv, DriveOK, Crr!Idle, Crr!Drives
<1>2. /\ pins[0] = <<pins[0][1], pins[0][2]>> /\ pins[1] = <<pins[1][1], pins[1][2]>>
      /\ pins[9] = <<pins[9][1], pins[9][2]>> /\ pins[10] = <<pins[10][1], pins[10][2]>>
  BY DEF CarInv, PinsOK, Crr!Pins, Crr!Outputs
<1> USE DEF IsSet, PinAt, Crr!Pattern, Crr!Gpio, Crr!Pwm, Crr!Runs, Crr!Stands, Crr!Backs
<1>3. CASE drive = "forward"
  BY <1>1, <1>2, <1>3
<1>4. CASE drive = "stop"
  BY <1>1, <1>2, <1>4
<1>5. CASE drive = "left"
  BY <1>1, <1>2, <1>5
<1>6. CASE drive = "back"
  BY <1>1, <1>2, <1>6
<1>7. CASE drive = "right"
  BY <1>1, <1>2, <1>7
<1> QED BY <1>1, <1>3, <1>4, <1>5, <1>6, <1>7 DEF Crr!Drives

\* No wheel gets a duty out of range, although two tasks read and write the
\* speed without a lock, and a pattern the battery task left alone is complete
\* (car_control.c).
THEOREM WheelsAlwaysObey == PartsSpec => []WheelsObey
<1> DEFINE PartInv == part = "car" => CarInv
<1>1. PartsInit => PartInv
  BY CarInvInit DEF PartsInit
<1>2. PartInv /\ [PartsNext]_allVars => PartInv'
  BY PartsStep, CarInvNext
<1>3. PartInv => WheelsObey
  BY DriveEnds DEF WheelsObey, CarInv, PinsOK
<1> QED BY <1>1, <1>2, <1>3, PTL DEF PartsSpec

----------------------------------------------------------------------------
(* The report builder.  What a payload asks of cJSON is a walk through     *)
(* nested roots; a call stands somewhere on it.                            *)

\* Every nonempty set of natural numbers has a least one.
LEMMA LeastNat ==
  ASSUME NEW T \in SUBSET Nat, T # {}
  PROVE  \E n \in T : \A m \in T : n <= m
<1>1. PICK n \in T : \A m \in T : ~ (<<m, n>> \in OpToRel(<, Nat))
  BY NatLessThanWellFounded, WFMin
<1>2. \A m \in T : <<m, n>> \in Nat \X Nat
  OBVIOUS
<1>3. \A m \in T : ~(m < n)
  BY <1>1, <1>2 DEF OpToRel
<1> QED BY <1>3

\* A table whose rows follow from the row before.
Table(f, N, S, first, step) ==
  /\ f \in [0..N -> S]
  /\ f[0] = first
  /\ \A n \in 1..N : f[n] = step[n][f[n - 1]]

LEMMA TableExists ==
  ASSUME NEW N \in Nat, NEW S, NEW first \in S, NEW step \in [1..N -> [S -> S]]
  PROVE  \E f : Table(f, N, S, first, step)
<1> DEFINE Missing == {n \in 0..N : \A f : ~Table(f, n, S, first, step)}
<1> SUFFICES ASSUME Missing # {} PROVE FALSE
  OBVIOUS
<1>0. Missing \in SUBSET Nat
  OBVIOUS
<1>1. PICK n \in Missing : \A m \in Missing : n <= m
  <2> HIDE DEF Missing
  <2> QED BY <1>0, LeastNat
<1>2. n \in 0..N /\ \A f : ~Table(f, n, S, first, step)
  OBVIOUS
<1>3. n # 0
  <2> DEFINE f == [m \in 0..0 |-> first]
  <2>1. f \in [0..0 -> S] /\ f[0] = first
    OBVIOUS
  <2> HIDE DEF f
  <2>2. \A m \in 1..0 : FALSE
    OBVIOUS
  <2>3. Table(f, 0, S, first, step)
    BY <2>1, <2>2 DEF Table
  <2> QED BY <1>2, <2>3
<1>4. n - 1 \in 0..N /\ n - 1 \notin Missing
  BY <1>1, <1>2, <1>3
<1>5. PICK f : Table(f, n - 1, S, first, step)
  BY <1>4
<1> HIDE DEF Missing
<1> DEFINE g == [m \in 0..n |-> IF m = n THEN step[n][f[n - 1]] ELSE f[m]]
<1>6. f \in [0..n - 1 -> S] /\ f[0] = first /\ \A m \in 1..n - 1 : f[m] = step[m][f[m - 1]]
  BY <1>5 DEF Table
<1>7. n \in Nat /\ n - 1 \in Nat /\ n \in 1..N
  BY <1>2, <1>3
<1>8. step[n][f[n - 1]] \in S
  <2>1. f[n - 1] \in S
    BY <1>6, <1>7
  <2> QED BY <1>7, <2>1
<1>9. g \in [0..n -> S] /\ g[0] = first
  <2>1. \A m \in 0..n : m # n => m \in 0..n - 1
    BY <1>7
  <2> QED BY <1>3, <1>6, <1>7, <1>8, <2>1
<1>10. ASSUME NEW m \in 1..n PROVE g[m] = step[m][g[m - 1]]
  <2>1. m \in 0..n /\ m - 1 \in 0..n /\ m - 1 # n
    BY <1>7
  <2>2. g[m - 1] = f[m - 1]
    BY <2>1
  <2>3. CASE m = n
    BY <2>1, <2>2, <2>3
  <2>4. CASE m # n
    <3>1. m \in 1..n - 1
      BY <1>7, <2>4
    <3> QED BY <1>6, <2>1, <2>2, <2>4, <3>1
  <2> QED BY <2>3, <2>4
<1> HIDE DEF g
<1>11. ~Table(g, n, S, first, step)
  BY <1>2
<1> QED BY <1>9, <1>10, <1>11 DEF Table

LEMMA TableUnique ==
  ASSUME NEW N \in Nat, NEW f, NEW g, f[0] = g[0],
         \A n \in 1..N : f[n - 1] = g[n - 1] => f[n] = g[n]
  PROVE  \A n \in 0..N : f[n] = g[n]
<1> DEFINE Differ == {n \in 0..N : f[n] # g[n]}
<1> SUFFICES ASSUME Differ # {} PROVE FALSE
  OBVIOUS
<1>0. Differ \in SUBSET Nat
  OBVIOUS
<1>1. PICK n \in Differ : \A m \in Differ : n <= m
  <2> HIDE DEF Differ
  <2> QED BY <1>0, LeastNat
<1>2. n \in 1..N
  OBVIOUS
<1>3. f[n - 1] = g[n - 1]
  BY <1>1, <1>2
<1> QED BY <1>2, <1>3

LEMMA SumTable ==
  ASSUME NEW rs \in Seq(Prof!Blocks)
  PROVE  \E f : /\ f \in [0..Len(rs) -> Nat]
                /\ f = [n \in 0..Len(rs) |-> IF n = 0 THEN 0 ELSE f[n - 1] + Prof!Count(rs[n])]
                /\ Prof!InRoots(rs) = f[Len(rs)]
<1> DEFINE N == Len(rs)
           step == [n \in 1..N |-> [x \in Nat |-> x + Prof!Count(rs[n])]]
<1>0. \A n \in 1..N : Prof!Count(rs[n]) \in Nat
  BY DEF Prof!Count, Prof!Blocks, Prof!Allocators
<1>1. N \in Nat
  OBVIOUS
<1>2. PICK f : Table(f, N, Nat, 0, step)
  <2>1. 0 \in Nat
    OBVIOUS
  <2>2. step \in [1..N -> [Nat -> Nat]]
    BY <1>0
  <2> HIDE DEF N, step
  <2> QED BY <1>1, <2>1, <2>2, TableExists
<1>3. f \in [0..N -> Nat]
      /\ f = [n \in 0..N |-> IF n = 0 THEN 0 ELSE f[n - 1] + Prof!Count(rs[n])]
  <2>1. ASSUME NEW n \in 1..N
        PROVE  f[n - 1] \in Nat /\ step[n][f[n - 1]] = f[n - 1] + Prof!Count(rs[n])
    <3>1. f[n - 1] \in Nat
      BY <1>1, <1>2 DEF Table
    <3> QED BY <3>1
  <2>2. f \in [0..N -> Nat] /\ f[0] = 0
        /\ \A n \in 1..N : f[n] = f[n - 1] + Prof!Count(rs[n])
    BY <1>2, <2>1 DEF Table
  <2> HIDE DEF step
  <2> QED BY <1>1, <2>2
<1> DEFINE g == CHOOSE h : h = [n \in 0..N |-> IF n = 0 THEN 0 ELSE h[n - 1] + Prof!Count(rs[n])]
<1>4. g = [n \in 0..N |-> IF n = 0 THEN 0 ELSE g[n - 1] + Prof!Count(rs[n])]
  BY <1>3, Zenon
<1>5. Prof!InRoots(rs) = g[N]
  BY DEF Prof!InRoots
<1>6. \A n \in 0..N : g[n] = f[n]
  <2> HIDE DEF g
  <2>1. g[0] = f[0] /\ \A n \in 1..N : g[n - 1] = f[n - 1] => g[n] = f[n]
    BY <1>3, <1>4
  <2> QED BY <1>1, <2>1, TableUnique
<1> HIDE DEF g
<1>7. Prof!InRoots(rs) = f[Len(rs)]
  BY <1>1, <1>5, <1>6
<1> QED BY <1>3, <1>7

LEMMA InRootsEmpty == Prof!InRoots(<<>>) = 0
<1>1. ASSUME NEW rs \in Seq(Prof!Blocks), Len(rs) = 0 PROVE Prof!InRoots(rs) = 0
  <2>1. PICK f : /\ f = [n \in 0..Len(rs) |-> IF n = 0 THEN 0 ELSE f[n - 1] + Prof!Count(rs[n])]
                 /\ Prof!InRoots(rs) = f[Len(rs)]
    BY SumTable
  <2> QED BY <1>1, <2>1
<1>2. <<>> \in Seq(Prof!Blocks) /\ Len(<<>>) = 0
  OBVIOUS
<1> QED BY <1>1, <1>2

LEMMA InRootsNat ==
  ASSUME NEW rs \in Seq(Prof!Blocks) PROVE Prof!InRoots(rs) \in Nat
BY SumTable

LEMMA InRootsAppend ==
  ASSUME NEW rs \in Seq(Prof!Blocks), NEW b \in Prof!Blocks
  PROVE  Prof!InRoots(Append(rs, b)) = Prof!InRoots(rs) + Prof!Count(b)
<1> DEFINE as == Append(rs, b)
<1>0. as \in Seq(Prof!Blocks) /\ Len(as) = Len(rs) + 1 /\ as[Len(rs) + 1] = b
      /\ \A n \in 1..Len(rs) : as[n] = rs[n]
  OBVIOUS
<1> HIDE DEF as
<1>1. PICK f : /\ f \in [0..Len(rs) -> Nat]
                /\ f = [n \in 0..Len(rs) |-> IF n = 0 THEN 0 ELSE f[n - 1] + Prof!Count(rs[n])]
                /\ Prof!InRoots(rs) = f[Len(rs)]
  BY SumTable
<1>2. PICK g : /\ g \in [0..Len(as) -> Nat]
                /\ g = [n \in 0..Len(as) |-> IF n = 0 THEN 0 ELSE g[n - 1] + Prof!Count(as[n])]
                /\ Prof!InRoots(as) = g[Len(as)]
  BY <1>0, SumTable
<1>3. \A n \in 0..Len(rs) : f[n] = g[n]
  <2>1. f[0] = g[0] /\ \A n \in 1..Len(rs) : f[n - 1] = g[n - 1] => f[n] = g[n]
    <3>1. f[0] = 0 /\ g[0] = 0
      BY <1>0, <1>1, <1>2
    <3>2. ASSUME NEW n \in 1..Len(rs), f[n - 1] = g[n - 1] PROVE f[n] = g[n]
      <4>1. f[n] = f[n - 1] + Prof!Count(rs[n])
        BY <1>1
      <4>2. g[n] = g[n - 1] + Prof!Count(as[n])
        BY <1>0, <1>2
      <4> QED BY <1>0, <3>2, <4>1, <4>2
    <3> QED BY <3>1, <3>2
  <2>2. Len(rs) \in Nat
    OBVIOUS
  <2> QED BY <2>1, <2>2, TableUnique
<1>4. g[Len(rs) + 1] = g[Len(rs)] + Prof!Count(b)
  BY <1>0, <1>2
<1>5. Prof!InRoots(as) = g[Len(rs) + 1] /\ f[Len(rs)] = g[Len(rs)]
  BY <1>0, <1>2, <1>3
<1>6. Prof!InRoots(as) = Prof!InRoots(rs) + Prof!Count(b)
  BY <1>1, <1>4, <1>5
<1> QED BY <1>6 DEF as

LEMMA FlattenIn ==
  ASSUME NEW W, NEW ss \in Seq(W), ss # <<>>, \A s, u \in W : s \o u \in W
  PROVE  Prof!FlattenSeq(ss) \in W
<1> DEFINE N == Len(ss)
           step == [n \in 1..N - 1 |-> [s \in W |-> s \o ss[n + 1]]]
<1>1. N \in Nat \ {0} /\ ss[1] \in W /\ \A n \in 1..N : ss[n] \in W
  OBVIOUS
<1>2. PICK f : Table(f, N - 1, W, ss[1], step)
  <2>1. step \in [1..N - 1 -> [W -> W]]
    BY <1>1
  <2>2. N - 1 \in Nat
    BY <1>1
  <2> HIDE DEF step, N
  <2> QED BY <1>1, <2>1, <2>2, TableExists
<1>3. f \in [0..N - 1 -> W] /\ f[0] = ss[1]
  BY <1>2 DEF Table
<1>4. ASSUME NEW n \in 1..N - 1 PROVE f[n] = f[n - 1] \o ss[n + 1]
  <2>1. f[n] = step[n][f[n - 1]]
    <3> HIDE DEF step, N
    <3> QED BY <1>2 DEF Table
  <2>2. f[n - 1] \in W
    BY <1>1, <1>3
  <2> QED BY <2>1, <2>2
<1> HIDE DEF step
<1> DEFINE g == [n \in 1..N |-> f[n - 1]]
           Flat(h) == h = [n \in 1..N |-> IF n = 1 THEN ss[n] ELSE h[n - 1] \o ss[n]]
           h == CHOOSE h : Flat(h)
<1>5. Flat(g)
  <2> SUFFICES ASSUME NEW n \in 1..N
               PROVE  g[n] = IF n = 1 THEN ss[n] ELSE g[n - 1] \o ss[n]
    BY Zenon
  <2>1. CASE n = 1
    BY <1>1, <1>3, <2>1
  <2>2. CASE n # 1
    <3>1. n - 1 \in 1..N - 1 /\ n - 1 \in 1..N /\ (n - 1) + 1 = n
      BY <1>1, <2>2
    <3>2. g[n] = f[n - 1] /\ g[n - 1] = f[(n - 1) - 1]
      BY <3>1
    <3>3. f[n - 1] = f[(n - 1) - 1] \o ss[(n - 1) + 1]
      BY <1>4, <3>1
    <3> QED BY <2>2, <3>1, <3>2, <3>3
  <2> QED BY <2>1, <2>2
<1>6. Flat(h)
  <2> HIDE DEF Flat
  <2> QED BY <1>5, Zenon
<1>7. Prof!FlattenSeq(ss) = h[N]
  BY <1>1 DEF Prof!FlattenSeq
<1> HIDE DEF h
<1>8. \A n \in 0..N - 1 : h[n + 1] = f[n]
  <2> DEFINE k == [n \in 0..N - 1 |-> h[n + 1]]
  <2>1. k[0] = f[0]
    BY <1>1, <1>3, <1>6
  <2>2. ASSUME NEW n \in 1..N - 1, k[n - 1] = f[n - 1] PROVE k[n] = f[n]
    <3>1. n + 1 \in 1..N /\ n + 1 # 1 /\ (n + 1) - 1 = n /\ n \in 0..N - 1
          /\ n - 1 \in 0..N - 1
      BY <1>1
    <3>2. h[n + 1] = h[n] \o ss[n + 1]
      BY <1>6, <3>1
    <3>3. k[n] = h[n + 1] /\ k[n - 1] = h[n]
      BY <3>1
    <3> QED BY <1>4, <2>2, <3>2, <3>3
  <2>3. N - 1 \in Nat
    BY <1>1
  <2>4. \A n \in 0..N - 1 : k[n] = f[n]
    <3> HIDE DEF k, N
    <3> QED BY <2>1, <2>2, <2>3, TableUnique
  <2> QED BY <2>4
<1> QED BY <1>1, <1>3, <1>7, <1>8


\* A walk through what is asked of cJSON, with the number of roots in progress
\* before and after each request.  Every node has a root to be added to,
\* every root that is added has a caller's, and a value is followed by its key.
Asked == {"root", "item", "value", "key", "add"}

IsWalk(s, D, a, b) ==
  /\ s \in Seq(Asked) /\ D \in [0..Len(s) -> Nat] /\ D[0] = a /\ D[Len(s)] = b
  /\ \A n \in 1..Len(s) :
       /\ s[n] = "root" => D[n] = D[n - 1] + 1
       /\ s[n] = "add" => D[n - 1] >= 2 /\ D[n] = D[n - 1] - 1
       /\ s[n] \in {"item", "value", "key"} => D[n - 1] >= 1 /\ D[n] = D[n - 1]
       /\ s[n] = "value" => n < Len(s) /\ s[n + 1] = "key"
       /\ s[n] = "key" => n > 1 /\ s[n - 1] = "value"

Walks(a, b) == {s \in Seq(Asked) : \E D : IsWalk(s, D, a, b)}

LEMMA WalkOn ==
  ASSUME NEW a, NEW b, NEW c, NEW s \in Walks(a, b), NEW u \in Walks(b, c)
  PROVE  s \o u \in Walks(a, c)
<1>1. PICK D : IsWalk(s, D, a, b)
  BY DEF Walks
<1>2. PICK E : IsWalk(u, E, b, c)
  BY DEF Walks
<1> DEFINE w == s \o u
           F == [n \in 0..Len(w) |-> IF n <= Len(s) THEN D[n] ELSE E[n - Len(s)]]
<1>3. /\ w \in Seq(Asked) /\ Len(w) = Len(s) + Len(u) /\ Len(s) \in Nat /\ Len(u) \in Nat
      /\ \A n \in 1..Len(s) : w[n] = s[n]
      /\ \A n \in 1..Len(u) : w[Len(s) + n] = u[n]
  BY <1>1, <1>2, ConcatProperties DEF IsWalk
<1> HIDE DEF w
<1>4. /\ D \in [0..Len(s) -> Nat] /\ D[0] = a /\ D[Len(s)] = b
      /\ E \in [0..Len(u) -> Nat] /\ E[0] = b /\ E[Len(u)] = c
  BY <1>1, <1>2 DEF IsWalk
<1>5. F \in [0..Len(w) -> Nat] /\ F[0] = a /\ F[Len(w)] = c
  BY <1>3, <1>4
<1>6. /\ \A n \in 0..Len(s) : F[n] = D[n]
      /\ \A n \in 0..Len(u) : F[Len(s) + n] = E[n]
  <2>1. ASSUME NEW n \in 0..Len(u) PROVE F[Len(s) + n] = E[n]
    <3>1. Len(s) + n \in 0..Len(w)
      BY <1>3
    <3>2. CASE n = 0
      BY <1>3, <1>4, <3>1, <3>2
    <3>3. CASE n # 0
      BY <1>3, <3>1, <3>3
    <3> QED BY <3>2, <3>3
  <2>2. ASSUME NEW n \in 0..Len(s) PROVE F[n] = D[n]
    BY <1>3
  <2> QED BY <2>1, <2>2
<1> HIDE DEF F
<1>7. ASSUME NEW n \in 1..Len(w)
      PROVE  /\ w[n] = "root" => F[n] = F[n - 1] + 1
             /\ w[n] = "add" => F[n - 1] >= 2 /\ F[n] = F[n - 1] - 1
             /\ w[n] \in {"item", "value", "key"} => F[n - 1] >= 1 /\ F[n] = F[n - 1]
             /\ w[n] = "value" => n < Len(w) /\ w[n + 1] = "key"
             /\ w[n] = "key" => n > 1 /\ w[n - 1] = "value"
  <2>1. CASE n \in 1..Len(s)
    <3>1. w[n] = s[n] /\ F[n] = D[n] /\ F[n - 1] = D[n - 1]
      BY <1>3, <1>6, <2>1
    <3>2. n < Len(s) => n < Len(w) /\ w[n + 1] = s[n + 1]
      BY <1>3, <2>1
    <3>3. n > 1 => w[n - 1] = s[n - 1]
      BY <1>3, <2>1
    <3> QED BY <1>1, <2>1, <3>1, <3>2, <3>3 DEF IsWalk
  <2>2. CASE n \notin 1..Len(s)
    <3>0. PICK m \in 1..Len(u) : n = Len(s) + m
      <4>1. n - Len(s) \in 1..Len(u) /\ n = Len(s) + (n - Len(s))
        BY <1>3, <2>2
      <4> QED BY <4>1
    <3>1. /\ w[n] = u[m] /\ F[n] = E[m]
          /\ m - 1 \in 0..Len(u) /\ n - 1 = Len(s) + (m - 1)
      BY <1>3, <1>6, <3>0
    <3>2. F[n - 1] = E[m - 1]
      BY <1>6, <3>1
    <3>3. m < Len(u) => n < Len(w) /\ w[n + 1] = u[m + 1]
      <4> SUFFICES ASSUME m < Len(u) PROVE n < Len(w) /\ w[n + 1] = u[m + 1]
        OBVIOUS
      <4>1. m + 1 \in 1..Len(u) /\ n + 1 = Len(s) + (m + 1)
        BY <1>3, <3>0
      <4> QED BY <1>3, <3>0, <4>1
    <3>4. m > 1 => n > 1 /\ w[n - 1] = u[m - 1]
      <4> SUFFICES ASSUME m > 1 PROVE n > 1 /\ w[n - 1] = u[m - 1]
        OBVIOUS
      <4>1. m - 1 \in 1..Len(u) /\ n - 1 = Len(s) + (m - 1)
        BY <1>3, <3>0
      <4> QED BY <1>3, <3>0, <4>1
    <3> QED BY <1>2, <3>0, <3>1, <3>2, <3>3, <3>4 DEF IsWalk
  <2> QED BY <2>1, <2>2
<1>8. IsWalk(w, F, a, c)
  BY <1>3, <1>5, <1>7 DEF IsWalk
<1> QED BY <1>3, <1>8 DEF Walks, w

LEMMA ShortWalks ==
  ASSUME NEW d \in Nat
  PROVE  /\ <<>> \in Walks(d, d)
         /\ <<"root">> \in Walks(d, d + 1)
         /\ d >= 1 => <<"add">> \in Walks(d + 1, d)
         /\ d >= 1 => <<"item">> \in Walks(d, d)
         /\ d >= 1 => <<"value", "key">> \in Walks(d, d)
<1> USE DEF IsWalk, Asked
<1>1. <<>> \in Walks(d, d)
  <2> DEFINE D == [n \in 0..0 |-> d]
  <2>1. D \in [0..0 -> Nat] /\ D[0] = d /\ Len(<<>>) = 0 /\ <<>> \in Seq(Asked) /\ 1..0 = {}
    OBVIOUS
  <2> HIDE DEF D
  <2>2. IsWalk(<<>>, D, d, d)
    BY <2>1
  <2> QED BY <2>1, <2>2 DEF Walks
<1>2. <<"root">> \in Walks(d, d + 1)
  <2> DEFINE D == [n \in 0..1 |-> d + n]
             s == <<"root">>
  <2>1. D \in [0..1 -> Nat] /\ D[0] = d /\ D[1] = d + 1
    OBVIOUS
  <2>2. Len(s) = 1 /\ s \in Seq(Asked) /\ 1..1 = {1} /\ s[1] = "root"
    OBVIOUS
  <2> HIDE DEF D, s
  <2>3. IsWalk(s, D, d, d + 1)
    BY <2>1, <2>2
  <2> QED BY <2>2, <2>3 DEF Walks, s
<1>3. d >= 1 => <<"add">> \in Walks(d + 1, d)
  <2> SUFFICES ASSUME d >= 1 PROVE <<"add">> \in Walks(d + 1, d)
    OBVIOUS
  <2> DEFINE D == [n \in 0..1 |-> d + 1 - n]
             s == <<"add">>
  <2>1. D \in [0..1 -> Nat] /\ D[0] = d + 1 /\ D[1] = d
    OBVIOUS
  <2>2. Len(s) = 1 /\ s \in Seq(Asked) /\ 1..1 = {1} /\ s[1] = "add"
    OBVIOUS
  <2> HIDE DEF D, s
  <2>3. IsWalk(s, D, d + 1, d)
    BY <2>1, <2>2
  <2> QED BY <2>2, <2>3 DEF Walks, s
<1>4. d >= 1 => <<"item">> \in Walks(d, d)
  <2> SUFFICES ASSUME d >= 1 PROVE <<"item">> \in Walks(d, d)
    OBVIOUS
  <2> DEFINE D == [n \in 0..1 |-> d]
             s == <<"item">>
  <2>1. D \in [0..1 -> Nat] /\ D[0] = d /\ D[1] = d
    OBVIOUS
  <2>2. Len(s) = 1 /\ s \in Seq(Asked) /\ 1..1 = {1} /\ s[1] = "item"
    OBVIOUS
  <2> HIDE DEF D, s
  <2>3. IsWalk(s, D, d, d)
    BY <2>1, <2>2
  <2> QED BY <2>2, <2>3 DEF Walks, s
<1>5. d >= 1 => <<"value", "key">> \in Walks(d, d)
  <2> SUFFICES ASSUME d >= 1 PROVE <<"value", "key">> \in Walks(d, d)
    OBVIOUS
  <2> DEFINE D == [n \in 0..2 |-> d]
             s == <<"value", "key">>
  <2>1. D \in [0..2 -> Nat] /\ D[0] = d /\ D[1] = d /\ D[2] = d
    OBVIOUS
  <2>2. Len(s) = 2 /\ s \in Seq(Asked) /\ 1..2 = {1, 2} /\ s[1] = "value" /\ s[2] = "key"
    OBVIOUS
  <2> HIDE DEF D, s
  <2>3. IsWalk(s, D, d, d)
    BY <2>1, <2>2
  <2> QED BY <2>2, <2>3 DEF Walks, s
<1> QED BY <1>1, <1>2, <1>3, <1>4, <1>5

LEMMA FlattenWalks ==
  ASSUME NEW d \in Nat, NEW ss \in Seq(Walks(d, d))
  PROVE  Prof!FlattenSeq(ss) \in Walks(d, d)
<1>1. CASE ss = <<>>
  <2>1. Prof!FlattenSeq(ss) = <<>>
    BY <1>1 DEF Prof!FlattenSeq
  <2> QED BY <2>1, ShortWalks
<1>2. CASE ss # <<>>
  <2>1. \A s, u \in Walks(d, d) : s \o u \in Walks(d, d)
    BY WalkOn
  <2> QED BY <1>2, <2>1, FlattenIn
<1> QED BY <1>1, <1>2

\* Any number of services with any number of values.
ServiceShapes == [kvs : Nat, eventTime : BOOLEAN]
Shapes ==
  [kind : {"report"}, services : Seq(ServiceShapes)]
    \cup [kind : {"resp"}, respName : BOOLEAN, paras : Nat]

LEMMA MakeKvsWalks ==
  ASSUME NEW d \in Nat, d >= 1, NEW kvs \in Nat
  PROVE  Prof!MakeKvs(kvs) \in Walks(d, d)
<1> DEFINE ss == [i \in 1..kvs |-> <<"value", "key">>]
<1>1. ss \in Seq(Walks(d + 1, d + 1))
  <2>1. <<"value", "key">> \in Walks(d + 1, d + 1)
    BY ShortWalks
  <2> QED BY <2>1
<1>2. Prof!FlattenSeq(ss) \in Walks(d + 1, d + 1)
  <2> HIDE DEF ss
  <2> QED BY <1>1, FlattenWalks
<1> DEFINE fs == Prof!FlattenSeq(ss)
<1> HIDE DEF fs
<1>3. fs \in Walks(d + 1, d + 1)
  BY <1>2 DEF fs
<1>4. <<"root">> \o fs \in Walks(d, d + 1)
  BY <1>3, ShortWalks, WalkOn
<1>5. (<<"root">> \o fs) \o <<"add">> \in Walks(d, d)
  <2> DEFINE rf == <<"root">> \o fs
  <2> HIDE DEF rf
  <2>1. rf \in Walks(d, d + 1)
    BY <1>4 DEF rf
  <2>2. rf \o <<"add">> \in Walks(d, d)
    BY <2>1, ShortWalks, WalkOn
  <2> QED BY <2>2 DEF rf
<1> QED BY <1>5 DEF Prof!MakeKvs, fs


LEMMA RootItemWalks ==
  ASSUME NEW d \in Nat PROVE <<"root", "item">> \in Walks(d, d + 1)
<1> DEFINE D == [n \in 0..2 |-> IF n = 0 THEN d ELSE d + 1]
           s == <<"root", "item">>
<1>1. D \in [0..2 -> Nat] /\ D[0] = d /\ D[1] = d + 1 /\ D[2] = d + 1
  OBVIOUS
<1>2. Len(s) = 2 /\ s \in Seq(Asked) /\ 1..2 = {1, 2} /\ s[1] = "root" /\ s[2] = "item"
  BY DEF Asked
<1> HIDE DEF D, s
<1>3. IsWalk(s, D, d, d + 1)
  BY <1>1, <1>2 DEF IsWalk
<1> QED BY <1>2, <1>3 DEF Walks, s

LEMMA MakeServiceWalks ==
  ASSUME NEW d \in Nat, d >= 1, NEW s \in ServiceShapes
  PROVE  Prof!MakeService(s) \in Walks(d, d)
<1> DEFINE kvs == Prof!MakeKvs(s.kvs)
           timed == IF s.eventTime THEN <<"item">> ELSE <<>>
           start == <<"root", "item">>
<1>1. start \in Walks(d, d + 1)
  BY RootItemWalks
<1>2. kvs \in Walks(d + 1, d + 1)
  BY MakeKvsWalks DEF ServiceShapes
<1>3. timed \in Walks(d + 1, d + 1)
  <2>1. <<>> \in Walks(d + 1, d + 1) /\ <<"item">> \in Walks(d + 1, d + 1)
    BY ShortWalks
  <2> QED BY <2>1, Zenon
<1> HIDE DEF kvs, timed, start
<1>4. start \o kvs \in Walks(d, d + 1)
  BY <1>1, <1>2, WalkOn
<1> DEFINE upto == start \o kvs
<1>5. upto \in Walks(d, d + 1)
  BY <1>4
<1> HIDE DEF upto
<1>6. upto \o timed \in Walks(d, d + 1)
  BY <1>3, <1>5, WalkOn
<1> DEFINE body == upto \o timed
<1>7. body \in Walks(d, d + 1)
  BY <1>6
<1> HIDE DEF body
<1>8. body \o <<"add">> \in Walks(d, d)
  BY <1>7, ShortWalks, WalkOn
<1> QED BY <1>8 DEF Prof!MakeService, kvs, timed, start, upto, body

\* Whatever is reported or answered, the requests add every node to a root in
\* progress and every root but the outermost to its caller's.
LEMMA RequestsWalk ==
  ASSUME NEW p \in Shapes
  PROVE  Prof!Requests(p) \in Walks(0, 1)
<1>1. CASE p.kind = "report"
  <2>1. p.services \in Seq(ServiceShapes)
    BY <1>1 DEF Shapes
  <2> DEFINE ss == [i \in 1..Len(p.services) |-> Prof!MakeService(p.services[i])]
             fs == Prof!FlattenSeq(ss)
  <2>2. ss \in Seq(Walks(2, 2))
    <3>1. \A i \in 1..Len(p.services) : Prof!MakeService(p.services[i]) \in Walks(2, 2)
      BY <2>1, MakeServiceWalks
    <3> QED BY <2>1, <3>1
  <2>3. fs \in Walks(2, 2)
    <3> HIDE DEF ss
    <3> QED BY <2>2, FlattenWalks
  <2> HIDE DEF fs
  <2>4. <<"root">> \in Walks(0, 1) /\ <<"root">> \in Walks(1, 2)
        /\ <<"add">> \in Walks(2, 1)
    <3>1. 0 + 1 = 1 /\ 1 + 1 = 2 /\ 0 \in Nat /\ 1 \in Nat /\ 1 >= 1
      OBVIOUS
    <3> QED BY <3>1, ShortWalks
  <2>5. <<"root">> \o fs \in Walks(1, 2)
    BY <2>3, <2>4, WalkOn
  <2> DEFINE rf == <<"root">> \o fs
  <2>6. rf \in Walks(1, 2)
    BY <2>5
  <2> HIDE DEF rf
  <2>7. rf \o <<"add">> \in Walks(1, 1)
    BY <2>4, <2>6, WalkOn
  <2> DEFINE services == rf \o <<"add">>
  <2>8. services \in Walks(1, 1)
    BY <2>7
  <2> HIDE DEF services
  <2>9. <<"root">> \o services \in Walks(0, 1)
    BY <2>4, <2>8, WalkOn
  <2> QED BY <1>1, <2>9
        DEF Prof!Requests, Prof!MakeProfilePropertyReport, Prof!MakeServices, services, rf,
        fs
<1>2. CASE p.kind # "report"
  <2>1. p.paras \in Nat
    BY <1>2 DEF Shapes
  <2> DEFINE start == <<"root", "item">>
             name == IF p.respName THEN <<"item">> ELSE <<>>
             kvs == IF p.paras > 0 THEN Prof!MakeKvs(p.paras) ELSE <<>>
  <2>2. start \in Walks(0, 1)
    <3>1. 0 + 1 = 1 /\ 0 \in Nat
      OBVIOUS
    <3> QED BY <3>1, RootItemWalks
  <2>3. name \in Walks(1, 1) /\ kvs \in Walks(1, 1)
    BY <2>1, ShortWalks, MakeKvsWalks
  <2> HIDE DEF start, name, kvs
  <2>4. start \o name \in Walks(0, 1)
    BY <2>2, <2>3, WalkOn
  <2> DEFINE upto == start \o name
  <2>5. upto \in Walks(0, 1)
    BY <2>4
  <2> HIDE DEF upto
  <2>6. upto \o kvs \in Walks(0, 1)
    BY <2>3, <2>5, WalkOn
  <2> QED BY <1>2, <2>6 DEF Prof!Requests, Prof!MakeProfileCmdResp, upto, start, name, kvs
<1> QED BY <1>1, <1>2


----------------------------------------------------------------------------
\* The first elements of a sequence.
LEMMA FirstOf ==
  ASSUME NEW S, NEW rs \in Seq(S), NEW m \in 0..Len(rs)
  PROVE  /\ SubSeq(rs, 1, m) \in Seq(S) /\ Len(SubSeq(rs, 1, m)) = m
         /\ \A i \in 1..m : SubSeq(rs, 1, m)[i] = rs[i]
<1>1. CASE m = 0
  <2>1. SubSeq(rs, 1, 0) = <<>>
    OBVIOUS
  <2> QED BY <1>1, <2>1
<1>2. CASE m # 0
  <2>1. m \in 1..Len(rs)
    BY <1>2
  <2>2. SubSeq(rs, 1, m) \in Seq(S) /\ Len(SubSeq(rs, 1, m)) = m
    BY <2>1
  <2>3. \A i \in 1..m : SubSeq(rs, 1, m)[i] = rs[i]
    BY <2>1
  <2> QED BY <2>2, <2>3
<1> QED BY <1>1, <1>2

\* The last root in progress, and what is added to it.
LEMMA InRootsLast ==
  ASSUME NEW rs \in Seq(Prof!Blocks), Len(rs) >= 1
  PROVE  /\ SubSeq(rs, 1, Len(rs) - 1) \in Seq(Prof!Blocks)
         /\ Prof!InRoots(rs) = Prof!InRoots(SubSeq(rs, 1, Len(rs) - 1)) + Prof!Count(rs[Len(rs)])
<1> DEFINE front == SubSeq(rs, 1, Len(rs) - 1)
<1>1. front \in Seq(Prof!Blocks) /\ rs[Len(rs)] \in Prof!Blocks
  OBVIOUS
<1>2. rs = Append(front, rs[Len(rs)])
  OBVIOUS
<1> HIDE DEF front
<1>3. Prof!InRoots(Append(front, rs[Len(rs)])) = Prof!InRoots(front) + Prof!Count(rs[Len(rs)])
  BY <1>1, InRootsAppend
<1> QED BY <1>1, <1>2, <1>3 DEF front

LEMMA BlocksPlus ==
  ASSUME NEW b \in Prof!Blocks, NEW c \in Prof!Blocks
  PROVE  /\ Prof!Plus(b, c) \in Prof!Blocks
            /\ Prof!Count(Prof!Plus(b, c)) = Prof!Count(b) + Prof!Count(c)
         /\ Prof!Count(b) \in Nat
         /\ Prof!Plus(b, c)["libc"] = b["libc"] + c["libc"]
BY DEF Prof!Plus, Prof!Blocks, Prof!Count, Prof!Allocators

LEMMA BlocksPlusPlus ==
  ASSUME NEW a \in Prof!Blocks, NEW b \in Prof!Blocks, NEW c \in Prof!Blocks
  PROVE  Prof!Plus(Prof!Plus(a, b), c) = Prof!Plus(a, Prof!Plus(b, c))
<1>1. \A x \in Prof!Allocators : a[x] \in Nat /\ b[x] \in Nat /\ c[x] \in Nat
  BY DEF Prof!Blocks
<1>2. \A x \in Prof!Allocators : Prof!Plus(Prof!Plus(a, b), c)[x] = a[x] + b[x] + c[x]
  BY <1>1 DEF Prof!Plus
<1>3. \A x \in Prof!Allocators : Prof!Plus(a, Prof!Plus(b, c))[x] = a[x] + b[x] + c[x]
  BY <1>1 DEF Prof!Plus
<1>4. \A x \in Prof!Allocators : Prof!Plus(Prof!Plus(a, b), c)[x] = Prof!Plus(a, Prof!Plus(b, c))[x]
  BY <1>2, <1>3
<1> QED BY <1>4, Zenon DEF Prof!Plus

LEMMA BlocksNone == Prof!None \in Prof!Blocks /\ Prof!Count(Prof!None) = 0
/\ Prof!None["libc"] = 0
BY DEF Prof!None, Prof!Blocks, Prof!Count, Prof!Allocators

LEMMA BlocksOne ==
  ASSUME hooks \in [malloc : Prof!Allocators, free : Prof!Allocators]
  PROVE  /\ Prof!OneBlock \in Prof!Blocks /\ Prof!Count(Prof!OneBlock) = 1
         /\ hooks.malloc = "hi" => Prof!OneBlock["libc"] = 0
BY DEF Prof!OneBlock, Prof!None, Prof!Blocks, Prof!Count, Prof!Allocators

\* A node more under the innermost root.
LEMMA InRootsGrow ==
  ASSUME NEW rs \in Seq(Prof!Blocks), Len(rs) >= 1, NEW b \in Prof!Blocks
  PROVE  LET as == [rs EXCEPT ![Len(rs)] = Prof!Plus(@, b)]
         IN  /\ as \in Seq(Prof!Blocks) /\ Len(as) = Len(rs)
             /\ Prof!InRoots(as) = Prof!InRoots(rs) + Prof!Count(b)
<1> DEFINE n == Len(rs)
           c == Prof!Plus(rs[n], b)
           as == [rs EXCEPT ![n] = c]
<1>1. rs[n] \in Prof!Blocks /\ c \in Prof!Blocks
      /\ Prof!Count(c) = Prof!Count(rs[n]) + Prof!Count(b)
      /\ Prof!Count(rs[n]) \in Nat /\ Prof!Count(b) \in Nat
  BY BlocksPlus
<1> HIDE DEF c
<1>2. as \in Seq(Prof!Blocks) /\ Len(as) = n /\ as[n] = c
  BY <1>1
<1>3. SubSeq(rs, 1, n - 1) \in Seq(Prof!Blocks) /\ as = Append(SubSeq(rs, 1, n - 1), c)
  <2> DEFINE front == SubSeq(rs, 1, n - 1)
  <2>1. front \in Seq(Prof!Blocks) /\ Len(front) = n - 1
        /\ \A i \in 1..n - 1 : front[i] = rs[i]
    <3>1. n - 1 \in 0..n
      OBVIOUS
    <3> QED BY <3>1, FirstOf
  <2>2. \A i \in 1..n - 1 : as[i] = rs[i]
    OBVIOUS
  <2>3. n \in Nat \ {0}
    OBVIOUS
  <2> HIDE DEF front, as, n
  <2>4. as = Append(front, c)
    <3>1. /\ Append(front, c) \in Seq(Prof!Blocks) /\ Len(Append(front, c)) = n
          /\ \A i \in 1..n - 1 : Append(front, c)[i] = front[i]
          /\ Append(front, c)[n] = c
      BY <1>1, <2>1, <2>3, AppendProperties
    <3>2. \A i \in 1..n : as[i] = Append(front, c)[i]
      <4> SUFFICES ASSUME NEW i \in 1..n PROVE as[i] = Append(front, c)[i]
        OBVIOUS
      <4>1. CASE i = n
        BY <1>2, <3>1, <4>1
      <4>2. CASE i # n
        <5>1. i \in 1..n - 1
          BY <2>3, <4>2
        <5> QED BY <2>1, <2>2, <3>1, <5>1
      <4> QED BY <4>1, <4>2
    <3> QED BY <1>2, <3>1, <3>2, SeqEqual
  <2> QED BY <2>1, <2>4 DEF front
<1>4. Prof!InRoots(as) = Prof!InRoots(SubSeq(rs, 1, n - 1)) + Prof!Count(c)
  <2> HIDE DEF as
  <2> QED BY <1>1, <1>3, InRootsAppend
<1>5. Prof!InRoots(rs) = Prof!InRoots(SubSeq(rs, 1, n - 1)) + Prof!Count(rs[n])
      /\ Prof!InRoots(SubSeq(rs, 1, n - 1)) \in Nat
  BY InRootsLast, InRootsNat
<1>6. Prof!InRoots(as) = Prof!InRoots(rs) + Prof!Count(b)
  BY <1>1, <1>4, <1>5
<1> QED BY <1>2, <1>6 DEF c

\* The innermost root is added to its caller's.
LEMMA InRootsJoin ==
  ASSUME NEW rs \in Seq(Prof!Blocks), Len(rs) >= 2
  PROVE  LET n == Len(rs)
             as == Append(SubSeq(rs, 1, n - 2), Prof!Plus(rs[n - 1], rs[n]))
         IN  /\ as \in Seq(Prof!Blocks) /\ Len(as) = n - 1
             /\ Prof!InRoots(as) = Prof!InRoots(rs)
<1> DEFINE n == Len(rs)
           front == SubSeq(rs, 1, n - 1)
           before == SubSeq(rs, 1, n - 2)
           c == Prof!Plus(rs[n - 1], rs[n])
<1>1. /\ rs[n] \in Prof!Blocks /\ rs[n - 1] \in Prof!Blocks /\ c \in Prof!Blocks
      /\ Prof!Count(c) = Prof!Count(rs[n - 1]) + Prof!Count(rs[n])
      /\ Prof!Count(rs[n - 1]) \in Nat /\ Prof!Count(rs[n]) \in Nat
  BY BlocksPlus
<1>2. /\ front \in Seq(Prof!Blocks) /\ Len(front) = n - 1 /\ front[n - 1] = rs[n - 1]
      /\ SubSeq(front, 1, (n - 1) - 1) = before
      /\ before \in Seq(Prof!Blocks) /\ Len(before) = n - 2
      /\ n \in Nat /\ n >= 2
  <2>1. front \in Seq(Prof!Blocks) /\ Len(front) = n - 1
        /\ \A i \in 1..n - 1 : front[i] = rs[i]
    OBVIOUS
  <2>2. before \in Seq(Prof!Blocks) /\ Len(before) = n - 2
        /\ \A i \in 1..n - 2 : before[i] = rs[i]
    <3>1. n - 2 \in 0..n
      OBVIOUS
    <3> QED BY <3>1, FirstOf
  <2> HIDE DEF front, before
  <2>3. SubSeq(front, 1, n - 2) = before
    BY <2>1, <2>2
  <2> QED BY <2>1, <2>2, <2>3
<1>3. Prof!InRoots(rs) = Prof!InRoots(front) + Prof!Count(rs[n])
  BY InRootsLast
<1>4. Prof!InRoots(front) = Prof!InRoots(before) + Prof!Count(rs[n - 1])
  <2>1. Len(front) >= 1
    BY <1>2
  <2> HIDE DEF front, before
  <2>2. /\ Prof!InRoots(front) = Prof!InRoots(SubSeq(front, 1, Len(front) - 1)) + Prof!Count(front[Len(front)])
    BY <1>2, <2>1, InRootsLast
  <2> QED BY <1>2, <2>2
<1>5. Prof!InRoots(Append(before, c)) = Prof!InRoots(before) + Prof!Count(c)
      /\ Prof!InRoots(before) \in Nat
  <2> HIDE DEF before, c
  <2> QED BY <1>1, <1>2, InRootsAppend, InRootsNat
<1>6. Append(before, c) \in Seq(Prof!Blocks) /\ Len(Append(before, c)) = n - 1
  <2>1. before \in Seq(Prof!Blocks) /\ c \in Prof!Blocks /\ Len(before) = n - 2 /\ n \in Nat
    BY <1>1, <1>2
  <2> HIDE DEF before, c, n
  <2> QED BY <2>1
<1>7. Prof!InRoots(Append(before, c)) = Prof!InRoots(rs)
  BY <1>1, <1>3, <1>4, <1>5
<1> QED BY <1>6, <1>7

\* How many of the first n requests ask for a block.
Nodes(s, n) == Prof!Cardinality({i \in 1..n : s[i] # "add"})

LEMMA SameCardinality == \A S : Prof!Cardinality(S) = Cardinality(S)
BY DEF Prof!Cardinality, Cardinality

LEMMA NodesNone == ASSUME NEW s PROVE Nodes(s, 0) = 0
<1>1. {i \in 1..0 : s[i] # "add"} = {}
  OBVIOUS
<1>2. Prof!Cardinality({}) = 0
  BY FS_EmptySet, SameCardinality
<1> QED BY <1>1, <1>2 DEF Nodes

LEMMA NodesNext ==
  ASSUME NEW s, NEW n \in Nat \ {0}
  PROVE  /\ Nodes(s, n) = Nodes(s, n - 1) + (IF s[n] = "add" THEN 0 ELSE 1)
         /\ Nodes(s, n - 1) \in Nat
<1> DEFINE T == {i \in 1..n - 1 : s[i] # "add"}
<1>1. IsFiniteSet(T)
  <2>1. IsFiniteSet(1..n - 1)
    BY FS_Interval
  <2> QED BY <2>1, FS_Subset
<1>2. n \notin T
  OBVIOUS
<1>3. {i \in 1..n : s[i] # "add"} = IF s[n] = "add" THEN T ELSE T \cup {n}
  OBVIOUS
<1> HIDE DEF T
<1>4. Cardinality(T) \in Nat /\ Cardinality(T \cup {n}) = Cardinality(T) + 1
  BY <1>1, <1>2, FS_AddElement, FS_CardinalityType
<1>5. /\ Prof!Cardinality(T) = Cardinality(T)
      /\ Prof!Cardinality(T \cup {n}) = Cardinality(T \cup {n})
  BY SameCardinality
<1> HIDE DEF T
<1>6. /\ Nodes(s, n) = Prof!Cardinality(IF s[n] = "add" THEN T ELSE T \cup {n})
      /\ Nodes(s, n - 1) = Prof!Cardinality(T)
  BY <1>3, Zenon DEF Nodes, T
<1>7. CASE s[n] = "add"
  BY <1>4, <1>5, <1>6, <1>7
<1>8. CASE s[n] # "add"
  BY <1>4, <1>5, <1>6, <1>8
<1> QED BY <1>7, <1>8

\* All that the proofs use of what this instance reports.
LEMMA PayloadsFit == Payloads \subseteq Shapes /\ Payloads # {}
<1>1. ASSUME NEW kvs \in Nat, NEW timed \in BOOLEAN PROVE Service(kvs, timed) \in ServiceShapes
  BY DEF Service, ServiceShapes
<1>2. /\ Service(2, FALSE) \in ServiceShapes /\ Service(1, TRUE) \in ServiceShapes
      /\ Service(1, FALSE) \in ServiceShapes
  BY <1>1
<1> DEFINE one == <<Service(2, FALSE)>>
           two == <<Service(1, TRUE), Service(1, FALSE)>>
<1>3. one \in Seq(ServiceShapes) /\ two \in Seq(ServiceShapes)
  <2>1. ASSUME NEW S, NEW a \in S, NEW b \in S PROVE <<a>> \in Seq(S) /\ <<a, b>> \in Seq(S)
    OBVIOUS
  <2> QED BY <1>2, <2>1, Zenon
<1> HIDE DEF one, two
<1>4. /\ [kind |-> "report", services |-> one] \in Shapes
      /\ [kind |-> "report", services |-> two] \in Shapes
      /\ [kind |-> "resp", respName |-> TRUE, paras |-> 1] \in Shapes
      /\ [kind |-> "resp", respName |-> FALSE, paras |-> 0] \in Shapes
  BY <1>3 DEF Shapes
<1> QED BY <1>4, Zenon DEF Payloads, one, two

----------------------------------------------------------------------------
\* What holds of a call between two steps.

BlocksAt(t) == Prof!InRoots(roots[t]) + Prof!Count(kv[t]) + Prof!Count(text[t])

\* The blocks the call can still reach, and those lost for want of a key.
Accounted(t) == live[t] = BlocksAt(t) + (IF topic[t] THEN 1 ELSE 0) + keyless[t]

NoTree(t) == roots[t] = <<>> /\ kv[t] = Prof!None

\* The whole tree, but for the items lost.
Whole(t) ==
  printed[t] + 2 * keyless[t] = Nodes(Prof!Requests(payload[t]), Len(Prof!Requests(payload[t])))

\* A value is held in kv until its key follows.
ValueHeld(t) ==
  LET s == Prof!Requests(payload[t])
  IN IF at[t] > 1 /\ s[at[t] - 1] = "value" THEN Prof!Count(kv[t]) = 1 ELSE kv[t] = Prof!None

Building(t) ==
  LET s == Prof!Requests(payload[t])
  IN /\ at[t] \in 1..Len(s) + 1 /\ text[t] = Prof!None
     /\ \E D : IsWalk(s, D, 0, 1) /\ Len(roots[t]) = D[at[t] - 1]
     /\ ValueHeld(t)
     /\ Prof!InRoots(roots[t]) + Prof!Count(kv[t]) + 2 * keyless[t] = Nodes(s, at[t] - 1)

PointOK(t) ==
  /\ pc[t] \in {"idle", "topic"} => NoTree(t) /\ text[t] = Prof!None /\ topic[t] = FALSE
  /\ pc[t] = "topic" => at[t] = 1 /\ keyless[t] = 0
  /\ pc[t] = "build" => Building(t)
  /\ pc[t] = "exit" => kv[t] = Prof!None /\ text[t] = Prof!None
  /\ pc[t] = "delete" => Len(roots[t]) = 1 /\ kv[t] = Prof!None /\ Whole(t)
  /\ pc[t] = "send" => NoTree(t) /\ (text[t] # Prof!None => Whole(t))
  /\ pc[t] \in {"hi_free", "cJSON_free"} => NoTree(t)
  /\ pc[t] = "cJSON_free" => topic[t] = FALSE

\* The blocks of a call that began after cJsonInit come from hi_malloc.
NotLibc(t) ==
  /\ \A n \in 1..Len(roots[t]) : roots[t][n]["libc"] = 0
  /\ kv[t]["libc"] = 0 /\ text[t]["libc"] = 0

OwnAllocator(t) ==
  /\ mixed[t] => early[t]
  /\ pc[t] # "idle" /\ ~early[t] => cjson = "done" /\ NotLibc(t)

HooksOK ==
  /\ cjson # "malloc" => hooks.malloc = "hi"
  /\ cjson = "done" => hooks.free = "hi"

ProfileInv ==
  /\ Prof!TypeOK /\ HooksOK
  /\ \A t \in Reporters : Accounted(t) /\ PointOK(t) /\ OwnAllocator(t)

LEMMA NextToWalk ==
  ASSUME NEW s, NEW D, IsWalk(s, D, 0, 1), NEW n \in 1..Len(s)
  PROVE  /\ s[n] \in Asked /\ D[n] \in Nat /\ D[n - 1] \in Nat /\ Len(s) \in Nat
         /\ s[n] = "root" => D[n] = D[n - 1] + 1
         /\ s[n] = "add" => D[n - 1] >= 2 /\ D[n] = D[n - 1] - 1
         /\ s[n] \in {"item", "value", "key"} => D[n - 1] >= 1 /\ D[n] = D[n - 1]
         /\ (n > 1 /\ s[n - 1] = "value") <=> s[n] = "key"
<1>1. s \in Seq(Asked) /\ D \in [0..Len(s) -> Nat] /\ Len(s) \in Nat
  BY DEF IsWalk
<1>2. s[n] \in Asked /\ D[n] \in Nat /\ D[n - 1] \in Nat
  BY <1>1
<1>3. n > 1 /\ s[n - 1] = "value" => s[n] = "key"
  <2> SUFFICES ASSUME n > 1, s[n - 1] = "value" PROVE s[n] = "key"
    OBVIOUS
  <2>1. n - 1 \in 1..Len(s) /\ (n - 1) + 1 = n
    BY <1>1
  <2> QED BY <2>1 DEF IsWalk
<1> QED BY <1>1, <1>2, <1>3 DEF IsWalk

ReportVars(t) ==
  <<pc[t], payload[t], at[t], roots[t], kv[t], text[t], topic[t], live[t],
    keyless[t], printed[t], mixed[t], early[t]>>

\* A call disturbs no other.
LEMMA OthersAlone ==
  ASSUME Prof!TypeOK, NEW t \in Reporters, Prof!Report(t), NEW u \in Reporters, u # t
  PROVE  UNCHANGED <<ReportVars(u), cjson, hooks>>
<1> USE DEF ReportVars, Prof!TypeOK, Prof!heapVars, Prof!callVars, Prof!cjsonVars
<1>1. CASE Prof!Publish(t) \/ Prof!IoTProfileCmdResp(t)
  BY <1>1 DEF Prof!Publish, Prof!IoTProfileCmdResp, Prof!CallReport, Prof!Go
<1>2. CASE Prof!MakeTopic(t) \/ Prof!CreateRoot(t) \/ Prof!CreateItem(t) \/ Prof!FormateProflleValue(t)
  BY <1>2 DEF Prof!MakeTopic, Prof!CreateRoot, Prof!CreateItem, Prof!FormateProflleValue,
    Prof!Go, Prof!NextRequest, Prof!Allocated
<1>3. CASE Prof!AddItemToObject(t) \/ Prof!KeyNotCopied(t) \/ Prof!AddToCaller(t) \/ Prof!NodeFails(t)
  BY <1>3 DEF Prof!AddItemToObject, Prof!KeyNotCopied, Prof!AddToCaller, Prof!NodeFails,
    Prof!Go, Prof!NextRequest, Prof!Allocated
<1>4. CASE Prof!ExitMem(t) \/ Prof!ExitEmpty(t) \/ Prof!PrintUnformatted(t) \/ Prof!DeleteTree(t)
  BY <1>4 DEF Prof!ExitMem, Prof!ExitEmpty, Prof!PrintUnformatted, Prof!DeleteTree,
    Prof!Go, Prof!FreeBlocks, Prof!Allocated
<1>5. CASE Prof!SendReport(t) \/ Prof!FreeTopic(t) \/ Prof!FreeText(t)
  BY <1>5 DEF Prof!SendReport, Prof!FreeTopic, Prof!FreeText, Prof!Go, Prof!FreeBlocks
<1> QED BY <1>1, <1>2, <1>3, <1>4, <1>5 DEF Prof!Report

OneInv(t) == Accounted(t) /\ PointOK(t) /\ OwnAllocator(t)

LEMMA OneInvSame ==
  ASSUME NEW t \in Reporters, OneInv(t), UNCHANGED ReportVars(t),
         cjson = "done" => cjson' = "done"
  PROVE  OneInv(t)'
<1> USE DEF ReportVars
<1>1. Accounted(t)'
  BY DEF OneInv, Accounted, BlocksAt
<1>2. Building(t) => Building(t)'
  BY DEF Building, ValueHeld
<1>3. PointOK(t)'
  BY <1>2 DEF OneInv, PointOK, NoTree, Whole
<1>4. OwnAllocator(t)'
  BY DEF OneInv, OwnAllocator, NotLibc
<1> QED BY <1>1, <1>3, <1>4 DEF OneInv

LEMMA ProfileInitInv == Prof!Init => ProfileInv
<1> SUFFICES ASSUME Prof!Init PROVE ProfileInv
  OBVIOUS
<1>0. Payloads # {} => (CHOOSE p \in Payloads : TRUE) \in Payloads
  OBVIOUS
<1>1. Prof!TypeOK
  BY <1>0, BlocksNone, PayloadsFit DEF Prof!Init, Prof!TypeOK, Prof!Allocators,
    Prof!ReportPoints
<1>2. HooksOK
  BY DEF Prof!Init, HooksOK
<1>3. ASSUME NEW t \in Reporters PROVE Accounted(t) /\ PointOK(t) /\ OwnAllocator(t)
  BY BlocksNone, InRootsEmpty
     DEF Prof!Init, Accounted, BlocksAt, PointOK, NoTree, OwnAllocator
<1> QED BY <1>1, <1>2, <1>3 DEF ProfileInv

LEMMA ProfileInvSafe == ProfileInv => Prof!BlocksReachable /\ Prof!FreedAsMade
/\ Prof!WholeTreeSent
<1> SUFFICES ASSUME ProfileInv, NEW t \in Reporters
             PROVE  /\ live[t] = Prof!InRoots(roots[t]) + Prof!Count(kv[t]) + Prof!Count(text[t])
                                   + (IF topic[t] THEN 1 ELSE 0) + keyless[t]
                    /\ pc[t] = "idle" => live[t] = keyless[t]
                    /\ mixed[t] => early[t]
                    /\ pc[t] = "send" /\ Prof!Sends(t) =>
                         printed[t] + 2 * keyless[t] =
                           Prof!Cardinality({n \in DOMAIN Prof!Requests(payload[t]) : Prof!Requests(payload[t])[n] # "add"})
  BY DEF Prof!BlocksReachable, Prof!FreedAsMade, Prof!WholeTreeSent
<1>1. Accounted(t) /\ PointOK(t) /\ OwnAllocator(t) /\ Prof!TypeOK
  BY DEF ProfileInv
<1>2. pc[t] = "idle" => live[t] = keyless[t]
  BY <1>1, BlocksNone, InRootsEmpty DEF Accounted, PointOK, NoTree, BlocksAt, Prof!TypeOK
<1>3. pc[t] = "send" /\ Prof!Sends(t) => Whole(t)
  BY <1>1 DEF PointOK, Prof!Sends
<1>4. Prof!Requests(payload[t]) \in Seq(Asked)
  BY <1>1, PayloadsFit, RequestsWalk DEF Prof!TypeOK, Walks
<1>5. DOMAIN Prof!Requests(payload[t]) = 1..Len(Prof!Requests(payload[t]))
  BY <1>4
<1> QED BY <1>1, <1>2, <1>3, <1>5 DEF Accounted, OwnAllocator, BlocksAt, Whole, Nodes

\* What is known of the blocks of a call.
LEMMA BlocksKnown ==
  ASSUME Prof!TypeOK, NEW t \in Reporters
  PROVE  /\ roots[t] \in Seq(Prof!Blocks) /\ kv[t] \in Prof!Blocks
            /\ text[t] \in Prof!Blocks
         /\ Prof!InRoots(roots[t]) \in Nat /\ Prof!Count(kv[t]) \in Nat
            /\ Prof!Count(text[t]) \in Nat
         /\ live[t] \in Nat /\ keyless[t] \in Nat /\ topic[t] \in BOOLEAN
            /\ at[t] \in Nat \ {0}
         /\ Prof!OneBlock \in Prof!Blocks /\ Prof!Count(Prof!OneBlock) = 1
         /\ hooks.malloc = "hi" => Prof!OneBlock["libc"] = 0
         /\ Prof!None \in Prof!Blocks /\ Prof!Count(Prof!None) = 0 /\ Prof!None["libc"] = 0
         /\ payload[t] \in Shapes
BY BlocksNone, BlocksOne, BlocksPlus, InRootsNat, PayloadsFit DEF Prof!TypeOK

LEMMA CallKeeps ==
  ASSUME Prof!TypeOK, HooksOK, NEW t \in Reporters, OneInv(t),
         Prof!Publish(t) \/ Prof!IoTProfileCmdResp(t)
  PROVE  Prof!TypeOK' /\ OneInv(t)'
<1>1. PICK p \in Payloads : Prof!CallReport(t, p)
  BY DEF Prof!Publish, Prof!IoTProfileCmdResp
<1>2. Prof!TypeOK'
  BY <1>1 DEF Prof!TypeOK, Prof!CallReport, Prof!Go, Prof!cjsonVars, Prof!ReportPoints
<1>3. /\ pc[t] = "idle" /\ pc'[t] = "topic" /\ at'[t] = 1 /\ live'[t] = 0 /\ keyless'[t] = 0
      /\ mixed'[t] = FALSE /\ early'[t] = (cjson # "done")
      /\ UNCHANGED <<roots, kv, text, topic, cjson, hooks>>
  BY <1>1 DEF Prof!CallReport, Prof!Go, Prof!cjsonVars, Prof!TypeOK
<1>4. NoTree(t) /\ text[t] = Prof!None /\ topic[t] = FALSE
  BY <1>3 DEF OneInv, PointOK
<1>5. Accounted(t)'
  BY <1>3, <1>4, InRootsEmpty, BlocksNone DEF Accounted, BlocksAt, NoTree
<1>6. PointOK(t)'
  BY <1>3, <1>4 DEF PointOK, NoTree
<1>7. OwnAllocator(t)'
  <2>1. NotLibc(t)'
    BY <1>3, <1>4, BlocksNone DEF NotLibc, NoTree
  <2>2. ~mixed'[t]
    BY <1>3
  <2>3. ~early'[t] => cjson' = "done"
    BY <1>3
  <2> QED BY <2>1, <2>2, <2>3 DEF OwnAllocator
<1> QED BY <1>2, <1>5, <1>6, <1>7 DEF OneInv

LEMMA MakeTopicKeeps ==
  ASSUME Prof!TypeOK, HooksOK, NEW t \in Reporters, OneInv(t), Prof!MakeTopic(t)
  PROVE  Prof!TypeOK' /\ OneInv(t)'
<1>1. Prof!TypeOK'
  <2>1. topic' \in [Reporters -> BOOLEAN] /\ live' \in [Reporters -> Nat]
    <3>1. CASE topic' = [topic EXCEPT ![t] = TRUE] /\ live' = [live EXCEPT ![t] = @ + 1]
      BY <3>1 DEF Prof!TypeOK
    <3>2. CASE UNCHANGED <<topic, live>>
      BY <3>2 DEF Prof!TypeOK
    <3> QED BY <3>1, <3>2 DEF Prof!MakeTopic
  <2>2. pc' \in [Reporters -> Prof!ReportPoints]
    BY DEF Prof!TypeOK, Prof!MakeTopic, Prof!Go, Prof!ReportPoints
  <2> QED BY <2>1, <2>2 DEF Prof!TypeOK, Prof!MakeTopic, Prof!cjsonVars, Prof!callVars
<1>2. /\ pc[t] = "topic" /\ pc'[t] = "build" /\ at'[t] = at[t]
      /\ \/ topic'[t] = TRUE /\ live'[t] = live[t] + 1
         \/ topic'[t] = topic[t] /\ live'[t] = live[t]
      /\ UNCHANGED <<payload, roots, kv, text, keyless, printed, mixed, early, cjson, hooks>>
  BY DEF Prof!MakeTopic, Prof!Go, Prof!cjsonVars, Prof!callVars, Prof!TypeOK
<1>3. /\ NoTree(t) /\ text[t] = Prof!None /\ topic[t] = FALSE /\ at[t] = 1 /\ keyless[t] = 0
      /\ Accounted(t) /\ OwnAllocator(t)
  BY <1>2 DEF OneInv, PointOK
<1>4. Accounted(t)'
  BY <1>2, <1>3, BlocksKnown DEF Accounted, BlocksAt
<1>5. Building(t)'
  <2> DEFINE s == Prof!Requests(payload[t])
  <2>1. PICK D : IsWalk(s, D, 0, 1)
    BY BlocksKnown, RequestsWalk DEF Walks
  <2>2. D[0] = 0 /\ Len(s) \in Nat
    BY <2>1 DEF IsWalk
  <2>3. Nodes(s, 0) = 0
    BY NodesNone
  <2> HIDE DEF s
  <2>4. /\ at'[t] = 1 /\ Len(roots'[t]) = 0 /\ kv'[t] = Prof!None /\ text'[t] = Prof!None
        /\ Prof!InRoots(roots'[t]) + Prof!Count(kv'[t]) + 2 * keyless'[t] = 0
        /\ Prof!Requests(payload'[t]) = s /\ at'[t] - 1 = 0
    BY <1>2, <1>3, InRootsEmpty, BlocksNone DEF NoTree, s
  <2>5. at'[t] \in 1..Len(s) + 1 /\ Len(roots'[t]) = D[at'[t] - 1] /\ ~(at'[t] > 1)
    BY <2>2, <2>4
  <2> QED BY <2>1, <2>3, <2>4, <2>5 DEF Building, ValueHeld
<1>6. PointOK(t)'
  BY <1>2, <1>5 DEF PointOK
<1>7. OwnAllocator(t)'
  BY <1>2, <1>3 DEF OwnAllocator, NotLibc
<1> QED BY <1>1, <1>4, <1>6, <1>7 DEF OneInv

\* The tree before and after a request that was met.
LEMMA Built ==
  ASSUME Prof!TypeOK, NEW t \in Reporters, Building(t), NEW request, Prof!Asks(t, request),
         Prof!NextRequest(t),
         pc' = pc, payload' = payload, text' = text
  PROVE  LET s == Prof!Requests(payload[t])
         IN  /\ at[t] \in 1..Len(s) /\ s[at[t]] = request
             /\ request # "root" => Len(roots[t]) >= 1
             /\ request = "add" => Len(roots[t]) >= 2
             /\ IF request = "key" THEN Prof!Count(kv[t]) = 1 ELSE kv[t] = Prof!None
             /\ Len(roots'[t]) = (CASE request = "root" -> Len(roots[t]) + 1
                                    [] request = "add" -> Len(roots[t]) - 1
                                    [] OTHER -> Len(roots[t])) 
                  /\ Prof!InRoots(roots'[t]) + Prof!Count(kv'[t]) + 2 * keyless'[t]
                       = Prof!InRoots(roots[t]) + Prof!Count(kv[t]) + 2 * keyless[t]
                           + (IF request = "add" THEN 0 ELSE 1)
                  /\ (IF request = "value" THEN Prof!Count(kv'[t]) = 1 ELSE kv'[t] = Prof!None)
                  => Building(t)'
<1> DEFINE s == Prof!Requests(payload[t])
           n == at[t]
<1>1. PICK D : IsWalk(s, D, 0, 1) /\ Len(roots[t]) = D[n - 1]
  BY DEF Building
<1>2. n \in 1..Len(s) /\ s[n] = request /\ at'[t] = n + 1 /\ n \in Nat \ {0}
      /\ Len(s) \in Nat
  BY <1>1 DEF Prof!Asks, Prof!NextRequest, Prof!TypeOK, IsWalk
<1>3. /\ request \in Asked /\ D[n] \in Nat /\ D[n - 1] \in Nat
      /\ request = "root" => D[n] = D[n - 1] + 1
      /\ request = "add" => D[n - 1] >= 2 /\ D[n] = D[n - 1] - 1
      /\ request \in {"item", "value", "key"} => D[n - 1] >= 1 /\ D[n] = D[n - 1]
      /\ (n > 1 /\ s[n - 1] = "value") <=> request = "key"
  <2> HIDE DEF s, n
  <2> QED BY <1>1, <1>2, NextToWalk
<1>4. Nodes(s, n) = Nodes(s, n - 1) + (IF request = "add" THEN 0 ELSE 1)
  BY <1>2, NodesNext
<1>5. /\ ValueHeld(t) /\ text[t] = Prof!None
      /\ Prof!InRoots(roots[t]) + Prof!Count(kv[t]) + 2 * keyless[t] = Nodes(s, n - 1)
  BY DEF Building
<1>6. IF request = "key" THEN Prof!Count(kv[t]) = 1 ELSE kv[t] = Prof!None
  BY <1>3, <1>5 DEF ValueHeld
<1>7. ASSUME Len(roots'[t]) = (CASE request = "root" -> Len(roots[t]) + 1
                                    [] request = "add" -> Len(roots[t]) - 1
                                    [] OTHER -> Len(roots[t])),
             Prof!InRoots(roots'[t]) + Prof!Count(kv'[t]) + 2 * keyless'[t]
               = Prof!InRoots(roots[t]) + Prof!Count(kv[t]) + 2 * keyless[t]
                   + (IF request = "add" THEN 0 ELSE 1),
             IF request = "value" THEN Prof!Count(kv'[t]) = 1 ELSE kv'[t] = Prof!None
      PROVE  Building(t)'
  <2> HIDE DEF s, n
  <2>1. Prof!Requests(payload'[t]) = s /\ at'[t] - 1 = n /\ at'[t] \in 1..Len(s) + 1
        /\ at'[t] > 1
    BY <1>2 DEF s
  <2>2. Len(roots'[t]) = D[n]
    <3>1. CASE request = "root"
      BY <1>1, <1>3, <1>7, <3>1
    <3>2. CASE request = "add"
      BY <1>1, <1>3, <1>7, <3>2
    <3>3. CASE request \notin {"root", "add"}
      BY <1>1, <1>3, <1>7, <3>3 DEF Asked
    <3> QED BY <3>1, <3>2, <3>3
  <2>3. Prof!InRoots(roots'[t]) + Prof!Count(kv'[t]) + 2 * keyless'[t] = Nodes(s, n)
    BY <1>4, <1>5, <1>7
  <2>4. ValueHeld(t)'
    BY <1>2, <1>7, <2>1 DEF ValueHeld
  <2>5. text'[t] = Prof!None
    BY <1>5
  <2> QED BY <1>1, <2>1, <2>2, <2>3, <2>4, <2>5 DEF Building
<1> QED BY <1>1, <1>2, <1>3, <1>6, <1>7 DEF Asked

LEMMA CreateRootKeeps ==
  ASSUME Prof!TypeOK, HooksOK, NEW t \in Reporters, OneInv(t), Prof!CreateRoot(t)
  PROVE  Prof!TypeOK' /\ OneInv(t)'
<1>0. /\ roots[t] \in Seq(Prof!Blocks) /\ Prof!OneBlock \in Prof!Blocks
         /\ Prof!Count(Prof!OneBlock) = 1
      /\ Prof!InRoots(roots[t]) \in Nat /\ Prof!Count(kv[t]) \in Nat
         /\ Prof!Count(text[t]) \in Nat
      /\ live[t] \in Nat /\ keyless[t] \in Nat
      /\ hooks.malloc = "hi" => Prof!OneBlock["libc"] = 0
  BY BlocksKnown
<1> DEFINE rs == Append(roots[t], Prof!OneBlock)
<1>1. rs \in Seq(Prof!Blocks) /\ Len(rs) = Len(roots[t]) + 1
      /\ Prof!InRoots(rs) = Prof!InRoots(roots[t]) + 1
  BY <1>0, InRootsAppend
<1>2. /\ roots' = [roots EXCEPT ![t] = rs] /\ live' = [live EXCEPT ![t] = @ + 1]
      /\ at' = [at EXCEPT ![t] = @ + 1]
      /\ UNCHANGED <<pc, payload, kv, text, topic, keyless, printed, mixed, early, cjson, hooks>>
      /\ pc[t] = "build" /\ Prof!Asks(t, "root") /\ Prof!NextRequest(t)
  BY DEF Prof!CreateRoot, Prof!NextRequest, Prof!Allocated, Prof!Asks, Prof!cjsonVars,
    Prof!callVars
<1> HIDE DEF rs
<1>3. Prof!TypeOK'
  BY <1>1, <1>2 DEF Prof!TypeOK
<1>4. /\ roots'[t] = rs /\ live'[t] = live[t] + 1
      /\ kv'[t] = kv[t] /\ text'[t] = text[t] /\ topic'[t] = topic[t]
         /\ keyless'[t] = keyless[t]
  BY <1>2 DEF Prof!TypeOK
<1>5. Accounted(t) /\ Building(t) /\ OwnAllocator(t)
  BY <1>2 DEF OneInv, PointOK
<1>6. Accounted(t)'
  BY <1>0, <1>1, <1>4, <1>5 DEF Accounted, BlocksAt
<1>7. Building(t)'
  <2>1. kv[t] = Prof!None
    BY <1>2, <1>5, Built
  <2>2. /\ Len(roots'[t]) = Len(roots[t]) + 1 /\ kv'[t] = Prof!None
        /\ Prof!InRoots(roots'[t]) + Prof!Count(kv'[t]) + 2 * keyless'[t]
             = Prof!InRoots(roots[t]) + Prof!Count(kv[t]) + 2 * keyless[t] + 1
    BY <1>0, <1>1, <1>4, <2>1
  <2> QED BY <1>2, <1>5, <2>2, Built
<1>8. PointOK(t)'
  BY <1>2, <1>7 DEF PointOK
<1>9. OwnAllocator(t)'
  <2>1. ASSUME NotLibc(t), hooks.malloc = "hi" PROVE NotLibc(t)'
    <3>1. ASSUME NEW n \in 1..Len(rs) PROVE rs[n]["libc"] = 0
      BY <1>0, <2>1 DEF NotLibc, rs
    <3> QED BY <1>2, <1>4, <2>1, <3>1 DEF NotLibc
  <2> QED BY <1>2, <1>5, <2>1 DEF OwnAllocator, HooksOK
<1> QED BY <1>3, <1>6, <1>8, <1>9 DEF OneInv

LEMMA CreateItemKeeps ==
  ASSUME Prof!TypeOK, HooksOK, NEW t \in Reporters, OneInv(t), Prof!CreateItem(t)
  PROVE  Prof!TypeOK' /\ OneInv(t)'
<1>0. /\ roots[t] \in Seq(Prof!Blocks) /\ Prof!OneBlock \in Prof!Blocks
         /\ Prof!Count(Prof!OneBlock) = 1
      /\ Prof!InRoots(roots[t]) \in Nat /\ Prof!Count(kv[t]) \in Nat
         /\ Prof!Count(text[t]) \in Nat
      /\ live[t] \in Nat /\ keyless[t] \in Nat
      /\ hooks.malloc = "hi" => Prof!OneBlock["libc"] = 0
  BY BlocksKnown
<1> DEFINE m == Len(roots[t])
           rs == [roots[t] EXCEPT ![m] = Prof!Plus(@, Prof!OneBlock)]
<1>1. /\ roots' = [roots EXCEPT ![t] = rs] /\ live' = [live EXCEPT ![t] = @ + 1]
      /\ at' = [at EXCEPT ![t] = @ + 1]
      /\ UNCHANGED <<pc, payload, kv, text, topic, keyless, printed, mixed, early, cjson, hooks>>
      /\ pc[t] = "build" /\ Prof!Asks(t, "item") /\ Prof!NextRequest(t)
  BY DEF Prof!CreateItem, Prof!NextRequest, Prof!Allocated, Prof!Asks, Prof!Innermost,
    Prof!cjsonVars, Prof!callVars
<1>2. Accounted(t) /\ Building(t) /\ OwnAllocator(t)
  BY <1>1 DEF OneInv, PointOK
<1>3. m >= 1 /\ kv[t] = Prof!None
  BY <1>1, <1>2, Built
<1>4. rs \in Seq(Prof!Blocks) /\ Len(rs) = m
      /\ Prof!InRoots(rs) = Prof!InRoots(roots[t]) + 1
  BY <1>0, <1>3, InRootsGrow
<1>5. NotLibc(t) /\ hooks.malloc = "hi" => \A n \in 1..Len(rs) : rs[n]["libc"] = 0
  <2> SUFFICES ASSUME NotLibc(t), hooks.malloc = "hi", NEW n \in 1..Len(rs)
               PROVE  rs[n]["libc"] = 0
    OBVIOUS
  <2>1. n \in 1..m /\ roots[t][n]["libc"] = 0 /\ roots[t][n] \in Prof!Blocks
    BY <1>0, <1>4 DEF NotLibc
  <2>2. rs[n] \in {roots[t][n], Prof!Plus(roots[t][n], Prof!OneBlock)}
    BY <1>0, <2>1
  <2>3. Prof!Plus(roots[t][n], Prof!OneBlock)["libc"] = 0
    BY <1>0, <2>1, BlocksPlus
  <2> QED BY <2>1, <2>2, <2>3
<1> HIDE DEF rs
<1>6. Prof!TypeOK'
  BY <1>1, <1>4 DEF Prof!TypeOK
<1>7. /\ roots'[t] = rs /\ live'[t] = live[t] + 1
      /\ kv'[t] = kv[t] /\ text'[t] = text[t] /\ topic'[t] = topic[t]
         /\ keyless'[t] = keyless[t]
  BY <1>1 DEF Prof!TypeOK
<1>8. Accounted(t)'
  BY <1>0, <1>2, <1>4, <1>7 DEF Accounted, BlocksAt
<1>9. Building(t)'
  <2>1. /\ Len(roots'[t]) = Len(roots[t]) /\ kv'[t] = Prof!None
        /\ Prof!InRoots(roots'[t]) + Prof!Count(kv'[t]) + 2 * keyless'[t]
             = Prof!InRoots(roots[t]) + Prof!Count(kv[t]) + 2 * keyless[t] + 1
    BY <1>0, <1>3, <1>4, <1>7
  <2> QED BY <1>1, <1>2, <2>1, Built
<1>10. PointOK(t)'
  BY <1>1, <1>9 DEF PointOK
<1>11. OwnAllocator(t)'
  BY <1>1, <1>2, <1>5, <1>7 DEF OwnAllocator, HooksOK, NotLibc
<1> QED BY <1>6, <1>8, <1>10, <1>11 DEF OneInv

LEMMA ValueKeeps ==
  ASSUME Prof!TypeOK, HooksOK, NEW t \in Reporters, OneInv(t), Prof!FormateProflleValue(t)
  PROVE  Prof!TypeOK' /\ OneInv(t)'
<1>0. /\ Prof!OneBlock \in Prof!Blocks /\ Prof!Count(Prof!OneBlock) = 1
         /\ Prof!Count(Prof!None) = 0
      /\ Prof!InRoots(roots[t]) \in Nat /\ Prof!Count(kv[t]) \in Nat
         /\ Prof!Count(text[t]) \in Nat
      /\ live[t] \in Nat /\ keyless[t] \in Nat
      /\ hooks.malloc = "hi" => Prof!OneBlock["libc"] = 0
  BY BlocksKnown
<1>1. /\ kv' = [kv EXCEPT ![t] = Prof!OneBlock] /\ live' = [live EXCEPT ![t] = @ + 1]
      /\ at' = [at EXCEPT ![t] = @ + 1]
      /\ UNCHANGED <<pc, payload, roots, text, topic, keyless, printed, mixed, early, cjson, hooks>>
      /\ pc[t] = "build" /\ Prof!Asks(t, "value") /\ Prof!NextRequest(t)
  BY DEF Prof!FormateProflleValue, Prof!NextRequest, Prof!Allocated, Prof!Asks,
    Prof!cjsonVars, Prof!callVars
<1>2. Accounted(t) /\ Building(t) /\ OwnAllocator(t)
  BY <1>1 DEF OneInv, PointOK
<1>3. kv[t] = Prof!None
  BY <1>1, <1>2, Built
<1>4. Prof!TypeOK'
  BY <1>0, <1>1 DEF Prof!TypeOK
<1>5. /\ kv'[t] = Prof!OneBlock /\ live'[t] = live[t] + 1 /\ roots'[t] = roots[t]
      /\ text'[t] = text[t] /\ topic'[t] = topic[t] /\ keyless'[t] = keyless[t]
  BY <1>1 DEF Prof!TypeOK
<1>6. Accounted(t)'
  BY <1>0, <1>2, <1>3, <1>5 DEF Accounted, BlocksAt
<1>7. Building(t)'
  <2>1. /\ Len(roots'[t]) = Len(roots[t]) /\ Prof!Count(kv'[t]) = 1
        /\ Prof!InRoots(roots'[t]) + Prof!Count(kv'[t]) + 2 * keyless'[t]
             = Prof!InRoots(roots[t]) + Prof!Count(kv[t]) + 2 * keyless[t] + 1
    BY <1>0, <1>3, <1>5
  <2> QED BY <1>1, <1>2, <2>1, Built
<1>8. PointOK(t)'
  BY <1>1, <1>7 DEF PointOK
<1>9. OwnAllocator(t)'
  BY <1>0, <1>1, <1>2, <1>5 DEF OwnAllocator, HooksOK, NotLibc
<1> QED BY <1>4, <1>6, <1>8, <1>9 DEF OneInv

LEMMA KeyKeeps ==
  ASSUME Prof!TypeOK, HooksOK, NEW t \in Reporters, OneInv(t), Prof!AddItemToObject(t)
  PROVE  Prof!TypeOK' /\ OneInv(t)'
<1>0. /\ roots[t] \in Seq(Prof!Blocks) /\ Prof!OneBlock \in Prof!Blocks
         /\ Prof!Count(Prof!OneBlock) = 1
      /\ kv[t] \in Prof!Blocks /\ Prof!None \in Prof!Blocks /\ Prof!Count(Prof!None) = 0
         /\ Prof!None["libc"] = 0
      /\ Prof!InRoots(roots[t]) \in Nat /\ Prof!Count(kv[t]) \in Nat
         /\ Prof!Count(text[t]) \in Nat
      /\ live[t] \in Nat /\ keyless[t] \in Nat
      /\ hooks.malloc = "hi" => Prof!OneBlock["libc"] = 0
  BY BlocksKnown
<1> DEFINE m == Len(roots[t])
           rs == [roots[t] EXCEPT ![m] = Prof!Plus(Prof!Plus(@, kv[t]), Prof!OneBlock)]
<1>1. /\ roots' = [roots EXCEPT ![t] = rs] /\ live' = [live EXCEPT ![t] = @ + 1]
      /\ kv' = [kv EXCEPT ![t] = Prof!None] /\ at' = [at EXCEPT ![t] = @ + 1]
      /\ UNCHANGED <<pc, payload, text, topic, keyless, printed, mixed, early, cjson, hooks>>
      /\ pc[t] = "build" /\ Prof!Asks(t, "key") /\ Prof!NextRequest(t)
  BY DEF Prof!AddItemToObject, Prof!NextRequest, Prof!Allocated, Prof!Asks, Prof!Innermost,
    Prof!cjsonVars, Prof!callVars
<1>2. Accounted(t) /\ Building(t) /\ OwnAllocator(t)
  BY <1>1 DEF OneInv, PointOK
<1>3. m >= 1 /\ m \in Nat /\ Prof!Count(kv[t]) = 1
  BY <1>0, <1>1, <1>2, Built
<1>4. rs \in Seq(Prof!Blocks) /\ Len(rs) = m
      /\ Prof!InRoots(rs) = Prof!InRoots(roots[t]) + Prof!Count(kv[t]) + 1
  <2> DEFINE b == Prof!Plus(kv[t], Prof!OneBlock)
             as == [roots[t] EXCEPT ![m] = Prof!Plus(@, b)]
  <2>1. b \in Prof!Blocks /\ Prof!Count(b) = Prof!Count(kv[t]) + 1
    BY <1>0, BlocksPlus
  <2>2. roots[t][m] \in Prof!Blocks
    BY <1>0, <1>3
  <2>3. Prof!Plus(Prof!Plus(roots[t][m], kv[t]), Prof!OneBlock) = Prof!Plus(roots[t][m], b)
    BY <1>0, <2>2, BlocksPlusPlus
  <2>4. rs = as
    BY <2>3, Zenon
  <2> HIDE DEF b, rs
  <2>5. as \in Seq(Prof!Blocks) /\ Len(as) = m
        /\ Prof!InRoots(as) = Prof!InRoots(roots[t]) + Prof!Count(b)
    BY <1>0, <1>3, <2>1, InRootsGrow
  <2> QED BY <1>0, <2>1, <2>4, <2>5
<1>5. NotLibc(t) /\ hooks.malloc = "hi" => \A n \in 1..Len(rs) : rs[n]["libc"] = 0
  <2> SUFFICES ASSUME NotLibc(t), hooks.malloc = "hi", NEW n \in 1..Len(rs)
               PROVE  rs[n]["libc"] = 0
    OBVIOUS
  <2>1. n \in 1..m /\ roots[t][n]["libc"] = 0 /\ roots[t][n] \in Prof!Blocks
        /\ kv[t]["libc"] = 0
    BY <1>0, <1>4 DEF NotLibc
  <2>2. rs[n] \in {roots[t][n], Prof!Plus(Prof!Plus(roots[t][n], kv[t]), Prof!OneBlock)}
    BY <1>0, <2>1
  <2>3. Prof!Plus(Prof!Plus(roots[t][n], kv[t]), Prof!OneBlock)["libc"] = 0
    <3>1. Prof!Plus(roots[t][n], kv[t]) \in Prof!Blocks
          /\ Prof!Plus(roots[t][n], kv[t])["libc"] = 0
      BY <1>0, <2>1, BlocksPlus
    <3> QED BY <1>0, <3>1, BlocksPlus
  <2> QED BY <2>1, <2>2, <2>3
<1> HIDE DEF rs
<1>6. Prof!TypeOK'
  BY <1>0, <1>1, <1>4 DEF Prof!TypeOK
<1>7. /\ roots'[t] = rs /\ live'[t] = live[t] + 1 /\ kv'[t] = Prof!None
      /\ text'[t] = text[t] /\ topic'[t] = topic[t] /\ keyless'[t] = keyless[t]
  BY <1>1 DEF Prof!TypeOK
<1>8. Accounted(t)'
  BY <1>0, <1>2, <1>4, <1>7 DEF Accounted, BlocksAt
<1>9. Building(t)'
  <2>1. /\ Len(roots'[t]) = Len(roots[t]) /\ kv'[t] = Prof!None
        /\ Prof!InRoots(roots'[t]) + Prof!Count(kv'[t]) + 2 * keyless'[t]
             = Prof!InRoots(roots[t]) + Prof!Count(kv[t]) + 2 * keyless[t] + 1
    <3>1. Prof!Count(kv'[t]) = 0 /\ Prof!InRoots(roots'[t]) = Prof!InRoots(roots[t]) + 2
      BY <1>0, <1>3, <1>4, <1>7
    <3> QED BY <1>0, <1>3, <1>4, <1>7, <3>1
  <2> QED BY <1>1, <1>2, <2>1, Built
<1>10. PointOK(t)'
  BY <1>1, <1>9 DEF PointOK
<1>11. OwnAllocator(t)'
  BY <1>0, <1>1, <1>2, <1>5, <1>7 DEF OwnAllocator, HooksOK, NotLibc
<1> QED BY <1>6, <1>8, <1>10, <1>11 DEF OneInv

LEMMA KeyNotCopiedKeeps ==
  ASSUME Prof!TypeOK, HooksOK, NEW t \in Reporters, OneInv(t), Prof!KeyNotCopied(t)
  PROVE  Prof!TypeOK' /\ OneInv(t)'
<1>0. /\ Prof!None \in Prof!Blocks /\ Prof!Count(Prof!None) = 0 /\ Prof!None["libc"] = 0
      /\ Prof!InRoots(roots[t]) \in Nat /\ Prof!Count(kv[t]) \in Nat
         /\ Prof!Count(text[t]) \in Nat
      /\ live[t] \in Nat /\ keyless[t] \in Nat
  BY BlocksKnown
<1>1. /\ keyless' = [keyless EXCEPT ![t] = @ + 1]
      /\ kv' = [kv EXCEPT ![t] = Prof!None] /\ at' = [at EXCEPT ![t] = @ + 1]
      /\ UNCHANGED <<pc, payload, roots, text, topic, live, printed, mixed, early, cjson, hooks>>
      /\ pc[t] = "build" /\ Prof!Asks(t, "key") /\ Prof!NextRequest(t)
  BY DEF Prof!KeyNotCopied, Prof!NextRequest, Prof!Asks, Prof!cjsonVars
<1>2. Accounted(t) /\ Building(t) /\ OwnAllocator(t)
  BY <1>1 DEF OneInv, PointOK
<1>3. Prof!Count(kv[t]) = 1
  BY <1>1, <1>2, Built
<1>4. Prof!TypeOK'
  BY <1>0, <1>1 DEF Prof!TypeOK
<1>5. /\ roots'[t] = roots[t] /\ live'[t] = live[t] /\ kv'[t] = Prof!None
      /\ text'[t] = text[t] /\ topic'[t] = topic[t] /\ keyless'[t] = keyless[t] + 1
  BY <1>1 DEF Prof!TypeOK
<1>6. Accounted(t)'
  BY <1>0, <1>2, <1>3, <1>5 DEF Accounted, BlocksAt
<1>7. Building(t)'
  <2>1. /\ Len(roots'[t]) = Len(roots[t]) /\ kv'[t] = Prof!None
        /\ Prof!InRoots(roots'[t]) + Prof!Count(kv'[t]) + 2 * keyless'[t]
             = Prof!InRoots(roots[t]) + Prof!Count(kv[t]) + 2 * keyless[t] + 1
    BY <1>0, <1>3, <1>5
  <2> QED BY <1>1, <1>2, <2>1, Built
<1>8. PointOK(t)'
  BY <1>1, <1>7 DEF PointOK
<1>9. OwnAllocator(t)'
  BY <1>0, <1>1, <1>2, <1>5 DEF OwnAllocator, NotLibc
<1> QED BY <1>4, <1>6, <1>8, <1>9 DEF OneInv

LEMMA AddToCallerKeeps ==
  ASSUME Prof!TypeOK, HooksOK, NEW t \in Reporters, OneInv(t), Prof!AddToCaller(t)
  PROVE  Prof!TypeOK' /\ OneInv(t)'
<1>0. /\ roots[t] \in Seq(Prof!Blocks)
      /\ Prof!InRoots(roots[t]) \in Nat /\ Prof!Count(kv[t]) \in Nat
         /\ Prof!Count(text[t]) \in Nat
      /\ live[t] \in Nat /\ keyless[t] \in Nat
  BY BlocksKnown
<1> DEFINE m == Len(roots[t])
           front == SubSeq(roots[t], 1, m - 2)
           b == Prof!Plus(roots[t][m - 1], roots[t][m])
           rs == Append(front, b)
<1>1. /\ roots' = [roots EXCEPT ![t] = rs] /\ at' = [at EXCEPT ![t] = @ + 1]
      /\ UNCHANGED <<pc, payload, kv, text, topic, live, keyless, printed, mixed, early, cjson, hooks>>
      /\ pc[t] = "build" /\ Prof!Asks(t, "add") /\ Prof!NextRequest(t)
  BY DEF Prof!AddToCaller, Prof!NextRequest, Prof!Asks, Prof!Innermost, Prof!cjsonVars,
    Prof!callVars
<1>2. Accounted(t) /\ Building(t) /\ OwnAllocator(t)
  BY <1>1 DEF OneInv, PointOK
<1>3. m >= 2 /\ m \in Nat /\ kv[t] = Prof!None
  BY <1>0, <1>1, <1>2, Built
<1>4. rs \in Seq(Prof!Blocks) /\ Len(rs) = m - 1
      /\ Prof!InRoots(rs) = Prof!InRoots(roots[t])
  BY <1>0, <1>3, InRootsJoin
<1>5. NotLibc(t) => \A n \in 1..Len(rs) : rs[n]["libc"] = 0
  <2> SUFFICES ASSUME NotLibc(t), NEW n \in 1..Len(rs) PROVE rs[n]["libc"] = 0
    OBVIOUS
  <2>1. \A i \in 1..m : roots[t][i] \in Prof!Blocks /\ roots[t][i]["libc"] = 0
    BY <1>0 DEF NotLibc
  <2>2. front \in Seq(Prof!Blocks) /\ Len(front) = m - 2
        /\ \A i \in 1..m - 2 : front[i] = roots[t][i]
    <3>1. m - 2 \in 0..m
      BY <1>3
    <3> QED BY <1>0, <3>1, FirstOf
  <2>3. b \in Prof!Blocks /\ b["libc"] = 0
    BY <1>3, <2>1, BlocksPlus
  <2> HIDE DEF front, b
  <2>4. (\A i \in 1..m - 2 : rs[i] = front[i]) /\ rs[m - 1] = b
    BY <1>3, <2>2, <2>3, AppendProperties
  <2>5. n \in 1..m - 2 \/ n = m - 1
    BY <1>3, <1>4
  <2> QED BY <1>3, <2>1, <2>2, <2>3, <2>4, <2>5
<1> HIDE DEF rs
<1>6. Prof!TypeOK'
  BY <1>1, <1>4 DEF Prof!TypeOK
<1>7. /\ roots'[t] = rs /\ live'[t] = live[t] /\ kv'[t] = kv[t]
      /\ text'[t] = text[t] /\ topic'[t] = topic[t] /\ keyless'[t] = keyless[t]
  BY <1>1 DEF Prof!TypeOK
<1>8. Accounted(t)'
  BY <1>0, <1>2, <1>4, <1>7 DEF Accounted, BlocksAt
<1>9. Building(t)'
  <2>1. /\ Len(roots'[t]) = Len(roots[t]) - 1 /\ kv'[t] = Prof!None
        /\ Prof!InRoots(roots'[t]) + Prof!Count(kv'[t]) + 2 * keyless'[t]
             = Prof!InRoots(roots[t]) + Prof!Count(kv[t]) + 2 * keyless[t] + 0
    BY <1>0, <1>3, <1>4, <1>7
  <2> QED BY <1>1, <1>2, <2>1, Built
<1>10. PointOK(t)'
  BY <1>1, <1>9 DEF PointOK
<1>11. OwnAllocator(t)'
  BY <1>1, <1>2, <1>5, <1>7 DEF OwnAllocator, NotLibc
<1> QED BY <1>6, <1>8, <1>10, <1>11 DEF OneInv

LEMMA NodeFailsKeeps ==
  ASSUME Prof!TypeOK, HooksOK, NEW t \in Reporters, OneInv(t), Prof!NodeFails(t)
  PROVE  Prof!TypeOK' /\ OneInv(t)'
<1>1. PICK request \in {"root", "item", "value"} : Prof!Asks(t, request)
  BY DEF Prof!NodeFails
<1>2. /\ pc[t] = "build" /\ pc' = [pc EXCEPT ![t] = "exit"]
      /\ UNCHANGED <<payload, at, roots, kv, text, topic, live,
                     keyless, printed, mixed, early, cjson, hooks>>
  BY DEF Prof!NodeFails, Prof!Go, Prof!cjsonVars, Prof!heapVars, Prof!callVars
<1>3. Accounted(t) /\ Building(t) /\ OwnAllocator(t)
  BY <1>2 DEF OneInv, PointOK
<1>4. kv[t] = Prof!None /\ text[t] = Prof!None
  <2> DEFINE s == Prof!Requests(payload[t])
             n == at[t]
  <2>1. PICK D : IsWalk(s, D, 0, 1)
    BY <1>3 DEF Building
  <2>2. n \in 1..Len(s) /\ s[n] = request
    BY <1>1, <2>1 DEF Prof!Asks, Prof!TypeOK, IsWalk
  <2>3. ~(n > 1 /\ s[n - 1] = "value")
    <3> HIDE DEF s, n
    <3>1. (n > 1 /\ s[n - 1] = "value") <=> s[n] = "key"
      BY <2>1, <2>2, NextToWalk
    <3> QED BY <2>2, <3>1
  <2> QED BY <1>3, <2>3 DEF Building, ValueHeld
<1>5. Prof!TypeOK'
  BY <1>2 DEF Prof!TypeOK, Prof!ReportPoints
<1>6. pc'[t] = "exit"
  BY <1>2 DEF Prof!TypeOK
<1>7. Accounted(t)' /\ PointOK(t)' /\ OwnAllocator(t)'
  BY <1>2, <1>3, <1>4, <1>6 DEF Accounted, BlocksAt, PointOK, OwnAllocator, NotLibc
<1> QED BY <1>5, <1>7 DEF OneInv

\* Blocks that came from hi_malloc go to hi_free.
LEMMA FreesOwn ==
  ASSUME Prof!TypeOK, HooksOK, NEW t \in Reporters, NEW b \in Prof!Blocks,
         Prof!FreeBlocks(t, b), OwnAllocator(t),
         pc[t] # "idle", NotLibc(t) => b["libc"] = 0, Prof!Count(b) <= live[t]
  PROVE  /\ mixed' \in [Reporters -> BOOLEAN] /\ (mixed'[t] => early[t])
         /\ live' \in [Reporters -> Nat] /\ live'[t] = live[t] - Prof!Count(b)
<1>1. live' = [live EXCEPT ![t] = @ - Prof!Count(b)] /\ Prof!Count(b) \in Nat
      /\ live[t] \in Nat
  BY BlocksPlus DEF Prof!FreeBlocks, Prof!TypeOK
<1>2. live' \in [Reporters -> Nat] /\ live'[t] = live[t] - Prof!Count(b)
  BY <1>1 DEF Prof!TypeOK
<1> DEFINE wrong == \E a \in Prof!Allocators : b[a] > 0 /\ a # hooks.free
<1>3. mixed' = [mixed EXCEPT ![t] = @ \/ wrong]
  BY DEF Prof!FreeBlocks
<1>4. ~early[t] => ~wrong
  BY DEF OwnAllocator, HooksOK, Prof!Allocators, Prof!Blocks
<1> HIDE DEF wrong
<1>5. mixed' \in [Reporters -> BOOLEAN]
  BY <1>3, Zenon DEF Prof!TypeOK
<1>6. mixed'[t] <=> (mixed[t] \/ wrong)
  BY <1>3, Zenon DEF Prof!TypeOK
<1> QED BY <1>2, <1>4, <1>5, <1>6 DEF OwnAllocator

LEMMA ExitMemKeeps ==
  ASSUME Prof!TypeOK, HooksOK, NEW t \in Reporters, OneInv(t), Prof!ExitMem(t)
  PROVE  Prof!TypeOK' /\ OneInv(t)'
<1>0. /\ roots[t] \in Seq(Prof!Blocks)
      /\ Prof!InRoots(roots[t]) \in Nat /\ Prof!Count(kv[t]) \in Nat
         /\ Prof!Count(text[t]) \in Nat
      /\ live[t] \in Nat /\ keyless[t] \in Nat /\ topic[t] \in BOOLEAN
  BY BlocksKnown
<1> DEFINE m == Len(roots[t])
           b == roots[t][m]
           rs == SubSeq(roots[t], 1, m - 1)
<1>1. m \in Nat /\ m >= 1 /\ b \in Prof!Blocks
  BY <1>0 DEF Prof!ExitMem
<1>2. /\ pc[t] = "exit" /\ pc' = [pc EXCEPT ![t] = IF m = 1 THEN "send" ELSE "exit"]
      /\ Prof!FreeBlocks(t, b)
      /\ roots' = [roots EXCEPT ![t] = rs]
      /\ UNCHANGED <<payload, at, kv, text, topic, keyless, printed, early, cjson, hooks>>
  BY DEF Prof!ExitMem, Prof!Go, Prof!Innermost, Prof!Last, Prof!Front, Prof!cjsonVars
<1>3. Accounted(t) /\ kv[t] = Prof!None /\ text[t] = Prof!None /\ OwnAllocator(t)
  BY <1>2 DEF OneInv, PointOK
<1>4. rs \in Seq(Prof!Blocks)
      /\ Prof!InRoots(roots[t]) = Prof!InRoots(rs) + Prof!Count(b)
         /\ Prof!InRoots(rs) \in Nat
      /\ Len(rs) = m - 1 /\ \A i \in 1..m - 1 : rs[i] = roots[t][i]
  <2>1. m - 1 \in 0..m
    BY <1>1
  <2>2. rs \in Seq(Prof!Blocks) /\ Len(rs) = m - 1
        /\ \A i \in 1..m - 1 : rs[i] = roots[t][i]
    BY <1>0, <2>1, FirstOf
  <2> QED BY <1>0, <1>1, <2>2, InRootsLast, InRootsNat
<1>6. NotLibc(t) => b["libc"] = 0
  BY <1>1 DEF NotLibc
<1> HIDE DEF b, rs
<1>5. Prof!Count(b) \in Nat /\ Prof!Count(b) <= live[t]
  <2>1. Prof!Count(b) \in Nat
    BY <1>1, BlocksPlus
  <2> QED BY <1>0, <1>3, <1>4, <2>1 DEF Accounted, BlocksAt
<1>7. /\ mixed' \in [Reporters -> BOOLEAN] /\ (mixed'[t] => early[t])
      /\ live' \in [Reporters -> Nat] /\ live'[t] = live[t] - Prof!Count(b)
  BY <1>1, <1>2, <1>3, <1>5, <1>6, FreesOwn
<1>8. Prof!TypeOK'
  <2>1. roots' \in [Reporters -> Seq(Prof!Blocks)]
    BY <1>2, <1>4 DEF Prof!TypeOK
  <2>2. pc' \in [Reporters -> Prof!ReportPoints]
    BY <1>2 DEF Prof!TypeOK, Prof!ReportPoints
  <2> QED BY <1>2, <1>7, <2>1, <2>2 DEF Prof!TypeOK
<1>9. /\ roots'[t] = rs /\ pc'[t] \in {"send", "exit"} /\ (pc'[t] = "send" => m = 1)
      /\ kv'[t] = kv[t] /\ text'[t] = text[t] /\ topic'[t] = topic[t]
         /\ keyless'[t] = keyless[t]
  BY <1>2 DEF Prof!TypeOK
<1>10. Accounted(t)'
  <2>1. (IF topic'[t] THEN 1 ELSE 0) = (IF topic[t] THEN 1 ELSE 0)
    BY <1>9
  <2>2. live[t] = Prof!InRoots(rs) + Prof!Count(b) + Prof!Count(kv[t]) + Prof!Count(text[t])
                    + (IF topic[t] THEN 1 ELSE 0) + keyless[t]
    BY <1>0, <1>3, <1>4, <1>5 DEF Accounted, BlocksAt
  <2>3. live'[t] = Prof!InRoots(rs) + Prof!Count(kv[t]) + Prof!Count(text[t])
                    + (IF topic[t] THEN 1 ELSE 0) + keyless[t]
    <3>1. /\ Prof!InRoots(rs) \in Nat /\ Prof!Count(b) \in Nat
             /\ live'[t] = live[t] - Prof!Count(b)
          /\ (IF topic[t] THEN 1 ELSE 0) \in Nat
      BY <1>4, <1>5, <1>7
    <3> QED BY <1>0, <2>2, <3>1
  <2> QED BY <1>9, <2>1, <2>3 DEF Accounted, BlocksAt
<1>11. PointOK(t)'
  <2>1. m = 1 => rs = <<>>
    BY <1>4
  <2> QED BY <1>3, <1>9, <2>1 DEF PointOK, NoTree
<1>12. OwnAllocator(t)'
  <2>1. NotLibc(t) => NotLibc(t)'
    BY <1>1, <1>4, <1>9 DEF NotLibc
  <2> QED BY <1>2, <1>3, <1>7, <2>1 DEF OwnAllocator
<1> QED BY <1>8, <1>10, <1>11, <1>12 DEF OneInv

LEMMA PrintKeeps ==
  ASSUME Prof!TypeOK, HooksOK, NEW t \in Reporters, OneInv(t), Prof!PrintUnformatted(t)
  PROVE  Prof!TypeOK' /\ OneInv(t)'
<1>0. /\ Prof!OneBlock \in Prof!Blocks /\ Prof!Count(Prof!OneBlock) = 1
         /\ Prof!Count(Prof!None) = 0
      /\ Prof!InRoots(roots[t]) \in Nat /\ Prof!Count(kv[t]) \in Nat
         /\ Prof!Count(text[t]) \in Nat
      /\ live[t] \in Nat /\ keyless[t] \in Nat /\ topic[t] \in BOOLEAN /\ at[t] \in Nat
      /\ hooks.malloc = "hi" => Prof!OneBlock["libc"] = 0
  BY BlocksKnown
<1>1. /\ pc[t] = "build" /\ pc' = [pc EXCEPT ![t] = "delete"]
      /\ at[t] > Len(Prof!Requests(payload[t]))
      /\ \/ text' = [text EXCEPT ![t] = Prof!OneBlock] /\ live' = [live EXCEPT ![t] = @ + 1]
         \/ UNCHANGED <<text, live>>
      /\ printed' = [printed EXCEPT ![t] = Prof!InRoots(roots[t])]
      /\ UNCHANGED <<payload, at, roots, kv, topic, keyless, mixed, early, cjson, hooks>>
  BY DEF Prof!PrintUnformatted, Prof!Go, Prof!Allocated, Prof!cjsonVars
<1>2. Accounted(t) /\ Building(t) /\ OwnAllocator(t)
  BY <1>1 DEF OneInv, PointOK
<1>3. /\ pc'[t] = "delete" /\ printed'[t] = Prof!InRoots(roots[t])
      /\ roots'[t] = roots[t] /\ kv'[t] = kv[t] /\ topic'[t] = topic[t]
         /\ keyless'[t] = keyless[t]
      /\ payload'[t] = payload[t] /\ early'[t] = early[t] /\ mixed'[t] = mixed[t]
  BY <1>1 DEF Prof!TypeOK
<1>4. \/ text'[t] = Prof!OneBlock /\ live'[t] = live[t] + 1
      \/ text'[t] = text[t] /\ live'[t] = live[t]
  BY <1>1 DEF Prof!TypeOK
<1>5. text[t] = Prof!None
  BY <1>2 DEF Building
<1>6. Prof!TypeOK'
  <2>1. text' \in [Reporters -> Prof!Blocks] /\ live' \in [Reporters -> Nat]
    <3>1. CASE text' = [text EXCEPT ![t] = Prof!OneBlock]
               /\ live' = [live EXCEPT ![t] = @ + 1]
      BY <1>0, <3>1 DEF Prof!TypeOK
    <3>2. CASE UNCHANGED <<text, live>>
      BY <3>2 DEF Prof!TypeOK
    <3> QED BY <1>1, <3>1, <3>2
  <2>2. pc' \in [Reporters -> Prof!ReportPoints] /\ printed' \in [Reporters -> Nat]
    BY <1>0, <1>1 DEF Prof!TypeOK, Prof!ReportPoints
  <2> QED BY <1>1, <2>1, <2>2 DEF Prof!TypeOK
<1>7. Accounted(t)'
  BY <1>0, <1>2, <1>3, <1>4, <1>5 DEF Accounted, BlocksAt
<1>8. Len(roots[t]) = 1 /\ kv[t] = Prof!None
      /\ Prof!InRoots(roots[t]) + 2 * keyless[t]
           = Nodes(Prof!Requests(payload[t]), Len(Prof!Requests(payload[t])))
  <2> DEFINE s == Prof!Requests(payload[t])
  <2>1. PICK D : IsWalk(s, D, 0, 1) /\ Len(roots[t]) = D[at[t] - 1]
    BY <1>2 DEF Building
  <2>2. Len(s) \in Nat /\ D[Len(s)] = 1
    BY <2>1 DEF IsWalk
  <2>3. at[t] \in 1..Len(s) + 1 /\ at[t] > Len(s)
    BY <1>1, <1>2 DEF Building
  <2>4. at[t] - 1 = Len(s)
    BY <2>2, <2>3
  <2>5. ~(at[t] > 1 /\ s[at[t] - 1] = "value")
    <3> SUFFICES ASSUME at[t] > 1, s[at[t] - 1] = "value" PROVE FALSE
      OBVIOUS
    <3>1. Len(s) \in 1..Len(s) /\ s[Len(s)] = "value"
      BY <1>0, <2>2, <2>4
    <3>2. Len(s) < Len(s)
      <4> HIDE DEF s
      <4> QED BY <2>1, <3>1 DEF IsWalk
    <3> QED BY <2>2, <3>2
  <2>6. kv[t] = Prof!None
    BY <1>2, <2>5 DEF Building, ValueHeld
  <2>7. Prof!InRoots(roots[t]) + Prof!Count(kv[t]) + 2 * keyless[t] = Nodes(s, at[t] - 1)
    BY <1>2 DEF Building
  <2> QED BY <1>0, <2>1, <2>2, <2>4, <2>6, <2>7
<1>9. PointOK(t)'
  BY <1>3, <1>8 DEF PointOK, Whole
<1>10. OwnAllocator(t)'
  <2>1. NotLibc(t) /\ hooks.malloc = "hi" => NotLibc(t)'
    BY <1>0, <1>3, <1>4 DEF NotLibc
  <2> QED BY <1>1, <1>2, <1>3, <2>1 DEF OwnAllocator, HooksOK
<1> QED BY <1>6, <1>7, <1>9, <1>10 DEF OneInv

LEMMA DeleteTreeKeeps ==
  ASSUME Prof!TypeOK, HooksOK, NEW t \in Reporters, OneInv(t), Prof!DeleteTree(t)
  PROVE  Prof!TypeOK' /\ OneInv(t)'
<1>0. /\ roots[t] \in Seq(Prof!Blocks)
      /\ Prof!InRoots(roots[t]) \in Nat /\ Prof!Count(kv[t]) \in Nat
         /\ Prof!Count(text[t]) \in Nat
      /\ live[t] \in Nat /\ keyless[t] \in Nat /\ topic[t] \in BOOLEAN
  BY BlocksKnown
<1> DEFINE b == roots[t][1]
<1>1. /\ pc[t] = "delete" /\ pc' = [pc EXCEPT ![t] = "send"]
      /\ Prof!FreeBlocks(t, b)
      /\ roots' = [roots EXCEPT ![t] = <<>>]
      /\ UNCHANGED <<payload, at, kv, text, topic, keyless, printed, early, cjson, hooks>>
  BY DEF Prof!DeleteTree, Prof!Go, Prof!cjsonVars
<1>2. Accounted(t) /\ Len(roots[t]) = 1 /\ kv[t] = Prof!None /\ Whole(t) /\ OwnAllocator(t)
  BY <1>1 DEF OneInv, PointOK
<1>3. b \in Prof!Blocks /\ Prof!InRoots(roots[t]) = Prof!Count(b) /\ Prof!Count(b) \in Nat
  <2>1. roots[t][1] \in Prof!Blocks /\ SubSeq(roots[t], 1, 0) = <<>>
    BY <1>0, <1>2
  <2>2. Prof!InRoots(roots[t]) = Prof!InRoots(SubSeq(roots[t], 1, 0)) + Prof!Count(roots[t][1])
    BY <1>0, <1>2, InRootsLast
  <2>3. Prof!Count(roots[t][1]) \in Nat
    BY <2>1, BlocksPlus
  <2>4. Prof!InRoots(SubSeq(roots[t], 1, 0)) = 0
    BY <2>1, InRootsEmpty, Zenon
  <2>5. Prof!InRoots(roots[t]) = Prof!Count(roots[t][1])
    BY <2>2, <2>3, <2>4
  <2> QED BY <2>1, <2>3, <2>5
<1>4. Prof!Count(b) <= live[t]
  BY <1>0, <1>2, <1>3 DEF Accounted, BlocksAt
<1>5. NotLibc(t) => b["libc"] = 0
  BY <1>2 DEF NotLibc
<1> HIDE DEF b
<1>6. /\ mixed' \in [Reporters -> BOOLEAN] /\ (mixed'[t] => early[t])
      /\ live' \in [Reporters -> Nat] /\ live'[t] = live[t] - Prof!Count(b)
  BY <1>1, <1>2, <1>3, <1>4, <1>5, FreesOwn
<1>7. Prof!TypeOK'
  <2>1. roots' \in [Reporters -> Seq(Prof!Blocks)]
        /\ pc' \in [Reporters -> Prof!ReportPoints]
    BY <1>1 DEF Prof!TypeOK, Prof!ReportPoints
  <2> QED BY <1>1, <1>6, <2>1 DEF Prof!TypeOK
<1>8. /\ roots'[t] = <<>> /\ pc'[t] = "send" /\ printed'[t] = printed[t]
         /\ payload'[t] = payload[t]
      /\ kv'[t] = kv[t] /\ text'[t] = text[t] /\ topic'[t] = topic[t]
         /\ keyless'[t] = keyless[t]
  BY <1>1 DEF Prof!TypeOK
<1>9. Accounted(t)'
  BY <1>0, <1>2, <1>3, <1>6, <1>8, InRootsEmpty DEF Accounted, BlocksAt
<1>10. PointOK(t)'
  BY <1>2, <1>8 DEF PointOK, NoTree, Whole
<1>11. OwnAllocator(t)'
  BY <1>1, <1>2, <1>6, <1>8 DEF OwnAllocator, NotLibc
<1> QED BY <1>7, <1>9, <1>10, <1>11 DEF OneInv

LEMMA ReportEndKeeps ==
  ASSUME Prof!TypeOK, HooksOK, NEW t \in Reporters, OneInv(t),
         Prof!ExitEmpty(t) \/ Prof!SendReport(t)
  PROVE  Prof!TypeOK' /\ OneInv(t)'
<1>1. /\ \/ pc[t] = "exit" /\ roots[t] = <<>> /\ pc' = [pc EXCEPT ![t] = "send"]
         \/ pc[t] = "send" /\ pc' = [pc EXCEPT ![t] = "hi_free"]
      /\ UNCHANGED <<payload, at, roots, kv, text, topic, live,
                     keyless, printed, mixed, early, cjson, hooks>>
  BY DEF Prof!ExitEmpty, Prof!SendReport, Prof!Go, Prof!cjsonVars, Prof!heapVars,
    Prof!callVars
<1>2. Prof!TypeOK'
  BY <1>1 DEF Prof!TypeOK, Prof!ReportPoints
<1>3. \/ pc[t] = "exit" /\ roots[t] = <<>> /\ pc'[t] = "send"
      \/ pc[t] = "send" /\ pc'[t] = "hi_free"
  BY <1>1 DEF Prof!TypeOK
<1>4. Accounted(t)'
  BY <1>1 DEF OneInv, Accounted, BlocksAt
<1>5. PointOK(t)'
  BY <1>1, <1>3 DEF OneInv, PointOK, NoTree
<1>6. OwnAllocator(t)'
  BY <1>1, <1>3 DEF OneInv, OwnAllocator, NotLibc
<1> QED BY <1>2, <1>4, <1>5, <1>6 DEF OneInv

LEMMA FreeTopicKeeps ==
  ASSUME Prof!TypeOK, HooksOK, NEW t \in Reporters, OneInv(t), Prof!FreeTopic(t)
  PROVE  Prof!TypeOK' /\ OneInv(t)'
<1>0. /\ Prof!InRoots(roots[t]) \in Nat /\ Prof!Count(kv[t]) \in Nat
         /\ Prof!Count(text[t]) \in Nat
      /\ live[t] \in Nat /\ keyless[t] \in Nat
  BY BlocksKnown
<1>1. /\ pc[t] = "hi_free" /\ pc' = [pc EXCEPT ![t] = "cJSON_free"]
      /\ live' = [live EXCEPT ![t] = IF topic[t] THEN @ - 1 ELSE @]
      /\ topic' = [topic EXCEPT ![t] = FALSE]
      /\ UNCHANGED <<payload, at, roots, kv, text, keyless, printed, mixed, early, cjson, hooks>>
  BY DEF Prof!FreeTopic, Prof!Go, Prof!cjsonVars, Prof!callVars
<1>2. Accounted(t) /\ NoTree(t) /\ OwnAllocator(t)
  BY <1>1 DEF OneInv, PointOK
<1>3. /\ pc'[t] = "cJSON_free" /\ topic'[t] = FALSE
      /\ live'[t] = IF topic[t] THEN live[t] - 1 ELSE live[t]
  BY <1>1 DEF Prof!TypeOK
<1>4. live'[t] = BlocksAt(t) + keyless[t] /\ BlocksAt(t) + keyless[t] \in Nat
  <2>1. CASE topic[t]
    BY <1>0, <1>2, <1>3, <2>1 DEF Accounted, BlocksAt
  <2>2. CASE ~topic[t]
    BY <1>0, <1>2, <1>3, <2>2 DEF Accounted, BlocksAt
  <2> QED BY <2>1, <2>2
<1>5. Prof!TypeOK'
  <2>1. live' \in [Reporters -> Nat]
    BY <1>1, <1>3, <1>4 DEF Prof!TypeOK
  <2>2. topic' \in [Reporters -> BOOLEAN] /\ pc' \in [Reporters -> Prof!ReportPoints]
    BY <1>1 DEF Prof!TypeOK, Prof!ReportPoints
  <2> QED BY <1>1, <2>1, <2>2 DEF Prof!TypeOK
<1>6. Accounted(t)'
  BY <1>0, <1>1, <1>3, <1>4 DEF Accounted, BlocksAt
<1>7. PointOK(t)'
  BY <1>1, <1>2, <1>3 DEF PointOK, NoTree
<1>8. OwnAllocator(t)'
  BY <1>1, <1>2 DEF OwnAllocator, NotLibc
<1> QED BY <1>5, <1>6, <1>7, <1>8 DEF OneInv

LEMMA FreeTextKeeps ==
  ASSUME Prof!TypeOK, HooksOK, NEW t \in Reporters, OneInv(t), Prof!FreeText(t)
  PROVE  Prof!TypeOK' /\ OneInv(t)'
<1>0. /\ text[t] \in Prof!Blocks /\ Prof!None \in Prof!Blocks
         /\ Prof!Count(Prof!None) = 0 /\ Prof!None["libc"] = 0
      /\ Prof!InRoots(roots[t]) \in Nat /\ Prof!Count(kv[t]) \in Nat
         /\ Prof!Count(text[t]) \in Nat
      /\ live[t] \in Nat /\ keyless[t] \in Nat
  BY BlocksKnown
<1>1. /\ pc[t] = "cJSON_free" /\ pc' = [pc EXCEPT ![t] = "idle"]
      /\ Prof!FreeBlocks(t, text[t])
      /\ text' = [text EXCEPT ![t] = Prof!None]
      /\ UNCHANGED <<payload, at, roots, kv, topic, keyless, printed, early, cjson, hooks>>
  BY DEF Prof!FreeText, Prof!Go, Prof!cjsonVars
<1>2. Accounted(t) /\ NoTree(t) /\ topic[t] = FALSE /\ OwnAllocator(t)
  BY <1>1 DEF OneInv, PointOK
<1>3. live[t] = Prof!InRoots(roots[t]) + Prof!Count(kv[t]) + Prof!Count(text[t]) + keyless[t]
  BY <1>0, <1>2 DEF Accounted, BlocksAt
<1>4. Prof!Count(text[t]) <= live[t]
  BY <1>0, <1>3
<1>5. /\ mixed' \in [Reporters -> BOOLEAN] /\ (mixed'[t] => early[t])
      /\ live' \in [Reporters -> Nat] /\ live'[t] = live[t] - Prof!Count(text[t])
  BY <1>0, <1>1, <1>2, <1>4, FreesOwn DEF NotLibc
<1>6. Prof!TypeOK'
  <2>1. text' \in [Reporters -> Prof!Blocks] /\ pc' \in [Reporters -> Prof!ReportPoints]
    BY <1>0, <1>1 DEF Prof!TypeOK, Prof!ReportPoints
  <2> QED BY <1>1, <1>5, <2>1 DEF Prof!TypeOK
<1>7. /\ pc'[t] = "idle" /\ text'[t] = Prof!None /\ topic'[t] = FALSE
      /\ roots'[t] = roots[t] /\ kv'[t] = kv[t] /\ keyless'[t] = keyless[t]
  BY <1>1, <1>2 DEF Prof!TypeOK
<1>8. Accounted(t)'
  <2>1. live'[t] = Prof!InRoots(roots[t]) + Prof!Count(kv[t]) + keyless[t]
    BY <1>0, <1>3, <1>5
  <2> QED BY <1>0, <1>7, <2>1 DEF Accounted, BlocksAt
<1>9. PointOK(t)'
  BY <1>2, <1>7 DEF PointOK, NoTree
<1>10. OwnAllocator(t)'
  BY <1>1, <1>5, <1>7 DEF OwnAllocator
<1> QED BY <1>6, <1>8, <1>9, <1>10 DEF OneInv

LEMMA ProfileInvNext ==
  ASSUME ProfileInv, Prof!Next \/ UNCHANGED Prof!profileVars
  PROVE  ProfileInv'
<1>0. Prof!TypeOK /\ HooksOK /\ \A t \in Reporters : OneInv(t)
  BY DEF ProfileInv, OneInv
<1>1. ASSUME NEW t \in Reporters, Prof!Report(t) PROVE ProfileInv'
  <2>1. Prof!TypeOK' /\ OneInv(t)'
    BY <1>0, <1>1, CallKeeps, MakeTopicKeeps, CreateRootKeeps, CreateItemKeeps, ValueKeeps,
       KeyKeeps, KeyNotCopiedKeeps, AddToCallerKeeps, NodeFailsKeeps, ExitMemKeeps,
       PrintKeeps, DeleteTreeKeeps, ReportEndKeeps, FreeTopicKeeps, FreeTextKeeps
       DEF Prof!Report
  <2>2. UNCHANGED <<cjson, hooks>>
    BY <1>1 DEF Prof!Report, Prof!Publish, Prof!IoTProfileCmdResp, Prof!CallReport,
      Prof!MakeTopic, Prof!CreateRoot, Prof!CreateItem,
       Prof!FormateProflleValue, Prof!AddItemToObject, Prof!KeyNotCopied, Prof!AddToCaller,
       Prof!NodeFails, Prof!ExitMem,
       Prof!ExitEmpty, Prof!PrintUnformatted, Prof!DeleteTree, Prof!SendReport,
       Prof!FreeTopic, Prof!FreeText, Prof!cjsonVars
  <2>3. ASSUME NEW u \in Reporters, u # t PROVE OneInv(u)'
    BY <1>0, <1>1, <2>2, <2>3, OthersAlone, OneInvSame
  <2>4. HooksOK'
    BY <1>0, <2>2 DEF HooksOK
  <2> QED BY <2>1, <2>3, <2>4 DEF ProfileInv, OneInv
<1>2. CASE Prof!cJsonInit \/ UNCHANGED Prof!profileVars
  <2>1. /\ UNCHANGED <<pc, payload, at, roots, kv, text, topic, live,
                       keyless, printed, mixed, early>>
        /\ cjson = "done" => cjson' = "done"
    BY <1>2 DEF Prof!cJsonInit, Prof!SetMalloc, Prof!SetFree, Prof!profileVars,
      Prof!cjsonVars, Prof!heapVars, Prof!callVars
  <2>2. cjson' \in {"malloc", "free", "done"}
        /\ hooks' \in [malloc : Prof!Allocators, free : Prof!Allocators]
    BY <1>0, <1>2 DEF Prof!TypeOK, Prof!Allocators, Prof!cJsonInit, Prof!SetMalloc,
      Prof!SetFree, Prof!profileVars, Prof!cjsonVars
  <2>3. HooksOK'
    BY <1>0, <1>2 DEF HooksOK, Prof!TypeOK, Prof!cJsonInit, Prof!SetMalloc, Prof!SetFree,
      Prof!profileVars, Prof!cjsonVars
  <2>4. Prof!TypeOK'
    BY <1>0, <2>1, <2>2 DEF Prof!TypeOK
  <2>5. ASSUME NEW t \in Reporters PROVE OneInv(t)'
    BY <1>0, <2>1, OneInvSame DEF ReportVars
  <2> QED BY <2>3, <2>4, <2>5 DEF ProfileInv, OneInv
<1> QED BY <1>1, <1>2 DEF Prof!Next

ReportInv == part = "profile" => ProfileInv

LEMMA ReportInvInit == PartsInit => ReportInv
BY ProfileInitInv DEF PartsInit, ReportInv

LEMMA ReportInvNext == ReportInv /\ [PartsNext]_allVars => ReportInv'
<1>1. UNCHANGED profileVars => UNCHANGED Prof!profileVars
  BY DEF profileVars, Prof!profileVars, Prof!cjsonVars, Prof!heapVars, Prof!callVars
<1> QED BY <1>1, PartsStep, ProfileInvNext DEF ReportInv

\* Whichever allocations fail, on any number of tasks and for payloads of any
\* size, no block of a call is lost but those of items without a key, and only
\* calls older than cJsonInit free with another allocator (iot_profile.c).
THEOREM MemoryAlwaysSafe == PartsSpec => []MemorySafe
<1>1. ReportInv => MemorySafe
  BY ProfileInvSafe DEF ReportInv, MemorySafe
<1> QED BY <1>1, ReportInvInit, ReportInvNext, PTL DEF PartsSpec

\* A message that is sent was printed from a tree with every node its payload
\* calls for, but for lost keys: a failed allocation never goes out as a report
\* in which something is missing (iot_profile.c).
THEOREM WholeTreesSent == PartsSpec => []WholeTreeSent
<1>1. ReportInv => WholeTreeSent
  BY ProfileInvSafe DEF ReportInv, WholeTreeSent
<1> QED BY <1>1, ReportInvInit, ReportInvNext, PTL DEF PartsSpec

----------------------------------------------------------------------------
(* The clock.  What a field was last drawn from is what its cells read, as  *)
(* far as no other field draws over them; and while a pass is steady, the   *)
(* fields it has read were last drawn from the chip's time.                 *)

Cells == (5..6) \X (0..15)
Value(f) == Clk!FromBcd(rtc_data[f])

\* The text of a field: its number, and perhaps a digit of an older one.
TextOK(v, str) ==
  /\ str \in Seq(0..9) /\ Len(str) <= 2
  /\ v >= 10 => Len(str) = 2 /\ str[1] = v \div 10 /\ str[2] = v % 10
  /\ v \in 1..9 => Len(str) >= 1 /\ str[1] = v

FieldsOK ==
  /\ \A f \in Clk!Fields : rtc_data[f] \in 0..255 /\ Value(f) \in 0..99 /\ TextOK(Value(f), ch[f])
  /\ rtc_data \in [Clk!Fields -> 0..255] /\ ch \in [Clk!Fields -> Seq(0..9)]

\* Times the chip can hold.
IsTime(t) ==
  t \in [Clk!Fields -> 0..99] /\ \A f \in Clk!Fields : t[f] \in Clk!Restart(f)..Clk!LastUnit(f)

TimeOK == IsTime(time)

Sound(f) == f \notin spoiled

\* The clock's row.
ClockRow ==
  /\ Sound("hour") /\ Value("hour") # 0 => Clk!Shows(6, 0, Value("hour"))
  /\ Sound("minute") /\ Value("minute") # 0 => Clk!Shows(6, 3, Value("minute"))
  /\ Sound("hour") => screen[<<6, 2>>] \in {Clk!Colon, Clk!Blank}
  /\ Sound("minute") => screen[<<6, 5>>] \in {Clk!Colon, Clk!Blank}
  /\ Sound("day") /\ Value("day") \in 1..9 => screen[<<6, 14>>] = Value("day")

\* The second, which a minute drawn after it spoils.
SecondShown ==
  Sound("second") =>
    /\ Value("second") # 0 \/ ch["second"] # <<>> => screen[<<6, 6>>] = Value("second") \div 10
    /\ Value("second") # 0 /\ ~over => screen[<<6, 7>>] = Value("second") % 10
    /\ over => screen[<<6, 7>>] = 0

\* The row of the date.
DateRow ==
  /\ Sound("date") /\ Value("date") # 0 => Clk!Shows(5, 8, Value("date"))
  /\ Sound("month") /\ Value("month") # 0 => Clk!Shows(5, 5, Value("month")) /\ screen[<<5, 7>>] = Clk!Dash
  /\ Sound("year") /\ Value("year") # 0 => screen[<<5, 4>>] = Clk!Dash
  /\ Sound("year") /\ Value("year") >= 10 => Clk!Shows(5, 0, 20) /\ Clk!Shows(5, 2, Value("year"))

\* The registers a steady pass has read.
ReadSoFar(n) == rtc = 1 \/ n < rtc

\* Nothing is drawn before the set-up.
AtStart ==
  rtc = 0 => over = FALSE /\ \A f \in Clk!Fields : rtc_data[f] = 0 /\ ch[f] = <<>>

ClockInv ==
  /\ AtStart
  /\ rtc \in 0..7 /\ ticks \in 0..MaxTicks /\ fails \in 0..MaxFails
  /\ steady \in BOOLEAN /\ over \in BOOLEAN /\ pointer \in 0..63 /\ spoiled \subseteq Clk!Fields
  /\ TimeOK /\ FieldsOK
  /\ screen \in [Cells -> 0..14] /\ ClockRow /\ SecondShown /\ DateRow
  /\ steady => /\ rtc # 0
               /\ \A n \in 1..7 : ReadSoFar(n) => rtc_data[Clk!Regs[n]] = Clk!ToBcd(time[Clk!Regs[n]])


\* What is drawn over a cell.
LEMMA DrawnOver ==
  ASSUME NEW scr, NEW puts, NEW p \in DOMAIN scr, NEW n \in DOMAIN puts, DOMAIN puts \subseteq Int,
         Clk!Covers(puts[n], p), \A m \in DOMAIN puts : m > n => ~Clk!Covers(puts[m], p)
  PROVE  Clk!oled_show_str(scr, puts)[p] = puts[n].str[p[2] - puts[n].col + 1]
<1> DEFINE drawn == {m \in DOMAIN puts : Clk!Covers(puts[m], p)}
           top == CHOOSE m \in drawn : \A l \in drawn : l <= m
<1>1. n \in drawn /\ \A l \in drawn : l <= n
  OBVIOUS
<1>2. top \in drawn /\ \A l \in drawn : l <= top
  BY <1>1
<1>3. drawn \subseteq Int /\ drawn # {}
  BY <1>1
<1>4. Clk!oled_show_str(scr, puts)[p] =
        IF drawn = {} THEN scr[p] ELSE puts[top].str[p[2] - puts[top].col + 1]
  BY DEF Clk!oled_show_str
<1> HIDE DEF drawn, top
<1>5. top = n
  BY <1>1, <1>2, <1>3
<1> QED BY <1>3, <1>4, <1>5

LEMMA NotDrawn ==
  ASSUME NEW scr, NEW puts, NEW p \in DOMAIN scr, \A m \in DOMAIN puts : ~Clk!Covers(puts[m], p)
  PROVE  Clk!oled_show_str(scr, puts)[p] = scr[p]
BY DEF Clk!oled_show_str

\* A string by its place and length.
IsPut(put, row, col, len) == put.row = row /\ put.col = col /\ DOMAIN put.str = 1..len

LEMMA CoversIs ==
  ASSUME NEW put, NEW row \in Int, NEW col \in Int, NEW len \in Int, IsPut(put, row, col, len),
         NEW r \in Int, NEW c \in Int
  PROVE  Clk!Covers(put, <<r, c>>) <=> r = row /\ c \in col..col + len - 1
BY DEF IsPut, Clk!Covers

\* A number of two digits and what is drawn after it.
IsNumber(puts, row, col, v, str, mark) ==
  /\ DOMAIN puts \subseteq Nat \ {0} /\ {1, 2, 3} \subseteq DOMAIN puts
  /\ IsPut(puts[1], row, col, IF v < 10 THEN 1 ELSE 0) /\ (v < 10 => puts[1].str[1] = 0)
  /\ IsPut(puts[2], row, IF v < 10 THEN col + 1 ELSE col, Len(str)) /\ puts[2].str = str
  /\ IsPut(puts[3], row, col + 2, 1) /\ puts[3].str[1] = mark

\* What comes after it is elsewhere: every later mark is right of it, and none
\* is at column c.
MarksAfter(puts, row, col) ==
  \A m \in DOMAIN puts : m > 3 => \E c \in Int : c > col + 2 /\ IsPut(puts[m], row, c, 1)
MarksBut(puts, row, c) ==
  \A m \in DOMAIN puts : m > 3 => \E d \in Int : d # c /\ IsPut(puts[m], row, d, 1)

Outside(r, c, row, col) == r # row \/ c < col \/ c > col + 2

NumberReads(new, row, col, v, mark) ==
  /\ v # 0 => new[<<row, col>>] = v \div 10 /\ new[<<row, col + 1>>] = v % 10
  /\ v < 10 => new[<<row, col>>] = 0
  /\ new[<<row, col + 2>>] = mark

LEMMA TextLen ==
  ASSUME NEW v, NEW str, TextOK(v, str)
  PROVE  Len(str) \in 0..2
<1>1. Len(str) \in Nat
  BY LenProperties DEF TextOK
<1>2. Len(str) <= 2
  BY DEF TextOK
<1> DEFINE len == Len(str)
<1>3. len \in Nat /\ len <= 2
  BY <1>1, <1>2
<1> HIDE DEF len
<1>4. len \in 0..2
  BY <1>3
<1> QED BY <1>4 DEF len

LEMMA NumberDrawn ==
  ASSUME NEW scr, DOMAIN scr = Cells, NEW puts, NEW row \in 5..6, NEW col \in 0..13, NEW v \in 0..99,
         NEW str, TextOK(v, str), NEW mark, IsNumber(puts, row, col, v, str, mark),
         MarksAfter(puts, row, col)
  PROVE  NumberReads(Clk!oled_show_str(scr, puts), row, col, v, mark)
<1> DEFINE new == Clk!oled_show_str(scr, puts)
<1>1. <<row, col>> \in Cells /\ <<row, col + 1>> \in Cells /\ <<row, col + 2>> \in Cells
  BY DEF Cells
<1>2. DOMAIN puts \subseteq Int /\ 1 \in DOMAIN puts /\ 2 \in DOMAIN puts /\ 3 \in DOMAIN puts
  BY DEF IsNumber
<1>3. Len(str) \in 0..2 /\ row \in Int /\ col \in Int
  <2>1. Len(str) \in 0..2
    BY TextLen
  <2> QED BY <2>1
<1>4. ASSUME NEW c \in {col, col + 1, col + 2}
      PROVE  /\ \A m \in DOMAIN puts : m > 3 => ~Clk!Covers(puts[m], <<row, c>>)
             /\ Clk!Covers(puts[3], <<row, c>>) <=> c = col + 2
             /\ v >= 10 => (Clk!Covers(puts[2], <<row, c>>) <=> c < col + Len(str))
             /\ v < 10 => (Clk!Covers(puts[2], <<row, c>>) <=> c > col /\ c <= col + Len(str))
             /\ v < 10 => (Clk!Covers(puts[1], <<row, c>>) <=> c = col)
  <2>1. c \in Int
    BY <1>3
  <2>2. ASSUME NEW m \in DOMAIN puts, m > 3 PROVE ~Clk!Covers(puts[m], <<row, c>>)
    <3>1. PICK d \in Int : d > col + 2 /\ IsPut(puts[m], row, d, 1)
      BY <2>2 DEF MarksAfter
    <3>2. 1 \in Int
      OBVIOUS
    <3>3. Clk!Covers(puts[m], <<row, c>>) <=> row = row /\ c \in d..d + 1 - 1
      BY <1>3, <2>1, <3>1, <3>2, CoversIs
    <3> QED BY <1>3, <3>1, <3>3
  <2>3. Clk!Covers(puts[3], <<row, c>>) <=> c = col + 2
    <3>1. IsPut(puts[3], row, col + 2, 1) /\ col + 2 \in Int /\ 1 \in Int
      BY <1>3 DEF IsNumber
    <3>2. Clk!Covers(puts[3], <<row, c>>) <=> row = row /\ c \in col + 2..(col + 2) + 1 - 1
      BY <1>3, <2>1, <3>1, CoversIs
    <3> QED BY <1>3, <2>1, <3>2
  <2>4. ASSUME v >= 10 PROVE Clk!Covers(puts[2], <<row, c>>) <=> c < col + Len(str)
    <3>1. IsPut(puts[2], row, col, Len(str)) /\ Len(str) \in Int
      <4>1. ~(v < 10)
        BY <2>4
      <4>2. (IF v < 10 THEN col + 1 ELSE col) = col
        BY <4>1, Zenon
      <4>3. IsPut(puts[2], row, IF v < 10 THEN col + 1 ELSE col, Len(str))
        BY Zenon DEF IsNumber
      <4>4. Len(str) \in Int
        BY <1>3
      <4> QED BY <4>2, <4>3, <4>4, Zenon
    <3>2. Clk!Covers(puts[2], <<row, c>>) <=> row = row /\ c \in col..col + Len(str) - 1
      BY <1>3, <2>1, <3>1, CoversIs
    <3> QED BY <1>3, <2>1, <3>2
  <2>5. ASSUME v < 10 PROVE Clk!Covers(puts[2], <<row, c>>) <=> c > col /\ c <= col + Len(str)
    <3>1. IsPut(puts[2], row, col + 1, Len(str)) /\ Len(str) \in Int /\ col + 1 \in Int
      <4>1. (IF v < 10 THEN col + 1 ELSE col) = col + 1
        BY <2>5, Zenon
      <4>2. IsPut(puts[2], row, IF v < 10 THEN col + 1 ELSE col, Len(str))
        BY Zenon DEF IsNumber
      <4>3. Len(str) \in Int /\ col + 1 \in Int
        BY <1>3
      <4> QED BY <4>1, <4>2, <4>3, Zenon
    <3>2. Clk!Covers(puts[2], <<row, c>>) <=> row = row /\ c \in col + 1..(col + 1) + Len(str) - 1
      BY <1>3, <2>1, <3>1, CoversIs
    <3> QED BY <1>3, <2>1, <3>2
  <2>6. ASSUME v < 10 PROVE Clk!Covers(puts[1], <<row, c>>) <=> c = col
    <3>1. IsPut(puts[1], row, col, 1) /\ 1 \in Int
      BY <2>6 DEF IsNumber
    <3>2. Clk!Covers(puts[1], <<row, c>>) <=> row = row /\ c \in col..col + 1 - 1
      BY <1>3, <2>1, <3>1, CoversIs
    <3> QED BY <1>3, <2>1, <3>2
  <2> QED BY <2>2, <2>3, <2>4, <2>5, <2>6
<1>5. new[<<row, col + 2>>] = mark
  <2>1. Clk!Covers(puts[3], <<row, col + 2>>) /\ \A m \in DOMAIN puts : m > 3 => ~Clk!Covers(puts[m], <<row, col + 2>>)
    BY <1>3, <1>4
  <2>2. new[<<row, col + 2>>] = puts[3].str[<<row, col + 2>>[2] - puts[3].col + 1]
    BY <1>1, <1>2, <2>1, DrawnOver
  <2>3. <<row, col + 2>>[2] - puts[3].col + 1 = 1
    BY <1>3 DEF IsNumber, IsPut
  <2> QED BY <2>2, <2>3 DEF IsNumber
<1>6. \A m \in DOMAIN puts : m > 2 => m = 3 \/ m > 3
  BY <1>2
<1>7. ASSUME v >= 10 PROVE new[<<row, col>>] = v \div 10 /\ new[<<row, col + 1>>] = v % 10
  <2>1. Len(str) = 2 /\ str[1] = v \div 10 /\ str[2] = v % 10
    BY <1>7 DEF TextOK
  <2>2. Clk!Covers(puts[2], <<row, col>>) /\ Clk!Covers(puts[2], <<row, col + 1>>)
    BY <1>3, <1>4, <1>7, <2>1
  <2>3. /\ \A m \in DOMAIN puts : m > 2 => ~Clk!Covers(puts[m], <<row, col>>)
        /\ \A m \in DOMAIN puts : m > 2 => ~Clk!Covers(puts[m], <<row, col + 1>>)
    BY <1>3, <1>4, <1>6
  <2>4. /\ new[<<row, col>>] = puts[2].str[<<row, col>>[2] - puts[2].col + 1]
        /\ new[<<row, col + 1>>] = puts[2].str[<<row, col + 1>>[2] - puts[2].col + 1]
    BY <1>1, <1>2, <2>2, <2>3, DrawnOver
  <2>7. puts[2].col = col
    BY <1>7 DEF IsNumber, IsPut
  <2>5. <<row, col>>[2] - puts[2].col + 1 = 1 /\ <<row, col + 1>>[2] - puts[2].col + 1 = 2
    BY <1>3, <2>7
  <2>6. puts[2].str = str
    BY DEF IsNumber
  <2> QED BY <2>1, <2>4, <2>5, <2>6
<1>8. ASSUME v < 10 PROVE new[<<row, col>>] = 0
  <2>1. Clk!Covers(puts[1], <<row, col>>)
    BY <1>4, <1>8
  <2>2. \A m \in DOMAIN puts : m > 1 => ~Clk!Covers(puts[m], <<row, col>>)
    <3>1. \A m \in DOMAIN puts : m > 1 => m = 2 \/ m = 3 \/ m > 3
      BY <1>2
    <3> QED BY <1>3, <1>4, <1>8, <3>1
  <2>3. new[<<row, col>>] = puts[1].str[<<row, col>>[2] - puts[1].col + 1]
    BY <1>1, <1>2, <2>1, <2>2, DrawnOver
  <2>4. <<row, col>>[2] - puts[1].col + 1 = 1
    BY <1>3 DEF IsNumber, IsPut
  <2> QED BY <1>8, <2>3, <2>4 DEF IsNumber
<1>9. ASSUME v < 10, v # 0 PROVE new[<<row, col + 1>>] = v
  <2>1. Len(str) >= 1 /\ str[1] = v
    BY <1>9 DEF TextOK
  <2>2. Clk!Covers(puts[2], <<row, col + 1>>)
    BY <1>3, <1>4, <1>9, <2>1
  <2>3. \A m \in DOMAIN puts : m > 2 => ~Clk!Covers(puts[m], <<row, col + 1>>)
    BY <1>3, <1>4, <1>6
  <2>4. new[<<row, col + 1>>] = puts[2].str[<<row, col + 1>>[2] - puts[2].col + 1]
    BY <1>1, <1>2, <2>2, <2>3, DrawnOver
  <2>5. <<row, col + 1>>[2] - puts[2].col + 1 = 1
    BY <1>3, <1>9 DEF IsNumber, IsPut
  <2>6. puts[2].str = str
    BY DEF IsNumber
  <2> QED BY <2>1, <2>4, <2>5, <2>6
<1>10. v < 10 => v \div 10 = 0 /\ v % 10 = v
  OBVIOUS
<1> HIDE DEF new
<1>11. v # 0 => new[<<row, col>>] = v \div 10 /\ new[<<row, col + 1>>] = v % 10
  <2>1. CASE v < 10
    BY <1>8, <1>9, <1>10, <2>1
  <2>2. CASE v >= 10
    BY <1>7, <2>2
  <2> QED BY <2>1, <2>2
<1> QED BY <1>5, <1>8, <1>11 DEF new, NumberReads

\* Elsewhere nothing changes.
LEMMA NumberAlone ==
  ASSUME NEW scr, NEW puts, NEW row \in 5..6, NEW col \in 0..13, NEW v \in 0..99,
         NEW str, TextOK(v, str), NEW mark, IsNumber(puts, row, col, v, str, mark),
         NEW r \in 5..6, NEW c \in 0..15, <<r, c>> \in DOMAIN scr,
         Outside(r, c, row, col),
         MarksBut(puts, row, c)
  PROVE  Clk!oled_show_str(scr, puts)[<<r, c>>] = scr[<<r, c>>]
<1>1. Len(str) \in 0..2 /\ row \in Int /\ col \in Int /\ r \in Int /\ c \in Int
  <2>1. Len(str) \in 0..2
    BY TextLen
  <2> QED BY <2>1
<1>3. r # row \/ c < col \/ c > col + 2
  BY DEF Outside
<1>2. ASSUME NEW m \in DOMAIN puts PROVE ~Clk!Covers(puts[m], <<r, c>>)
  <2>1. CASE m = 1
    <3> DEFINE len == IF v < 10 THEN 1 ELSE 0
    <3>1. IsPut(puts[1], row, col, len) /\ len \in 0..1 /\ len \in Int
      BY DEF IsNumber
    <3> HIDE DEF len
    <3>2. Clk!Covers(puts[1], <<r, c>>) <=> r = row /\ c \in col..col + len - 1
      BY <1>1, <3>1, CoversIs
    <3> QED BY <1>1, <1>3, <2>1, <3>1, <3>2
  <2>2. CASE m = 2
    <3> DEFINE left == IF v < 10 THEN col + 1 ELSE col
               len == Len(str)
    <3>1. IsPut(puts[2], row, left, len) /\ left \in {col, col + 1} /\ len \in 0..2
      BY <1>1 DEF IsNumber
    <3> HIDE DEF left, len
    <3>2. left + len <= col + 3
      BY <1>1, <3>1
    <3>3. Clk!Covers(puts[2], <<r, c>>) <=> r = row /\ c \in left..left + len - 1
      BY <1>1, <3>1, CoversIs
    <3> QED BY <1>1, <1>3, <2>2, <3>1, <3>2, <3>3
  <2>3. CASE m = 3
    <3> DEFINE d == col + 2
               len == 1
    <3>1. IsPut(puts[3], row, d, len) /\ d = col + 2 /\ len = 1 /\ d \in Int /\ len \in Int
      BY <1>1 DEF IsNumber
    <3> HIDE DEF d, len
    <3>2. Clk!Covers(puts[3], <<r, c>>) <=> r = row /\ c \in d..d + len - 1
      BY <1>1, <3>1, CoversIs
    <3> QED BY <1>1, <1>3, <2>3, <3>1, <3>2
  <2>4. CASE m > 3
    <3>1. PICK d \in Int : d # c /\ IsPut(puts[m], row, d, 1)
      BY <2>4 DEF MarksBut
    <3>2. 1 \in Int
      OBVIOUS
    <3>3. Clk!Covers(puts[m], <<r, c>>) <=> r = row /\ c \in d..d + 1 - 1
      BY <1>1, <3>1, <3>2, CoversIs
    <3> QED BY <1>1, <3>1, <3>3
  <2>5. m \in Int /\ m >= 1
    BY DEF IsNumber
  <2> QED BY <2>1, <2>2, <2>3, <2>4, <2>5
<1> QED BY <1>2, NotDrawn


\* The registers' code, there and back.
LEMMA BcdIs ==
  ASSUME NEW v \in 0..99
  PROVE  Clk!ToBcd(v) \in 0..255 /\ Clk!FromBcd(Clk!ToBcd(v)) = v /\ (Clk!ToBcd(v) = 0 => v = 0)
<1> DEFINE a == v \div 10
           b == v % 10
<1>1. v = 10 * a + b /\ a \in 0..9 /\ b \in 0..9
  OBVIOUS
<1> HIDE DEF a, b
<1>2. (a * 16 + b) \div 16 = a /\ (a * 16 + b) % 16 = b
  BY <1>1
<1>3. Clk!ToBcd(v) = a * 16 + b
  BY DEF Clk!ToBcd, a, b
<1>4. Clk!FromBcd(Clk!ToBcd(v)) = a * 10 + b
  BY <1>2, <1>3 DEF Clk!FromBcd
<1> QED BY <1>1, <1>3, <1>4

LEMMA FromZero == Clk!FromBcd(0) = 0
<1>1. 0 \div 16 = 0 /\ 0 % 16 = 0
  OBVIOUS
<1> QED BY <1>1 DEF Clk!FromBcd

\* int_to_char leaves at most old digits behind the number.
LEMMA TextKept ==
  ASSUME NEW v \in 0..99, NEW str \in Seq(0..9), Len(str) <= 2
  PROVE  TextOK(v, Clk!int_to_char(v, str)) /\ (v = 0 => Clk!int_to_char(v, str) = str)
<1>1. Len(str) \in 0..2
  <2> DEFINE len == Len(str)
  <2>1. len \in Nat /\ len <= 2
    BY LenProperties
  <2> HIDE DEF len
  <2>2. len \in 0..2
    BY <2>1
  <2> QED BY <2>2 DEF len
<1>2. CASE v = 0
  <2>1. Clk!int_to_char(v, str) = <<>> \o SubSeq(str, 1, Len(str))
    <3>1. Clk!Digits(v) = <<>> /\ Len(<<>>) + 1 = 1
      BY <1>2, EmptySeq DEF Clk!Digits
    <3> QED BY <3>1 DEF Clk!int_to_char
  <2>2. Clk!int_to_char(v, str) = str
    BY <2>1, SubSeqFull, ConcatEmptySeq
  <2> QED BY <1>2, <2>2 DEF TextOK
<1>3. CASE v # 0
  <2> DEFINE d == Clk!Digits(v)
             len == Len(d)
             tail == SubSeq(str, len + 1, Len(str))
             s == d \o tail
  <2>1. /\ d \in Seq(0..9) /\ len \in 1..2
        /\ v < 10 => len = 1 /\ d[1] = v
        /\ v >= 10 => len = 2 /\ d[1] = v \div 10 /\ d[2] = v % 10
    <3>1. CASE v < 10
      <4>1. d = <<v>> /\ v \in 0..9
        BY <1>3, <3>1 DEF Clk!Digits
      <4> QED BY <3>1, <4>1
    <3>2. CASE v >= 10
      <4>1. d = <<v \div 10, v % 10>>
        BY <1>3, <3>2 DEF Clk!Digits
      <4>2. v \div 10 \in 0..9 /\ v % 10 \in 0..9
        OBVIOUS
      <4> QED BY <3>2, <4>1, <4>2
    <3> QED BY <3>1, <3>2
  <2>2. Clk!int_to_char(v, str) = s
    BY DEF Clk!int_to_char
  <2> HIDE DEF d
  <2>3. len = Len(d) /\ len \in Int
    BY <2>1
  <2> HIDE DEF len
  <2>4. tail \in Seq(0..9) /\ Len(tail) = (IF len + 1 <= Len(str) THEN Len(str) - (len + 1) + 1 ELSE 0)
    <3>1. \A j \in len + 1..Len(str) : str[j] \in 0..9
      BY <1>1, <2>1, ElementOfSeq
    <3>2. len + 1 \in Int /\ Len(str) \in Int
      BY <1>1, <2>3
    <3> QED BY <3>1, <3>2, SubSeqProperties
  <2>5. Len(tail) \in Nat /\ len + Len(tail) <= 2
    BY <1>1, <2>1, <2>4
  <2> HIDE DEF tail
  <2>6. /\ s \in Seq(0..9) /\ Len(s) = len + Len(tail)
        /\ \A j \in 1..Len(d) + Len(tail) : s[j] = IF j <= Len(d) THEN d[j] ELSE tail[j - Len(d)]
    BY <2>1, <2>3, <2>4, ConcatProperties
  <2> HIDE DEF s
  <2>7. \A j \in 1..len : s[j] = d[j]
    BY <2>3, <2>5, <2>6
  <2>8. Len(s) <= 2 /\ Len(s) >= len
    BY <2>3, <2>5, <2>6
  <2>9. v >= 10 => Len(s) = 2 /\ s[1] = v \div 10 /\ s[2] = v % 10
    BY <2>1, <2>5, <2>6, <2>7
  <2>10. v \in 1..9 => Len(s) >= 1 /\ s[1] = v
    BY <2>1, <2>7, <2>8
  <2>11. TextOK(v, s)
    BY <2>6, <2>8, <2>9, <2>10 DEF TextOK
  <2> QED BY <1>3, <2>2, <2>11
<1> QED BY <1>2, <1>3

\* What Redraw draws of the fields that are numbers.
LEMMA NumberPuts ==
  ASSUME NEW row, NEW col, NEW v \in 0..99, NEW str, TextOK(v, str), NEW mark, NEW puts,
         DOMAIN puts \subseteq Nat \ {0}, {1, 2, 3} \subseteq DOMAIN puts,
         puts[1] = Clk!Zero(row, col, v), puts[2] = Clk!Number(row, col, v, str),
         puts[3] = Clk!Put(row, col + 2, <<mark>>)
  PROVE  IsNumber(puts, row, col, v, str, mark)
<1>1. IsPut(puts[1], row, col, IF v < 10 THEN 1 ELSE 0) /\ (v < 10 => puts[1].str[1] = 0)
  <2>1. CASE v < 10
    BY <2>1 DEF Clk!Zero, Clk!Put, IsPut
  <2>2. CASE ~(v < 10)
    BY <2>2 DEF Clk!Zero, Clk!Put, IsPut
  <2> QED BY <2>1, <2>2
<1>2. IsPut(puts[2], row, IF v < 10 THEN col + 1 ELSE col, Len(str)) /\ puts[2].str = str
  <2>1. DOMAIN str = 1..Len(str)
    BY LenProperties DEF TextOK
  <2> QED BY <2>1 DEF Clk!Number, Clk!Put, IsPut
<1>3. IsPut(puts[3], row, col + 2, 1) /\ puts[3].str[1] = mark
  BY DEF Clk!Put, IsPut
<1> QED BY <1>1, <1>2, <1>3 DEF IsNumber

LEMMA OnePut ==
  ASSUME NEW row, NEW col, NEW mark
  PROVE  IsPut(Clk!Put(row, col, <<mark>>), row, col, 1) /\ Clk!Put(row, col, <<mark>>).str[1] = mark
BY DEF Clk!Put, IsPut


\* What a put draws are characters.
Drawable(put) == \A j \in DOMAIN put.str : put.str[j] \in 0..14

LEMMA NumberDrawable ==
  ASSUME NEW row, NEW col, NEW v \in 0..99, NEW str, TextOK(v, str)
  PROVE  Drawable(Clk!Zero(row, col, v)) /\ Drawable(Clk!Number(row, col, v, str))
         /\ Drawable(Clk!Put(row, col, str))
<1>1. Drawable(Clk!Zero(row, col, v))
  BY DEF Drawable, Clk!Zero, Clk!Put
<1>2. \A j \in DOMAIN str : str[j] \in 0..14
  <2>1. str \in [1..Len(str) -> 0..9] /\ DOMAIN str = 1..Len(str)
    BY LenProperties DEF TextOK
  <2> QED BY <2>1
<1> QED BY <1>1, <1>2 DEF Drawable, Clk!Number, Clk!Put

LEMMA OneDrawable ==
  ASSUME NEW row, NEW col, NEW mark \in 0..14
  PROVE  Drawable(Clk!Put(row, col, <<mark>>))
BY DEF Drawable, Clk!Put

LEMMA DrawnOK ==
  ASSUME NEW scr \in [Cells -> 0..14], NEW puts, DOMAIN puts \subseteq 1..4,
         \A m \in DOMAIN puts : Drawable(puts[m])
  PROVE  Clk!oled_show_str(scr, puts) \in [Cells -> 0..14]
<1> SUFFICES ASSUME NEW p \in Cells PROVE Clk!oled_show_str(scr, puts)[p] \in 0..14
  BY DEF Clk!oled_show_str
<1> DEFINE drawn == {m \in DOMAIN puts : Clk!Covers(puts[m], p)}
<1>1. CASE drawn = {}
  <2>1. \A m \in DOMAIN puts : ~Clk!Covers(puts[m], p)
    BY <1>1
  <2>2. Clk!oled_show_str(scr, puts)[p] = scr[p]
    BY <2>1, NotDrawn
  <2> QED BY <2>2
<1>2. CASE drawn # {}
  <2>1. drawn \subseteq 1..4
    OBVIOUS
  <2> HIDE DEF drawn
  <2>2. PICK n \in drawn : \A m \in drawn : m <= n
    <3>1. CASE 4 \in drawn
      BY <2>1, <3>1
    <3>2. CASE 4 \notin drawn /\ 3 \in drawn
      BY <2>1, <3>2
    <3>3. CASE 4 \notin drawn /\ 3 \notin drawn /\ 2 \in drawn
      BY <2>1, <3>3
    <3>4. CASE 4 \notin drawn /\ 3 \notin drawn /\ 2 \notin drawn
      <4>1. \A m \in drawn : m = 1
        BY <2>1, <3>4
      <4> QED BY <1>2, <4>1
    <3> QED BY <3>1, <3>2, <3>3, <3>4
  <2>3. n \in DOMAIN puts /\ Clk!Covers(puts[n], p) /\ DOMAIN puts \subseteq Int
    BY DEF drawn
  <2>4. \A m \in DOMAIN puts : m > n => ~Clk!Covers(puts[m], p)
    BY <2>2, <2>3 DEF drawn
  <2>5. Clk!oled_show_str(scr, puts)[p] = puts[n].str[p[2] - puts[n].col + 1]
    BY <2>3, <2>4, DrawnOver
  <2>6. p[2] - puts[n].col + 1 \in DOMAIN puts[n].str
    BY <2>3 DEF Clk!Covers
  <2> QED BY <2>3, <2>5, <2>6 DEF Drawable
<1> QED BY <1>1, <1>2

\* What each field draws, and that it draws nothing else.
LEMMA SecondDrawn ==
  ASSUME screen \in [Cells -> 0..14], NEW v \in 0..99, NEW str, TextOK(v, str),
         screen' = Clk!oled_show_str(screen, Clk!Redraw("second", v, str))
  PROVE  /\ screen' \in [Cells -> 0..14]
         /\ v # 0 \/ v < 10 => screen'[<<6, 6>>] = v \div 10
         /\ v # 0 => screen'[<<6, 7>>] = v % 10
         /\ screen'[<<6, 8>>] = Clk!Blank
         /\ \A r \in 5..6, c \in 0..15 : r # 6 \/ c \notin {6, 7, 8} => screen'[<<r, c>>] = screen[<<r, c>>]
<1> DEFINE puts == Clk!Redraw("second", v, str)
<1>1. /\ DOMAIN puts = {1, 2, 3}
      /\ puts[1] = Clk!Zero(6, 6, v) /\ puts[2] = Clk!Number(6, 6, v, str)
      /\ puts[3] = Clk!Put(6, 6 + 2, <<Clk!Blank>>)
  BY DEF Clk!Redraw
<1> HIDE DEF puts
<1>2. IsNumber(puts, 6, 6, v, str, Clk!Blank)
  BY <1>1, NumberPuts
<1>3. screen' = Clk!oled_show_str(screen, puts) /\ DOMAIN screen = Cells
  BY DEF puts
<1>5. MarksAfter(puts, 6, 6)
  BY <1>1 DEF MarksAfter
<1>6. NumberReads(screen', 6, 6, v, Clk!Blank)
  <2>1. 6 \in 5..6 /\ 6 \in 0..13
    OBVIOUS
  <2> QED BY <1>2, <1>3, <1>5, <2>1, NumberDrawn, Zenon
<1>7. /\ v # 0 \/ v < 10 => screen'[<<6, 6>>] = v \div 10
      /\ v # 0 => screen'[<<6, 7>>] = v % 10
      /\ screen'[<<6, 8>>] = Clk!Blank
  <2>1. v < 10 => v \div 10 = 0
    OBVIOUS
  <2> QED BY <1>6, <2>1 DEF NumberReads
<1>8. ASSUME NEW r \in 5..6, NEW c \in 0..15, r # 6 \/ c \notin {6, 7, 8}
      PROVE  screen'[<<r, c>>] = screen[<<r, c>>]
  <2>1. <<r, c>> \in DOMAIN screen
    BY DEF Cells
  <2>2. MarksBut(puts, 6, c)
    BY <1>1 DEF MarksBut
  <2>3. 6 \in 5..6 /\ 6 \in 0..13 /\ Outside(r, c, 6, 6)
    BY <1>8 DEF Outside
  <2>4. Clk!oled_show_str(screen, puts)[<<r, c>>] = screen[<<r, c>>]
    BY <1>2, <2>1, <2>2, <2>3, NumberAlone, Zenon
  <2> QED BY <1>3, <2>4
<1>9. screen' \in [Cells -> 0..14]
  <2>1. \A m \in DOMAIN puts : Drawable(puts[m])
    BY <1>1, NumberDrawable, OneDrawable DEF Clk!Blank, Clk!Colon, Clk!Dash
  <2>2. DOMAIN puts \subseteq 1..4
    BY <1>1
  <2> QED BY <1>3, <2>1, <2>2, DrawnOK
<1> QED BY <1>7, <1>8, <1>9

LEMMA MinuteDrawn ==
  ASSUME screen \in [Cells -> 0..14], NEW v \in 0..99, NEW str, TextOK(v, str),
         screen' = Clk!oled_show_str(screen, Clk!Redraw("minute", v, str))
  PROVE  /\ screen' \in [Cells -> 0..14]
         /\ v # 0 \/ v < 10 => screen'[<<6, 3>>] = v \div 10
         /\ v # 0 => screen'[<<6, 4>>] = v % 10
         /\ screen'[<<6, 5>>] = Clk!Colon
         /\ screen'[<<6, 7>>] = 0
         /\ \A r \in 5..6, c \in 0..15 : r # 6 \/ c \notin {3, 4, 5, 7} => screen'[<<r, c>>] = screen[<<r, c>>]
<1> DEFINE puts == Clk!Redraw("minute", v, str)
<1>1. /\ DOMAIN puts = {1, 2, 3, 4}
      /\ puts[1] = Clk!Zero(6, 3, v) /\ puts[2] = Clk!Number(6, 3, v, str)
      /\ puts[3] = Clk!Put(6, 3 + 2, <<Clk!Colon>>)
      /\ puts[4] = Clk!Put(6, 7, <<0>>)
  BY DEF Clk!Redraw
<1> HIDE DEF puts
<1>2. IsNumber(puts, 6, 3, v, str, Clk!Colon)
  BY <1>1, NumberPuts
<1>3. screen' = Clk!oled_show_str(screen, puts) /\ DOMAIN screen = Cells
  BY DEF puts
<1>4. IsPut(puts[4], 6, 7, 1) /\ puts[4].str[1] = 0
  BY <1>1, OnePut
<1>5. MarksAfter(puts, 6, 3)
  BY <1>1, <1>4 DEF MarksAfter
<1>6. NumberReads(screen', 6, 3, v, Clk!Colon)
  <2>1. 6 \in 5..6 /\ 3 \in 0..13
    OBVIOUS
  <2> QED BY <1>2, <1>3, <1>5, <2>1, NumberDrawn, Zenon
<1>7. /\ v # 0 \/ v < 10 => screen'[<<6, 3>>] = v \div 10
      /\ v # 0 => screen'[<<6, 4>>] = v % 10
      /\ screen'[<<6, 5>>] = Clk!Colon
  <2>1. v < 10 => v \div 10 = 0
    OBVIOUS
  <2> QED BY <1>6, <2>1 DEF NumberReads
<1>8. ASSUME NEW r \in 5..6, NEW c \in 0..15, r # 6 \/ c \notin {3, 4, 5, 7}
      PROVE  screen'[<<r, c>>] = screen[<<r, c>>]
  <2>1. <<r, c>> \in DOMAIN screen
    BY DEF Cells
  <2>2. CASE r = 6 /\ c # 7
    <3>1. MarksBut(puts, 6, c)
      BY <1>1, <1>4, <2>2 DEF MarksBut
    <3>2. 6 \in 5..6 /\ 3 \in 0..13 /\ Outside(r, c, 6, 3)
      BY <1>8, <2>2 DEF Outside
    <3>3. Clk!oled_show_str(screen, puts)[<<r, c>>] = screen[<<r, c>>]
      BY <1>2, <2>1, <3>1, <3>2, NumberAlone, Zenon
    <3> QED BY <1>3, <3>3
  <2>3. CASE r # 6
    <3>1. \A m \in DOMAIN puts : ~Clk!Covers(puts[m], <<r, c>>)
      BY <1>1, <2>3 DEF Clk!Covers, Clk!Put, Clk!Zero, Clk!Number
    <3> QED BY <1>3, <2>1, <3>1, NotDrawn
  <2> QED BY <1>8, <2>2, <2>3
<1>9. screen' \in [Cells -> 0..14]
  <2>1. \A m \in DOMAIN puts : Drawable(puts[m])
    BY <1>1, NumberDrawable, OneDrawable DEF Clk!Blank, Clk!Colon, Clk!Dash
  <2>2. DOMAIN puts \subseteq 1..4
    BY <1>1
  <2> QED BY <1>3, <2>1, <2>2, DrawnOK
<1>10. screen'[<<6, 7>>] = 0
  <2>1. /\ Clk!Covers(puts[4], <<6, 7>>) /\ <<6, 7>> \in DOMAIN screen
        /\ \A m \in DOMAIN puts : m > 4 => ~Clk!Covers(puts[m], <<6, 7>>)
    BY <1>1, <1>4 DEF IsPut, Clk!Covers, Cells
  <2>2. screen'[<<6, 7>>] = puts[4].str[<<6, 7>>[2] - puts[4].col + 1]
    BY <1>1, <1>3, <2>1, DrawnOver
  <2>3. <<6, 7>>[2] - puts[4].col + 1 = 1
    BY <1>4 DEF IsPut
  <2> QED BY <1>4, <2>2, <2>3
<1> QED BY <1>7, <1>8, <1>9, <1>10

LEMMA HourDrawn ==
  ASSUME screen \in [Cells -> 0..14], NEW v \in 0..99, NEW str, TextOK(v, str),
         screen' = Clk!oled_show_str(screen, Clk!Redraw("hour", v, str))
  PROVE  /\ screen' \in [Cells -> 0..14]
         /\ v # 0 \/ v < 10 => screen'[<<6, 0>>] = v \div 10
         /\ v # 0 => screen'[<<6, 1>>] = v % 10
         /\ screen'[<<6, 2>>] = Clk!Colon
         /\ screen'[<<6, 8>>] = Clk!Blank
         /\ \A r \in 5..6, c \in 0..15 : r # 6 \/ c \notin {0, 1, 2, 8} => screen'[<<r, c>>] = screen[<<r, c>>]
<1> DEFINE puts == Clk!Redraw("hour", v, str)
<1>1. /\ DOMAIN puts = {1, 2, 3, 4}
      /\ puts[1] = Clk!Zero(6, 0, v) /\ puts[2] = Clk!Number(6, 0, v, str)
      /\ puts[3] = Clk!Put(6, 0 + 2, <<Clk!Colon>>)
      /\ puts[4] = Clk!Put(6, 8, <<Clk!Blank>>)
  BY DEF Clk!Redraw
<1> HIDE DEF puts
<1>2. IsNumber(puts, 6, 0, v, str, Clk!Colon)
  BY <1>1, NumberPuts
<1>3. screen' = Clk!oled_show_str(screen, puts) /\ DOMAIN screen = Cells
  BY DEF puts
<1>4. IsPut(puts[4], 6, 8, 1) /\ puts[4].str[1] = Clk!Blank
  BY <1>1, OnePut
<1>5. MarksAfter(puts, 6, 0)
  BY <1>1, <1>4 DEF MarksAfter
<1>6. NumberReads(screen', 6, 0, v, Clk!Colon)
  <2>1. 6 \in 5..6 /\ 0 \in 0..13
    OBVIOUS
  <2> QED BY <1>2, <1>3, <1>5, <2>1, NumberDrawn, Zenon
<1>7. /\ v # 0 \/ v < 10 => screen'[<<6, 0>>] = v \div 10
      /\ v # 0 => screen'[<<6, 1>>] = v % 10
      /\ screen'[<<6, 2>>] = Clk!Colon
  <2>1. v < 10 => v \div 10 = 0
    OBVIOUS
  <2> QED BY <1>6, <2>1 DEF NumberReads
<1>8. ASSUME NEW r \in 5..6, NEW c \in 0..15, r # 6 \/ c \notin {0, 1, 2, 8}
      PROVE  screen'[<<r, c>>] = screen[<<r, c>>]
  <2>1. <<r, c>> \in DOMAIN screen
    BY DEF Cells
  <2>2. CASE r = 6 /\ c # 8
    <3>1. MarksBut(puts, 6, c)
      BY <1>1, <1>4, <2>2 DEF MarksBut
    <3>2. 6 \in 5..6 /\ 0 \in 0..13 /\ Outside(r, c, 6, 0)
      BY <1>8, <2>2 DEF Outside
    <3>3. Clk!oled_show_str(screen, puts)[<<r, c>>] = screen[<<r, c>>]
      BY <1>2, <2>1, <3>1, <3>2, NumberAlone, Zenon
    <3> QED BY <1>3, <3>3
  <2>3. CASE r # 6
    <3>1. \A m \in DOMAIN puts : ~Clk!Covers(puts[m], <<r, c>>)
      BY <1>1, <2>3 DEF Clk!Covers, Clk!Put, Clk!Zero, Clk!Number
    <3> QED BY <1>3, <2>1, <3>1, NotDrawn
  <2> QED BY <1>8, <2>2, <2>3
<1>9. screen' \in [Cells -> 0..14]
  <2>1. \A m \in DOMAIN puts : Drawable(puts[m])
    BY <1>1, NumberDrawable, OneDrawable DEF Clk!Blank, Clk!Colon, Clk!Dash
  <2>2. DOMAIN puts \subseteq 1..4
    BY <1>1
  <2> QED BY <1>3, <2>1, <2>2, DrawnOK
<1>10. screen'[<<6, 8>>] = Clk!Blank
  <2>1. /\ Clk!Covers(puts[4], <<6, 8>>) /\ <<6, 8>> \in DOMAIN screen
        /\ \A m \in DOMAIN puts : m > 4 => ~Clk!Covers(puts[m], <<6, 8>>)
    BY <1>1, <1>4 DEF IsPut, Clk!Covers, Cells
  <2>2. screen'[<<6, 8>>] = puts[4].str[<<6, 8>>[2] - puts[4].col + 1]
    BY <1>1, <1>3, <2>1, DrawnOver
  <2>3. <<6, 8>>[2] - puts[4].col + 1 = 1
    BY <1>4 DEF IsPut
  <2> QED BY <1>4, <2>2, <2>3
<1> QED BY <1>7, <1>8, <1>9, <1>10

LEMMA DateDrawn ==
  ASSUME screen \in [Cells -> 0..14], NEW v \in 0..99, NEW str, TextOK(v, str),
         screen' = Clk!oled_show_str(screen, Clk!Redraw("date", v, str))
  PROVE  /\ screen' \in [Cells -> 0..14]
         /\ v # 0 \/ v < 10 => screen'[<<5, 8>>] = v \div 10
         /\ v # 0 => screen'[<<5, 9>>] = v % 10
         /\ screen'[<<5, 10>>] = Clk!Blank
         /\ \A r \in 5..6, c \in 0..15 : r # 5 \/ c \notin {8, 9, 10} => screen'[<<r, c>>] = screen[<<r, c>>]
<1> DEFINE puts == Clk!Redraw("date", v, str)
<1>1. /\ DOMAIN puts = {1, 2, 3}
      /\ puts[1] = Clk!Zero(5, 8, v) /\ puts[2] = Clk!Number(5, 8, v, str)
      /\ puts[3] = Clk!Put(5, 8 + 2, <<Clk!Blank>>)
  BY DEF Clk!Redraw
<1> HIDE DEF puts
<1>2. IsNumber(puts, 5, 8, v, str, Clk!Blank)
  BY <1>1, NumberPuts
<1>3. screen' = Clk!oled_show_str(screen, puts) /\ DOMAIN screen = Cells
  BY DEF puts
<1>5. MarksAfter(puts, 5, 8)
  BY <1>1 DEF MarksAfter
<1>6. NumberReads(screen', 5, 8, v, Clk!Blank)
  <2>1. 5 \in 5..6 /\ 8 \in 0..13
    OBVIOUS
  <2> QED BY <1>2, <1>3, <1>5, <2>1, NumberDrawn, Zenon
<1>7. /\ v # 0 \/ v < 10 => screen'[<<5, 8>>] = v \div 10
      /\ v # 0 => screen'[<<5, 9>>] = v % 10
      /\ screen'[<<5, 10>>] = Clk!Blank
  <2>1. v < 10 => v \div 10 = 0
    OBVIOUS
  <2> QED BY <1>6, <2>1 DEF NumberReads
<1>8. ASSUME NEW r \in 5..6, NEW c \in 0..15, r # 5 \/ c \notin {8, 9, 10}
      PROVE  screen'[<<r, c>>] = screen[<<r, c>>]
  <2>1. <<r, c>> \in DOMAIN screen
    BY DEF Cells
  <2>2. MarksBut(puts, 5, c)
    BY <1>1 DEF MarksBut
  <2>3. 5 \in 5..6 /\ 8 \in 0..13 /\ Outside(r, c, 5, 8)
    BY <1>8 DEF Outside
  <2>4. Clk!oled_show_str(screen, puts)[<<r, c>>] = screen[<<r, c>>]
    BY <1>2, <2>1, <2>2, <2>3, NumberAlone, Zenon
  <2> QED BY <1>3, <2>4
<1>9. screen' \in [Cells -> 0..14]
  <2>1. \A m \in DOMAIN puts : Drawable(puts[m])
    BY <1>1, NumberDrawable, OneDrawable DEF Clk!Blank, Clk!Colon, Clk!Dash
  <2>2. DOMAIN puts \subseteq 1..4
    BY <1>1
  <2> QED BY <1>3, <2>1, <2>2, DrawnOK
<1> QED BY <1>7, <1>8, <1>9

LEMMA MonthDrawn ==
  ASSUME screen \in [Cells -> 0..14], NEW v \in 0..99, NEW str, TextOK(v, str),
         screen' = Clk!oled_show_str(screen, Clk!Redraw("month", v, str))
  PROVE  /\ screen' \in [Cells -> 0..14]
         /\ v # 0 \/ v < 10 => screen'[<<5, 5>>] = v \div 10
         /\ v # 0 => screen'[<<5, 6>>] = v % 10
         /\ screen'[<<5, 7>>] = Clk!Dash
         /\ \A r \in 5..6, c \in 0..15 : r # 5 \/ c \notin {5, 6, 7} => screen'[<<r, c>>] = screen[<<r, c>>]
<1> DEFINE puts == Clk!Redraw("month", v, str)
<1>1. /\ DOMAIN puts = {1, 2, 3}
      /\ puts[1] = Clk!Zero(5, 5, v) /\ puts[2] = Clk!Number(5, 5, v, str)
      /\ puts[3] = Clk!Put(5, 5 + 2, <<Clk!Dash>>)
  BY DEF Clk!Redraw
<1> HIDE DEF puts
<1>2. IsNumber(puts, 5, 5, v, str, Clk!Dash)
  BY <1>1, NumberPuts
<1>3. screen' = Clk!oled_show_str(screen, puts) /\ DOMAIN screen = Cells
  BY DEF puts
<1>5. MarksAfter(puts, 5, 5)
  BY <1>1 DEF MarksAfter
<1>6. NumberReads(screen', 5, 5, v, Clk!Dash)
  <2>1. 5 \in 5..6 /\ 5 \in 0..13
    OBVIOUS
  <2> QED BY <1>2, <1>3, <1>5, <2>1, NumberDrawn, Zenon
<1>7. /\ v # 0 \/ v < 10 => screen'[<<5, 5>>] = v \div 10
      /\ v # 0 => screen'[<<5, 6>>] = v % 10
      /\ screen'[<<5, 7>>] = Clk!Dash
  <2>1. v < 10 => v \div 10 = 0
    OBVIOUS
  <2> QED BY <1>6, <2>1 DEF NumberReads
<1>8. ASSUME NEW r \in 5..6, NEW c \in 0..15, r # 5 \/ c \notin {5, 6, 7}
      PROVE  screen'[<<r, c>>] = screen[<<r, c>>]
  <2>1. <<r, c>> \in DOMAIN screen
    BY DEF Cells
  <2>2. MarksBut(puts, 5, c)
    BY <1>1 DEF MarksBut
  <2>3. 5 \in 5..6 /\ 5 \in 0..13 /\ Outside(r, c, 5, 5)
    BY <1>8 DEF Outside
  <2>4. Clk!oled_show_str(screen, puts)[<<r, c>>] = screen[<<r, c>>]
    BY <1>2, <2>1, <2>2, <2>3, NumberAlone, Zenon
  <2> QED BY <1>3, <2>4
<1>9. screen' \in [Cells -> 0..14]
  <2>1. \A m \in DOMAIN puts : Drawable(puts[m])
    BY <1>1, NumberDrawable, OneDrawable DEF Clk!Blank, Clk!Colon, Clk!Dash
  <2>2. DOMAIN puts \subseteq 1..4
    BY <1>1
  <2> QED BY <1>3, <2>1, <2>2, DrawnOK
<1> QED BY <1>7, <1>8, <1>9

LEMMA DayDrawn ==
  ASSUME screen \in [Cells -> 0..14], NEW v \in 0..99, NEW str, TextOK(v, str),
         screen' = Clk!oled_show_str(screen, Clk!Redraw("day", v, str))
  PROVE  /\ screen' \in [Cells -> 0..14]
         /\ v \in 1..9 => screen'[<<6, 14>>] = v
         /\ \A r \in 5..6, c \in 0..15 : r # 6 \/ c < 9 => screen'[<<r, c>>] = screen[<<r, c>>]
<1> DEFINE puts == Clk!Redraw("day", v, str)
           letters == [i \in 1..5 |-> Clk!Letter]
<1>1. /\ DOMAIN puts = {1, 2}
      /\ puts[1] = Clk!Put(6, 9, letters) /\ puts[2] = Clk!Put(6, 14, str)
  BY DEF Clk!Redraw
<1>2. DOMAIN letters = 1..5 /\ Drawable(Clk!Put(6, 9, letters))
  BY DEF Drawable, Clk!Put, Clk!Letter
<1> HIDE DEF puts, letters
<1>3. screen' = Clk!oled_show_str(screen, puts) /\ DOMAIN screen = Cells
  BY DEF puts
<1>4. Len(str) \in 0..2 /\ DOMAIN str = 1..Len(str)
  BY TextLen, LenProperties DEF TextOK
<1>5. IsPut(puts[1], 6, 9, 5) /\ IsPut(puts[2], 6, 14, Len(str)) /\ puts[2].str = str
  BY <1>1, <1>2, <1>4 DEF IsPut, Clk!Put
<1>6. screen' \in [Cells -> 0..14]
  <2>1. \A m \in DOMAIN puts : Drawable(puts[m])
    <3>1. Drawable(puts[1]) /\ Drawable(puts[2])
      BY <1>1, <1>2, NumberDrawable
    <3> QED BY <1>1, <3>1
  <2>2. DOMAIN puts \subseteq 1..4
    BY <1>1
  <2> QED BY <1>3, <2>1, <2>2, DrawnOK
<1>7. ASSUME v \in 1..9 PROVE screen'[<<6, 14>>] = v
  <2>1. Len(str) >= 1 /\ str[1] = v
    BY <1>7 DEF TextOK
  <2>2. Clk!Covers(puts[2], <<6, 14>>) /\ <<6, 14>> \in DOMAIN screen
    BY <1>3, <1>4, <1>5, <2>1 DEF Clk!Covers, IsPut, Cells
  <2>3. DOMAIN puts \subseteq Int /\ 2 \in DOMAIN puts /\ \A m \in DOMAIN puts : ~(m > 2)
    BY <1>1
  <2>4. screen'[<<6, 14>>] = puts[2].str[<<6, 14>>[2] - puts[2].col + 1]
    BY <1>3, <2>2, <2>3, DrawnOver
  <2>5. <<6, 14>>[2] - puts[2].col + 1 = 1
    BY <1>5 DEF IsPut
  <2> QED BY <1>5, <2>1, <2>4, <2>5
<1>8. ASSUME NEW r \in 5..6, NEW c \in 0..15, r # 6 \/ c < 9
      PROVE  screen'[<<r, c>>] = screen[<<r, c>>]
  <2>1. <<r, c>> \in DOMAIN screen
    BY DEF Cells
  <2>2. \A m \in DOMAIN puts : ~Clk!Covers(puts[m], <<r, c>>)
    BY <1>1, <1>4, <1>5, <1>8 DEF Clk!Covers, IsPut
  <2> QED BY <1>3, <2>1, <2>2, NotDrawn
<1> QED BY <1>6, <1>7, <1>8

LEMMA YearDrawn ==
  ASSUME screen \in [Cells -> 0..14], NEW v \in 0..99, NEW str, TextOK(v, str),
         screen' = Clk!oled_show_str(screen, Clk!Redraw("year", v, str))
  PROVE  /\ screen' \in [Cells -> 0..14]
         /\ screen'[<<5, 0>>] = 2 /\ screen'[<<5, 1>>] = 0 /\ screen'[<<5, 4>>] = Clk!Dash
         /\ v >= 10 => screen'[<<5, 2>>] = v \div 10 /\ screen'[<<5, 3>>] = v % 10
         /\ \A r \in 5..6, c \in 0..15 : r # 5 \/ (c > 4 /\ c # 10) => screen'[<<r, c>>] = screen[<<r, c>>]
<1> DEFINE puts == Clk!Redraw("year", v, str)
<1>1. /\ DOMAIN puts = {1, 2, 3, 4}
      /\ puts[1] = Clk!Put(5, 0, <<2, 0>>) /\ puts[2] = Clk!Put(5, 2, str)
      /\ puts[3] = Clk!Put(5, 4, <<Clk!Dash>>) /\ puts[4] = Clk!Put(5, 10, <<Clk!Blank>>)
  BY DEF Clk!Redraw
<1> HIDE DEF puts
<1>3. screen' = Clk!oled_show_str(screen, puts) /\ DOMAIN screen = Cells
  BY DEF puts
<1>4. Len(str) \in 0..2 /\ DOMAIN str = 1..Len(str)
  BY TextLen, LenProperties DEF TextOK
<1>5. /\ IsPut(puts[1], 5, 0, 2) /\ puts[1].str[1] = 2 /\ puts[1].str[2] = 0
      /\ IsPut(puts[2], 5, 2, Len(str)) /\ puts[2].str = str
      /\ IsPut(puts[3], 5, 4, 1) /\ puts[3].str[1] = Clk!Dash
      /\ IsPut(puts[4], 5, 10, 1)
  BY <1>1, <1>4 DEF IsPut, Clk!Put
<1>6. screen' \in [Cells -> 0..14]
  <2>1. Drawable(Clk!Put(5, 0, <<2, 0>>))
    BY DEF Drawable, Clk!Put
  <2>2. \A m \in DOMAIN puts : Drawable(puts[m])
    <3>1. Drawable(puts[2])
      BY <1>1, NumberDrawable
    <3>2. Drawable(puts[3]) /\ Drawable(puts[4])
      BY <1>1, OneDrawable DEF Clk!Blank, Clk!Dash
    <3> QED BY <1>1, <2>1, <3>1, <3>2
  <2>3. DOMAIN puts \subseteq 1..4
    BY <1>1
  <2> QED BY <1>3, <2>2, <2>3, DrawnOK
<1>7. DOMAIN puts \subseteq Int /\ 1 \in DOMAIN puts /\ 2 \in DOMAIN puts /\ 3 \in DOMAIN puts
  BY <1>1
<1>8. ASSUME NEW c \in 0..4
      PROVE  /\ <<5, c>> \in DOMAIN screen
             /\ Clk!Covers(puts[1], <<5, c>>) <=> c <= 1
             /\ Clk!Covers(puts[2], <<5, c>>) <=> c >= 2 /\ c < 2 + Len(str)
             /\ Clk!Covers(puts[3], <<5, c>>) <=> c = 4
             /\ ~Clk!Covers(puts[4], <<5, c>>)
  BY <1>4, <1>5 DEF Clk!Covers, IsPut, Cells
<1>9. ASSUME NEW c \in 0..1 PROVE screen'[<<5, c>>] = puts[1].str[c + 1]
  <2>1. Clk!Covers(puts[1], <<5, c>>) /\ \A m \in DOMAIN puts : m > 1 => ~Clk!Covers(puts[m], <<5, c>>)
    BY <1>1, <1>8
  <2>4. <<5, c>> \in DOMAIN screen
    BY <1>8
  <2>2. screen'[<<5, c>>] = puts[1].str[<<5, c>>[2] - puts[1].col + 1]
    BY <1>3, <1>7, <2>1, <2>4, DrawnOver
  <2>3. <<5, c>>[2] - puts[1].col + 1 = c + 1
    BY <1>5 DEF IsPut
  <2> QED BY <2>2, <2>3
<1>10. screen'[<<5, 4>>] = Clk!Dash
  <2>1. Clk!Covers(puts[3], <<5, 4>>) /\ \A m \in DOMAIN puts : m > 3 => ~Clk!Covers(puts[m], <<5, 4>>)
    BY <1>1, <1>8
  <2>4. <<5, 4>> \in DOMAIN screen
    BY <1>8
  <2>2. screen'[<<5, 4>>] = puts[3].str[<<5, 4>>[2] - puts[3].col + 1]
    BY <1>3, <1>7, <2>1, <2>4, DrawnOver
  <2>3. <<5, 4>>[2] - puts[3].col + 1 = 1
    BY <1>5 DEF IsPut
  <2> QED BY <1>5, <2>2, <2>3
<1>11. ASSUME v >= 10 PROVE screen'[<<5, 2>>] = v \div 10 /\ screen'[<<5, 3>>] = v % 10
  <2>1. Len(str) = 2 /\ str[1] = v \div 10 /\ str[2] = v % 10
    BY <1>11 DEF TextOK
  <2>2. ASSUME NEW c \in 2..3 PROVE screen'[<<5, c>>] = str[c - 1]
    <3>1. Clk!Covers(puts[2], <<5, c>>) /\ \A m \in DOMAIN puts : m > 2 => ~Clk!Covers(puts[m], <<5, c>>)
      BY <1>1, <1>8, <2>1
    <3>2. screen'[<<5, c>>] = puts[2].str[<<5, c>>[2] - puts[2].col + 1]
      BY <1>3, <1>7, <1>8, <3>1, DrawnOver
    <3>3. <<5, c>>[2] - puts[2].col + 1 = c - 1
      BY <1>5 DEF IsPut
    <3> QED BY <1>5, <3>2, <3>3
  <2> QED BY <2>1, <2>2
<1>12. ASSUME NEW r \in 5..6, NEW c \in 0..15, r # 5 \/ (c > 4 /\ c # 10)
       PROVE  screen'[<<r, c>>] = screen[<<r, c>>]
  <2>1. <<r, c>> \in DOMAIN screen
    BY DEF Cells
  <2>2. ~Clk!Covers(puts[1], <<r, c>>) /\ ~Clk!Covers(puts[3], <<r, c>>) /\ ~Clk!Covers(puts[4], <<r, c>>)
    BY <1>5, <1>12 DEF Clk!Covers, IsPut
  <2>3. ~Clk!Covers(puts[2], <<r, c>>)
    BY <1>4, <1>5, <1>12 DEF Clk!Covers, IsPut
  <2>4. \A m \in DOMAIN puts : ~Clk!Covers(puts[m], <<r, c>>)
    BY <1>1, <2>2, <2>3
  <2> QED BY <1>3, <2>1, <2>4, NotDrawn
<1>13. screen'[<<5, 0>>] = 2 /\ screen'[<<5, 1>>] = 0
  BY <1>5, <1>9
<1> QED BY <1>6, <1>10, <1>11, <1>12, <1>13


\* A cell keeps what it shows.
Same(r, c) == screen'[<<r, c>>] = screen[<<r, c>>]
SameValue(f) == Value(f)' = Value(f) /\ (Sound(f)' <=> Sound(f))

\* A field drawn anew shows its value, and the others what they showed.
Redrawn(f, v, str) ==
  /\ Value(f)' = v /\ ch'[f] = str /\ TextOK(v, str)
  /\ \A g \in Clk!Fields \ {f} : SameValue(g) /\ ch'[g] = ch[g]
  /\ over' = IF f = "minute" THEN TRUE ELSE IF f = "second" THEN FALSE ELSE over
  /\ screen' = Clk!oled_show_str(screen, Clk!Redraw(f, v, str))

LEMMA FieldsAre == Clk!Fields = {"second", "minute", "hour", "day", "date", "month", "year"}
<1>1. \A n \in 1..7 : n = 1 \/ n = 2 \/ n = 3 \/ n = 4 \/ n = 5 \/ n = 6 \/ n = 7
  OBVIOUS
<1>2. /\ Clk!Regs[1] = "second" /\ Clk!Regs[2] = "minute" /\ Clk!Regs[3] = "hour" /\ Clk!Regs[4] = "day"
      /\ Clk!Regs[5] = "date" /\ Clk!Regs[6] = "month" /\ Clk!Regs[7] = "year"
  BY DEF Clk!Regs
<1>3. 1 \in 1..7 /\ 2 \in 1..7 /\ 3 \in 1..7 /\ 4 \in 1..7 /\ 5 \in 1..7 /\ 6 \in 1..7 /\ 7 \in 1..7
  OBVIOUS
<1> QED BY <1>1, <1>2, <1>3 DEF Clk!Fields

LEMMA SecondKeeps ==
  ASSUME screen \in [Cells -> 0..14], ClockRow, SecondShown, DateRow, over \in BOOLEAN,
         NEW v \in 0..99, NEW str, Redrawn("second", v, str)
  PROVE  screen' \in [Cells -> 0..14] /\ ClockRow' /\ SecondShown' /\ DateRow' /\ over' \in BOOLEAN
<1>1. /\ Value("second")' = v /\ TextOK(v, str) /\ ch'["second"] = str
      /\ screen' = Clk!oled_show_str(screen, Clk!Redraw("second", v, str))
  BY DEF Redrawn
<1>2. /\ SameValue("minute") /\ SameValue("hour") /\ SameValue("day")
      /\ SameValue("date") /\ SameValue("month") /\ SameValue("year")
  BY FieldsAre DEF Redrawn
<1>3. /\ screen' \in [Cells -> 0..14]
      /\ screen'[<<6, 6>>] = v \div 10 /\ (v # 0 => screen'[<<6, 7>>] = v % 10) /\ over' = FALSE
  <2>1. over' = FALSE
    BY DEF Redrawn
  <2>2. v # 0 \/ v < 10
    OBVIOUS
  <2> QED BY <1>1, <2>1, <2>2, SecondDrawn
<1>4. /\ Same(6, 0) /\ Same(6, 1) /\ Same(6, 2) /\ Same(6, 3) /\ Same(6, 4) /\ Same(6, 5) /\ Same(6, 14)
        /\ Same(5, 0) /\ Same(5, 1) /\ Same(5, 2) /\ Same(5, 3) /\ Same(5, 4) /\ Same(5, 5) /\ Same(5, 6)
        /\ Same(5, 7) /\ Same(5, 8) /\ Same(5, 9)
  <2>1. \A r \in 5..6, c \in 0..15 : r # 6 \/ c \notin {6, 7, 8} => screen'[<<r, c>>] = screen[<<r, c>>]
    BY <1>1, SecondDrawn
  <2>2. \A r \in 5..6, c \in 0..15 : r # 6 \/ c \notin {6, 7, 8} => Same(r, c)
    BY <2>1 DEF Same
  <2> QED BY <2>2
<1>6. ClockRow'
  BY <1>1, <1>2, <1>3, <1>4 DEF ClockRow, Same, SameValue, Clk!Shows
<1>7. SecondShown'
  BY <1>1, <1>2, <1>3, <1>4 DEF SecondShown, Same, SameValue
<1>8. DateRow'
  BY <1>1, <1>2, <1>3, <1>4 DEF DateRow, Same, SameValue, Clk!Shows
<1>9. over' \in BOOLEAN
  BY <1>3
<1> QED BY <1>3, <1>6, <1>7, <1>8, <1>9

LEMMA MinuteKeeps ==
  ASSUME screen \in [Cells -> 0..14], ClockRow, SecondShown, DateRow, over \in BOOLEAN,
         NEW v \in 0..99, NEW str, Redrawn("minute", v, str)
  PROVE  screen' \in [Cells -> 0..14] /\ ClockRow' /\ SecondShown' /\ DateRow' /\ over' \in BOOLEAN
<1>1. /\ Value("minute")' = v /\ TextOK(v, str) /\ ch'["minute"] = str
      /\ screen' = Clk!oled_show_str(screen, Clk!Redraw("minute", v, str))
  BY DEF Redrawn
<1>2. /\ SameValue("second") /\ SameValue("hour") /\ SameValue("day")
      /\ SameValue("date") /\ SameValue("month") /\ SameValue("year")
  BY FieldsAre DEF Redrawn
<1>3. /\ screen' \in [Cells -> 0..14]
      /\ (v # 0 => screen'[<<6, 3>>] = v \div 10 /\ screen'[<<6, 4>>] = v % 10) /\ screen'[<<6, 5>>] = Clk!Colon
        /\ screen'[<<6, 7>>] = 0 /\ over' = TRUE
  BY <1>1, MinuteDrawn DEF Redrawn
<1>4. /\ Same(6, 0) /\ Same(6, 1) /\ Same(6, 2) /\ Same(6, 6) /\ Same(6, 14) /\ Same(5, 0) /\ Same(5, 1)
        /\ Same(5, 2) /\ Same(5, 3) /\ Same(5, 4) /\ Same(5, 5) /\ Same(5, 6) /\ Same(5, 7) /\ Same(5, 8)
        /\ Same(5, 9)
  <2>1. \A r \in 5..6, c \in 0..15 : r # 6 \/ c \notin {3, 4, 5, 7} => screen'[<<r, c>>] = screen[<<r, c>>]
    BY <1>1, MinuteDrawn
  <2>2. \A r \in 5..6, c \in 0..15 : r # 6 \/ c \notin {3, 4, 5, 7} => Same(r, c)
    BY <2>1 DEF Same
  <2> QED BY <2>2
<1>5. ch'["second"] = ch["second"]
  BY FieldsAre DEF Redrawn
<1>6. ClockRow'
  BY <1>1, <1>2, <1>3, <1>4 DEF ClockRow, Same, SameValue, Clk!Shows
<1>7. SecondShown'
  BY <1>1, <1>2, <1>3, <1>4, <1>5 DEF SecondShown, Same, SameValue
<1>8. DateRow'
  BY <1>1, <1>2, <1>3, <1>4 DEF DateRow, Same, SameValue, Clk!Shows
<1>9. over' \in BOOLEAN
  BY <1>3
<1> QED BY <1>3, <1>6, <1>7, <1>8, <1>9

LEMMA HourKeeps ==
  ASSUME screen \in [Cells -> 0..14], ClockRow, SecondShown, DateRow, over \in BOOLEAN,
         NEW v \in 0..99, NEW str, Redrawn("hour", v, str)
  PROVE  screen' \in [Cells -> 0..14] /\ ClockRow' /\ SecondShown' /\ DateRow' /\ over' \in BOOLEAN
<1>1. /\ Value("hour")' = v /\ TextOK(v, str) /\ ch'["hour"] = str
      /\ screen' = Clk!oled_show_str(screen, Clk!Redraw("hour", v, str))
  BY DEF Redrawn
<1>2. /\ SameValue("second") /\ SameValue("minute") /\ SameValue("day")
      /\ SameValue("date") /\ SameValue("month") /\ SameValue("year")
  BY FieldsAre DEF Redrawn
<1>3. /\ screen' \in [Cells -> 0..14]
      /\ (v # 0 => screen'[<<6, 0>>] = v \div 10 /\ screen'[<<6, 1>>] = v % 10) /\ screen'[<<6, 2>>] = Clk!Colon /\ over' = over
  BY <1>1, HourDrawn DEF Redrawn
<1>4. /\ Same(6, 3) /\ Same(6, 4) /\ Same(6, 5) /\ Same(6, 6) /\ Same(6, 7) /\ Same(6, 14) /\ Same(5, 0)
        /\ Same(5, 1) /\ Same(5, 2) /\ Same(5, 3) /\ Same(5, 4) /\ Same(5, 5) /\ Same(5, 6) /\ Same(5, 7)
        /\ Same(5, 8) /\ Same(5, 9)
  <2>1. \A r \in 5..6, c \in 0..15 : r # 6 \/ c \notin {0, 1, 2, 8} => screen'[<<r, c>>] = screen[<<r, c>>]
    BY <1>1, HourDrawn
  <2>2. \A r \in 5..6, c \in 0..15 : r # 6 \/ c \notin {0, 1, 2, 8} => Same(r, c)
    BY <2>1 DEF Same
  <2> QED BY <2>2
<1>5. ch'["second"] = ch["second"]
  BY FieldsAre DEF Redrawn
<1>6. ClockRow'
  BY <1>1, <1>2, <1>3, <1>4 DEF ClockRow, Same, SameValue, Clk!Shows
<1>7. SecondShown'
  BY <1>1, <1>2, <1>3, <1>4, <1>5 DEF SecondShown, Same, SameValue
<1>8. DateRow'
  BY <1>1, <1>2, <1>3, <1>4 DEF DateRow, Same, SameValue, Clk!Shows
<1>9. over' \in BOOLEAN
  BY <1>3
<1> QED BY <1>3, <1>6, <1>7, <1>8, <1>9

LEMMA DayKeeps ==
  ASSUME screen \in [Cells -> 0..14], ClockRow, SecondShown, DateRow, over \in BOOLEAN,
         NEW v \in 0..99, NEW str, Redrawn("day", v, str)
  PROVE  screen' \in [Cells -> 0..14] /\ ClockRow' /\ SecondShown' /\ DateRow' /\ over' \in BOOLEAN
<1>1. /\ Value("day")' = v /\ TextOK(v, str) /\ ch'["day"] = str
      /\ screen' = Clk!oled_show_str(screen, Clk!Redraw("day", v, str))
  BY DEF Redrawn
<1>2. /\ SameValue("second") /\ SameValue("minute") /\ SameValue("hour")
      /\ SameValue("date") /\ SameValue("month") /\ SameValue("year")
  BY FieldsAre DEF Redrawn
<1>3. /\ screen' \in [Cells -> 0..14]
      /\ (v \in 1..9 => screen'[<<6, 14>>] = v) /\ over' = over
  BY <1>1, DayDrawn DEF Redrawn
<1>4. /\ Same(6, 0) /\ Same(6, 1) /\ Same(6, 2) /\ Same(6, 3) /\ Same(6, 4) /\ Same(6, 5) /\ Same(6, 6)
        /\ Same(6, 7) /\ Same(5, 0) /\ Same(5, 1) /\ Same(5, 2) /\ Same(5, 3) /\ Same(5, 4) /\ Same(5, 5)
        /\ Same(5, 6) /\ Same(5, 7) /\ Same(5, 8) /\ Same(5, 9)
  <2>1. \A r \in 5..6, c \in 0..15 : r # 6 \/ c < 9 => screen'[<<r, c>>] = screen[<<r, c>>]
    BY <1>1, DayDrawn
  <2>2. \A r \in 5..6, c \in 0..15 : r # 6 \/ c < 9 => Same(r, c)
    BY <2>1 DEF Same
  <2> QED BY <2>2
<1>5. ch'["second"] = ch["second"]
  BY FieldsAre DEF Redrawn
<1>6. ClockRow'
  BY <1>1, <1>2, <1>3, <1>4 DEF ClockRow, Same, SameValue, Clk!Shows
<1>7. SecondShown'
  BY <1>1, <1>2, <1>3, <1>4, <1>5 DEF SecondShown, Same, SameValue
<1>8. DateRow'
  BY <1>1, <1>2, <1>3, <1>4 DEF DateRow, Same, SameValue, Clk!Shows
<1>9. over' \in BOOLEAN
  BY <1>3
<1> QED BY <1>3, <1>6, <1>7, <1>8, <1>9

LEMMA DateKeeps ==
  ASSUME screen \in [Cells -> 0..14], ClockRow, SecondShown, DateRow, over \in BOOLEAN,
         NEW v \in 0..99, NEW str, Redrawn("date", v, str)
  PROVE  screen' \in [Cells -> 0..14] /\ ClockRow' /\ SecondShown' /\ DateRow' /\ over' \in BOOLEAN
<1>1. /\ Value("date")' = v /\ TextOK(v, str) /\ ch'["date"] = str
      /\ screen' = Clk!oled_show_str(screen, Clk!Redraw("date", v, str))
  BY DEF Redrawn
<1>2. /\ SameValue("second") /\ SameValue("minute") /\ SameValue("hour")
      /\ SameValue("day") /\ SameValue("month") /\ SameValue("year")
  BY FieldsAre DEF Redrawn
<1>3. /\ screen' \in [Cells -> 0..14]
      /\ (v # 0 => screen'[<<5, 8>>] = v \div 10 /\ screen'[<<5, 9>>] = v % 10) /\ over' = over
  BY <1>1, DateDrawn DEF Redrawn
<1>4. /\ Same(6, 0) /\ Same(6, 1) /\ Same(6, 2) /\ Same(6, 3) /\ Same(6, 4) /\ Same(6, 5) /\ Same(6, 6)
        /\ Same(6, 7) /\ Same(6, 14) /\ Same(5, 0) /\ Same(5, 1) /\ Same(5, 2) /\ Same(5, 3) /\ Same(5, 4)
        /\ Same(5, 5) /\ Same(5, 6) /\ Same(5, 7)
  <2>1. \A r \in 5..6, c \in 0..15 : r # 5 \/ c \notin {8, 9, 10} => screen'[<<r, c>>] = screen[<<r, c>>]
    BY <1>1, DateDrawn
  <2>2. \A r \in 5..6, c \in 0..15 : r # 5 \/ c \notin {8, 9, 10} => Same(r, c)
    BY <2>1 DEF Same
  <2> QED BY <2>2
<1>5. ch'["second"] = ch["second"]
  BY FieldsAre DEF Redrawn
<1>6. ClockRow'
  BY <1>1, <1>2, <1>3, <1>4 DEF ClockRow, Same, SameValue, Clk!Shows
<1>7. SecondShown'
  BY <1>1, <1>2, <1>3, <1>4, <1>5 DEF SecondShown, Same, SameValue
<1>8. DateRow'
  BY <1>1, <1>2, <1>3, <1>4 DEF DateRow, Same, SameValue, Clk!Shows
<1>9. over' \in BOOLEAN
  BY <1>3
<1> QED BY <1>3, <1>6, <1>7, <1>8, <1>9

LEMMA MonthKeeps ==
  ASSUME screen \in [Cells -> 0..14], ClockRow, SecondShown, DateRow, over \in BOOLEAN,
         NEW v \in 0..99, NEW str, Redrawn("month", v, str)
  PROVE  screen' \in [Cells -> 0..14] /\ ClockRow' /\ SecondShown' /\ DateRow' /\ over' \in BOOLEAN
<1>1. /\ Value("month")' = v /\ TextOK(v, str) /\ ch'["month"] = str
      /\ screen' = Clk!oled_show_str(screen, Clk!Redraw("month", v, str))
  BY DEF Redrawn
<1>2. /\ SameValue("second") /\ SameValue("minute") /\ SameValue("hour")
      /\ SameValue("day") /\ SameValue("date") /\ SameValue("year")
  BY FieldsAre DEF Redrawn
<1>3. /\ screen' \in [Cells -> 0..14]
      /\ (v # 0 => screen'[<<5, 5>>] = v \div 10 /\ screen'[<<5, 6>>] = v % 10) /\ screen'[<<5, 7>>] = Clk!Dash /\ over' = over
  BY <1>1, MonthDrawn DEF Redrawn
<1>4. /\ Same(6, 0) /\ Same(6, 1) /\ Same(6, 2) /\ Same(6, 3) /\ Same(6, 4) /\ Same(6, 5) /\ Same(6, 6)
        /\ Same(6, 7) /\ Same(6, 14) /\ Same(5, 0) /\ Same(5, 1) /\ Same(5, 2) /\ Same(5, 3) /\ Same(5, 4)
        /\ Same(5, 8) /\ Same(5, 9)
  <2>1. \A r \in 5..6, c \in 0..15 : r # 5 \/ c \notin {5, 6, 7} => screen'[<<r, c>>] = screen[<<r, c>>]
    BY <1>1, MonthDrawn
  <2>2. \A r \in 5..6, c \in 0..15 : r # 5 \/ c \notin {5, 6, 7} => Same(r, c)
    BY <2>1 DEF Same
  <2> QED BY <2>2
<1>5. ch'["second"] = ch["second"]
  BY FieldsAre DEF Redrawn
<1>6. ClockRow'
  BY <1>1, <1>2, <1>3, <1>4 DEF ClockRow, Same, SameValue, Clk!Shows
<1>7. SecondShown'
  BY <1>1, <1>2, <1>3, <1>4, <1>5 DEF SecondShown, Same, SameValue
<1>8. DateRow'
  BY <1>1, <1>2, <1>3, <1>4 DEF DateRow, Same, SameValue, Clk!Shows
<1>9. over' \in BOOLEAN
  BY <1>3
<1> QED BY <1>3, <1>6, <1>7, <1>8, <1>9

LEMMA YearKeeps ==
  ASSUME screen \in [Cells -> 0..14], ClockRow, SecondShown, DateRow, over \in BOOLEAN,
         NEW v \in 0..99, NEW str, Redrawn("year", v, str)
  PROVE  screen' \in [Cells -> 0..14] /\ ClockRow' /\ SecondShown' /\ DateRow' /\ over' \in BOOLEAN
<1>1. /\ Value("year")' = v /\ TextOK(v, str) /\ ch'["year"] = str
      /\ screen' = Clk!oled_show_str(screen, Clk!Redraw("year", v, str))
  BY DEF Redrawn
<1>2. /\ SameValue("second") /\ SameValue("minute") /\ SameValue("hour")
      /\ SameValue("day") /\ SameValue("date") /\ SameValue("month")
  BY FieldsAre DEF Redrawn
<1>3. /\ screen' \in [Cells -> 0..14]
      /\ screen'[<<5, 0>>] = 2 /\ screen'[<<5, 1>>] = 0 /\ screen'[<<5, 4>>] = Clk!Dash
        /\ (v >= 10 => screen'[<<5, 2>>] = v \div 10 /\ screen'[<<5, 3>>] = v % 10) /\ over' = over
  BY <1>1, YearDrawn DEF Redrawn
<1>4. /\ Same(6, 0) /\ Same(6, 1) /\ Same(6, 2) /\ Same(6, 3) /\ Same(6, 4) /\ Same(6, 5) /\ Same(6, 6)
        /\ Same(6, 7) /\ Same(6, 14) /\ Same(5, 5) /\ Same(5, 6) /\ Same(5, 7) /\ Same(5, 8) /\ Same(5, 9)
  <2>1. \A r \in 5..6, c \in 0..15 : r # 5 \/ (c > 4 /\ c # 10) => screen'[<<r, c>>] = screen[<<r, c>>]
    BY <1>1, YearDrawn
  <2>2. \A r \in 5..6, c \in 0..15 : r # 5 \/ (c > 4 /\ c # 10) => Same(r, c)
    BY <2>1 DEF Same
  <2> QED BY <2>2
<1>5. ch'["second"] = ch["second"]
  BY FieldsAre DEF Redrawn
<1>6. ClockRow'
  BY <1>1, <1>2, <1>3, <1>4 DEF ClockRow, Same, SameValue, Clk!Shows
<1>7. SecondShown'
  BY <1>1, <1>2, <1>3, <1>4, <1>5 DEF SecondShown, Same, SameValue
<1>8. DateRow'
  BY <1>1, <1>2, <1>3, <1>4 DEF DateRow, Same, SameValue, Clk!Shows
<1>9. over' \in BOOLEAN
  BY <1>3
<1> QED BY <1>3, <1>6, <1>7, <1>8, <1>9


\* Where nothing is known of the display, nothing is claimed of it.
LEMMA LossKeeps ==
  ASSUME screen \in [Cells -> 0..14], spoiled' = Clk!Fields,
         screen' = [p \in DOMAIN screen |-> Clk!Unknown]
  PROVE  screen' \in [Cells -> 0..14] /\ ClockRow' /\ SecondShown' /\ DateRow'
<1>1. screen' \in [Cells -> 0..14]
  BY DEF Clk!Unknown
<1>2. \A f \in Clk!Fields : ~Sound(f)'
  BY DEF Sound
<1>3. /\ ~Sound("second")' /\ ~Sound("minute")' /\ ~Sound("hour")' /\ ~Sound("day")'
      /\ ~Sound("date")' /\ ~Sound("month")' /\ ~Sound("year")'
  BY <1>2, FieldsAre
<1> QED BY <1>1, <1>3 DEF ClockRow, SecondShown, DateRow

\* A register read and drawn.
LEMMA ReadAndShowKeeps ==
  ASSUME rtc \in 1..7, NEW raw \in 0..255, Clk!FromBcd(raw) \in 0..99, NEW drawn \in BOOLEAN, Clk!ReadAndShow(raw, drawn),
         FieldsOK, spoiled \subseteq Clk!Fields, screen \in [Cells -> 0..14], ClockRow, SecondShown, DateRow, over \in BOOLEAN
  PROVE  /\ FieldsOK' /\ rtc_data' = [rtc_data EXCEPT ![Clk!Regs[rtc]] = raw]
         /\ screen' \in [Cells -> 0..14] /\ ClockRow' /\ SecondShown' /\ DateRow' /\ over' \in BOOLEAN
         /\ spoiled' \subseteq Clk!Fields
<1> DEFINE v == Clk!FromBcd(raw)
<1>0. PICK f : f = Clk!Regs[rtc]
  OBVIOUS
<1>1. f \in Clk!Fields
  BY <1>0 DEF Clk!Fields
<1>5. PICK str : str = Clk!int_to_char(v, ch[f])
  OBVIOUS
<1>2. TextOK(v, str)
  <2>1. ch[f] \in Seq(0..9) /\ Len(ch[f]) <= 2
    BY <1>1 DEF FieldsOK, TextOK
  <2> HIDE DEF v
  <2>2. v \in 0..99
    BY DEF v
  <2> QED BY <1>5, <2>1, <2>2, TextKept
<1>3. CASE raw = rtc_data[f]
  <2>1. UNCHANGED <<rtc_data, ch, screen, over, spoiled>>
    BY <1>0, <1>3 DEF Clk!ReadAndShow
  <2>2. rtc_data' = [rtc_data EXCEPT ![f] = raw]
    BY <1>3, <2>1 DEF FieldsOK
  <2>3. FieldsOK'
    BY <2>1 DEF FieldsOK, Value
  <2>4. ClockRow' /\ SecondShown' /\ DateRow'
    BY <2>1 DEF ClockRow, SecondShown, DateRow, Sound, Value, Clk!Shows
  <2> QED BY <1>0, <2>1, <2>2, <2>3, <2>4
<1>4. CASE raw # rtc_data[f]
  <2>1. /\ rtc_data' = [rtc_data EXCEPT ![f] = raw]
        /\ ch' = [ch EXCEPT ![f] = str]
        /\ screen' = IF drawn THEN Clk!oled_show_str(screen, Clk!Redraw(f, v, str))
                               ELSE [p \in DOMAIN screen |-> Clk!Unknown]
        /\ spoiled' = IF drawn THEN spoiled \ {f} ELSE Clk!Fields
        /\ over' = IF f = "minute" THEN TRUE ELSE IF f = "second" THEN FALSE ELSE over
    BY <1>0, <1>4, <1>5 DEF Clk!ReadAndShow
  <2>2. rtc_data'[f] = raw /\ ch'[f] = str
    BY <1>1, <2>1 DEF FieldsOK
  <2>3. \A g \in Clk!Fields \ {f} : rtc_data'[g] = rtc_data[g] /\ ch'[g] = ch[g]
    BY <2>1 DEF FieldsOK
  <2>4. Value(f)' = v /\ \A g \in Clk!Fields \ {f} : Value(g)' = Value(g)
    BY <2>2, <2>3 DEF Value
  <2>5. ASSUME drawn PROVE Redrawn(f, v, str)
    <3>1. \A g \in Clk!Fields \ {f} : Sound(g)' <=> Sound(g)
      BY <2>1, <2>5 DEF Sound
    <3>2. \A g \in Clk!Fields \ {f} : SameValue(g)
      BY <2>4, <3>1 DEF SameValue
    <3> QED BY <1>2, <2>1, <2>2, <2>3, <2>4, <2>5, <3>2 DEF Redrawn
  <2>6. FieldsOK'
    <3>1. \A g \in Clk!Fields : rtc_data'[g] \in 0..255 /\ Value(g)' \in 0..99 /\ TextOK(Value(g)', ch'[g])
      <4> SUFFICES ASSUME NEW g \in Clk!Fields
                   PROVE  rtc_data'[g] \in 0..255 /\ Value(g)' \in 0..99 /\ TextOK(Value(g)', ch'[g])
        OBVIOUS
      <4>1. CASE g = f
        BY <1>2, <2>2, <2>4, <4>1
      <4>2. CASE g # f
        <5>1. rtc_data'[g] = rtc_data[g] /\ ch'[g] = ch[g] /\ Value(g)' = Value(g)
          BY <2>3, <2>4, <4>2
        <5> QED BY <5>1 DEF FieldsOK
      <4> QED BY <4>1, <4>2
    <3>2. rtc_data' \in [Clk!Fields -> 0..255] /\ ch' \in [Clk!Fields -> Seq(0..9)]
      <4>1. rtc_data \in [Clk!Fields -> 0..255] /\ ch \in [Clk!Fields -> Seq(0..9)] /\ str \in Seq(0..9)
        BY <1>2 DEF FieldsOK, TextOK
      <4> QED BY <1>1, <2>1, <4>1
    <3>3. \A g \in Clk!Fields : TextOK(Value(g), ch[g])' <=> TextOK(Value(g)', ch'[g])
      BY DEF TextOK
    <3> QED BY <3>1, <3>2, <3>3 DEF FieldsOK
  <2>8. CASE ~drawn
    <3>1. over' \in BOOLEAN /\ spoiled' \subseteq Clk!Fields
      BY <2>1, <2>8
    <3>2. spoiled' = Clk!Fields /\ screen' = [p \in DOMAIN screen |-> Clk!Unknown]
      BY <2>1, <2>8
    <3> QED BY <1>0, <2>1, <2>6, <3>1, <3>2, LossKeeps
  <2>7. ASSUME drawn PROVE screen' \in [Cells -> 0..14] /\ ClockRow' /\ SecondShown' /\ DateRow' /\ over' \in BOOLEAN
    <3>0. v \in 0..99
      OBVIOUS
    <3> HIDE DEF v
    <3>1. CASE f = "second"
      BY <2>5, <2>7, <3>0, <3>1, SecondKeeps
    <3>2. CASE f = "minute"
      BY <2>5, <2>7, <3>0, <3>2, MinuteKeeps
    <3>3. CASE f = "hour"
      BY <2>5, <2>7, <3>0, <3>3, HourKeeps
    <3>4. CASE f = "day"
      BY <2>5, <2>7, <3>0, <3>4, DayKeeps
    <3>5. CASE f = "date"
      BY <2>5, <2>7, <3>0, <3>5, DateKeeps
    <3>6. CASE f = "month"
      BY <2>5, <2>7, <3>0, <3>6, MonthKeeps
    <3>7. CASE f = "year"
      BY <2>5, <2>7, <3>0, <3>7, YearKeeps
    <3> QED BY <1>1, <3>1, <3>2, <3>3, <3>4, <3>5, <3>6, <3>7, FieldsAre
  <2> QED BY <1>0, <2>1, <2>6, <2>7, <2>8
<1> QED BY <1>3, <1>4

\* A field of the chip is a number of two digits.
LEMMA Units ==
  ASSUME NEW f \in Clk!Fields
  PROVE  /\ Clk!LastUnit(f) \in 0..99 /\ Clk!Restart(f) \in 0..1 /\ Clk!Restart(f) <= Clk!LastUnit(f)
         /\ Clk!Restart(f) = 1 <=> f \in {"day", "date", "month"}
BY FieldsAre DEF Clk!LastUnit, Clk!Restart

\* Each register is another field's.
LEMMA RegsApart == \A m, n \in 1..7 : Clk!Regs[m] = Clk!Regs[n] => m = n
<1>1. \A n \in 1..7 : n = 1 \/ n = 2 \/ n = 3 \/ n = 4 \/ n = 5 \/ n = 6 \/ n = 7
  OBVIOUS
<1>2. /\ Clk!Regs[1] = "second" /\ Clk!Regs[2] = "minute" /\ Clk!Regs[3] = "hour" /\ Clk!Regs[4] = "day"
      /\ Clk!Regs[5] = "date" /\ Clk!Regs[6] = "month" /\ Clk!Regs[7] = "year"
  BY DEF Clk!Regs
<1> QED BY <1>1, <1>2

\* Every byte the chip holds has two digits.
LEMMA ContentsOK ==
  ASSUME Clk!BoundsAssumption, TimeOK, NEW p \in 0..63, NEW raw, raw \in Clk!Contents(p)
  PROVE  raw \in 0..255 /\ Clk!FromBcd(raw) \in 0..99
<1>1. CASE p < 7
  <2>1. raw = Clk!ToBcd(time[Clk!Regs[p + 1]]) /\ p + 1 \in 1..7
    BY <1>1 DEF Clk!Contents, Clk!Regs
  <2>2. PICK g \in Clk!Fields : g = Clk!Regs[p + 1]
    BY <2>1 DEF Clk!Fields
  <2>3. time[g] \in Clk!Restart(g)..Clk!LastUnit(g)
    BY <2>2 DEF TimeOK, IsTime
  <2>4. time[g] \in 0..99
    BY <2>2, <2>3, Units
  <2> QED BY <2>1, <2>2, <2>4, BcdIs
<1>2. CASE ~(p < 7)
  <2>1. raw \in Others
    BY <1>2 DEF Clk!Contents, Clk!Regs
  <2>2. raw \in 0..255 /\ Clk!FromBcd(raw) <= 99
    BY <2>1 DEF Clk!BoundsAssumption
  <2>3. raw \div 16 \in Nat /\ raw % 16 \in Nat
    BY <2>2
  <2>4. Clk!FromBcd(raw) \in Nat
    BY <2>3 DEF Clk!FromBcd
  <2> QED BY <2>2, <2>4
<1> QED BY <1>1, <1>2

LEMMA RtcTimerKeeps ==
  ASSUME Clk!BoundsAssumption, ClockInv, Clk!rtc_timer
  PROVE  ClockInv'
<1>1. rtc \in 1..7 /\ rtc' = (rtc % 7) + 1 /\ time' = time /\ ticks' = ticks
  BY DEF ClockInv, Clk!rtc_timer, Clk!Regs
<1>0. PICK f : f = Clk!Regs[rtc]
  OBVIOUS
<1>2. f \in Clk!Fields
  BY <1>0, <1>1 DEF Clk!Fields
<1>3. time[f] \in 0..99
  <2>1. time[f] \in Clk!Restart(f)..Clk!LastUnit(f)
    BY <1>2 DEF ClockInv, TimeOK, IsTime
  <2> QED BY <1>2, <2>1, Units
<1>19. PICK r \in {0} \cup UNION {Clk!Contents(q) : q \in 0..Len(Clk!Regs)} :
         \E moved \in BOOLEAN, came \in BOOLEAN, drawn \in BOOLEAN :
           /\ Clk!ds1307_read(r, moved, came) /\ Clk!ReadAndShow(r, drawn)
           /\ Clk!Faults(moved /\ came /\ drawn)
  BY Zenon DEF Clk!rtc_timer
<1>20. PICK raw : raw = r
  OBVIOUS
<1>4. PICK moved \in BOOLEAN, came \in BOOLEAN, drawn \in BOOLEAN :
        /\ Clk!ds1307_read(raw, moved, came) /\ Clk!ReadAndShow(raw, drawn)
        /\ Clk!Faults(moved /\ came /\ drawn)
  BY <1>19, <1>20
<1>15. PICK p : p = IF moved THEN rtc - 1 ELSE pointer
  OBVIOUS
<1>16. p \in 0..63
  BY <1>1, <1>15 DEF ClockInv
<1>13. /\ raw \in IF came THEN Clk!Contents(p) ELSE {0}
       /\ pointer' \in {(p + 1) % 64} \cup (IF came THEN {} ELSE {p})
  BY <1>4, <1>15 DEF Clk!ds1307_read, Clk!Bytes
<1>17. steady' = (moved /\ came /\ (steady \/ rtc = 1))
  BY <1>4, Zenon DEF Clk!ds1307_read
<1>14. pointer' \in 0..63
  BY <1>13, <1>16
<1>5. raw \in 0..255 /\ Clk!FromBcd(raw) \in 0..99
  <2>1. CASE ~came
    <3>1. raw = 0
      BY <1>13, <2>1
    <3>2. 0 \in 0..255 /\ 0 \in 0..99
      OBVIOUS
    <3> QED BY <3>1, <3>2, FromZero, Zenon
  <2>2. CASE came
    <3>1. raw \in Clk!Contents(p) /\ TimeOK
      BY <1>13, <2>2 DEF ClockInv
    <3> QED BY <1>16, <3>1, ContentsOK, Zenon
  <2> QED BY <2>1, <2>2, Zenon
<1>6. /\ FieldsOK' /\ rtc_data' = [rtc_data EXCEPT ![f] = raw]
      /\ screen' \in [Cells -> 0..14] /\ ClockRow' /\ SecondShown' /\ DateRow' /\ over' \in BOOLEAN
      /\ spoiled' \subseteq Clk!Fields
  BY <1>1, <1>4, <1>5, <1>0, ReadAndShowKeeps DEF ClockInv
<1>7. rtc' \in 1..7 /\ (rtc = 7 => rtc' = 1) /\ (rtc # 7 => rtc' = rtc + 1)
  BY <1>1
<1>8. /\ steady' \in BOOLEAN /\ fails' \in 0..MaxFails
      /\ steady' => raw = Clk!ToBcd(time[f]) /\ (steady \/ rtc = 1)
  <2>1. fails' \in 0..MaxFails
    BY <1>4 DEF Clk!Faults, ClockInv, Clk!BoundsAssumption
  <2>2. ASSUME steady' PROVE raw = Clk!ToBcd(time[f]) /\ (steady \/ rtc = 1)
    <3>1. moved /\ came /\ (steady \/ rtc = 1)
      BY <1>17, <2>2
    <3>2. p = rtc - 1 /\ p < 7 /\ p + 1 = rtc
      BY <1>1, <1>15, <3>1
    <3>3. Clk!Contents(p) = {Clk!ToBcd(time[f])}
      BY <1>0, <3>2 DEF Clk!Contents, Clk!Regs
    <3> QED BY <1>13, <3>1, <3>3
  <2>3. steady' \in BOOLEAN
    BY <1>17, Zenon
  <2> QED BY <2>1, <2>2, <2>3
<1>9. TimeOK'
  BY <1>1 DEF ClockInv, TimeOK, IsTime
<1>10. ASSUME steady', NEW n \in 1..7, ReadSoFar(n)'
       PROVE  rtc_data'[Clk!Regs[n]] = Clk!ToBcd(time'[Clk!Regs[n]])
  <2>1. n <= rtc
    BY <1>1, <1>7, <1>10 DEF ReadSoFar
  <2>2. CASE n = rtc
    BY <1>1, <1>2, <1>6, <1>8, <1>10, <2>2, <1>0 DEF ClockInv, FieldsOK
  <2>3. CASE n # rtc
    <3>1. n < rtc /\ rtc # 1 /\ steady
      BY <1>1, <1>8, <1>10, <2>1, <2>3
    <3>2. rtc_data[Clk!Regs[n]] = Clk!ToBcd(time[Clk!Regs[n]])
      BY <3>1 DEF ClockInv, ReadSoFar
    <3>3. Clk!Regs[n] # f /\ Clk!Regs[n] \in Clk!Fields
      BY <1>1, <2>3, <1>0, RegsApart DEF Clk!Fields
    <3> QED BY <1>1, <1>6, <3>2, <3>3 DEF ClockInv, FieldsOK
  <2> QED BY <2>2, <2>3
<1>11. steady' => /\ rtc' # 0
                  /\ \A n \in 1..7 : ReadSoFar(n)' => rtc_data'[Clk!Regs[n]] = Clk!ToBcd(time'[Clk!Regs[n]])
  BY <1>7, <1>10
<1>12. ticks' \in 0..MaxTicks /\ rtc' \in 0..7
  BY <1>1, <1>7 DEF ClockInv
<1>18. AtStart'
  BY <1>7 DEF AtStart
<1> QED BY <1>6, <1>8, <1>9, <1>11, <1>12, <1>14, <1>18 DEF ClockInv, ReadSoFar

LEMMA TimesSet == IsTime(SetTime) /\ \A t \in Starts : IsTime(t)
<1>1. /\ \A f \in {"second", "minute"} : Clk!Restart(f) = 0 /\ Clk!LastUnit(f) = 59
      /\ Clk!Restart("hour") = 0 /\ Clk!LastUnit("hour") = 23
      /\ Clk!Restart("day") = 1 /\ Clk!LastUnit("day") = 7
      /\ Clk!Restart("date") = 1 /\ Clk!LastUnit("date") = 31
      /\ Clk!Restart("month") = 1 /\ Clk!LastUnit("month") = 12
      /\ Clk!Restart("year") = 0 /\ Clk!LastUnit("year") = 99
  BY DEF Clk!Restart, Clk!LastUnit
<1>2. ASSUME NEW year \in 0..99, NEW month \in 1..12, NEW date \in 1..31, NEW day \in 1..7,
             NEW hour \in 0..23, NEW minute \in 0..59, NEW second \in 0..59
      PROVE  IsTime(Time(year, month, date, day, hour, minute, second))
  <2> DEFINE t == Time(year, month, date, day, hour, minute, second)
  <2>1. t \in [{"second", "minute", "hour", "day", "date", "month", "year"} -> 0..99]
    BY DEF Time
  <2>2. /\ t["second"] = second /\ t["minute"] = minute /\ t["hour"] = hour /\ t["day"] = day
        /\ t["date"] = date /\ t["month"] = month /\ t["year"] = year
    BY DEF Time
  <2> HIDE DEF t
  <2>3. \A f \in Clk!Fields : t[f] \in Clk!Restart(f)..Clk!LastUnit(f)
    BY <1>1, <2>2, FieldsAre
  <2> QED BY <2>1, <2>3, FieldsAre DEF IsTime, t
<1>3. /\ 29 \in 0..99 /\ 12 \in 1..12 /\ 31 \in 1..31 /\ 7 \in 1..7 /\ 23 \in 0..23 /\ 59 \in 0..59 /\ 58 \in 0..59
      /\ 30 \in 0..99 /\ 9 \in 1..12 /\ 9 \in 1..31 /\ 3 \in 1..7 /\ 9 \in 0..23 /\ 8 \in 0..59
      /\ 21 \in 0..99 /\ 3 \in 1..12 /\ 4 \in 1..31 /\ 4 \in 1..7 /\ 10 \in 0..23 /\ 40 \in 0..59 /\ 30 \in 0..59
      /\ 9 \in 0..59
  OBVIOUS
<1>4. IsTime(SetTime)
  BY <1>2, <1>3 DEF SetTime
<1>5. IsTime(YearEnds) /\ IsTime(Time(30, 9, 9, 3, 9, 8, 58))
  BY <1>2, <1>3 DEF YearEnds
<1> QED BY <1>4, <1>5 DEF Starts

LEMMA ClockInvInit == Clk!BoundsAssumption /\ Clk!Init => ClockInv
<1> SUFFICES ASSUME Clk!BoundsAssumption, Clk!Init PROVE ClockInv
  OBVIOUS
<1>1. /\ rtc = 0 /\ time \in Starts /\ ticks = 0 /\ fails = 0 /\ pointer \in 0..63
      /\ rtc_data = [f \in Clk!Fields |-> 0] /\ ch = [f \in Clk!Fields |-> <<>>]
      /\ screen = [p \in Cells |-> Clk!Unknown] /\ spoiled = Clk!Fields /\ steady = FALSE /\ over = FALSE
  BY DEF Clk!Init, Clk!Bytes, Cells
<1>2. TimeOK
  BY <1>1, TimesSet DEF TimeOK
<1>3. \A f \in Clk!Fields : Value(f) = 0 /\ rtc_data[f] = 0 /\ ch[f] = <<>>
  BY <1>1, FromZero DEF Value
<1>4. TextOK(0, <<>>)
  BY EmptySeq DEF TextOK
<1>5. FieldsOK
  BY <1>1, <1>3, <1>4 DEF FieldsOK
<1>7. screen \in [Cells -> 0..14]
  BY <1>1 DEF Clk!Unknown
<1>9. ClockRow /\ SecondShown /\ DateRow
  <2>1. \A f \in Clk!Fields : ~Sound(f)
    BY <1>1 DEF Sound
  <2>2. /\ ~Sound("second") /\ ~Sound("minute") /\ ~Sound("hour") /\ ~Sound("day")
        /\ ~Sound("date") /\ ~Sound("month") /\ ~Sound("year")
    BY <2>1, FieldsAre
  <2> QED BY <2>2 DEF ClockRow, SecondShown, DateRow
<1>10. ticks \in 0..MaxTicks /\ fails \in 0..MaxFails
  BY <1>1 DEF Clk!BoundsAssumption
<1>11. rtc \in 0..7 /\ steady \in BOOLEAN /\ over \in BOOLEAN /\ ~steady /\ pointer \in 0..63 /\ spoiled \subseteq Clk!Fields
  <2>1. rtc \in 0..7
    BY <1>1
  <2>2. steady \in BOOLEAN /\ over \in BOOLEAN /\ ~steady
    BY <1>1, Zenon
  <2>3. pointer \in 0..63 /\ spoiled \subseteq Clk!Fields
    BY <1>1
  <2> QED BY <2>1, <2>2, <2>3
<1>12. AtStart
  BY <1>1 DEF AtStart
<1> QED BY <1>2, <1>5, <1>7, <1>9, <1>10, <1>11, <1>12 DEF ClockInv

LEMMA SetupKeeps ==
  ASSUME Clk!BoundsAssumption, ClockInv, Clk!Setup
  PROVE  ClockInv'
<1>1. rtc = 0 /\ rtc' = 1 /\ UNCHANGED <<ticks, rtc_data, ch, steady, over>>
  BY DEF Clk!Setup
<1>2. PICK failed \in SUBSET Clk!Fields, done \in BOOLEAN :
        /\ Clk!rct_set_init(failed) /\ Clk!oled_fill_screen(done)
        /\ Clk!Faults(failed = {} /\ done)
  BY DEF Clk!Setup
<1>3. TimeOK'
  <2>1. IsTime(time) /\ IsTime(SetTime)
    BY TimesSet DEF ClockInv, TimeOK
  <2>2. time' = [f \in Clk!Fields |-> IF f \in failed THEN time[f] ELSE SetTime[f]]
    BY <1>2 DEF Clk!rct_set_init
  <2>3. time' \in [Clk!Fields -> 0..99]
    BY <2>1, <2>2 DEF IsTime
  <2>4. \A f \in Clk!Fields : time'[f] = time[f] \/ time'[f] = SetTime[f]
    BY <2>2
  <2>5. \A f \in Clk!Fields : time'[f] \in Clk!Restart(f)..Clk!LastUnit(f)
    BY <2>1, <2>4 DEF IsTime
  <2> QED BY <2>3, <2>5 DEF TimeOK, IsTime
<1>4. ~steady
  BY <1>1 DEF ClockInv
<1>5. FieldsOK'
  BY <1>1 DEF ClockInv, FieldsOK, Value
<1>6. pointer' \in 0..63
  <2>1. pointer' = pointer \/ pointer' \in 1..7
    BY <1>2 DEF Clk!rct_set_init, Clk!Regs
  <2> QED BY <2>1 DEF ClockInv
<1>7. fails' \in 0..MaxFails
  BY <1>2 DEF Clk!Faults, ClockInv, Clk!BoundsAssumption
<1>8. /\ screen' \in [Cells -> 0..14] /\ spoiled' \subseteq Clk!Fields
      /\ ClockRow' /\ SecondShown' /\ DateRow'
  <2>1. CASE done
    <3>1. screen' = [p \in Cells |-> Clk!Blank] /\ spoiled' = {}
      BY <1>2, <2>1 DEF Clk!oled_fill_screen, ClockInv
    <3>2. screen'[<<6, 2>>] = Clk!Blank /\ screen'[<<6, 5>>] = Clk!Blank
      BY <3>1 DEF Cells
    <3>3. \A f \in Clk!Fields : Value(f)' = 0 /\ ch'[f] = <<>>
      BY <1>1, FromZero DEF ClockInv, AtStart, Value
    <3>4. /\ Value("second")' = 0 /\ Value("minute")' = 0 /\ Value("hour")' = 0 /\ Value("day")' = 0
          /\ Value("date")' = 0 /\ Value("month")' = 0 /\ Value("year")' = 0 /\ ch'["second"] = <<>>
      BY <3>3, FieldsAre
    <3>5. over' = FALSE
      BY <1>1 DEF ClockInv, AtStart
    <3>6. ClockRow' /\ SecondShown' /\ DateRow'
      BY <3>2, <3>4, <3>5 DEF ClockRow, SecondShown, DateRow
    <3>7. screen' \in [Cells -> 0..14] /\ spoiled' \subseteq Clk!Fields
      BY <3>1 DEF Clk!Blank
    <3> QED BY <3>6, <3>7
  <2>2. CASE ~done
    <3>1. screen' = [p \in DOMAIN screen |-> Clk!Unknown] /\ spoiled' = Clk!Fields
      BY <1>2, <2>2 DEF Clk!oled_fill_screen
    <3> QED BY <3>1, LossKeeps DEF ClockInv
  <2> QED BY <2>1, <2>2
<1>9. rtc' \in 0..7 /\ rtc' # 0 /\ ~steady' /\ steady' \in BOOLEAN /\ over' \in BOOLEAN /\ ticks' \in 0..MaxTicks
  BY <1>1, <1>4 DEF ClockInv
<1> QED BY <1>3, <1>5, <1>6, <1>7, <1>8, <1>9 DEF ClockInv, AtStart

LEMMA TickKeeps ==
  ASSUME Clk!BoundsAssumption, ClockInv, Clk!Tick
  PROVE  ClockInv'
<1>1. /\ ticks < MaxTicks /\ ticks' = ticks + 1 /\ steady' = FALSE
      /\ UNCHANGED <<rtc, fails, pointer, rtc_data, ch, screen, over, spoiled>>
  BY DEF Clk!Tick
<1>2. TimeOK'
  <2>2. ASSUME NEW f \in Clk!Fields
        PROVE  time'[f] \in Clk!Restart(f)..Clk!LastUnit(f) /\ time'[f] \in 0..99
    <3>1. time'[f] = IF ~Clk!Turns(f) THEN time[f]
                     ELSE IF time[f] = Clk!LastUnit(f) THEN Clk!Restart(f) ELSE time[f] + 1
      BY DEF Clk!Tick
    <3>2. time[f] \in Clk!Restart(f)..Clk!LastUnit(f)
      BY DEF ClockInv, TimeOK, IsTime
    <3> QED BY <3>1, <3>2, Units
  <2>3. time' \in [Clk!Fields -> 0..99]
    <3>1. time' = [f \in Clk!Fields |-> time'[f]]
      BY DEF Clk!Tick
    <3> QED BY <2>2, <3>1
  <2> QED BY <2>2, <2>3 DEF TimeOK, IsTime
<1>3. ticks' \in 0..MaxTicks
  BY <1>1 DEF ClockInv, Clk!BoundsAssumption
<1>5. FieldsOK'
  BY <1>1 DEF ClockInv, FieldsOK, Value
<1>6. ClockRow' /\ SecondShown' /\ DateRow'
  BY <1>1 DEF ClockInv, ClockRow, SecondShown, DateRow, Sound, Value, Clk!Shows
<1> QED BY <1>1, <1>2, <1>3, <1>5, <1>6 DEF ClockInv, AtStart

LEMMA ClockInvNext ==
  ASSUME Clk!BoundsAssumption, ClockInv, Clk!Next \/ UNCHANGED clockVars
  PROVE  ClockInv'
<1>1. CASE UNCHANGED clockVars
  <2>1. UNCHANGED <<rtc, time, ticks, fails, pointer, rtc_data, ch, screen, steady, over, spoiled>>
    BY <1>1 DEF clockVars
  <2>2. FieldsOK' /\ TimeOK'
    BY <2>1 DEF ClockInv, FieldsOK, TimeOK, IsTime, Value
  <2>3. ClockRow' /\ SecondShown' /\ DateRow'
    BY <2>1 DEF ClockInv, ClockRow, SecondShown, DateRow, Sound, Value, Clk!Shows
  <2> QED BY <2>1, <2>2, <2>3 DEF ClockInv, AtStart, ReadSoFar
<1>2. CASE Clk!Next
  BY <1>2, SetupKeeps, RtcTimerKeeps, TickKeeps DEF Clk!Next
<1> QED BY <1>1, <1>2

\* After a steady pass each field was last drawn from the chip's time.
LEMMA ClockInvShown == ClockInv => Clk!ClockShown
<1> SUFFICES ASSUME ClockInv, rtc = 1, steady
             PROVE  /\ Sound("minute") /\ time["minute"] # 0 => Clk!Shows(6, 3, time["minute"])
                    /\ Sound("hour") /\ time["hour"] # 0 => Clk!Shows(6, 0, time["hour"])
                    /\ Sound("second") /\ ch["second"] # <<>> /\ (time["second"] = 0 <=> over)
                         => Clk!Shows(6, 6, time["second"])
                    /\ Sound("day") => screen[<<6, 14>>] = time["day"]
                    /\ Sound("date") => Clk!Shows(5, 8, time["date"])
                    /\ Sound("month") => Clk!Shows(5, 5, time["month"]) /\ screen[<<5, 7>>] = Clk!Dash
                    /\ Sound("year") /\ time["year"] >= 10
                         => Clk!Shows(5, 0, 20) /\ Clk!Shows(5, 2, time["year"])
                    /\ Sound("year") /\ time["year"] # 0 => screen[<<5, 4>>] = Clk!Dash
                    /\ Sound("hour") => screen[<<6, 2>>] \in {Clk!Colon, Clk!Blank}
                    /\ Sound("minute") => screen[<<6, 5>>] \in {Clk!Colon, Clk!Blank}
  BY DEF Clk!ClockShown, Sound
<1>1. ASSUME NEW f \in Clk!Fields
      PROVE  /\ Value(f) = time[f] /\ time[f] \in 0..99
             /\ f = "day" => time[f] \in 1..9
             /\ f \in {"date", "month"} => time[f] # 0
  <2>1. PICK n \in 1..7 : f = Clk!Regs[n]
    BY DEF Clk!Fields
  <2>2. rtc_data[f] = Clk!ToBcd(time[f])
    BY <2>1 DEF ClockInv, ReadSoFar
  <2>3. time[f] \in Clk!Restart(f)..Clk!LastUnit(f)
    BY DEF ClockInv, TimeOK, IsTime
  <2>4. time[f] \in 0..99
    BY <2>3, Units
  <2>5. f = "day" => Clk!Restart(f) = 1 /\ Clk!LastUnit(f) = 7
    BY DEF Clk!Restart, Clk!LastUnit
  <2>6. f \in {"date", "month"} => Clk!Restart(f) = 1
    BY DEF Clk!Restart
  <2>7. Value(f) = time[f]
    BY <2>2, <2>4, BcdIs DEF Value
  <2>8. f = "day" => time[f] \in 1..9
    BY <2>3, <2>5
  <2>9. f \in {"date", "month"} => time[f] # 0
    <3> SUFFICES ASSUME f \in {"date", "month"} PROVE time[f] # 0
      OBVIOUS
    <3>1. Clk!Restart(f) = 1 /\ Clk!LastUnit(f) \in 0..99
      BY <2>6, Units
    <3> QED BY <2>3, <3>1
  <2> QED BY <2>4, <2>7, <2>8, <2>9
<1>2. /\ Value("second") = time["second"] /\ time["second"] \in 0..99
      /\ Value("minute") = time["minute"] /\ Value("hour") = time["hour"]
      /\ Value("day") = time["day"] /\ time["day"] \in 1..9
      /\ Value("date") = time["date"] /\ time["date"] # 0
      /\ Value("month") = time["month"] /\ time["month"] # 0
      /\ Value("year") = time["year"]
  BY <1>1, FieldsAre
<1>3. ClockRow /\ SecondShown /\ DateRow /\ over \in BOOLEAN
  BY DEF ClockInv
<1>4. ASSUME Sound("second"), ch["second"] # <<>>, time["second"] = 0 <=> over PROVE Clk!Shows(6, 6, time["second"])
  <2>1. screen[<<6, 6>>] = time["second"] \div 10
    BY <1>2, <1>3, <1>4 DEF SecondShown
  <2>2. CASE over
    <3>1. time["second"] = 0 /\ screen[<<6, 7>>] = 0 /\ 0 % 10 = 0
      BY <1>3, <1>4, <2>2 DEF SecondShown
    <3> QED BY <2>1, <3>1 DEF Clk!Shows
  <2>3. CASE ~over
    BY <1>2, <1>3, <1>4, <2>1, <2>3 DEF SecondShown, Clk!Shows
  <2> QED BY <2>2, <2>3
<1> QED BY <1>2, <1>3, <1>4 DEF ClockRow, DateRow

LEMMA ClockInvTypes == ClockInv => Clk!TypeOK
<1> SUFFICES ASSUME ClockInv PROVE Clk!TypeOK
  OBVIOUS
<1>1. time \in [Clk!Fields -> 0..99]
  BY DEF ClockInv, TimeOK, IsTime
<1>2. rtc_data \in [Clk!Fields -> 0..255]
  BY DEF ClockInv, FieldsOK
<1>3. \A f \in Clk!Fields : ch[f] \in Seq(0..9) /\ Len(ch[f]) <= 2
  BY DEF ClockInv, FieldsOK, TextOK
<1>4. ch \in [Clk!Fields -> Seq(0..9)]
  BY DEF ClockInv, FieldsOK
<1>5. screen \in [(5..6) \X (0..15) -> 0..Clk!Unknown]
  BY DEF ClockInv, Cells, Clk!Unknown
<1>6. Len(Clk!Regs) = 7
  BY DEF Clk!Regs
<1> QED BY <1>1, <1>2, <1>3, <1>4, <1>5, <1>6 DEF ClockInv, Clk!Bytes, Clk!TypeOK

ClockPartInv == part = "clock" => ClockInv

LEMMA ClockPartInvInit == PartsInit => ClockPartInv
BY ClockAssumption, ClockInvInit DEF PartsInit, ClockPartInv

LEMMA ClockPartInvNext == ClockPartInv /\ [PartsNext]_allVars => ClockPartInv'
BY ClockAssumption, PartsStep, ClockInvNext DEF ClockPartInv

\* However often the chip ticks or a transfer is lost in between, a pass without
\* ticks or failed reads leaves its time on the display, in every field drawn
\* since a transfer to the display was last lost (app_demo_rtc.c, rtc_timer).
THEOREM ClockAlwaysShown == PartsSpec => []ClockShown
<1>1. ClockPartInv => ClockShown
  BY ClockInvShown DEF ClockPartInv, ClockShown
<1> QED BY <1>1, ClockPartInvInit, ClockPartInvNext, PTL DEF PartsSpec

----------------------------------------------------------------------------
(* The types of whichever part runs, from the invariants above and, for the *)
(* gyroscope's task, from GyroProofs.                                       *)

GyroPartInv == part = "gyro" => GyInv /\ queued \in Seq({"dumped"} \X {0, 1})

LEMMA GyroPartInvInit == PartsInit => GyroPartInv
<1>1. Init => queued \in Seq({"dumped"} \X {0, 1})
  <2>1. Init => queued = <<>>
    BY DEF Init
  <2> QED BY <2>1
<1> QED BY <1>1, GyInvInit DEF PartsInit, GyroPartInv

LEMMA GyroPartInvNext == GyroPartInv /\ [PartsNext]_allVars => GyroPartInv'
<1>1. part = "gyro" /\ [PartsNext]_allVars => [Next]_gyroVars /\ part' = part
  BY PartsStep
<1> QED BY <1>1, PartsStep, GyInvNext, OwnQueue DEF GyroPartInv

CarPartInv == part = "car" => CarInv

LEMMA CarInvTypes == CarInv => Crr!TypeOK
BY DEF CarInv, CallsOK, SpeedOK, PinsOK, DriveOK, Calls, Crr!TypeOK

OnePart == part \in {"gyro", "wifi", "profile", "clock", "car"}

\* The invariant of whichever part runs.
AnyPartInv ==
  OnePart /\ GyroPartInv /\ StationInv /\ ReportInv /\ ClockPartInv /\ CarPartInv

LEMMA AnyPartInvTypes == AnyPartInv => PartsTypeOK
<1>1. StationInv => (part = "wifi" => Wifi!TypeOK)
  BY DEF StationInv, WifiP!StaInv, WifiP!TypeOK, Wifi!TypeOK, WifiP!StaPoints, Wifi!StaPoints,
         WifiP!Events, Wifi!Events
<1>2. GyroPartInv => (part = "gyro" => TypeOK)
  BY DEF GyroPartInv, GyInv, GyOK, TypeOK
<1> QED BY <1>1, <1>2, ClockInvTypes, CarInvTypes
        DEF AnyPartInv, OnePart, ReportInv, ProfileInv, ClockPartInv, CarPartInv, PartsTypeOK

\* The variables of the part that runs have their types: those of the
\* gyroscope's task, of the station's, of the report builder, of the clock and
\* of the car.
THEOREM PartsTypesHold == PartsSpec => []PartsTypeOK
<1>1. PartsInit => AnyPartInv
  BY CarInvInit, StationInvInit, GyroPartInvInit, ReportInvInit, ClockPartInvInit
     DEF PartsInit, CarPartInv, OnePart, AnyPartInv
<1>2. AnyPartInv /\ [PartsNext]_allVars => AnyPartInv'
  <2>1. CarPartInv /\ [PartsNext]_allVars => CarPartInv'
    BY PartsStep, CarInvNext DEF CarPartInv
  <2>2. OnePart /\ [PartsNext]_allVars => OnePart'
    BY PartsStep DEF OnePart
  <2> QED BY <2>1, <2>2, StationInvNext, GyroPartInvNext, ReportInvNext, ClockPartInvNext
          DEF AnyPartInv
<1> QED BY <1>1, <1>2, AnyPartInvTypes, PTL DEF PartsSpec
=============================================================================
