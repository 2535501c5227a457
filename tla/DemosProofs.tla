---------------------------- MODULE DemosProofs ----------------------------
(***************************************************************************)
(* Proofs about the parts of MCDemos, each within a behaviour that picks   *)
(* it.                                                                     *)
(***************************************************************************)
EXTENDS MCDemos, TrashCanProofs, FiniteSetTheorems, SequenceTheorems,
        WellFoundedInduction

\* A behaviour runs one part to its end.
LEMMA DemosStep ==
  ASSUME [DemosNext]_allVars
  PROVE  /\ part' = part
         /\ Next \/ UNCHANGED trashVars
         /\ part = "power" => Pwr!Next \/ UNCHANGED powerVars
         /\ part = "air" => Air!Next \/ UNCHANGED bmpVars
         /\ part = "scale" => Hx!Next \/ UNCHANGED scaleVars
         /\ part = "adc" => Adc!Next \/ UNCHANGED adcVars
         /\ part = "raw" => Raw!Next \/ UNCHANGED rawVars
         /\ part = "hmac" => Hm!Next \/ UNCHANGED hmacVars
         /\ part = "log" => Lg!Next \/ UNCHANGED logVars
         /\ part = "oled" => Dis!Next \/ UNCHANGED oledVars
         /\ Gps!Next \/ UNCHANGED gpsVars
         /\ Gy!Next \/ UNCHANGED mpuVars
         /\ St!Next \/ UNCHANGED startVars
<1>1. CASE UNCHANGED allVars
  BY <1>1 DEF allVars, demoVars, callVars
<1>2. CASE DemosNext
  BY <1>2 DEF DemosNext, CanPart, PowerPart, AirPart, ScalePart, AdcPart, GpsPart, OledPart,
    MpuPart, MathPart, StartPart, RawPart, HmacPart, LogPart, Only, demoVars, callVars
<1> QED BY <1>1, <1>2

----------------------------------------------------------------------------
(* The can (TrashCanProofs): the steps of the other parts leave it alone.   *)

\* What the cloud hears of the can's openings and level is true and complete,
\* for any number of visits and reports.
THEOREM CloudAlwaysKnows == DemosSpec => []CloudKnowsCan
<1>1. DemosInit => CanInv
  BY CanInvInit, VisitsAssumption DEF DemosInit
<1>2. CanInv /\ [DemosNext]_allVars => CanInv'
  <2> SUFFICES ASSUME CanInv, [DemosNext]_allVars PROVE CanInv'
    OBVIOUS
  <2>1. [Next]_trashVars
    BY DemosStep
  <2> QED BY <2>1, CanInvNext, VisitsAssumption
<1>3. CanInv => CloudKnowsCan
  BY CanInvImplies DEF CloudKnowsCan
<1> QED BY <1>1, <1>2, <1>3, PTL DEF DemosSpec

----------------------------------------------------------------------------
(* The air pressure demo.  While no transfer fails the chip is configured   *)
(* from the start, and every pass finds the conversion of the pass before   *)
(* finished.                                                                *)

AirFaultless ==
  /\ bmp = "init" => result = Air!Reset /\ first /\ ~converting
  /\ bmp # "init" => trim = "chip" /\ ctrl_meas = "meas"
  /\ bmp = "force" => ~converting /\ (result = 0 \/ (first /\ result = Air!Reset))
  /\ bmp \in {"read", "calibrate", "sleep"} =>
       IF converting THEN result = 1 \/ (first /\ result = Air!Reset) ELSE result = 0
  /\ bmp \in {"calibrate", "sleep"} => raw \in {0, 1} \/ (first /\ raw = Air!Reset)

AirInv ==
  /\ bmp \in {"init", "force", "read", "calibrate", "sleep"}
  /\ converting \in BOOLEAN /\ first \in BOOLEAN
  /\ bmpFaults \in Nat
  /\ bmp = "sleep" /\ press_cal # Air!Unset =>
       press_cal.t_fine = burst /\ press_cal.burst = burst
  /\ bmpFaults = 0 => AirFaultless
  /\ bmpFaults = 0 /\ bmp = "sleep" => press_cal # Air!Unset

\* While nothing has failed so far, nothing failed before, nor in this step.
LEMMA NoneFailed ==
  ASSUME NEW a, NEW b, NEW failed, Air!Transfers({a, b}, failed), bmpFaults \in Nat
  PROVE  bmpFaults' \in Nat /\ (bmpFaults' = 0 => bmpFaults = 0 /\ failed = {})
<1>1. Air!Cardinality(failed) = Cardinality(failed)
  BY DEF Air!Cardinality, Cardinality
<1>2. failed \subseteq {a, b} /\ bmpFaults' = bmpFaults + Cardinality(failed)
  BY <1>1 DEF Air!Transfers
<1>3. IsFiniteSet({a} \cup {b})
  BY FS_Singleton, FS_AddElement
<1>4. IsFiniteSet(failed)
  <2>1. failed \subseteq {a} \cup {b}
    BY <1>2
  <2> QED BY <1>3, <2>1, FS_Subset
<1>5. Cardinality(failed) \in Nat /\ (Cardinality(failed) = 0 => failed = {})
  BY <1>4, FS_CardinalityType, FS_EmptySet
<1> QED BY <1>2, <1>5

LEMMA AirStep == AirInv /\ Air!Next => AirInv'
<1> SUFFICES ASSUME AirInv, Air!Next PROVE AirInv'
  OBVIOUS
<1> USE DEF AirInv, AirFaultless, Air!Reset, Air!Unset, Air!Stack, Air!OldAge
<1>1. CASE Air!bme280_bmp280_init
  <2>1. PICK failed \in SUBSET {"trim", "ctrl_meas"} :
          /\ Air!Transfers({"trim", "ctrl_meas"}, failed)
          /\ trim' \in IF "trim" \in failed THEN {"zero", "wrong"} ELSE {"chip"}
          /\ ctrl_meas' = IF "ctrl_meas" \in failed THEN "other" ELSE "meas"
    BY <1>1 DEF Air!bme280_bmp280_init
  <2>2. bmpFaults' \in Nat /\ (bmpFaults' = 0 => bmpFaults = 0 /\ failed = {})
    BY <2>1, NoneFailed
  <2> QED BY <1>1, <2>1, <2>2 DEF Air!bme280_bmp280_init
<1>2. CASE Air!ForcedMode
  <2>1. PICK failed \in SUBSET {"read", "write"} :
          /\ Air!Transfers({"read", "write"}, failed)
          /\ rbuf' \in IF "read" \in failed THEN {"meas", "other"} ELSE {ctrl_meas}
          /\ ctrl_meas' = IF "write" \in failed THEN ctrl_meas ELSE rbuf'
          /\ converting' = ("write" \notin failed)
    BY <1>2 DEF Air!ForcedMode
  <2>2. bmpFaults' \in Nat /\ (bmpFaults' = 0 => bmpFaults = 0 /\ failed = {})
    BY <2>1, NoneFailed
  <2>3. converting' \in BOOLEAN
    BY <2>1
  <2>4. ASSUME bmpFaults' = 0
        PROVE  ctrl_meas' = "meas" /\ converting' /\ (result' = 1 \/ (first /\ result' = -1))
    <3>1. failed = {} /\ bmp = "force" /\ AirFaultless
      BY <1>2, <2>2, <2>4 DEF Air!ForcedMode
    <3>2. result = 0 \/ (first /\ result = -1)
      BY <3>1
    <3>3. result' = 1 \/ (first /\ result' = -1)
      BY <1>2, <3>2 DEF Air!ForcedMode
    <3>4. ctrl_meas' = "meas" /\ converting'
      BY <2>1, <3>1
    <3> QED BY <3>3, <3>4
  <2>5. bmp' = "read" /\ UNCHANGED <<trim, first>> /\ bmp = "force"
    BY <1>2 DEF Air!ForcedMode
  <2> QED BY <2>2, <2>3, <2>4, <2>5
<1>3. CASE Air!readData
  <2>1. PICK failed \in SUBSET {"status", "data"} :
          /\ Air!Transfers({"status", "data"}, failed)
          /\ raw' = IF "data" \in failed THEN Air!Stack ELSE result
    BY <1>3 DEF Air!readData, Air!Latest
  <2>2. bmpFaults' \in Nat /\ (bmpFaults' = 0 => bmpFaults = 0 /\ failed = {})
    BY <2>1, NoneFailed
  <2> QED BY <1>3, <2>1, <2>2 DEF Air!readData
<1>4. CASE Air!Calibrate
  BY <1>4 DEF Air!Calibrate, Air!calibration_T, Air!calibration_P
<1>5. CASE Air!SleepBmp
  BY <1>5 DEF Air!SleepBmp
<1>6. CASE Air!Converted
  BY <1>6 DEF Air!Converted
<1> QED BY <1>1, <1>2, <1>3, <1>4, <1>5, <1>6 DEF Air!Next

\* What is printed belongs together: a pressure is corrected with the
\* temperature of its own burst, and without failures no value is older than
\* the request before although the chip is never asked whether it is done
\* (app_demo_bmp280.c 154, 224).
THEOREM ReadingsAlwaysBelong == DemosSpec => []ReadingsBelong
<1> DEFINE PartInv == part = "air" => AirInv
<1>1. DemosInit => PartInv
  <2> SUFFICES Air!Init => AirInv
    BY DEF DemosInit
  <2> SUFFICES ASSUME Air!Init PROVE AirInv
    OBVIOUS
  <2>1. bmp = "init" /\ result = Air!Reset /\ bmpFaults = 0
    BY DEF Air!Init
  <2>2. converting = FALSE /\ first = TRUE
    BY DEF Air!Init
  <2>3. AirFaultless
    BY <2>1, <2>2 DEF AirFaultless
  <2> QED BY <2>1, <2>2, <2>3 DEF AirInv
<1>2. PartInv /\ [DemosNext]_allVars => PartInv'
  <2> SUFFICES ASSUME AirInv, [DemosNext]_allVars, part = "air" PROVE AirInv'
    BY DemosStep
  <2>1. CASE Air!Next
    BY <2>1, AirStep
  <2>2. CASE UNCHANGED bmpVars
    BY <2>2 DEF bmpVars, AirInv, AirFaultless
  <2> QED BY <2>1, <2>2, DemosStep
<1>3. PartInv => ReadingsBelong
  BY DEF ReadingsBelong, Air!ReadingsBelong, AirInv, AirFaultless
<1> QED BY <1>1, <1>2, <1>3, PTL DEF DemosSpec

----------------------------------------------------------------------------
(* The scale.  Pulse after pulse the chip has sent as many bits as the task *)
(* has read, unless it was reset and is silent until the reading is over.   *)

ScaleInv ==
  /\ scale \in {"wait", "bits", "average", "show", "sleep"}
  /\ load \in Hx!Weights /\ latched \in Hx!Weights
  /\ i \in 0..Bits /\ chip \in Hx!Busy..Bits /\ resets \in Nat /\ exact \in BOOLEAN
  /\ heldUp \in 0..2 /\ (heldUp > 0 => resets > 0) /\ (heldUp = 2 => scale = "bits")
  /\ scale # "bits" /\ heldUp = 0 => chip \in {Hx!Busy, 0}
  /\ scale = "bits" /\ heldUp = 0 => chip = i \/ (chip = Hx!Busy /\ resets > 0)
  /\ scale = "bits" /\ heldUp = 1 => chip = Hx!Busy \/ chip >= i
  /\ resets = 0 => exact /\ "wrong" \notin seen
  /\ scale = "sleep" /\ weight \in {"small", "large"} => Hx!Shown(weight)

\* What is left of an older text begins behind the blank of the newer one.
LEMMA NumberShown ==
  ASSUME NEW w \in {"small", "large"}, display' = Hx!Written(w), weight' = w
  PROVE  Hx!Shown(weight)'
<1> DEFINE len == IF w = "small" THEN 4 ELSE 6
           digits == {c \in 1..9 : \A p \in 1..c : display'[p] \notin {"blank", "g"}}
<1>1. /\ Hx!Text("small") = <<"small", "small", "small", "small", "blank", "g", "blank">>
      /\ Hx!Text("large") = <<"large", "large", "large", "large", "large", "large", "blank", "g", "blank">>
  BY DEF Hx!Text
<1>2. /\ DOMAIN Hx!Text(w) = 1..len + 3
      /\ \A c \in 1..len : Hx!Text(w)[c] = w
      /\ \A c \in 1..len + 3 : Hx!Text(w)[c] = w => c <= len
      /\ Hx!Text(w)[len + 1] = "blank"
  <2>1. CASE w = "small"
    BY <1>1, <2>1
  <2>2. CASE w = "large"
    BY <1>1, <2>2
  <2> QED BY <2>1, <2>2
<1>3. len \in 1..6
  OBVIOUS
<1> HIDE DEF len
<1>4. /\ \A c \in 1..len : display'[c] = w
      /\ display'[len + 1] = "blank"
  BY <1>2, <1>3 DEF Hx!Written
<1>5. digits = 1..len
  BY <1>3, <1>4
<1>6. {c \in DOMAIN Hx!Text(w) : Hx!Text(w)[c] = w} = 1..len
  BY <1>2, <1>3
<1> QED BY <1>4, <1>5, <1>6 DEF Hx!Shown

LEMMA ScaleStep == ScaleInv /\ Hx!Next => ScaleInv'
<1> SUFFICES ASSUME ScaleInv, Hx!Next PROVE ScaleInv'
  OBVIOUS
<1> USE ScaleAssumption DEF ScaleInv, Hx!ScaleAssumption, Hx!Busy, Hx!Weights
<1>1. UNCHANGED <<weight, display>> => UNCHANGED Hx!Shown(weight)
  BY DEF Hx!Shown
<1>2. CASE Hx!WaitReady
  BY <1>2 DEF Hx!WaitReady
<1>3. CASE Hx!Pulse
  <2>1. /\ scale = "bits" /\ i < Bits /\ i' = i + 1 /\ exact' = (exact /\ chip' = i + 1)
        /\ UNCHANGED <<scale, seen, weight, load, latched, heldUp>>
    BY <1>3 DEF Hx!Pulse
  <2>2. exact' \in BOOLEAN
    BY <2>1
  <2>3. CASE Hx!Stays
    <3>1. (chip = i => chip' = i + 1) /\ (chip >= i => chip' = -1 \/ chip' >= i + 1)
      BY <2>1, <2>3 DEF Hx!Stays, Hx!Sent
    <3>3. chip' \in Hx!Busy..Bits
      BY <2>3 DEF Hx!Stays, Hx!Sent
    <3>2. chip = -1 => chip' = -1
      BY <2>3 DEF Hx!Stays, Hx!Sent
    <3> QED BY <2>1, <2>2, <2>3, <3>1, <3>2, <3>3 DEF Hx!Stays
  <2>4. CASE Hx!Resets
    BY <2>1, <2>2, <2>4 DEF Hx!Resets
  <2> QED BY <1>3, <2>3, <2>4 DEF Hx!Pulse
<1>4. CASE Hx!LastPulse
  <2>1. /\ scale = "bits" /\ i = Bits /\ scale' \in {"wait", "average"}
        /\ seen' = seen \cup {IF exact THEN latched ELSE "wrong"}
        /\ UNCHANGED <<i, exact, weight, load, latched>>
    BY <1>4 DEF Hx!LastPulse
  <2>2. /\ heldUp < 2 => chip' = -1
        /\ chip' \in Hx!Busy..Bits /\ resets' \in Nat /\ (resets' = 0 => resets = 0)
        /\ heldUp' = IF heldUp = 0 THEN 0 ELSE heldUp - 1
    BY <1>4, <2>1 DEF Hx!LastPulse, Hx!Stays, Hx!Resets, Hx!Sent
  <2>3. resets = 0 => "wrong" \notin seen'
    BY <2>1
  <2> QED BY <2>1, <2>2, <2>3
<1>5. CASE Hx!Base
  BY <1>5 DEF Hx!Base
<1>6. CASE Hx!Weigh
  BY <1>6 DEF Hx!Weigh
<1>7. CASE Hx!Show
  <2>1. weight \in {"small", "large"} => Hx!Shown(weight)'
    BY <1>7, NumberShown DEF Hx!Show
  <2> QED BY <1>7, <2>1 DEF Hx!Show
<1>8. CASE Hx!SleepScale
  BY <1>8 DEF Hx!SleepScale
<1>9. CASE Hx!Converted
  BY <1>1, <1>9 DEF Hx!Converted
<1>10. CASE Hx!LoadChanges
  BY <1>1, <1>10 DEF Hx!LoadChanges
<1> QED BY <1>2, <1>3, <1>4, <1>5, <1>6, <1>7, <1>8, <1>9, <1>10 DEF Hx!Next, Hx!hi_hx711_task

\* The task and the HX711 stay in step through resets in the middle of a
\* reading, and the number on the display is the last weight, although a
\* shorter text leaves the end of a longer one (app_demo_hx711.c).
THEOREM ScaleKeepsStep == DemosSpec => []ScaleInStep
<1> DEFINE PartInv == part = "scale" => ScaleInv
<1>1. DemosInit => PartInv
  <2> SUFFICES Hx!Init => ScaleInv
    BY DEF DemosInit
  <2> QED BY ScaleAssumption DEF Hx!Init, ScaleInv, Hx!ScaleAssumption, Hx!Busy, Hx!Weights
<1>2. PartInv /\ [DemosNext]_allVars => PartInv'
  <2> SUFFICES ASSUME ScaleInv, [DemosNext]_allVars, part = "scale" PROVE ScaleInv'
    BY DemosStep
  <2>1. CASE Hx!Next
    BY <2>1, ScaleStep
  <2>2. CASE UNCHANGED scaleVars
    BY <2>2 DEF scaleVars, ScaleInv, Hx!Shown
  <2> QED BY <2>1, <2>2, DemosStep
<1>3. PartInv => ScaleInStep
  BY DEF ScaleInStep, Hx!ScaleInStep, ScaleInv
<1> QED BY <1>1, <1>2, <1>3, PTL DEF DemosSpec

----------------------------------------------------------------------------
(* The ADC demos.  The maximum starts again with every sample, so that only *)
(* the last one is in it when the pass is over.                             *)

Rotates ==
  /\ k > 0 => data \in Levels
  /\ k > 0 /\ adc \in {"sample", "print"} => vlt_max = 0
  /\ k > 0 /\ steady /\ adc \in {"sample", "print"} => data = level
  /\ steady /\ adc = "sleep" => printed.max = level /\ printed.min <= level

Rains == (wet => adcOled = "is Rainning") /\ (~wet => adcOled = "a sunny day")

AdcInv ==
  /\ demo \in Adc!Demos /\ adc \in {"sample", "print", "sleep", "ended"}
  /\ k \in Nat /\ level \in Levels /\ vlt_min \in Int /\ wet \in BOOLEAN /\ bright \in BOOLEAN
  /\ steady \in BOOLEAN
  /\ adc = "print" => k > 0
  /\ adc = "sleep" => demo = "rotation"
  /\ demo = "rotation" => Rotates
  /\ demo = "water" /\ k > 0 /\ steady => Rains
  /\ demo = "light" /\ k > 0 /\ steady => adcLamp = bright

LEMMA VoltsPositive == \A v \in Levels : v \in Int /\ v > 0
BY AdcAssumption DEF Adc!AdcAssumption

\* A sample of rain decides by itself.
LEMMA RainShown ==
  ASSUME wet \in BOOLEAN, vlt_min \in Int, Adc!WaterSample
  PROVE  /\ vlt_min' \in Int
         /\ wet => adcOled' = "is Rainning"
         /\ ~wet => adcOled' = "a sunny day"
<1> DEFINE volts == IF wet THEN 2 ELSE 0
<1>1. vlt_max' = Adc!Higher(0, volts) /\ vlt_min' = Adc!Lower(vlt_min, vlt_max')
  BY Zenon DEF Adc!WaterSample
<1>2. adcOled' = IF vlt_max' > 1 THEN "is Rainning" ELSE "a sunny day"
  BY Zenon DEF Adc!WaterSample
<1>3. (wet => volts = 2) /\ (~wet => volts = 0)
  BY Zenon
<1> HIDE DEF volts
<1>4. (volts = 2 => vlt_max' > 1) /\ (volts = 0 => ~(vlt_max' > 1))
  BY <1>1 DEF Adc!Higher
<1>5. volts \in {0, 2} => vlt_min' \in Int
  BY <1>1 DEF Adc!Higher, Adc!Lower
<1> QED BY <1>2, <1>3, <1>4, <1>5, Zenon

LEMMA AdcStep == AdcInv /\ Adc!Next => AdcInv'
<1> SUFFICES ASSUME AdcInv, Adc!Next PROVE AdcInv'
  OBVIOUS
<1> USE DEF AdcInv, Adc!Demos
<1>0. ASSUME UNCHANGED <<wet, adcOled>>, Rains
      PROVE  Rains'
  <2>1. adcOled' = adcOled /\ (wet' <=> wet)
    BY <1>0
  <2> QED BY <1>0, <2>1, Zenon DEF Rains
<1>1. CASE Adc!RotationSample
  <2>1. /\ demo = "rotation" /\ adc = "sample" /\ k' = k + 1 /\ adc' \in {"sample", "print"}
        /\ steady' = (steady \/ k = 0) /\ data' = level /\ vlt_max' = 0
        /\ UNCHANGED <<demo, level, wet, bright, vlt_min, printed, adcOled, adcLamp>>
    BY <1>1 DEF Adc!RotationSample, Adc!Sampling
  <2>2. steady' \in BOOLEAN
    BY <2>1
  <2> QED BY <2>1, <2>2 DEF Rotates
<1>2. CASE Adc!RotationPrint
  <2>1. /\ demo = "rotation" /\ adc = "print" /\ adc' = "sleep" /\ k > 0
        /\ vlt_max' = Adc!Higher(data, vlt_max) /\ vlt_min' = Adc!Lower(data, vlt_min)
        /\ printed' = [min |-> vlt_min', max |-> vlt_max']
        /\ UNCHANGED <<demo, k, data, level, wet, bright, adcOled, adcLamp, steady>>
    BY <1>2 DEF Adc!RotationPrint
  <2>2. data \in Levels /\ vlt_max = 0 /\ (steady => data = level)
    BY <2>1 DEF Rotates
  <2>3. vlt_max' = data
    BY VoltsPositive, <2>1, <2>2 DEF Adc!Higher
  <2>4. vlt_min' \in Int /\ vlt_min' <= data
    BY VoltsPositive, <2>1, <2>2 DEF Adc!Lower
  <2> QED BY <2>1, <2>2, <2>3, <2>4 DEF Rotates
<1>3. CASE Adc!WaterSample
  <2>1. /\ demo = "water" /\ adc = "sample" /\ k' = k + 1 /\ adc' \in {"sample", "print"}
        /\ steady' = (steady \/ k = 0)
        /\ UNCHANGED <<demo, level, wet, bright>>
    BY <1>3 DEF Adc!WaterSample, Adc!Sampling
  <2>2. steady' \in BOOLEAN
    BY <2>1
  <2>3. vlt_min' \in Int /\ Rains'
    BY <1>3, <2>1, RainShown, Zenon DEF Rains
  <2> QED BY <2>1, <2>2, <2>3
<1>4. CASE Adc!LightSample
  <2>1. /\ demo = "light" /\ adc = "sample" /\ k' = k + 1 /\ adc' \in {"sample", "print"}
        /\ steady' = (steady \/ k = 0) /\ adcLamp' = bright
        /\ UNCHANGED <<demo, level, wet, bright, vlt_min>>
    BY <1>4 DEF Adc!LightSample, Adc!Sampling
  <2>2. steady' \in BOOLEAN
    BY <2>1
  <2> QED BY <2>1, <2>2
<1>5. CASE Adc!ReadFails
  BY <1>0, <1>5 DEF Adc!ReadFails, Rotates
<1>6. CASE Adc!SleepAdc
  BY <1>0, <1>6 DEF Adc!SleepAdc, Rotates
<1>7. CASE Adc!SensorChanges
  <2>1. /\ steady' = FALSE /\ level' \in Levels /\ wet' \in BOOLEAN /\ bright' \in BOOLEAN
        /\ UNCHANGED <<demo, adc, k, data, vlt_max, vlt_min>>
    BY <1>7 DEF Adc!SensorChanges
  <2> QED BY <2>1 DEF Rotates
<1> QED BY <1>1, <1>2, <1>3, <1>4, <1>5, <1>6, <1>7 DEF Adc!Next

\* A sensor that is steady for a pass is what is shown at its end, whatever it
\* was before (app_demo_rotation_sensor.c 86, app_demo_water_sensor.c,
\* light_sensor.c).
THEOREM SteadyIsShown == DemosSpec => []ShownIsSteady
<1> DEFINE PartInv == part = "adc" => AdcInv
<1>1. DemosInit => PartInv
  <2> SUFFICES Adc!Init => AdcInv
    BY DEF DemosInit
  <2> SUFFICES ASSUME Adc!Init PROVE AdcInv
    OBVIOUS
  <2>1. k = 0 /\ adc = "sample" /\ demo \in Adc!Demos /\ level \in Levels
    BY DEF Adc!Init
  <2>2. vlt_min \in Int
    BY AdcAssumption DEF Adc!Init, Adc!AdcAssumption
  <2>3. wet \in BOOLEAN /\ bright \in BOOLEAN /\ steady \in BOOLEAN
    BY DEF Adc!Init
  <2> QED BY <2>1, <2>2, <2>3 DEF AdcInv, Rotates
<1>2. PartInv /\ [DemosNext]_allVars => PartInv'
  <2> SUFFICES ASSUME AdcInv, [DemosNext]_allVars, part = "adc" PROVE AdcInv'
    BY DemosStep
  <2>1. CASE Adc!Next
    BY <2>1, AdcStep
  <2>2. CASE UNCHANGED adcVars
    BY <2>2 DEF adcVars, AdcInv, Rotates, Rains
  <2> QED BY <2>1, <2>2, DemosStep
<1>3. PartInv => ShownIsSteady
  <2> SUFFICES ASSUME AdcInv, steady, k > 0, adc = "sleep" \/ (adc = "print" /\ demo # "rotation")
               PROVE  Adc!ShownIsSteady
    BY DEF ShownIsSteady, Adc!ShownIsSteady
  <2>1. CASE demo = "rotation"
    <3>1. adc = "sleep" /\ printed.max = level /\ printed.min <= level
      BY <2>1 DEF AdcInv, Rotates
    <3> QED BY <2>1, <3>1 DEF Adc!ShownIsSteady
  <2>2. CASE demo = "water"
    <3>1. (wet => adcOled = "is Rainning") /\ (~wet => adcOled = "a sunny day")
      BY <2>2 DEF AdcInv, Rains
    <3> QED BY <2>2, <3>1 DEF Adc!ShownIsSteady
  <2>3. CASE demo = "light"
    <3>1. adcLamp = bright
      BY <2>3 DEF AdcInv
    <3> QED BY <2>3, <3>1 DEF Adc!ShownIsSteady
  <2> QED BY <2>1, <2>2, <2>3 DEF AdcInv, Adc!Demos
<1> QED BY <1>1, <1>2, <1>3, PTL DEF DemosSpec

----------------------------------------------------------------------------
(* Raw data, passwords and logs.                                            *)

\* A block is there from its malloc to the free of its function, and what
\* mbedtls is willing to write fits the room it was told.
RawInv ==
  /\ rawText \in Raw!Texts \cup {Raw!NULL}
  /\ decodeLen \in 0..MaxLen /\ outLen \in 0..MaxLen /\ buf \in Nat
  /\ rawAt \in {"idle", "decode", "size", "encode"}
  /\ rawAt = "idle" => live = {}
  /\ rawAt \in {"decode", "size"} => live \subseteq {"decodeData"}
  /\ rawAt = "encode" => live \subseteq {"decodeData", "buf"}
  /\ rawAt = "decode" => rawText \in Raw!Texts
  /\ rawAt = "encode" => buf > 0
  /\ spilt = FALSE

LEMMA AnswerFits ==
  ASSUME NEW size \in Nat, NEW room \in Nat, Raw!Answer(size, room).ret = "ok"
  PROVE  Raw!Answer(size, room).size <= room
<1>1. (IF size > 0 /\ room < size THEN "TOO_SMALL" ELSE "ok") = "ok"
  BY DEF Raw!Answer
<1>2. ~(size > 0 /\ room < size)
  <2>1. "TOO_SMALL" # "ok"
    OBVIOUS
  <2> QED BY <1>1, <2>1, Zenon
<1> QED BY <1>2 DEF Raw!Answer

LEMMA DecodeFits ==
  ASSUME NEW text \in Raw!Texts, NEW room \in Nat, Raw!mbedtls_base64_decode(text, room).ret = "ok"
  PROVE  /\ Raw!mbedtls_base64_decode(text, room).size = text.len
         /\ text.len \in 0..MaxLen /\ text.len <= room
<1>1. text.kind # "invalid"
  BY DEF Raw!mbedtls_base64_decode
<1>2. Raw!mbedtls_base64_decode(text, room) = Raw!Answer(text.len, room)
  BY <1>1, Zenon DEF Raw!mbedtls_base64_decode
<1>3. text.len \in 0..MaxLen /\ text.len \in Nat
  BY RawAssumption DEF Raw!Texts, Raw!RawAssumption
<1>4. Raw!Answer(text.len, room).size = text.len
  BY DEF Raw!Answer
<1> QED BY <1>2, <1>3, <1>4, AnswerFits

LEMMA EncodeFits ==
  ASSUME NEW len \in Nat, NEW room \in Nat, Raw!mbedtls_base64_encode(len, room).ret = "ok"
  PROVE  Raw!mbedtls_base64_encode(len, room).size <= room
<1> DEFINE size == IF len = 0 THEN 0 ELSE 4 * ((len + 2) \div 3) + 1
<1>1. size \in Nat
  OBVIOUS
<1>2. Raw!mbedtls_base64_encode(len, room) = Raw!Answer(size, room)
  BY DEF Raw!mbedtls_base64_encode
<1> HIDE DEF size
<1> QED BY <1>1, <1>2, AnswerFits

LEMMA RawStep == RawInv /\ Raw!Next => RawInv'
<1> SUFFICES ASSUME RawInv, Raw!Next PROVE RawInv'
  OBVIOUS
<1> USE RawAssumption DEF RawInv, Raw!RawAssumption
<1>1. CASE Raw!RecvRawData
  BY <1>1 DEF Raw!RecvRawData, Raw!mbedtls_base64_decode, Raw!Answer, Raw!Texts, Raw!NULL
<1>2. CASE Raw!Decode
  <2> DEFINE d == Raw!mbedtls_base64_decode(rawText, decodeLen)
  <2>1. d.ret = "ok" => d.size \in 0..MaxLen /\ d.size <= decodeLen
    BY <1>2, DecodeFits DEF Raw!Decode
  <2>2. /\ rawAt = "decode" /\ spilt' = (spilt \/ (d.ret = "ok" /\ d.size > decodeLen))
        /\ UNCHANGED <<rawText, decodeLen, buf>>
        /\ \/ d.ret = "ok" /\ rawAt' = "size" /\ outLen' = d.size /\ UNCHANGED live
           \/ rawAt' = "idle" /\ live' = live \ {"decodeData"} /\ UNCHANGED outLen
    BY <1>2 DEF Raw!Decode
  <2> HIDE DEF d
  <2>3. ~(d.ret = "ok" /\ d.size > decodeLen)
    BY <2>1
  <2> QED BY <2>1, <2>2, <2>3
<1>3. CASE Raw!SendRawEncodeData
  BY <1>3 DEF Raw!SendRawEncodeData
<1>4. CASE Raw!SizeEncoded
  BY <1>4 DEF Raw!SizeEncoded, Raw!Returned, Raw!mbedtls_base64_encode, Raw!Answer
<1>5. CASE Raw!Encode
  <2> DEFINE e == Raw!mbedtls_base64_encode(outLen, buf - 1)
  <2>1. e.ret = "ok" => e.size <= buf - 1
    BY <1>5, EncodeFits DEF Raw!Encode
  <2>2. /\ rawAt = "encode" /\ spilt' = (spilt \/ (e.ret = "ok" /\ e.size > buf))
        /\ rawAt' = "idle" /\ live' = (live \ {"buf"}) \ {"decodeData"}
        /\ UNCHANGED <<rawText, decodeLen, outLen, buf>>
    BY <1>5 DEF Raw!Encode, Raw!Returned
  <2>3. e.ret = "ok" => e.size \in Nat
    BY DEF Raw!mbedtls_base64_encode, Raw!Answer
  <2> HIDE DEF e
  <2>4. ~(e.ret = "ok" /\ e.size > buf)
    BY <2>1, <2>3
  <2> QED BY <2>2, <2>4
<1> QED BY <1>1, <1>2, <1>3, <1>4, <1>5 DEF Raw!Next

\* The buffer is the caller's until the digits are written, and then it is
\* the hash.
PwdLen == 2 * CN_HMAC256_LEN
HexChars == {Hm!Digits[d] : d \in 1..16} \cup {Hm!End, "?"}
IsHex(p) ==
  /\ p[PwdLen + 1] = Hm!End
  /\ \A b \in 1..CN_HMAC256_LEN : \E h, l \in 1..16 :
       p[2 * b - 1] = Hm!Digits[h] /\ p[2 * b] = Hm!Digits[l] /\ hash[b] = 16 * (h - 1) + l - 1
Untouched == \A c \in 1..bufLen : pwd[c] = "?"

HmacInv ==
  /\ hmacAt \in {"idle", "setup", "hash", "hex", "exit", "return"}
  /\ bufLen \in Nat
  /\ hmacAt \in {"idle", "return"} => context = "none"
  /\ hmacAt # "idle" => pwd \in Seq(HexChars) /\ Len(pwd) = bufLen
  /\ hmacAt \in {"setup", "hash", "hex"} => bufLen >= PwdLen + 1 /\ Untouched
  /\ hmacAt = "setup" => ret # 0
  /\ hmacAt \in {"hash", "hex"} => ret = 0
  /\ hmacAt = "hex" => hash \in Hm!Hashes
  /\ hmacAt \in {"exit", "return"} => IF ret = 0 THEN IsHex(pwd) ELSE Untouched

LEMMA BufferLength ==
  ASSUME NEW S, NEW n \in Nat, NEW p \in [1..n -> S]
  PROVE  p \in Seq(S) /\ Len(p) = n
<1>1. p \in Seq(S)
  BY SeqDef
<1>2. Len(p) \in Nat /\ DOMAIN p = 1..Len(p) /\ DOMAIN p = 1..n
  BY <1>1, LenProperties
<1> QED BY <1>1, <1>2

\* Two digits stand for a byte, the buffer is as long as it was, and the end
\* follows the digits.
LEMMA Hexed ==
  ASSUME HmacInv, Hm!byte2hexstr
  PROVE  pwd' \in [1..bufLen -> HexChars] /\ IsHex(pwd)'
<1> DEFINE digit(c) == IF c % 2 = 0 THEN hash[c \div 2 + 1] \div 16 ELSE hash[c \div 2 + 1] % 16
<1>1. /\ bufLen \in Nat /\ bufLen >= PwdLen + 1 /\ pwd \in Seq(HexChars) /\ Len(pwd) = bufLen
      /\ hash \in [1..CN_HMAC256_LEN -> 0..255] /\ hash' = hash
      /\ CN_HMAC256_LEN \in Nat \ {0} /\ PwdLen = 2 * CN_HMAC256_LEN
  BY HmacAssumption DEF HmacInv, Hm!byte2hexstr, Hm!Hashes, Hm!HmacAssumption, PwdLen
<1>2. Hm!Max({bufLen, PwdLen + 1}) = bufLen
  BY <1>1 DEF Hm!Max
<1>3. pwd' = [c \in 1..bufLen |-> IF c <= PwdLen THEN Hm!Digits[digit(c - 1) + 1]
                                  ELSE IF c = PwdLen + 1 THEN Hm!End ELSE pwd[c]]
  BY <1>2 DEF Hm!byte2hexstr, PwdLen
<1>4. ASSUME NEW b \in 1..CN_HMAC256_LEN
      PROVE  /\ pwd'[2 * b - 1] = Hm!Digits[(hash[b] \div 16) + 1]
             /\ pwd'[2 * b] = Hm!Digits[(hash[b] % 16) + 1]
  <2>1. /\ 2 * b - 1 \in 1..bufLen /\ 2 * b - 1 <= PwdLen
        /\ 2 * b \in 1..bufLen /\ 2 * b <= PwdLen
    BY <1>1
  <2>2. (2 * b - 2) % 2 = 0 /\ (2 * b - 2) \div 2 + 1 = b
    OBVIOUS
  <2>3. (2 * b - 1) % 2 = 1 /\ (2 * b - 1) \div 2 + 1 = b
    OBVIOUS
  <2>4. digit(2 * b - 1 - 1) = hash[b] \div 16 /\ digit(2 * b - 1) = hash[b] % 16
    BY <2>2, <2>3
  <2> HIDE DEF digit
  <2> QED BY <1>3, <2>1, <2>4
<1>5. ASSUME NEW v \in 0..255
      PROVE  (v \div 16) + 1 \in 1..16 /\ (v % 16) + 1 \in 1..16 /\ v = 16 * (v \div 16) + (v % 16)
  OBVIOUS
<1>6. pwd'[PwdLen + 1] = Hm!End
  BY <1>1, <1>3
<1>7. pwd' \in [1..bufLen -> HexChars]
  <2> SUFFICES ASSUME NEW c \in 1..bufLen PROVE pwd'[c] \in HexChars
    BY <1>3
  <2>1. CASE c <= PwdLen
    <3>1. c - 1 \in Nat /\ (c - 1) \div 2 + 1 \in 1..CN_HMAC256_LEN
      BY <1>1, <2>1
    <3>2. digit(c - 1) + 1 \in 1..16
      BY <1>1, <1>5, <3>1
    <3> HIDE DEF digit
    <3> QED BY <1>3, <2>1, <3>2 DEF HexChars
  <2>2. CASE c > PwdLen
    <3>1. pwd[c] \in HexChars
      BY <1>1
    <3> QED BY <1>1, <1>3, <2>2, <3>1 DEF HexChars
  <2> QED BY <1>1, <2>1, <2>2
<1>8. IsHex(pwd)'
  <2> SUFFICES ASSUME NEW b \in 1..CN_HMAC256_LEN
               PROVE  \E h, l \in 1..16 : /\ pwd'[2 * b - 1] = Hm!Digits[h]
                                          /\ pwd'[2 * b] = Hm!Digits[l]
                                          /\ hash'[b] = 16 * (h - 1) + l - 1
    BY <1>6 DEF IsHex, PwdLen
  <2>1. hash[b] \in 0..255 /\ hash'[b] = hash[b]
    BY <1>1
  <2> DEFINE high == (hash[b] \div 16) + 1
             low == (hash[b] % 16) + 1
  <2>2. pwd'[2 * b - 1] = Hm!Digits[high] /\ pwd'[2 * b] = Hm!Digits[low]
    BY <1>4
  <2>3. high \in 1..16 /\ low \in 1..16 /\ hash[b] = 16 * (high - 1) + low - 1
    BY <1>5, <2>1
  <2> HIDE DEF high, low
  <2> QED BY <2>1, <2>2, <2>3
<1> QED BY <1>7, <1>8

LEMMA HmacStep == HmacInv /\ Hm!Next => HmacInv'
<1> SUFFICES ASSUME HmacInv, Hm!Next PROVE HmacInv'
  OBVIOUS
<1> USE HmacAssumption DEF HmacInv, Hm!HmacAssumption
<1>1. CASE Hm!HmacGeneratePwd
  <2>1. /\ bufLen' \in Nat /\ pwd' = [c \in 1..bufLen' |-> "?"]
        /\ \/ hmacAt' = "return" /\ ret' = -1 /\ UNCHANGED context
           \/ /\ ~Hm!TooShort(bufLen')
              /\ hmacAt' = "setup" /\ context' = "init" /\ ret' = 1
        /\ hmacAt = "idle"
    BY <1>1 DEF Hm!HmacGeneratePwd
  <2>2. pwd' \in Seq(HexChars) /\ Len(pwd') = bufLen'
    <3>1. pwd' \in [1..bufLen' -> HexChars]
      BY <2>1 DEF HexChars
    <3> QED BY <2>1, <3>1, BufferLength
  <2>3. Untouched'
    BY <2>1 DEF Untouched
  <2>4. ~Hm!TooShort(bufLen') => bufLen' >= PwdLen' + 1
    BY <2>1 DEF Hm!TooShort, PwdLen
  <2> QED BY <2>1, <2>2, <2>3, <2>4
<1>2. CASE Hm!Setup
  BY <1>2 DEF Hm!Setup, Untouched, PwdLen
<1>3. CASE Hm!Finish
  BY <1>3 DEF Hm!Finish, Untouched, PwdLen, Hm!Hashes
<1>4. CASE Hm!byte2hexstr
  <2>1. /\ hmacAt = "hex" /\ hmacAt' = "exit" /\ hash \in Hm!Hashes /\ ret = 0
        /\ UNCHANGED <<bufLen, hash, context, ret>>
    BY <1>4 DEF Hm!byte2hexstr
  <2>2. pwd' \in [1..bufLen -> HexChars] /\ IsHex(pwd)'
    BY <1>4, Hexed
  <2>3. pwd' \in Seq(HexChars) /\ Len(pwd') = bufLen
    BY <2>2, BufferLength
  <2> QED BY <2>1, <2>2, <2>3
<1>5. CASE Hm!Exit
  BY <1>5 DEF Hm!Exit, Untouched, IsHex, PwdLen
<1>6. CASE Hm!Connects
  BY <1>6 DEF Hm!Connects
<1> QED BY <1>1, <1>2, <1>3, <1>4, <1>5, <1>6 DEF Hm!Next

\* A level has one name, and shares it with none.
NameOf(l) == IF l >= Lg!MAX THEN "NULL" ELSE Lg!Names[l + 1]

LogInv ==
  /\ gIoTLogLevel = accepted /\ accepted < Lg!MAX
  /\ line.level \in Nat /\ line.name = NameOf(line.level)

LEMMA UnsignedLevels ==
  /\ \A l \in Int : Lg!Unsigned(l) \in Nat
  /\ Lg!Unsigned(Lg!DEBUG) = Lg!DEBUG
<1> DEFINE M == 2^LevelBits
<1>1. M \in Int /\ M > 1
  BY LogAssumption DEF Lg!LogAssumption
<1> HIDE DEF M
<1>2. \A l \in Int : l % M \in Nat
  BY <1>1
<1>3. 1 % M = 1
  BY <1>1
<1> QED BY <1>2, <1>3 DEF Lg!Unsigned, Lg!DEBUG, M

LEMMA NamesDiffer ==
  ASSUME NEW n \in Nat, NEW o \in Nat, o < Lg!MAX, NameOf(n) = NameOf(o)
  PROVE  n = o
<1>1. o \in 0..5
  BY DEF Lg!MAX, Lg!Names
<1>2. n \in 0..5 \/ n >= 6
  OBVIOUS
<1> QED BY <1>1, <1>2 DEF NameOf, Lg!MAX, Lg!Names

LEMMA LogStep == LogInv /\ Lg!Next => LogInv'
<1> SUFFICES ASSUME LogInv, Lg!Next PROVE LogInv'
  OBVIOUS
<1> USE DEF LogInv
<1>1. \A l \in Lg!LevelArgs : l \in Int /\ Lg!Unsigned(l) \in Nat
  BY UnsignedLevels, LogAssumption DEF Lg!LevelArgs, Lg!LogAssumption
<1>2. \A l : Lg!LevelName(l) = NameOf(Lg!Unsigned(l))
  BY DEF Lg!LevelName, NameOf
<1>3. CASE Lg!IoTLogLevelSet
  BY <1>1, <1>3 DEF Lg!IoTLogLevelSet, Lg!Accepts
<1>4. CASE Lg!TestDebug
  BY <1>4 DEF Lg!TestDebug
<1>5. CASE Lg!PrintDebug
  BY <1>2, <1>5, UnsignedLevels DEF Lg!PrintDebug, Lg!IoTLogLevelGetName, Lg!DEBUG
<1>6. CASE Lg!IotLine \/ Lg!SmartCanLine \/ Lg!GyroscopeLine
  <2>1. PICK log \in Lg!Logs, l \in Lg!LevelArgs : Lg!Prints(log, l, Lg!LevelName(l))
    BY <1>6 DEF Lg!IotLine, Lg!SmartCanLine, Lg!GyroscopeLine, Lg!IoTLogLevelGetName,
      Lg!smart_can_level_num, Lg!gyroscope_level_num, Lg!Logs
  <2> QED BY <1>1, <1>2, <2>1 DEF Lg!Prints
<1> QED BY <1>3, <1>4, <1>5, <1>6 DEF Lg!Next

\* Whatever fails on the way, memory is freed and neither buffers nor tables
\* are overrun, and a password that is one reads as its hash
\* (network_config_sample.c 398-473, iot_hmac.c 61-77, iot_log.c 24-48).
THEOREM BuffersAlwaysFit == DemosSpec => []BuffersFit
<1> DEFINE PartInv == /\ part = "raw" => RawInv
                      /\ part = "hmac" => HmacInv
                      /\ part = "log" => LogInv
<1>1. DemosInit => PartInv
  <2>1. Raw!Init => RawInv
    BY RawAssumption DEF Raw!Init, RawInv, Raw!RawAssumption
  <2>2. Hm!Init => HmacInv
    BY DEF Hm!Init, HmacInv
  <2>3. Lg!Init => LogInv
    BY DEF Lg!Init, LogInv, Lg!MAX, Lg!Names, Lg!TRACE, NameOf
  <2> QED BY <2>1, <2>2, <2>3 DEF DemosInit
<1>2. PartInv /\ [DemosNext]_allVars => PartInv'
  <2> SUFFICES ASSUME PartInv, [DemosNext]_allVars PROVE PartInv'
    OBVIOUS
  <2>1. ASSUME part = "raw" PROVE RawInv'
    BY <2>1, DemosStep, RawStep DEF rawVars, RawInv
  <2>2. ASSUME part = "hmac" PROVE HmacInv'
    BY <2>2, DemosStep, HmacStep DEF hmacVars, HmacInv, IsHex, Untouched, PwdLen
  <2>3. ASSUME part = "log" PROVE LogInv'
    BY <2>3, DemosStep, LogStep DEF logVars, LogInv
  <2> QED BY <2>1, <2>2, <2>3, DemosStep
<1>3. PartInv => BuffersFit
  <2>1. RawInv => Raw!RawReleased
    BY DEF RawInv, Raw!RawReleased
  <2>2. HmacInv => Hm!PwdReads
    BY DEF HmacInv, Hm!PwdReads, IsHex, Untouched, PwdLen
  <2>3. LogInv => Lg!LogNamed
    <3> SUFFICES ASSUME LogInv PROVE Lg!LogNamed
      OBVIOUS
    <3>1. line.name = "NULL" <=> line.level >= Lg!MAX
      BY DEF LogInv, NameOf, Lg!MAX, Lg!Names
    <3>2. ASSUME NEW l \in Lg!LevelArgs, Lg!LevelName(l) = line.name, line.level < Lg!MAX
          PROVE  Lg!Unsigned(l) = line.level
      <4>1. l \in Int /\ Lg!Unsigned(l) \in Nat
        BY UnsignedLevels, LogAssumption DEF Lg!LevelArgs, Lg!LogAssumption
      <4>2. Lg!LevelName(l) = NameOf(Lg!Unsigned(l))
        BY DEF Lg!LevelName, NameOf
      <4> QED BY <3>2, <4>1, <4>2, NamesDiffer DEF LogInv
    <3> QED BY <3>1, <3>2 DEF LogInv, Lg!LogNamed
  <2> QED BY <2>1, <2>2, <2>3 DEF BuffersFit
<1> QED BY <1>1, <1>2, <1>3, PTL DEF DemosSpec

----------------------------------------------------------------------------
(* The stand-alone gyroscope.  While the bus works, a can that has rested   *)
(* where the estimate was has not moved the estimate, and the flag says     *)
(* which region that is.                                                    *)

Agreed(t) == estimate = t /\ (flag_demped = 1 <=> t \in Gy!Sides)

MpuInv ==
  /\ tilt \in been /\ tainted \in BOOLEAN /\ flag_demped \in {0, 1}
  /\ mpu # "read" => acc = {} /\ zeros = 0 /\ reads = 0
  /\ tainted = FALSE =>
       /\ zeros = 0 /\ acc \subseteq been
       /\ mpu = "read" /\ reads # 0 => acc # {}
       /\ \A t \in Gy!Settled : been = {t} => Agreed(t)

\* A report was news, and what it says agrees with an estimate and a can that
\* are settled.
LEMMA Reported ==
  ASSUME MpuInv, NEW value, NEW flag, Gy!Report(value, flag),
         mpu = "judge", mpu' = "sleep", UNCHANGED <<tilt, acc, zeros, reads, estimate, tainted>>,
         \/ flag_demped = 0 /\ flag = 1 /\ estimate \in Gy!Sides \union {"unsettled"}
         \/ flag_demped = 1 /\ flag = 0 /\ estimate \in {"upright", "unsettled"}
  PROVE  MpuInv' /\ estimate # "NaN" /\ (tainted \/ ~Gy!Rested)
<1>1. flag_demped' = flag /\ been' = {tilt, estimate}
  BY DEF Gy!Report
<1>2. estimate # "NaN" /\ tainted \in BOOLEAN
  BY DEF Gy!Sides, MpuInv
<1>3. ASSUME NEW t \in Gy!Settled, been' = {t} PROVE Agreed(t)'
  <2>1. estimate = t
    BY <1>1, <1>3
  <2> QED BY <1>1, <2>1 DEF Agreed, Gy!Settled, Gy!Sides
<1>4. ASSUME tainted = FALSE, NEW t \in Gy!Settled, been = {t} PROVE FALSE
  <2>1. Agreed(t)
    BY <1>4 DEF MpuInv
  <2> QED BY <2>1 DEF Agreed, Gy!Settled, Gy!Sides
<1>5. tilt' \in been'
  BY <1>1
<1>6. MpuInv'
  BY <1>1, <1>3, <1>5 DEF MpuInv
<1> QED BY <1>2, <1>4, <1>6 DEF Gy!Rested

LEMMA MpuStep ==
  ASSUME MpuInv, Gy!Next
  PROVE  /\ MpuInv'
         /\ published' # published => estimate # "NaN" /\ (tainted \/ ~Gy!Rested)
<1> USE DEF MpuInv
<1>1. CASE Gy!InitMPU6050
  BY <1>1 DEF Gy!InitMPU6050, Agreed
<1>2. CASE Gy!GetData
  <2>1. CASE acc' = acc \union {tilt} /\ UNCHANGED <<zeros, tainted>>
    BY <1>2, <2>1 DEF Gy!GetData, Agreed
  <2>2. CASE tainted' = TRUE
    BY <1>2, <2>2 DEF Gy!GetData
  <2> QED BY <1>2, <2>1, <2>2 DEF Gy!GetData
<1>3. CASE Gy!IMUupdate
  <2>1. ASSUME tainted = FALSE, NEW t \in Gy!Settled, been = {t}
        PROVE  estimate' = t
    <3>1. acc = {t} /\ zeros = 0 /\ estimate = t /\ estimate # "NaN"
      BY <1>3, <2>1 DEF Gy!IMUupdate, Gy!Settled, Gy!Sides, Agreed
    <3> QED BY <1>3, <2>1, <3>1 DEF Gy!IMUupdate, Gy!Updated
  <2>2. /\ UNCHANGED <<tainted, been, flag_demped, tilt>>
        /\ mpu' = "judge" /\ acc' = {} /\ zeros' = 0 /\ reads' = 0
    BY <1>3 DEF Gy!IMUupdate
  <2>3. published' = published
    BY <1>3 DEF Gy!IMUupdate
  <2> QED BY <2>1, <2>2, <2>3 DEF Agreed
<1>4. CASE Gy!Judge
  <2>1. /\ mpu = "judge" /\ mpu' = "sleep"
        /\ UNCHANGED <<tilt, acc, zeros, reads, estimate, tainted>>
    BY <1>4 DEF Gy!Judge
  <2>2. CASE Gy!NoReport
    BY <2>1, <2>2 DEF Agreed, Gy!NoReport
  <2>3. CASE flag_demped = 0 /\ estimate \in Gy!Sides \union {"unsettled"} /\ Gy!Report("true", 1)
    BY <2>1, <2>3, Reported
  <2>4. CASE flag_demped = 1 /\ estimate \in {"upright", "unsettled"} /\ Gy!Report("false", 0)
    BY <2>1, <2>4, Reported
  <2> QED BY <1>4, <2>2, <2>3, <2>4 DEF Gy!Judge
<1>5. CASE Gy!SleepMpu
  <2>1. UNCHANGED <<tilt, acc, zeros, estimate, tainted, been, flag_demped, published, reads>>
    BY <1>5 DEF Gy!SleepMpu
  <2>2. mpu = "sleep" /\ mpu' = "read" /\ reads = 0
    BY <1>5 DEF Gy!SleepMpu
  <2> QED BY <2>1, <2>2 DEF Agreed
<1>6. CASE Gy!CanTilts
  BY <1>6 DEF Gy!CanTilts, Agreed
<1> QED BY <1>1, <1>2, <1>3, <1>4, <1>5, <1>6 DEF Gy!Next

\* While the bus works, a can that rests where the estimate has it is not
\* reported again, and an estimate that was lost to a division by zero reports
\* nothing, for any number of tilts and failures (Gyro_Sensor's
\* app_demo_gy521.c 146-149, 193-199).
THEOREM ReportsAlwaysNews == DemosSpec => ReportsAreNews
<1>1. DemosInit => MpuInv
  <2> SUFFICES Gy!Init => MpuInv
    BY DEF DemosInit
  <2> SUFFICES ASSUME Gy!Init PROVE MpuInv
    OBVIOUS
  <2>1. /\ mpu = "init" /\ estimate = "upright" /\ flag_demped = 0 /\ acc = {} /\ reads = 0
        /\ zeros = 0 /\ been = {tilt, "upright"} /\ tainted = FALSE
    BY DEF Gy!Init
  <2>2. ASSUME NEW t \in Gy!Settled, been = {t} PROVE Agreed(t)
    BY <2>1, <2>2 DEF Agreed, Gy!Sides
  <2> QED BY <2>1, <2>2 DEF MpuInv
<1>2. MpuInv /\ [DemosNext]_allVars => MpuInv'
  <2> SUFFICES ASSUME MpuInv, [DemosNext]_allVars PROVE MpuInv'
    OBVIOUS
  <2>1. CASE Gy!Next
    BY <2>1, MpuStep
  <2>2. CASE UNCHANGED mpuVars
    BY <2>2 DEF mpuVars, MpuInv, Agreed
  <2> QED BY <2>1, <2>2, DemosStep
<1>3. MpuInv /\ [DemosNext]_allVars =>
        [published' # published => estimate # "NaN" /\ (tainted \/ ~Gy!Rested)]_(Gy!mpuVars)
  <2> SUFFICES ASSUME MpuInv, [DemosNext]_allVars, published' # published
               PROVE  estimate # "NaN" /\ (tainted \/ ~Gy!Rested)
    OBVIOUS
  <2>1. Gy!Next
    BY DemosStep DEF mpuVars
  <2> QED BY <2>1, MpuStep
<1> QED BY <1>1, <1>2, <1>3, PTL DEF DemosSpec, ReportsAreNews, Gy!ReportsAreNews

----------------------------------------------------------------------------
(* The GPS receiver.  Sentences come in in order, and the pieces that wait  *)
(* in the buffer are older than those in the UART, and not older than the   *)
(* last parse.                                                              *)

GpsPieces == [id : Nat, gga : BOOLEAN, pos : Nat]
Held(buff) == {p \in 1..BufferSize : buff[p] # Gps!Nothing}

\* Pieces of a buffer that end at a place, lie between two sentences, in order.
Ordered(buff, end, from, to) ==
  /\ buff \in [1..BufferSize -> GpsPieces]
  /\ \A p \in Held(buff) : p <= end /\ from <= buff[p].id /\ buff[p].id <= to
  /\ \A p, q \in Held(buff) : p < q => buff[p].id <= buff[q].id

GpsInv ==
  /\ fifo \in Seq(GpsPieces) /\ offset \in Nat /\ parsed \in Nat
  /\ sending.id \in Nat /\ sending.sent \in Nat /\ sending.gga \in BOOLEAN
  /\ Ordered(uart_buff, offset, parsed, sending.id)
  /\ parsed <= sending.id
  /\ \A j \in 1..Len(fifo) :
       /\ parsed <= fifo[j].id /\ fifo[j].id <= sending.id
       /\ \A h \in 1..j : fifo[h].id <= fifo[j].id
       /\ \A p \in Held(uart_buff) : uart_buff[p].id <= fifo[j].id

LEMMA LeastNat ==
  ASSUME NEW T \in SUBSET Nat, T # {}
  PROVE  \E n \in T : \A m \in T : n <= m
<1>1. PICK n \in T : \A m \in T : ~ (<<m, n>> \in OpToRel(<, Nat))
  BY NatLessThanWellFounded, WFMin
<1>2. \A m \in T : <<m, n>> \in Nat \X Nat
  OBVIOUS
<1>3. \A m \in T : ~(m < n)
  BY <1>1, <1>2 DEF OpToRel
<1> QED BY <1>3

\* The string at the start of a buffer ends before the first zero.
LEMMA StringHeld ==
  ASSUME NEW buff
  PROVE  /\ Gps!StringLength(buff) \in 0..BufferSize
         /\ \A p \in 1..Gps!StringLength(buff) : p \in Held(buff)
<1> DEFINE blanks == {n \in 1..BufferSize : buff[n] = Gps!Nothing}
           Ends(n) == /\ \A p \in 1..n : buff[p] # Gps!Nothing
                      /\ n < BufferSize => buff[n + 1] = Gps!Nothing
<1>0. BufferSize \in Nat \ {0}
  BY GpsAssumption DEF Gps!GpsAssumption
<1>1. \E n \in 0..BufferSize : Ends(n)
  <2>1. CASE blanks = {}
    <3>1. BufferSize \in 0..BufferSize /\ Ends(BufferSize)
      BY <1>0, <2>1
    <3> QED BY <3>1
  <2>2. CASE blanks # {}
    <3>0. blanks \in SUBSET Nat
      BY <1>0
    <3>1. PICK n \in blanks : \A m \in blanks : n <= m
      <4> HIDE DEF blanks
      <4> QED BY <2>2, <3>0, LeastNat
    <3>2. n - 1 \in 0..BufferSize /\ Ends(n - 1)
      BY <1>0, <3>1
    <3> QED BY <3>2
  <2> QED BY <2>1, <2>2
<1>2. Gps!StringLength(buff) = CHOOSE n \in 0..BufferSize : Ends(n)
  BY DEF Gps!StringLength
<1>3. Gps!StringLength(buff) \in 0..BufferSize /\ Ends(Gps!StringLength(buff))
  <2> HIDE DEF Ends
  <2> QED BY <1>1, <1>2, Zenon
<1> QED BY <1>0, <1>3 DEF Held

\* Pieces from the UART go behind those of the buffer, or nowhere.
LEMMA StoredOrdered ==
  ASSUME GpsInv, NEW n \in 1..Len(fifo),
         NEW buff, buff = Gps!Stored(SubSeq(fifo, 1, n))
  PROVE  Ordered(buff, offset + n, parsed, fifo[n].id)
<1> DEFINE pieces == SubSeq(fifo, 1, n)
<1>1. /\ Len(pieces) = n
      /\ \A j \in 1..n : pieces[j] = fifo[j] /\ fifo[j] \in GpsPieces
  <2>1. \A j \in 1..n : fifo[j] \in GpsPieces
    BY DEF GpsInv
  <2> QED BY <2>1, SubSeqProperties
<1> HIDE DEF pieces
<1>2. /\ n \in Nat /\ offset \in Nat /\ BufferSize \in Nat
      /\ uart_buff \in [1..BufferSize -> GpsPieces]
      /\ \A p \in Held(uart_buff) : /\ p <= offset
                                    /\ parsed <= uart_buff[p].id
                                    /\ \A j \in 1..n : uart_buff[p].id <= fifo[j].id
      /\ \A p, q \in Held(uart_buff) : p < q => uart_buff[p].id <= uart_buff[q].id
      /\ \A j \in 1..n : parsed <= fifo[j].id /\ fifo[j].id <= fifo[n].id
      /\ \A h, j \in 1..n : h < j => fifo[h].id <= fifo[j].id
  BY GpsAssumption DEF GpsInv, Ordered, Gps!GpsAssumption
<1>3. CASE buff = uart_buff
  BY <1>2, <1>3 DEF Ordered, Held
<1>4. CASE buff = [p \in 1..BufferSize |-> IF p - offset \in 1..n THEN fifo[p - offset] ELSE uart_buff[p]]
  <2>1. buff \in [1..BufferSize -> GpsPieces]
    BY <1>1, <1>2, <1>4
  <2>2. ASSUME NEW p \in Held(buff)
        PROVE  /\ p \in 1..BufferSize
               /\ \/ p <= offset /\ p \in Held(uart_buff) /\ buff[p] = uart_buff[p]
                  \/ p - offset \in 1..n /\ buff[p] = fifo[p - offset]
    BY <1>2, <1>4, <2>2 DEF Held
  <2>3. \A p \in Held(buff) : p <= offset + n /\ parsed <= buff[p].id /\ buff[p].id <= fifo[n].id
    BY <1>2, <2>2
  <2>4. \A p, q \in Held(buff) : p < q => buff[p].id <= buff[q].id
    BY <1>2, <2>2
  <2> QED BY <2>1, <2>3, <2>4 DEF Ordered
<1> QED BY <1>1, <1>3, <1>4 DEF Gps!Stored, pieces

\* A search ends at a comma behind where it began, or behind the buffer, and
\* one from there ends there.
LEMMA SearchForward ==
  ASSUME NEW buff, NEW p \in 0..BufferSize + 1
  PROVE  LET q == Gps!strstr(buff, p)
         IN q \in 0..BufferSize + 1 /\ p <= q /\ (q <= BufferSize => q \in Held(buff))
<1> DEFINE none == BufferSize + 1
           later == {r \in Gps!Commas(buff) : p < r}
           Found(q) == /\ p < q \/ q = none
                      /\ \A r \in Gps!Commas(buff) : p < r => q <= r
<1>1. BufferSize \in Nat /\ Gps!StringLength(buff) \in 0..BufferSize
  BY StringHeld, GpsAssumption DEF Gps!GpsAssumption
<1>2. Gps!Commas(buff) \subseteq 1..Gps!StringLength(buff)
  BY DEF Gps!Commas
<1>3. \E q \in Gps!Commas(buff) \cup {none} : Found(q)
  <2>1. CASE later = {}
    BY <2>1
  <2>2. CASE later # {}
    <3>1. later \in SUBSET Nat
      BY <1>1, <1>2
    <3>2. PICK q \in later : \A m \in later : q <= m
      <4> HIDE DEF later
      <4> QED BY <2>2, <3>1, LeastNat
    <3> QED BY <3>2
  <2> QED BY <2>1, <2>2
<1>4. Gps!strstr(buff, p) = CHOOSE q \in Gps!Commas(buff) \cup {none} : Found(q)
  BY DEF Gps!strstr
<1>5. Gps!strstr(buff, p) \in Gps!Commas(buff) \cup {none} /\ Found(Gps!strstr(buff, p))
  <2> HIDE DEF Found
  <2> QED BY <1>3, <1>4, Zenon
<1> QED BY <1>1, <1>2, <1>5, StringHeld

\* A position is two fields of the string, in their order.
LEMMA FieldsTaken ==
  ASSUME NEW buff, Gps!get_gps(buff), gps_data' # gps_data
  PROVE  /\ \E lat, lon \in Held(buff) : lat <= lon /\ gps_data' = <<buff[lat], buff[lon]>>
         /\ UNCHANGED reader
<1> DEFINE lat == Gps!strstr(buff, Gps!strstr(buff, 0))
           lon == Gps!strstr(buff, Gps!strstr(buff, lat))
           east == Gps!strstr(buff, lon)
           satellites == Gps!strstr(buff, Gps!strstr(buff, east))
<1>0. BufferSize \in Nat
  BY GpsAssumption DEF Gps!GpsAssumption
<1>1. /\ gps_data' = <<buff[lat], buff[lon]>> /\ UNCHANGED reader
      /\ \E last \in {east, satellites} : ~(last > BufferSize)
  BY DEF Gps!get_gps, Gps!Lost
<1>a. lat \in 0..BufferSize + 1 /\ (lat <= BufferSize => lat \in Held(buff))
  BY <1>0, SearchForward
<1> HIDE DEF lat
<1>b. lon \in 0..BufferSize + 1 /\ lat <= lon /\ (lon <= BufferSize => lon \in Held(buff))
  <2>1. Gps!strstr(buff, lat) \in 0..BufferSize + 1 /\ lat <= Gps!strstr(buff, lat)
    BY <1>a, SearchForward
  <2> QED BY <1>0, <1>a, <2>1, SearchForward
<1> HIDE DEF lon
<1>c. east \in 0..BufferSize + 1 /\ lon <= east
  BY <1>b, SearchForward
<1> HIDE DEF east
<1>d. satellites \in 0..BufferSize + 1 /\ east <= satellites
  <2>1. Gps!strstr(buff, east) \in 0..BufferSize + 1 /\ east <= Gps!strstr(buff, east)
    BY <1>c, SearchForward
  <2> QED BY <1>0, <1>c, <2>1, SearchForward
<1> HIDE DEF satellites
<1>2. lat \in Held(buff) /\ lon \in Held(buff) /\ lat <= lon
  BY <1>0, <1>1, <1>a, <1>b, <1>c, <1>d
<1> QED BY <1>1, <1>2

LEMMA ReadStep ==
  ASSUME GpsInv, Gps!gps_demo_task
  PROVE  /\ GpsInv'
         /\ gps_data' # gps_data /\ reader' = "running" => /\ gps_data'[1].id >= parsed
                                                           /\ gps_data'[1].id <= gps_data'[2].id
<1> DEFINE len == IF Len(fifo) < BufferSize THEN Len(fifo) ELSE BufferSize
           buff == Gps!Stored(SubSeq(fifo, 1, len))
           rest == SubSeq(fifo, len + 1, Len(fifo))
<1>1. len \in 1..Len(fifo) /\ Len(fifo) \in Nat
  BY GpsAssumption DEF GpsInv, Gps!gps_demo_task, Gps!GpsAssumption
<1>2. /\ fifo' = rest /\ UNCHANGED sending
      /\ \/ /\ offset' = 0 /\ uart_buff' = Gps!Cleared(buff) /\ parsed' = fifo[len].id
            /\ Gps!get_gps(buff)
         \/ offset' = offset + len /\ uart_buff' = buff /\ UNCHANGED <<gps_data, parsed>>
         \/ UNCHANGED <<uart_buff, offset, gps_data, parsed>>
  BY DEF Gps!gps_demo_task, Gps!Lost
<1> HIDE DEF len
<1>3. Ordered(buff, offset + len, parsed, fifo[len].id)
  BY <1>1, StoredOrdered
<1>4. /\ rest \in Seq(GpsPieces) /\ Len(rest) = Len(fifo) - len
      /\ \A j \in 1..Len(rest) : rest[j] = fifo[len + j]
  <2>1. \A j \in len + 1..Len(fifo) : fifo[j] \in GpsPieces
    BY <1>1 DEF GpsInv
  <2>2. Len(rest) = IF len + 1 <= Len(fifo) THEN Len(fifo) - (len + 1) + 1 ELSE 0
    BY <1>1, <2>1, SubSeqProperties
  <2>3. rest \in Seq(GpsPieces) /\ \A j \in 1..Len(fifo) - (len + 1) + 1 : rest[j] = fifo[len + 1 + j - 1]
    BY <1>1, <2>1, SubSeqProperties
  <2> HIDE DEF rest
  <2>4. Len(rest) = Len(fifo) - len
    BY <1>1, <2>2
  <2>5. ASSUME NEW j \in 1..Len(rest) PROVE rest[j] = fifo[len + j]
    <3>1. j \in 1..Len(fifo) - (len + 1) + 1 /\ len + 1 + j - 1 = len + j
      BY <1>1, <2>4
    <3> QED BY <2>3, <3>1
  <2> QED BY <2>3, <2>4, <2>5
<1> HIDE DEF buff, rest
<1>5. /\ parsed \in Nat /\ sending.id \in Nat /\ sending.sent \in Nat /\ sending.gga \in BOOLEAN
      /\ \A j \in 1..Len(fifo) :
           /\ fifo[j].id \in Nat /\ parsed <= fifo[j].id /\ fifo[j].id <= sending.id
           /\ \A h \in 1..j : fifo[h].id <= fifo[j].id
  <2>1. \A j \in 1..Len(fifo) : fifo[j] \in GpsPieces
    BY DEF GpsInv
  <2>2. \A j \in 1..Len(fifo) : fifo[j].id \in Nat
    BY <2>1 DEF GpsPieces
  <2> QED BY <2>2 DEF GpsInv
<1>6. \A j \in 1..Len(rest) : len + j \in 1..Len(fifo) /\ len \in 1..len + j
  BY <1>1, <1>4
\* What is left in the UART is ordered, and not older than what was read.
<1>7. \A j \in 1..Len(rest) : /\ fifo[len].id <= rest[j].id /\ rest[j].id <= sending.id
                              /\ \A h \in 1..j : rest[h].id <= rest[j].id
  <2> SUFFICES ASSUME NEW j \in 1..Len(rest), NEW h \in 1..j
               PROVE  /\ fifo[len].id <= rest[j].id /\ rest[j].id <= sending.id
                      /\ rest[h].id <= rest[j].id
    <3>1. \A j \in 1..Len(rest) : 1 \in 1..j
      BY <1>4
    <3> QED BY <3>1
  <2>1. h \in 1..Len(rest) /\ len + h \in 1..len + j
    BY <1>1, <1>4
  <2> QED BY <1>4, <1>5, <1>6, <2>1
<1>8. CASE /\ offset' = 0 /\ uart_buff' = Gps!Cleared(buff) /\ parsed' = fifo[len].id
           /\ Gps!get_gps(buff)
  <2>1. Ordered(uart_buff, offset, parsed, sending.id)' /\ Held(uart_buff)' = {}
    <3>1. Gps!Nothing \in GpsPieces
      BY DEF Gps!Nothing, Gps!Piece, GpsPieces
    <3>2. uart_buff' = [p \in 1..BufferSize |-> Gps!Nothing]
      BY <1>8 DEF Gps!Cleared
    <3>3. Held(uart_buff)' = {}
      BY <3>2 DEF Held
    <3> QED BY <3>1, <3>2, <3>3 DEF Ordered
  <2>2. GpsInv'
    <3>1. parsed' = fifo[len].id /\ parsed' \in Nat /\ parsed' <= sending.id
      BY <1>1, <1>5, <1>8
    <3> QED BY <1>2, <1>4, <1>5, <1>7, <1>8, <2>1, <3>1 DEF GpsInv
  <2>3. ASSUME gps_data' # gps_data
        PROVE  gps_data'[1].id >= parsed /\ gps_data'[1].id <= gps_data'[2].id
    <3>1. PICK lat \in Held(buff), lon \in Held(buff) :
            lat <= lon /\ gps_data' = <<buff[lat], buff[lon]>>
      BY <1>8, <2>3, FieldsTaken
    <3>3. /\ lat \in 1..BufferSize /\ lon \in 1..BufferSize /\ BufferSize \in Nat
          /\ buff[lat] \in GpsPieces /\ buff[lon] \in GpsPieces
      BY <1>3, GpsAssumption DEF Ordered, Held, Gps!GpsAssumption
    <3>4. parsed <= buff[lat].id /\ (lat < lon => buff[lat].id <= buff[lon].id)
      BY <1>3, <3>1 DEF Ordered
    <3>5. lat = lon \/ lat < lon
      BY <3>1, <3>3
    <3>6. buff[lat].id \in Nat /\ buff[lat].id <= buff[lon].id
      BY <3>3, <3>4, <3>5 DEF GpsPieces
    <3> QED BY <1>5, <3>1, <3>4, <3>6
  <2> QED BY <2>2, <2>3
<1>9. CASE offset' = offset + len /\ uart_buff' = buff /\ UNCHANGED <<gps_data, parsed>>
  <2>1. /\ offset' \in Nat
        /\ \A p \in Held(buff) : buff[p].id \in Nat /\ buff[p].id <= fifo[len].id
    <3>1. offset' \in Nat
      BY <1>1, <1>9 DEF GpsInv
    <3>2. \A p \in Held(buff) : buff[p] \in GpsPieces
      BY <1>3 DEF Ordered, Held
    <3> QED BY <1>3, <3>1, <3>2 DEF Ordered, GpsPieces
  <2>2. fifo[len].id \in Nat /\ fifo[len].id <= sending.id
    BY <1>1, <1>5
  <2>3. Ordered(buff, offset + len, parsed, sending.id)
    BY <1>3, <1>5, <2>1, <2>2 DEF Ordered
  <2>4. \A j \in 1..Len(rest) : \A p \in Held(buff) : buff[p].id <= rest[j].id
    <3>1. \A j \in 1..Len(rest) : rest[j].id \in Nat
      BY <1>4, <1>5, <1>6
    <3> QED BY <1>7, <2>1, <2>2, <3>1
  <2>5. GpsInv'
    <3>1. Ordered(uart_buff, offset, parsed, sending.id)'
      BY <1>2, <1>9, <2>3
    <3>2. parsed' <= sending.id'
      BY <1>2, <1>9 DEF GpsInv
    <3>3. \A j \in 1..Len(rest) : parsed <= rest[j].id
      BY <1>4, <1>5, <1>6
    <3>4. Held(uart_buff)' = Held(buff)
      BY <1>9 DEF Held
    <3>5. \A j \in 1..Len(fifo') :
            /\ parsed' <= fifo'[j].id /\ fifo'[j].id <= sending'.id
            /\ \A h \in 1..j : fifo'[h].id <= fifo'[j].id
            /\ \A p \in Held(uart_buff)' : uart_buff'[p].id <= fifo'[j].id
      BY <1>2, <1>7, <1>9, <2>4, <3>3, <3>4
    <3> QED BY <1>2, <1>4, <1>5, <1>9, <2>1, <3>1, <3>2, <3>5 DEF GpsInv
  <2> QED BY <1>9, <2>5
<1>10. CASE UNCHANGED <<uart_buff, offset, gps_data, parsed>>
  <2>1. Held(uart_buff)' = Held(uart_buff)
    BY <1>10 DEF Held
  <2>2. \A j \in 1..Len(rest) : /\ parsed <= rest[j].id
                                /\ \A p \in Held(uart_buff) : uart_buff[p].id <= rest[j].id
    BY <1>4, <1>6 DEF GpsInv
  <2>3. Ordered(uart_buff, offset, parsed, sending.id)' /\ parsed' <= sending.id'
    BY <1>2, <1>10, <2>1 DEF GpsInv, Ordered
  <2>4. GpsInv'
    BY <1>2, <1>4, <1>5, <1>7, <1>10, <2>1, <2>2, <2>3 DEF GpsInv
  <2> QED BY <1>10, <2>4
<1> QED BY <1>2, <1>8, <1>9, <1>10

LEMMA GpsStep ==
  ASSUME GpsInv, Gps!Next
  PROVE  /\ GpsInv'
         /\ gps_data' # gps_data /\ reader' = "running" => /\ gps_data'[1].id >= parsed
                                                           /\ gps_data'[1].id <= gps_data'[2].id
<1>1. CASE Gps!gps_demo_task
  BY <1>1, ReadStep
<1>2. CASE Gps!ReadNothing
  BY <1>2 DEF Gps!ReadNothing, GpsInv, Ordered, Held
<1>5. CASE Gps!Undefined
  BY <1>5 DEF Gps!Undefined, GpsInv, Ordered, Held
<1>3. CASE Gps!StartSentence
  <2>1. /\ sending'.id = sending.id + 1 /\ sending'.sent = 0 /\ sending'.gga \in BOOLEAN
        /\ UNCHANGED <<uart_buff, offset, gps_data, fifo, parsed>>
    BY <1>3 DEF Gps!StartSentence
  <2>2. Ordered(uart_buff, offset, parsed, sending.id)'
    <3>1. \A p \in Held(uart_buff) : uart_buff[p].id \in Nat /\ uart_buff[p].id <= sending.id
      BY DEF GpsInv, Ordered, Held, GpsPieces
    <3> QED BY <2>1, <3>1 DEF GpsInv, Ordered, Held
  <2>3. \A j \in 1..Len(fifo) : fifo[j].id \in Nat /\ fifo[j].id <= sending.id
    <3>1. \A j \in 1..Len(fifo) : fifo[j] \in GpsPieces
      BY DEF GpsInv
    <3> QED BY <3>1 DEF GpsInv, GpsPieces
  <2> QED BY <2>1, <2>2, <2>3 DEF GpsInv, Held
<1>4. CASE Gps!SendPiece
  <2> DEFINE piece == Gps!Piece(sending.id, sending.gga, sending.sent + 1)
  <2>1. /\ fifo' = Append(fifo, piece) \/ fifo' = fifo
        /\ sending' = [sending EXCEPT !.sent = sending.sent + 1]
        /\ UNCHANGED <<uart_buff, offset, gps_data, parsed>>
    BY <1>4 DEF Gps!SendPiece
  <2>2. sending'.id = sending.id /\ sending'.gga = sending.gga /\ sending'.sent \in Nat
    BY <2>1 DEF GpsInv
  <2>3. piece \in GpsPieces /\ piece.id = sending.id
    BY DEF GpsInv, GpsPieces, Gps!Piece
  <2> HIDE DEF piece
  <2>0. CASE fifo' = fifo
    BY <2>0, <2>1, <2>2 DEF GpsInv, Held, Ordered
  <2>a. SUFFICES ASSUME fifo' = Append(fifo, piece) PROVE GpsInv'
    BY <2>0, <2>1
  <2>4. /\ fifo' \in Seq(GpsPieces) /\ Len(fifo') = Len(fifo) + 1 /\ Len(fifo) \in Nat
        /\ \A j \in 1..Len(fifo) : fifo'[j] = fifo[j]
        /\ fifo'[Len(fifo) + 1] = piece
    BY <2>a, <2>3, AppendProperties DEF GpsInv
  <2>5. \A p \in Held(uart_buff) : uart_buff[p].id <= sending.id
    BY DEF GpsInv, Ordered
  <2>6. ASSUME NEW j \in 1..Len(fifo')
        PROVE  /\ parsed <= fifo'[j].id /\ fifo'[j].id <= sending.id
               /\ \A h \in 1..j : fifo'[h].id <= fifo'[j].id
               /\ \A p \in Held(uart_buff) : uart_buff[p].id <= fifo'[j].id
    <3>1. CASE j \in 1..Len(fifo)
      BY <2>4, <3>1 DEF GpsInv
    <3>2. CASE j = Len(fifo) + 1
      BY <2>3, <2>4, <2>5, <3>2 DEF GpsInv
    <3> QED BY <2>4, <3>1, <3>2
  <2>7. GpsInv'
    BY <2>1, <2>2, <2>4, <2>6 DEF GpsInv, Held, Ordered
  <2> QED BY <2>7
<1> QED BY <1>1, <1>2, <1>3, <1>4, <1>5 DEF Gps!Next

\* As long as no read has overrun temp and no search has run off a string, a
\* position is new, and of one sentence or of two in order, however the reads
\* cut and join the sentences and whatever their number (app_demo_gps.c 78).
THEOREM PositionsAlwaysNew == DemosSpec => PositionIsNew
<1>1. DemosInit => GpsInv
  <2> SUFFICES ASSUME Gps!Init PROVE GpsInv
    BY DEF DemosInit
  <2>1. /\ offset = 0 /\ parsed = 0 /\ sending.id = 0 /\ sending.sent = 0 /\ sending.gga \in BOOLEAN
        /\ uart_buff = [p \in 1..BufferSize |-> Gps!Nothing]
    BY DEF Gps!Init
  <2>2. fifo \in Seq(GpsPieces) /\ Len(fifo) = 0
    BY DEF Gps!Init
  <2>3. Gps!Nothing \in GpsPieces
    BY DEF Gps!Nothing, Gps!Piece, GpsPieces
  <2>4. uart_buff \in [1..BufferSize -> GpsPieces] /\ Held(uart_buff) = {}
    BY <2>1, <2>3 DEF Held
  <2>5. \A p \in 1..BufferSize : p \notin Held(uart_buff)
    BY <2>4
  <2>6. Ordered(uart_buff, offset, parsed, sending.id)
    BY <2>1, <2>4, <2>5 DEF Ordered
  <2>7. 1..Len(fifo) = {}
    BY <2>2
  <2>8. sending.id \in Nat /\ sending.sent \in Nat /\ parsed \in Nat /\ offset \in Nat
    BY <2>1
  <2> QED BY <2>1, <2>2, <2>4, <2>6, <2>7, <2>8 DEF GpsInv
<1>2. GpsInv /\ [DemosNext]_allVars => GpsInv'
  <2> SUFFICES ASSUME GpsInv, [DemosNext]_allVars PROVE GpsInv'
    OBVIOUS
  <2>1. CASE Gps!Next
    BY <2>1, GpsStep
  <2>2. CASE UNCHANGED gpsVars
    BY <2>2 DEF gpsVars, GpsInv, Ordered, Held
  <2> QED BY <2>1, <2>2, DemosStep
<1>3. GpsInv /\ [DemosNext]_allVars =>
        [gps_data' # gps_data /\ reader' = "running" =>
           /\ gps_data'[1].id >= parsed
           /\ gps_data'[1].id <= gps_data'[2].id]_(Gps!gpsVars)
  <2> SUFFICES ASSUME GpsInv, [DemosNext]_allVars, gps_data' # gps_data, reader' = "running"
               PROVE  gps_data'[1].id >= parsed /\ gps_data'[1].id <= gps_data'[2].id
    OBVIOUS
  <2>1. Gps!Next
    BY DemosStep DEF gpsVars
  <2> QED BY <2>1, GpsStep
<1> QED BY <1>1, <1>2, <1>3, PTL DEF DemosSpec, PositionIsNew, Gps!PositionIsNew
----------------------------------------------------------------------------
(* Deep sleep.  What the board forgets asleep is saved, and the rest is as  *)
(* it was; each of the two calls of the way up brings its half back,        *)
(* whichever comes first.                                                   *)

\* What may work in a build; what a pin may say once it was restored.
MayWork == Pwr!BuiltIn(build) \cup Pwr!Uarts \cup ({"SDIO"} \cap build)
Configured(p) == iocfg[p] \in {slept.iocfg[p]} \cup Pwr!Range(Pwr!IoSets(build))
Owned(p) == mux[p] \in {slept.mux[p], Pwr!Multiplexed(build, slept.mux)[p]}

\* The board does not sleep before app_main's first call, nor before both
\* registrations were tried.
BootInv ==
  /\ boot \in Nat \ {0}
  /\ boot = 1 => services = {} /\ state = "awake" /\ handlers = {}
  /\ boot > 1 => g_have_inited = TRUE
  /\ handlers \subseteq {"entry", "after"}
  /\ state \in {"awake", "asleep", "waking"}
  /\ "at" \in services => boot > 12
  /\ sleep_type = "deep" => "at" \in services
  /\ handlers # {} \/ state # "awake" => sleep_type = "deep"

PinsInv ==
  /\ DOMAIN mux = Pwr!Pins /\ DOMAIN iocfg = Pwr!Pins
  /\ \E m, c, w : slept = [mux |-> m, iocfg |-> c, working |-> w] /\ DOMAIN m = Pwr!Pins /\ DOMAIN c = Pwr!Pins
  /\ state = "asleep" \/ (state = "waking" /\ "entry" \notin handlers) => mux = slept.mux
  /\ state # "asleep" /\ handlers # {} => \A p \in Pwr!Pins : Owned(p)
  /\ state = "asleep" \/ (state = "waking" /\ "after" \notin handlers) =>
       \A p \in Pwr!Pins : IF p \in Pwr!Saved /\ "hw_handler" \in services
                            THEN g_iocfg_backup[p] = slept.iocfg[p] ELSE Configured(p)
  /\ (state = "waking" /\ "after" \in handlers) \/ (state = "awake" /\ handlers # {}) =>
       \A p \in Pwr!Pins : Configured(p)

WorkInv ==
  /\ working \subseteq gates /\ working \subseteq MayWork /\ saved \subseteq Pwr!Uarts
  /\ handlers # {} \/ state # "awake" => slept.working \subseteq MayWork
  /\ state = "asleep" \/ (state = "waking" /\ "entry" \notin handlers) =>
       /\ "hw_handler" \in services => saved = slept.working \cap Pwr!Uarts
       /\ slept.working \cap {"SDIO"} \subseteq working
  /\ (\/ state = "waking" /\ "entry" \in handlers /\ "hw_handler" \in services
      \/ state = "awake" /\ handlers # {} /\ {"wakeup_entry", "hw_handler"} \subseteq services) =>
       slept.working \ working \subseteq failing

\* At most one device of an initialisation fails.
OneFails ==
  \/ failing = {} /\ err_info = {}
  \/ \E d, e : /\ failing = {d} /\ err_info = {e}
               /\ IF d \in {"UART0", "UART1"} THEN e \in {"UART0", "UART1"} ELSE e = d

PowerInv == BootInv /\ PinsInv /\ WorkInv /\ OneFails

\* One initialisation of the peripherals.
LEMMA PeripheralsUp ==
  ASSUME Pwr!peripheral_init, DOMAIN mux = Pwr!Pins, DOMAIN iocfg = Pwr!Pins,
         working \subseteq gates, working \subseteq MayWork, saved \subseteq Pwr!Uarts, build' = build
  PROVE  /\ OneFails'
         /\ g_have_inited' = TRUE /\ saved' = saved
         /\ DOMAIN mux' = Pwr!Pins /\ DOMAIN iocfg' = Pwr!Pins
         /\ mux' = Pwr!Multiplexed(build, mux)
         /\ \A p \in Pwr!Pins : iocfg'[p] \in {iocfg[p]} \cup Pwr!Range(Pwr!IoSets(build))
         /\ working' \subseteq gates' /\ working' \subseteq MayWork
         /\ working \cap {"SDIO"} \subseteq working'
         /\ g_have_inited = TRUE => (Pwr!BuiltIn(build) \cup saved) \ working' \subseteq failing'
<1> DEFINE restored == IF g_have_inited THEN saved ELSE {"UART1"}
<1>1. PICK failed, down :
        /\ failed \in Pwr!Failing(Pwr!BuiltIn(build) \cup Pwr!UartCalls) /\ down \subseteq failed
        /\ gates' = (gates \ Pwr!Closed(build)) \cup ((Pwr!BuiltIn(build) \cup restored) \ down)
        /\ working' = (working \ Pwr!Closed(build)) \cup ((Pwr!BuiltIn(build) \cup restored) \ down)
        /\ err_info' = Pwr!ErrInfo(failed) /\ failing' = failed
  BY DEF Pwr!peripheral_init
<1>2. /\ g_have_inited' = TRUE /\ saved' = saved
      /\ mux' = Pwr!Multiplexed(build, mux) /\ iocfg' = Pwr!Override(iocfg, Pwr!IoSets(build))
  BY DEF Pwr!peripheral_init
<1>3. OneFails'
  <2>1. failed = {} \/ \E d : failed = {d}
    BY <1>1 DEF Pwr!Failing
  <2>2. CASE failed = {}
    BY <1>1, <2>2 DEF OneFails, Pwr!ErrInfo, Pwr!ErrBits
  <2>3. ASSUME NEW d, failed = {d}
        PROVE  OneFails'
    <3>1. failing' = {d} /\ err_info' = {Pwr!Bit(d)}
      BY <1>1, <2>3 DEF Pwr!ErrInfo, Pwr!ErrBits
    <3>2. IF d \in {"UART0", "UART1"} THEN Pwr!Bit(d) \in {"UART0", "UART1"} ELSE Pwr!Bit(d) = d
      BY DEF Pwr!Bit
    <3> QED BY <3>1, <3>2 DEF OneFails
  <2> QED BY <2>1, <2>2, <2>3
<1>4. DOMAIN mux' = Pwr!Pins /\ DOMAIN iocfg' = Pwr!Pins
  BY <1>2 DEF Pwr!Multiplexed, Pwr!Override
<1>5. \A p \in Pwr!Pins : iocfg'[p] \in {iocfg[p]} \cup Pwr!Range(Pwr!IoSets(build))
  <2> DEFINE sets == Pwr!IoSets(build)
  <2>1. \A p \in Pwr!Pins : iocfg'[p] = IF p \in DOMAIN sets THEN sets[p] ELSE iocfg[p]
    BY <1>2 DEF Pwr!Override
  <2> HIDE DEF sets
  <2>2. \A p \in DOMAIN sets : sets[p] \in Pwr!Range(sets)
    BY DEF Pwr!Range
  <2>3. \A p \in Pwr!Pins : iocfg'[p] \in {iocfg[p]} \cup Pwr!Range(sets)
    BY <2>1, <2>2
  <2> QED BY <2>3 DEF sets
<1>6. working' \subseteq gates'
  BY <1>1
<1>7. restored \subseteq Pwr!Uarts
  BY DEF Pwr!Uarts
<1>8. "SDIO" \notin Pwr!BuiltIn(build) /\ "SDIO" \notin Pwr!Uarts
  BY DEF Pwr!BuiltIn, Pwr!Uarts
<1>9. "SDIO" \in build => "SDIO" \notin Pwr!Closed(build)
  BY DEF Pwr!Closed
<1>10. working' \subseteq MayWork
  BY <1>1, <1>7 DEF MayWork
<1>11. working \cap {"SDIO"} \subseteq working'
  BY <1>1, <1>8, <1>9 DEF MayWork
<1>12. g_have_inited = TRUE => (Pwr!BuiltIn(build) \cup saved) \ working' \subseteq failing'
  BY <1>1
<1> QED BY <1>2, <1>3, <1>4, <1>5, <1>6, <1>10, <1>11, <1>12

\* The first of app_main's calls is peripheral_init.
LEMMA FirstCall ==
  ASSUME NEW n \in Nat \ {0}, n <= Len(Pwr!BootSteps), Pwr!BootSteps[n] = "peripheral_init"
  PROVE  n = 1
<1>1. Len(Pwr!BootSteps) = 19
  BY DEF Pwr!BootSteps
<1>2. n \in 1..19
  BY <1>1
<1> QED BY <1>2 DEF Pwr!BootSteps

\* app_main allows AT commands after it has tried both registrations.
LEMMA BootNames ==
  ASSUME NEW n \in Nat \ {0}, n <= Len(Pwr!BootSteps)
  PROVE  /\ Pwr!BootSteps[n] = "at" => n = 12
         /\ n > 12 => Pwr!BootSteps[n] \notin {"wakeup_entry", "hw_handler"}
<1>1. Len(Pwr!BootSteps) = 19
  BY DEF Pwr!BootSteps
<1>2. n \in 1..19
  BY <1>1
<1> QED BY <1>2 DEF Pwr!BootSteps

LEMMA BootStepIs ==
  ASSUME Pwr!BootStep
  PROVE  services' = services \/ services' = services \cup {Pwr!BootSteps[boot]}
BY DEF Pwr!BootStep, Pwr!Booting

LEMMA PowerStep == PowerInv /\ Pwr!Next => PowerInv'
<1> SUFFICES ASSUME PowerInv, Pwr!Next PROVE PowerInv'
  OBVIOUS
<1> USE DEF PowerInv
<1>1. CASE Pwr!InitPeripherals
  <2>1. /\ boot = 1 /\ boot' = 2
        /\ UNCHANGED <<build, state, handlers, sleep_type, saved, g_iocfg_backup, slept>>
        /\ Pwr!peripheral_init
    BY <1>1, FirstCall DEF Pwr!InitPeripherals, Pwr!Booting, BootInv
  <2>2. state = "awake" /\ handlers = {}
    BY <2>1 DEF BootInv
  <2>3. OneFails' /\ g_have_inited' = TRUE /\ DOMAIN mux' = Pwr!Pins /\ DOMAIN iocfg' = Pwr!Pins
        /\ working' \subseteq gates' /\ working' \subseteq MayWork
    BY <2>1, PeripheralsUp DEF PinsInv, WorkInv
  <2>7. services' = services \cup {"peripheral_init"} /\ services = {}
    BY <1>1, <2>1 DEF Pwr!InitPeripherals, BootInv
  <2>4. BootInv'
    BY <2>1, <2>2, <2>3, <2>7 DEF BootInv
  <2>5. PinsInv'
    BY <2>1, <2>2, <2>3 DEF PinsInv
  <2>6. WorkInv'
    BY <2>1, <2>2, <2>3 DEF WorkInv, MayWork
  <2> QED BY <2>3, <2>4, <2>5, <2>6
<1>2. CASE Pwr!InitNoSleep
  <2>1. /\ boot' = boot + 1 /\ state = "awake"
        /\ UNCHANGED <<build, state, handlers, sleep_type, saved, g_iocfg_backup, slept>>
        /\ UNCHANGED <<g_have_inited, mux, iocfg, err_info, failing>>
        /\ boot <= Len(Pwr!BootSteps) /\ Pwr!BootSteps[boot] = "no_sleep"
    BY <1>2 DEF Pwr!InitNoSleep, Pwr!Booting
  <2>2. boot # 1 /\ (services' = services \/ services' = services \cup {"no_sleep"})
    BY <1>2, <2>1 DEF Pwr!BootSteps, Pwr!InitNoSleep
  <2>3. working \subseteq working' /\ working' \subseteq gates' /\ working' \subseteq MayWork
    BY <1>2 DEF Pwr!InitNoSleep, Pwr!app_sdio_init, WorkInv, MayWork
  <2>4. BootInv'
    BY <2>1, <2>2 DEF BootInv
  <2>5. PinsInv'
    BY <2>1, <2>2 DEF PinsInv, Owned, Configured
  <2>6. WorkInv'
    BY <2>1, <2>2, <2>3 DEF WorkInv, MayWork
  <2> QED BY <2>1, <2>4, <2>5, <2>6 DEF OneFails
<1>3. CASE Pwr!BootStep
  <2>1. PICK n \in 3..Len(Pwr!BootSteps) : Pwr!Booting(Pwr!BootSteps[n])
    BY <1>3 DEF Pwr!BootStep
  <2>2. /\ boot' = boot + 1 /\ state = "awake"
        /\ UNCHANGED <<build, state, handlers, sleep_type, saved, g_iocfg_backup, slept>>
        /\ UNCHANGED <<g_have_inited, gates, working, mux, iocfg, err_info, failing>>
        /\ boot <= Len(Pwr!BootSteps) /\ Pwr!BootSteps[boot] = Pwr!BootSteps[n]
    BY <1>3, <2>1 DEF Pwr!BootStep, Pwr!Booting
  <2>3. boot # 1
    <3>1. Len(Pwr!BootSteps) = 19
      BY DEF Pwr!BootSteps
    <3>2. n \in 3..19
      BY <3>1
    <3> QED BY <2>2, <3>2 DEF Pwr!BootSteps
  <2>7. services' = services \/ services' = services \cup {Pwr!BootSteps[boot]}
    BY <1>3, <2>2, BootStepIs DEF BootInv
  <2>8. Pwr!BootSteps[boot] = "at" => boot = 12
    BY <2>2, BootNames DEF BootInv
  <2>9. boot > 12 => Pwr!BootSteps[boot] \notin {"wakeup_entry", "hw_handler"}
    BY <2>2, BootNames DEF BootInv
  <2>4. BootInv'
    BY <2>2, <2>3, <2>7, <2>8 DEF BootInv
  <2>5. PinsInv'
    BY <2>2 DEF PinsInv, Owned, Configured
  <2>10. handlers # {} => {"wakeup_entry", "hw_handler"} \cap services' \subseteq services
    BY <2>7, <2>9 DEF BootInv
  <2>6. WorkInv'
    BY <2>2, <2>10 DEF WorkInv, MayWork
  <2> QED BY <2>2, <2>4, <2>5, <2>6 DEF OneFails
<1>4. CASE Pwr!SetSleepType
  <2>1. BootInv'
    BY <1>4 DEF BootInv, Pwr!SetSleepType
  <2>2. PinsInv'
    BY <1>4 DEF PinsInv, Owned, Configured, Pwr!SetSleepType
  <2>3. WorkInv'
    BY <1>4 DEF WorkInv, MayWork, Pwr!SetSleepType
  <2> QED BY <1>4, <2>1, <2>2, <2>3 DEF OneFails, Pwr!SetSleepType
<1>5. CASE Pwr!FallAsleep
  <2>1. /\ state = "awake" /\ state' = "asleep" /\ sleep_type = "deep"
        /\ slept' = [mux |-> mux, iocfg |-> iocfg, working |-> working]
        /\ working' = working \cap {"SDIO"}
        /\ UNCHANGED <<build, boot, services, handlers, sleep_type, g_have_inited, gates, mux,
                       err_info, failing>>
    BY <1>5 DEF Pwr!FallAsleep
  <2>6. /\ "hw_handler" \in services =>
             /\ saved' = working \cap Pwr!Uarts
             /\ iocfg' = [p \in Pwr!Pins |-> IF p \in Pwr!Saved THEN "lowpower" ELSE iocfg[p]]
             /\ g_iocfg_backup' = [p \in Pwr!Pins |-> IF p \in Pwr!Saved THEN iocfg[p] ELSE g_iocfg_backup[p]]
        /\ "hw_handler" \notin services => UNCHANGED <<iocfg, g_iocfg_backup, saved>>
    BY <1>5 DEF Pwr!FallAsleep, Pwr!config_before_sleep, Pwr!Registered
  <2>2. slept'.mux = mux /\ slept'.iocfg = iocfg /\ slept'.working = working
    BY <2>1
  <2>3. BootInv'
    BY <2>1 DEF BootInv
  <2>4. PinsInv'
    BY <2>1, <2>2, <2>6 DEF PinsInv, Configured
  <2>5. WorkInv'
    BY <2>1, <2>2, <2>6 DEF WorkInv, MayWork
  <2> QED BY <2>1, <2>3, <2>4, <2>5 DEF OneFails
<1>6. CASE Pwr!WakeUp
  <2>1. BootInv'
    BY <1>6 DEF BootInv, Pwr!WakeUp
  <2>2. PinsInv'
    BY <1>6 DEF PinsInv, Owned, Configured, Pwr!WakeUp
  <2>3. WorkInv'
    BY <1>6 DEF WorkInv, MayWork, Pwr!WakeUp
  <2> QED BY <1>6, <2>1, <2>2, <2>3 DEF OneFails, Pwr!WakeUp
<1>7. CASE Pwr!WakeUpEntry
  <2>1. /\ state = "waking" /\ "entry" \notin handlers /\ handlers' = handlers \cup {"entry"}
        /\ state' \in {"awake", "waking"} /\ (state' = "awake" => handlers' = Pwr!Registered)
        /\ UNCHANGED <<build, boot, services, sleep_type, g_iocfg_backup, slept>>
        /\ Pwr!peripheral_init
    BY <1>7 DEF Pwr!WakeUpEntry, Pwr!Handled
  <2>10. state' = "awake" /\ "after" \notin handlers => "hw_handler" \notin services
    BY <2>1 DEF Pwr!Registered
  <2>2. g_have_inited = TRUE /\ boot > 1
    BY <2>1 DEF BootInv
  <2>3. /\ OneFails' /\ g_have_inited' = TRUE /\ saved' = saved
        /\ DOMAIN mux' = Pwr!Pins /\ DOMAIN iocfg' = Pwr!Pins
        /\ mux' = Pwr!Multiplexed(build, mux)
        /\ \A p \in Pwr!Pins : iocfg'[p] \in {iocfg[p]} \cup Pwr!Range(Pwr!IoSets(build))
        /\ working' \subseteq gates' /\ working' \subseteq MayWork
        /\ working \cap {"SDIO"} \subseteq working'
        /\ (Pwr!BuiltIn(build) \cup saved) \ working' \subseteq failing'
    BY <2>1, <2>2, PeripheralsUp DEF PinsInv, WorkInv
  <2>4. BootInv'
    BY <2>1, <2>2, <2>3 DEF BootInv
  <2>5. \A p \in Pwr!Pins : Owned(p)'
    BY <2>1, <2>3 DEF PinsInv, Owned
  <2>6. \A p \in Pwr!Pins : Configured(p) => Configured(p)'
    BY <2>1, <2>3 DEF Configured
  <2>7. PinsInv'
    BY <2>1, <2>3, <2>5, <2>6, <2>10 DEF PinsInv
  <2>8. "hw_handler" \in services => slept.working \ working' \subseteq failing'
    BY <2>1, <2>3 DEF WorkInv, MayWork
  <2>9. WorkInv'
    BY <2>1, <2>2, <2>3, <2>8 DEF WorkInv, MayWork
  <2> QED BY <2>3, <2>4, <2>7, <2>9
<1>8. CASE Pwr!AfterSleep
  <2>1. /\ state = "waking" /\ "after" \notin handlers /\ handlers' = handlers \cup {"after"}
        /\ state' \in {"awake", "waking"} /\ (state' = "awake" => handlers' = Pwr!Registered)
        /\ UNCHANGED <<build, boot, services, sleep_type, g_iocfg_backup, slept>>
        /\ UNCHANGED <<g_have_inited, gates, working, saved, mux, err_info, failing>>
        /\ iocfg' = [p \in Pwr!Pins |-> IF p \in Pwr!Saved THEN g_iocfg_backup[p] ELSE iocfg[p]]
    BY <1>8 DEF Pwr!AfterSleep, Pwr!Handled, Pwr!config_after_sleep
  <2>7. /\ state' = "awake" /\ "wakeup_entry" \in services => "entry" \in handlers
        /\ "hw_handler" \in services
    BY <1>8, <2>1 DEF Pwr!AfterSleep, Pwr!Handled, Pwr!Registered
  <2>2. boot > 1
    BY <2>1 DEF BootInv
  <2>3. BootInv'
    BY <2>1, <2>2 DEF BootInv
  <2>4. \A p \in Pwr!Pins : Configured(p)'
    BY <2>1, <2>7 DEF PinsInv, Configured
  <2>5. PinsInv'
    BY <2>1, <2>4 DEF PinsInv, Owned
  <2>6. WorkInv'
    BY <2>1, <2>7 DEF WorkInv, MayWork
  <2> QED BY <2>1, <2>3, <2>5, <2>6 DEF OneFails
<1>9. CASE Pwr!Configure
  <2>1. PICK p \in {"8", "9"}, cfg \in {"demo", "reset"} :
          /\ iocfg' = [iocfg EXCEPT ![p] = cfg] /\ mux' = [mux EXCEPT ![p] = "GPIO"]
          /\ slept' = [slept EXCEPT !.iocfg[p] = cfg, !.mux[p] = "GPIO"]
    BY <1>9 DEF Pwr!Configure
  <2>2. /\ state = "awake" /\ boot > 1
        /\ UNCHANGED <<build, boot, services, state, handlers, sleep_type, g_have_inited, gates,
                 working, saved, g_iocfg_backup, err_info, failing>>
    BY <1>9 DEF Pwr!Configure
  <2>3. PICK m, c, w : slept = [mux |-> m, iocfg |-> c, working |-> w] /\ DOMAIN m = Pwr!Pins /\ DOMAIN c = Pwr!Pins
    BY DEF PinsInv
  <2>4. slept' = [mux |-> [m EXCEPT ![p] = "GPIO"], iocfg |-> [c EXCEPT ![p] = cfg], working |-> w]
    BY <2>1, <2>3
  <2>5. p \in Pwr!Pins
    BY DEF Pwr!Pins
  <2>6. /\ slept'.mux = [slept.mux EXCEPT ![p] = "GPIO"] /\ slept'.iocfg = [slept.iocfg EXCEPT ![p] = cfg]
        /\ slept'.working = slept.working
    BY <2>3, <2>4
  <2>7. BootInv'
    BY <2>2 DEF BootInv
  <2>8. ASSUME NEW q \in Pwr!Pins, Configured(q)
        PROVE  Configured(q)'
    BY <2>1, <2>2, <2>3, <2>5, <2>6, <2>8 DEF PinsInv, Configured
  <2>9. ASSUME NEW q \in Pwr!Pins, Owned(q)
        PROVE  Owned(q)'
    <3>1. CASE q = p
      BY <2>1, <2>3, <2>5, <2>6, <3>1 DEF PinsInv, Owned
    <3>2. CASE q # p
      <4>1. mux'[q] = mux[q] /\ slept'.mux[q] = slept.mux[q]
        BY <2>1, <2>3, <2>5, <2>6, <3>2 DEF PinsInv
      <4>2. Pwr!Multiplexed(build, slept'.mux)[q] = Pwr!Multiplexed(build, slept.mux)[q]
        BY <4>1 DEF Pwr!Multiplexed
      <4> QED BY <2>2, <2>9, <4>1, <4>2 DEF Owned
    <3> QED BY <3>1, <3>2
  <2>10. DOMAIN mux' = Pwr!Pins /\ DOMAIN iocfg' = Pwr!Pins
    BY <2>1 DEF PinsInv
  <2>11. DOMAIN [m EXCEPT ![p] = "GPIO"] = Pwr!Pins /\ DOMAIN [c EXCEPT ![p] = cfg] = Pwr!Pins
    BY <2>3
  <2>12. PinsInv'
    BY <2>2, <2>4, <2>8, <2>9, <2>10, <2>11 DEF PinsInv
  <2>13. WorkInv'
    BY <2>2, <2>6 DEF WorkInv, MayWork
  <2> QED BY <2>2, <2>7, <2>12, <2>13 DEF OneFails
<1>10. CASE Pwr!OpenUart2
  <2>1. /\ state = "awake" /\ working' = working \cup {"UART2"} /\ gates' = gates \cup {"UART2"}
        /\ UNCHANGED <<build, boot, services, state, handlers, sleep_type, g_have_inited, saved,
                 mux, iocfg, g_iocfg_backup, err_info, failing, slept>>
    BY <1>10 DEF Pwr!OpenUart2
  <2>2. BootInv'
    BY <2>1 DEF BootInv
  <2>3. PinsInv'
    BY <2>1 DEF PinsInv, Owned, Configured
  <2>4. WorkInv'
    BY <2>1 DEF WorkInv, MayWork, Pwr!Uarts
  <2> QED BY <2>1, <2>2, <2>3, <2>4 DEF OneFails
<1> QED BY <1>1, <1>2, <1>3, <1>4, <1>5, <1>6, <1>7, <1>8, <1>9, <1>10 DEF Pwr!Next, Pwr!app_main

\* The board starts awake, with nothing saved.
LEMMA PowerInvInit == Pwr!Init => PowerInv
<1> SUFFICES ASSUME Pwr!Init PROVE PowerInv
  OBVIOUS
<1>1. BootInv
  BY DEF Pwr!Init, BootInv
<1>2. PinsInv
  <2>1. /\ state = "awake" /\ handlers = {} /\ slept = [mux |-> mux, iocfg |-> iocfg, working |-> {}]
        /\ DOMAIN mux = Pwr!Pins /\ DOMAIN iocfg = Pwr!Pins
    BY DEF Pwr!Init
  <2> QED BY <2>1 DEF PinsInv
<1>3. WorkInv
  BY DEF Pwr!Init, WorkInv, MayWork, Pwr!Devices, Pwr!Uarts
<1>4. OneFails
  BY DEF Pwr!Init, OneFails
<1> QED BY <1>1, <1>2, <1>3, <1>4 DEF PowerInv

\* Deep sleep can be noticed by nobody: pins and devices are as they were, in
\* whichever order the chip makes the two calls, and no error of an
\* initialisation is lost (app_io_init.c 38, app_main.c 189, 233-268).
THEOREM BoardAlwaysWakesRight == DemosSpec => []BoardWakesRight
<1> DEFINE PartInv == part = "power" => PowerInv
<1>1. DemosInit => PartInv
  BY PowerInvInit DEF DemosInit
<1>2. PartInv /\ [DemosNext]_allVars => PartInv'
  <2> SUFFICES ASSUME PowerInv, [DemosNext]_allVars, part = "power" PROVE PowerInv'
    BY DemosStep
  <2>1. CASE Pwr!Next
    BY <2>1, PowerStep
  <2>2. CASE UNCHANGED powerVars
    BY <2>2 DEF powerVars, PowerInv, BootInv, PinsInv, WorkInv, OneFails, MayWork, Owned, Configured
  <2> QED BY <2>1, <2>2, DemosStep
<1>3. PartInv => BoardWakesRight
  <2> SUFFICES ASSUME PowerInv PROVE Pwr!WakesAsItSlept /\ Pwr!ErrorsCollected
    BY DEF BoardWakesRight
  <2>1. Pwr!WakesAsItSlept
    <3> SUFFICES ASSUME state = "awake"
                 PROVE  /\ working \subseteq gates
                        /\ handlers # {} => /\ \A p \in Pwr!Pins : Owned(p) /\ Configured(p)
                                            /\ Pwr!Registered = {"entry", "after"} =>
                                                 slept.working \ working \subseteq failing
      BY DEF Pwr!WakesAsItSlept, Owned, Configured
    <3>1. Pwr!Registered = {"entry", "after"} => {"wakeup_entry", "hw_handler"} \subseteq services
      BY DEF Pwr!Registered
    <3> QED BY <3>1 DEF PowerInv, PinsInv, WorkInv
  <2>2. Pwr!ErrorsCollected
    <3>1. Pwr!Cardinality(err_info) = Cardinality(err_info) /\ Pwr!Cardinality(failing) = Cardinality(failing)
      BY DEF Pwr!Cardinality, Cardinality
    <3>2. CASE failing = {} /\ err_info = {}
      BY <3>1, <3>2 DEF Pwr!ErrorsCollected
    <3>3. ASSUME NEW d, NEW e, failing = {d}, err_info = {e},
                 IF d \in {"UART0", "UART1"} THEN e \in {"UART0", "UART1"} ELSE e = d
          PROVE  Pwr!ErrorsCollected
      <4>1. Cardinality(failing) = 1 /\ Cardinality(err_info) = 1
        BY <3>3, FS_Singleton
      <4>2. err_info \ {"UART0", "UART1"} = failing \ {"UART0", "UART1"}
        BY <3>3
      <4> QED BY <3>1, <4>1, <4>2 DEF Pwr!ErrorsCollected
    <3> QED BY <3>2, <3>3 DEF PowerInv, OneFails
  <2> QED BY <2>1, <2>2
<1> QED BY <1>1, <1>2, <1>3, PTL DEF DemosSpec

----------------------------------------------------------------------------
(* Start-up.  Every pin has one function and one direction, whoever asks   *)
(* for them, so what one task has set up no other takes away; what is left  *)
(* is how much of it each task can rely on at each of its statements.      *)

FnOf(p) == IF p \in {"13", "14"} THEN "I2C0" ELSE "GPIO"
Driven == {"6", "8", "9", "12"}

Taken(p) == pinFn[p] = FnOf(p)
Drives(p) == Taken(p) /\ dir[p] = "out"
BusUp == Taken("13") /\ Taken("14") /\ bus

\* The entries a task may have been started from.
StartedBy(t) ==
  CASE t = "rotation_sensor" -> {"rotation_sensor_task"}
    [] t = "water_sensor" -> {"water_sensor_task"}
    [] t = "rtc_timer" -> {"app_demo_rtc_task"}
    [] t = "app_i2c_oled_demo" -> {"app_oled_i2c_demo_task"}
    [] t = "gy521_mpu6050" -> {"app_demo_gy521", "app_main"}
    [] t \in {"app_demo_smart_trash_can", "samplebiztask", "LedTask"} -> {"app_main"}
    [] OTHER -> {t}

\* What a task has set up, or was left by its creator, at its statement n, in
\* terms of the functions, the directions and the bus.
Knows(t, n, f, d, b) ==
  LET has(p) == f[p] = FnOf(p)
      drives(p) == has(p) /\ d[p] = "out" IN
  CASE t = "lightsensor" -> (n > 3 => has("9")) /\ (n > 4 => drives("9"))
    [] t = "water_sensor_task" ->
         (n > 1 => has("13")) /\ (n > 2 => has("14")) /\ (n > 5 => b)
    [] t = "water_sensor" -> has("13") /\ has("14") /\ b
    [] t = "app_demo_rtc_task" -> (n > 1 => has("13")) /\ (n > 2 => has("14"))
    [] t = "rtc_timer" -> has("13") /\ has("14") /\ (n > 1 => b)
    [] t = "hi_hx711_task" ->
         /\ (n > 1 => has("13")) /\ (n > 2 => has("14")) /\ (n > 8 => b)
         /\ (n > 3 => has("11")) /\ (n > 5 => has("12")) /\ (n > 6 => drives("12"))
    [] t = "app_i2c_oled_demo" -> (n \in {4, 5} => has("9")) /\ (n = 5 => drives("9"))
    [] t = "app_demo_custom_io_gpio" -> (n \in {2, 3} => has("0"))
    [] t = "app_demo_smart_trash_can" ->
         /\ (n > 1 => has("6")) /\ (n > 2 => drives("6"))
         /\ (n > 4 => has("8")) /\ (n > 5 => drives("8"))
    [] t = "samplebiztask" -> (n > 1 => has("9")) /\ (n > 2 => drives("9"))
    [] t = "LedTask" -> drives("9")
    [] OTHER -> TRUE

StartInv ==
  /\ starter \in St!Starters /\ starter \in running /\ running \subseteq St!Tasks
  /\ at \in [St!Tasks -> Nat] /\ \A t \in St!Tasks : at[t] \in 1..Len(St!Body(t)) + 1
  /\ \A t \in St!Tasks \ running : at[t] = 1
  /\ pinFn \in [St!Pins -> {"boot", "GPIO", "I2C0"}]
  /\ dir \in [St!Pins -> {"in", "out"}]
  /\ {i2c, ohos, bus, locked, ignored} \subseteq BOOLEAN /\ startFaults \in 0..StartBound
  /\ locked => starter = "app_oled_i2c_demo_task" /\ at[starter] \in {2, 3}
  /\ starter \in St!LeaveBusToBuild => i2c
  /\ i2c => BusUp
  /\ \A t \in running : starter \in StartedBy(t)
  /\ "samplebiztask" \in running \/ "LedTask" \in running => ohos
  /\ \A p \in St!Pins : dir[p] = "out" => p \in Driven
  /\ dir["9"] = "out" => ohos \/ starter # "app_main"
  /\ ~ignored => \A t \in running : Knows(t, at[t], pinFn, dir, bus)

----------------------------------------------------------------------------
\* The bodies of the tasks, statement by statement.
LEMMA Joined ==
  ASSUME NEW S, NEW s \in Seq(S), NEW t \in Seq(S), NEW u \in Seq(S),
         Len(u) = Len(s) + Len(t),
         \A n \in 1..Len(s) : u[n] = s[n],
         \A n \in 1..Len(t) : u[Len(s) + n] = t[n]
  PROVE  s \o t = u
<1>1. s \o t \in Seq(S) /\ Len(s \o t) = Len(u)
  BY ConcatProperties
<1>2. ASSUME NEW n \in 1..Len(u) PROVE (s \o t)[n] = u[n]
  <2>1. CASE n <= Len(s)
    BY <2>1, ConcatProperties
  <2>2. CASE n > Len(s)
    <3>1. n - Len(s) \in 1..Len(t) /\ Len(s) + (n - Len(s)) = n
      BY <2>2
    <3>2. u[n] = t[n - Len(s)]
      BY <3>1
    <3> QED BY <2>2, <3>2, ConcatProperties
  <2> QED BY <2>1, <2>2
<1> QED BY <1>1, <1>2, SeqEqual

LEMMA Cat1_1 ==
  \A a1, a2 :
    <<a1>> \o <<a2>> = <<a1, a2>>
<1> TAKE a1, a2
<1> DEFINE S == {a1, a2}
           s == <<a1>>
           t == <<a2>>
           u == <<a1, a2>>
<1>1. s \in Seq(S) /\ t \in Seq(S) /\ u \in Seq(S)
  OBVIOUS
<1>2. Len(s) = 1 /\ Len(t) = 1 /\ Len(u) = 2
  OBVIOUS
<1>3. \A n \in 1..1 : u[n] = s[n]
  OBVIOUS
<1>4. u[2] = t[1]
  OBVIOUS
<1> HIDE DEF S, s, t, u
<1>5. /\ Len(u) = Len(s) + Len(t)
      /\ \A n \in 1..Len(s) : u[n] = s[n]
      /\ \A n \in 1..Len(t) : u[Len(s) + n] = t[n]
  BY <1>2, <1>3, <1>4
<1>6. s \o t = u
  BY <1>1, <1>5, Joined
<1> QED BY <1>6 DEF s, t, u

LEMMA Cat2_1 ==
  \A a1, a2, a3 :
    <<a1, a2>> \o <<a3>> = <<a1, a2, a3>>
<1> TAKE a1, a2, a3
<1> DEFINE S == {a1, a2, a3}
           s == <<a1, a2>>
           t == <<a3>>
           u == <<a1, a2, a3>>
<1>1. s \in Seq(S) /\ t \in Seq(S) /\ u \in Seq(S)
  OBVIOUS
<1>2. Len(s) = 2 /\ Len(t) = 1 /\ Len(u) = 3
  OBVIOUS
<1>3. \A n \in 1..2 : u[n] = s[n]
  OBVIOUS
<1>4. u[3] = t[1]
  OBVIOUS
<1> HIDE DEF S, s, t, u
<1>5. /\ Len(u) = Len(s) + Len(t)
      /\ \A n \in 1..Len(s) : u[n] = s[n]
      /\ \A n \in 1..Len(t) : u[Len(s) + n] = t[n]
  BY <1>2, <1>3, <1>4
<1>6. s \o t = u
  BY <1>1, <1>5, Joined
<1> QED BY <1>6 DEF s, t, u

LEMMA Cat2_2 ==
  \A a1, a2, a3, a4 :
    <<a1, a2>> \o <<a3, a4>> = <<a1, a2, a3, a4>>
<1> TAKE a1, a2, a3, a4
<1> DEFINE S == {a1, a2, a3, a4}
           s == <<a1, a2>>
           t == <<a3, a4>>
           u == <<a1, a2, a3, a4>>
<1>1. s \in Seq(S) /\ t \in Seq(S) /\ u \in Seq(S)
  OBVIOUS
<1>2. Len(s) = 2 /\ Len(t) = 2 /\ Len(u) = 4
  OBVIOUS
<1>3. \A n \in 1..2 : u[n] = s[n]
  OBVIOUS
<1>4. u[3] = t[1] /\ u[4] = t[2]
  OBVIOUS
<1> HIDE DEF S, s, t, u
<1>5. /\ Len(u) = Len(s) + Len(t)
      /\ \A n \in 1..Len(s) : u[n] = s[n]
      /\ \A n \in 1..Len(t) : u[Len(s) + n] = t[n]
  BY <1>2, <1>3, <1>4
<1>6. s \o t = u
  BY <1>1, <1>5, Joined
<1> QED BY <1>6 DEF s, t, u

LEMMA Cat2_3 ==
  \A a1, a2, a3, a4, a5 :
    <<a1, a2>> \o <<a3, a4, a5>> = <<a1, a2, a3, a4, a5>>
<1> TAKE a1, a2, a3, a4, a5
<1> DEFINE S == {a1, a2, a3, a4, a5}
           s == <<a1, a2>>
           t == <<a3, a4, a5>>
           u == <<a1, a2, a3, a4, a5>>
<1>1. s \in Seq(S) /\ t \in Seq(S) /\ u \in Seq(S)
  OBVIOUS
<1>2. Len(s) = 2 /\ Len(t) = 3 /\ Len(u) = 5
  OBVIOUS
<1>3. \A n \in 1..2 : u[n] = s[n]
  OBVIOUS
<1>4. u[3] = t[1] /\ u[4] = t[2] /\ u[5] = t[3]
  OBVIOUS
<1> HIDE DEF S, s, t, u
<1>5. /\ Len(u) = Len(s) + Len(t)
      /\ \A n \in 1..Len(s) : u[n] = s[n]
      /\ \A n \in 1..Len(t) : u[Len(s) + n] = t[n]
  BY <1>2, <1>3, <1>4
<1>6. s \o t = u
  BY <1>1, <1>5, Joined
<1> QED BY <1>6 DEF s, t, u

LEMMA Cat3_2 ==
  \A a1, a2, a3, a4, a5 :
    <<a1, a2, a3>> \o <<a4, a5>> = <<a1, a2, a3, a4, a5>>
<1> TAKE a1, a2, a3, a4, a5
<1> DEFINE S == {a1, a2, a3, a4, a5}
           s == <<a1, a2, a3>>
           t == <<a4, a5>>
           u == <<a1, a2, a3, a4, a5>>
<1>1. s \in Seq(S) /\ t \in Seq(S) /\ u \in Seq(S)
  OBVIOUS
<1>2. Len(s) = 3 /\ Len(t) = 2 /\ Len(u) = 5
  OBVIOUS
<1>3. \A n \in 1..3 : u[n] = s[n]
  OBVIOUS
<1>4. u[4] = t[1] /\ u[5] = t[2]
  OBVIOUS
<1> HIDE DEF S, s, t, u
<1>5. /\ Len(u) = Len(s) + Len(t)
      /\ \A n \in 1..Len(s) : u[n] = s[n]
      /\ \A n \in 1..Len(t) : u[Len(s) + n] = t[n]
  BY <1>2, <1>3, <1>4
<1>6. s \o t = u
  BY <1>1, <1>5, Joined
<1> QED BY <1>6 DEF s, t, u

LEMMA Cat4_2 ==
  \A a1, a2, a3, a4, a5, a6 :
    <<a1, a2, a3, a4>> \o <<a5, a6>> = <<a1, a2, a3, a4, a5, a6>>
<1> TAKE a1, a2, a3, a4, a5, a6
<1> DEFINE S == {a1, a2, a3, a4, a5, a6}
           s == <<a1, a2, a3, a4>>
           t == <<a5, a6>>
           u == <<a1, a2, a3, a4, a5, a6>>
<1>1. s \in Seq(S) /\ t \in Seq(S) /\ u \in Seq(S)
  OBVIOUS
<1>2. Len(s) = 4 /\ Len(t) = 2 /\ Len(u) = 6
  OBVIOUS
<1>3. \A n \in 1..4 : u[n] = s[n]
  OBVIOUS
<1>4. u[5] = t[1] /\ u[6] = t[2]
  OBVIOUS
<1> HIDE DEF S, s, t, u
<1>5. /\ Len(u) = Len(s) + Len(t)
      /\ \A n \in 1..Len(s) : u[n] = s[n]
      /\ \A n \in 1..Len(t) : u[Len(s) + n] = t[n]
  BY <1>2, <1>3, <1>4
<1>6. s \o t = u
  BY <1>1, <1>5, Joined
<1> QED BY <1>6 DEF s, t, u

LEMMA Cat5_1 ==
  \A a1, a2, a3, a4, a5, a6 :
    <<a1, a2, a3, a4, a5>> \o <<a6>> = <<a1, a2, a3, a4, a5, a6>>
<1> TAKE a1, a2, a3, a4, a5, a6
<1> DEFINE S == {a1, a2, a3, a4, a5, a6}
           s == <<a1, a2, a3, a4, a5>>
           t == <<a6>>
           u == <<a1, a2, a3, a4, a5, a6>>
<1>1. s \in Seq(S) /\ t \in Seq(S) /\ u \in Seq(S)
  OBVIOUS
<1>2. Len(s) = 5 /\ Len(t) = 1 /\ Len(u) = 6
  OBVIOUS
<1>3. \A n \in 1..5 : u[n] = s[n]
  OBVIOUS
<1>4. u[6] = t[1]
  OBVIOUS
<1> HIDE DEF S, s, t, u
<1>5. /\ Len(u) = Len(s) + Len(t)
      /\ \A n \in 1..Len(s) : u[n] = s[n]
      /\ \A n \in 1..Len(t) : u[Len(s) + n] = t[n]
  BY <1>2, <1>3, <1>4
<1>6. s \o t = u
  BY <1>1, <1>5, Joined
<1> QED BY <1>6 DEF s, t, u

LEMMA Cat6_1 ==
  \A a1, a2, a3, a4, a5, a6, a7 :
    <<a1, a2, a3, a4, a5, a6>> \o <<a7>> = <<a1, a2, a3, a4, a5, a6, a7>>
<1> TAKE a1, a2, a3, a4, a5, a6, a7
<1> DEFINE S == {a1, a2, a3, a4, a5, a6, a7}
           s == <<a1, a2, a3, a4, a5, a6>>
           t == <<a7>>
           u == <<a1, a2, a3, a4, a5, a6, a7>>
<1>1. s \in Seq(S) /\ t \in Seq(S) /\ u \in Seq(S)
  OBVIOUS
<1>2. Len(s) = 6 /\ Len(t) = 1 /\ Len(u) = 7
  OBVIOUS
<1>3. \A n \in 1..6 : u[n] = s[n]
  OBVIOUS
<1>4. u[7] = t[1]
  OBVIOUS
<1> HIDE DEF S, s, t, u
<1>5. /\ Len(u) = Len(s) + Len(t)
      /\ \A n \in 1..Len(s) : u[n] = s[n]
      /\ \A n \in 1..Len(t) : u[Len(s) + n] = t[n]
  BY <1>2, <1>3, <1>4
<1>6. s \o t = u
  BY <1>1, <1>5, Joined
<1> QED BY <1>6 DEF s, t, u

LEMMA Cat6_3 ==
  \A a1, a2, a3, a4, a5, a6, a7, a8, a9 :
    <<a1, a2, a3, a4, a5, a6>> \o <<a7, a8, a9>> =
      <<a1, a2, a3, a4, a5, a6, a7, a8, a9>>
<1> TAKE a1, a2, a3, a4, a5, a6, a7, a8, a9
<1> DEFINE S == {a1, a2, a3, a4, a5, a6, a7, a8, a9}
           s == <<a1, a2, a3, a4, a5, a6>>
           t == <<a7, a8, a9>>
           u == <<a1, a2, a3, a4, a5, a6, a7, a8, a9>>
<1>1. s \in Seq(S) /\ t \in Seq(S) /\ u \in Seq(S)
  OBVIOUS
<1>2. Len(s) = 6 /\ Len(t) = 3 /\ Len(u) = 9
  OBVIOUS
<1>3. \A n \in 1..6 : u[n] = s[n]
  OBVIOUS
<1>4. u[7] = t[1] /\ u[8] = t[2] /\ u[9] = t[3]
  OBVIOUS
<1> HIDE DEF S, s, t, u
<1>5. /\ Len(u) = Len(s) + Len(t)
      /\ \A n \in 1..Len(s) : u[n] = s[n]
      /\ \A n \in 1..Len(t) : u[Len(s) + n] = t[n]
  BY <1>2, <1>3, <1>4
<1>6. s \o t = u
  BY <1>1, <1>5, Joined
<1> QED BY <1>6 DEF s, t, u

LEMMA Cat6_6 ==
  \A a1, a2, a3, a4, a5, a6, a7, a8, a9, a10, a11, a12 :
    <<a1, a2, a3, a4, a5, a6>> \o <<a7, a8, a9, a10, a11, a12>> =
      <<a1, a2, a3, a4, a5, a6, a7, a8, a9, a10, a11, a12>>
<1> TAKE a1, a2, a3, a4, a5, a6, a7, a8, a9, a10, a11, a12
<1> DEFINE S == {a1, a2, a3, a4, a5, a6, a7, a8, a9, a10, a11, a12}
           s == <<a1, a2, a3, a4, a5, a6>>
           t == <<a7, a8, a9, a10, a11, a12>>
           u == <<a1, a2, a3, a4, a5, a6, a7, a8, a9, a10, a11, a12>>
<1>1. s \in Seq(S) /\ t \in Seq(S) /\ u \in Seq(S)
  OBVIOUS
<1>2. Len(s) = 6 /\ Len(t) = 6 /\ Len(u) = 12
  OBVIOUS
<1>3. \A n \in 1..6 : u[n] = s[n]
  OBVIOUS
<1>4. u[7] = t[1] /\ u[8] = t[2] /\ u[9] = t[3] /\ u[10] = t[4] /\ u[11] = t[5] /\ u[12]
      = t[6]
  OBVIOUS
<1> HIDE DEF S, s, t, u
<1>5. /\ Len(u) = Len(s) + Len(t)
      /\ \A n \in 1..Len(s) : u[n] = s[n]
      /\ \A n \in 1..Len(t) : u[Len(s) + n] = t[n]
  BY <1>2, <1>3, <1>4
<1>6. s \o t = u
  BY <1>1, <1>5, Joined
<1> QED BY <1>6 DEF s, t, u

LEMMA Cat9_1 ==
  \A a1, a2, a3, a4, a5, a6, a7, a8, a9, a10 :
    <<a1, a2, a3, a4, a5, a6, a7, a8, a9>> \o <<a10>> =
      <<a1, a2, a3, a4, a5, a6, a7, a8, a9, a10>>
<1> TAKE a1, a2, a3, a4, a5, a6, a7, a8, a9, a10
<1> DEFINE S == {a1, a2, a3, a4, a5, a6, a7, a8, a9, a10}
           s == <<a1, a2, a3, a4, a5, a6, a7, a8, a9>>
           t == <<a10>>
           u == <<a1, a2, a3, a4, a5, a6, a7, a8, a9, a10>>
<1>1. s \in Seq(S) /\ t \in Seq(S) /\ u \in Seq(S)
  OBVIOUS
<1>2. Len(s) = 9 /\ Len(t) = 1 /\ Len(u) = 10
  OBVIOUS
<1>3. \A n \in 1..9 : u[n] = s[n]
  OBVIOUS
<1>4. u[10] = t[1]
  OBVIOUS
<1> HIDE DEF S, s, t, u
<1>5. /\ Len(u) = Len(s) + Len(t)
      /\ \A n \in 1..Len(s) : u[n] = s[n]
      /\ \A n \in 1..Len(t) : u[Len(s) + n] = t[n]
  BY <1>2, <1>3, <1>4
<1>6. s \o t = u
  BY <1>1, <1>5, Joined
<1> QED BY <1>6 DEF s, t, u

LEMMA Cat10_1 ==
  \A a1, a2, a3, a4, a5, a6, a7, a8, a9, a10, a11 :
    <<a1, a2, a3, a4, a5, a6, a7, a8, a9, a10>> \o <<a11>> =
      <<a1, a2, a3, a4, a5, a6, a7, a8, a9, a10, a11>>
<1> TAKE a1, a2, a3, a4, a5, a6, a7, a8, a9, a10, a11
<1> DEFINE S == {a1, a2, a3, a4, a5, a6, a7, a8, a9, a10, a11}
           s == <<a1, a2, a3, a4, a5, a6, a7, a8, a9, a10>>
           t == <<a11>>
           u == <<a1, a2, a3, a4, a5, a6, a7, a8, a9, a10, a11>>
<1>1. s \in Seq(S) /\ t \in Seq(S) /\ u \in Seq(S)
  OBVIOUS
<1>2. Len(s) = 10 /\ Len(t) = 1 /\ Len(u) = 11
  OBVIOUS
<1>3. \A n \in 1..10 : u[n] = s[n]
  OBVIOUS
<1>4. u[11] = t[1]
  OBVIOUS
<1> HIDE DEF S, s, t, u
<1>5. /\ Len(u) = Len(s) + Len(t)
      /\ \A n \in 1..Len(s) : u[n] = s[n]
      /\ \A n \in 1..Len(t) : u[Len(s) + n] = t[n]
  BY <1>2, <1>3, <1>4
<1>6. s \o t = u
  BY <1>1, <1>5, Joined
<1> QED BY <1>6 DEF s, t, u

LEMMA LightBody ==
  St!Body("lightsensor") =
    <<St!Func("11", "GPIO"), St!Dir("11", "in"), St!Func("9", "GPIO"),
      St!Dir("9", "out"), St!Checked(St!Adc("11"), 7), St!Then(St!Out("9"), 5)>>
<1> DEFINE s1 == <<St!Func("11", "GPIO"), St!Dir("11", "in")>>
           s2 == <<St!Func("9", "GPIO"), St!Dir("9", "out")>>
           s3 == <<St!Func("11", "GPIO"), St!Dir("11", "in"), St!Func("9", "GPIO"),
                   St!Dir("9", "out")>>
           s4 == <<St!Checked(St!Adc("11"), 7), St!Then(St!Out("9"), 5)>>
           s5 == <<St!Func("11", "GPIO"), St!Dir("11", "in"), St!Func("9", "GPIO"),
                   St!Dir("9", "out"), St!Checked(St!Adc("11"), 7),
                   St!Then(St!Out("9"), 5)>>
<1>1. St!Body("lightsensor") = (s1 \o s2) \o s4
  BY DEF St!Body, St!lightsensor, St!GpioPin
<1>2. s1 \o s2 = s3
  BY Cat2_2
<1>3. s3 \o s4 = s5
  BY Cat4_2
<1> HIDE DEF s1, s2, s3, s4, s5
<1>4. St!Body("lightsensor") = s5
  BY <1>1, <1>2, <1>3
<1> QED BY <1>4 DEF s5

LEMMA RotationInitBody ==
  St!Body("rotation_sensor_task") =
    <<St!Func("7", "GPIO"), St!Dir("7", "in"), St!Create("rotation_sensor")>>
<1> DEFINE s1 == <<St!Func("7", "GPIO"), St!Dir("7", "in")>>
           s2 == <<St!Create("rotation_sensor")>>
           s3 == <<St!Func("7", "GPIO"), St!Dir("7", "in"),
                   St!Create("rotation_sensor")>>
<1>1. St!Body("rotation_sensor_task") = s1 \o s2
  BY DEF St!Body, St!rotation_sensor_task, St!rotation_sensor_gpio_init, St!GpioPin
<1>2. s1 \o s2 = s3
  BY Cat2_1
<1> HIDE DEF s1, s2, s3
<1>3. St!Body("rotation_sensor_task") = s3
  BY <1>1, <1>2
<1> QED BY <1>3 DEF s3

LEMMA WaterInitBody ==
  St!Body("water_sensor_task") =
    <<St!Func("13", "I2C0"), St!Func("14", "I2C0"), St!Func("7", "GPIO"),
      St!Dir("7", "in"), St!Open, St!Transfer, St!Create("water_sensor")>>
<1> DEFINE s1 == <<St!Func("13", "I2C0"), St!Func("14", "I2C0")>>
           s2 == <<St!Func("7", "GPIO"), St!Dir("7", "in")>>
           s3 == <<St!Func("13", "I2C0"), St!Func("14", "I2C0"),
                   St!Func("7", "GPIO"), St!Dir("7", "in")>>
           s4 == <<St!Open, St!Transfer>>
           s5 == <<St!Func("13", "I2C0"), St!Func("14", "I2C0"),
                   St!Func("7", "GPIO"), St!Dir("7", "in"), St!Open, St!Transfer>>
           s6 == <<St!Create("water_sensor")>>
           s7 == <<St!Func("13", "I2C0"), St!Func("14", "I2C0"),
                   St!Func("7", "GPIO"), St!Dir("7", "in"), St!Open, St!Transfer,
                   St!Create("water_sensor")>>
<1>1. St!Body("water_sensor_task") = ((s1 \o s2) \o s4) \o s6
  BY DEF St!Body, St!water_sensor_task, St!water_sensor_init, St!I2cPins, St!GpioPin
<1>2. s1 \o s2 = s3
  BY Cat2_2
<1>3. s3 \o s4 = s5
  BY Cat4_2
<1>4. s5 \o s6 = s7
  BY Cat6_1
<1> HIDE DEF s1, s2, s3, s4, s5, s6, s7
<1>5. St!Body("water_sensor_task") = s7
  BY <1>1, <1>2, <1>3, <1>4
<1> QED BY <1>5 DEF s7

LEMMA RtcInitBody ==
  St!Body("app_demo_rtc_task") =
    <<St!Func("13", "I2C0"), St!Func("14", "I2C0"), St!Create("rtc_timer")>>
<1> DEFINE s1 == <<St!Func("13", "I2C0"), St!Func("14", "I2C0")>>
           s2 == <<St!Create("rtc_timer")>>
           s3 == <<St!Func("13", "I2C0"), St!Func("14", "I2C0"),
                   St!Create("rtc_timer")>>
<1>1. St!Body("app_demo_rtc_task") = s1 \o s2
  BY DEF St!Body, St!app_demo_rtc_task, St!rtc_gpio_init, St!I2cPins
<1>2. s1 \o s2 = s3
  BY Cat2_1
<1> HIDE DEF s1, s2, s3
<1>3. St!Body("app_demo_rtc_task") = s3
  BY <1>1, <1>2
<1> QED BY <1>3 DEF s3

LEMMA Hx711Body ==
  St!Body("hi_hx711_task") =
    <<St!Func("13", "I2C0"), St!Func("14", "I2C0"), St!Func("11", "GPIO"),
      St!Dir("11", "in"), St!Func("12", "GPIO"), St!Dir("12", "out"), St!Out("12"),
      St!Open, St!Checked(St!Transfer, 9), St!In("11"), St!Out("12"),
      St!Then(St!Transfer, 10)>>
<1> DEFINE s1 == <<St!Func("13", "I2C0"), St!Func("14", "I2C0")>>
           s2 == <<St!Func("11", "GPIO"), St!Dir("11", "in")>>
           s3 == <<St!Func("13", "I2C0"), St!Func("14", "I2C0"),
                   St!Func("11", "GPIO"), St!Dir("11", "in")>>
           s4 == <<St!Func("12", "GPIO"), St!Dir("12", "out")>>
           s5 == <<St!Func("13", "I2C0"), St!Func("14", "I2C0"),
                   St!Func("11", "GPIO"), St!Dir("11", "in"), St!Func("12", "GPIO"),
                   St!Dir("12", "out")>>
           s6 == <<St!Out("12"), St!Open, St!Checked(St!Transfer, 9), St!In("11"),
                   St!Out("12"), St!Then(St!Transfer, 10)>>
           s7 == <<St!Func("13", "I2C0"), St!Func("14", "I2C0"),
                   St!Func("11", "GPIO"), St!Dir("11", "in"), St!Func("12", "GPIO"),
                   St!Dir("12", "out"), St!Out("12"), St!Open,
                   St!Checked(St!Transfer, 9), St!In("11"), St!Out("12"),
                   St!Then(St!Transfer, 10)>>
<1>1. St!Body("hi_hx711_task") = ((s1 \o s2) \o s4) \o s6
  BY DEF St!Body, St!hi_hx711_task, St!I2cPins, St!GpioPin
<1>2. s1 \o s2 = s3
  BY Cat2_2
<1>3. s3 \o s4 = s5
  BY Cat4_2
<1>4. s5 \o s6 = s7
  BY Cat6_6
<1> HIDE DEF s1, s2, s3, s4, s5, s6, s7
<1>5. St!Body("hi_hx711_task") = s7
  BY <1>1, <1>2, <1>3, <1>4
<1> QED BY <1>5 DEF s7

LEMMA OledInitBody ==
  St!Body("app_oled_i2c_demo_task") =
    <<St!Lock, St!Create("app_i2c_oled_demo"), St!Unlock>>
  BY DEF St!Body, St!app_oled_i2c_demo_task

LEMMA IoGpioBody ==
  St!Body("app_demo_custom_io_gpio") =
    <<St!Checked(St!Func("0", "GPIO"), 4), St!Checked(St!Dir("0", "in"), 4),
      St!Checked(St!In("0"), 4), St!Checked(St!Dir("0", "in"), 6), St!Isr("0")>>
<1> DEFINE s1 == <<St!Checked(St!Func("0", "GPIO"), 4),
                   St!Checked(St!Dir("0", "in"), 4), St!Checked(St!In("0"), 4)>>
           s2 == <<St!Checked(St!Dir("0", "in"), 6), St!Isr("0")>>
           s3 == <<St!Checked(St!Func("0", "GPIO"), 4),
                   St!Checked(St!Dir("0", "in"), 4), St!Checked(St!In("0"), 4),
                   St!Checked(St!Dir("0", "in"), 6), St!Isr("0")>>
<1>1. St!Body("app_demo_custom_io_gpio") = s1 \o s2
  BY DEF St!Body, St!app_demo_custom_io_gpio, St!io_gpio_demo, St!gpio_isr_demo
<1>2. s1 \o s2 = s3
  BY Cat3_2
<1> HIDE DEF s1, s2, s3
<1>3. St!Body("app_demo_custom_io_gpio") = s3
  BY <1>1, <1>2
<1> QED BY <1>3 DEF s3

LEMMA GyroInitBody ==
  St!Body("app_demo_gy521") =
    <<St!Create("gy521_mpu6050")>>
  BY DEF St!Body, St!app_demo_gy521

LEMMA RotationBody ==
  St!Body("rotation_sensor") =
    <<[St!Adc("5") EXCEPT !.next = 1, !.onfail = 2]>>
  BY DEF St!Body, St!rotation_sensor

LEMMA WaterBody ==
  St!Body("water_sensor") =
    <<St!Checked(St!Adc("7"), 3), St!Then(St!Transfer, 1)>>
  BY DEF St!Body, St!water_sensor

LEMMA RtcBody ==
  St!Body("rtc_timer") =
    <<St!Open, St!Then(St!Transfer, 2)>>
  BY DEF St!Body, St!rtc_timer

LEMMA OledBody ==
  St!Body("app_i2c_oled_demo") =
    <<St!Open, [St!Transfer EXCEPT !.next = 6, !.onfail = 3], St!Func("9", "GPIO"),
      St!Dir("9", "out"), St!Then(St!Out("9"), 2), St!Then(St!Transfer, 6)>>
<1> DEFINE s1 == <<St!Open, [St!Transfer EXCEPT !.next = 6, !.onfail = 3]>>
           s2 == <<St!Func("9", "GPIO"), St!Dir("9", "out")>>
           s3 == <<St!Then(St!Out("9"), 2)>>
           s4 == <<St!Func("9", "GPIO"), St!Dir("9", "out"), St!Then(St!Out("9"), 2)>>
           s5 == <<St!Open, [St!Transfer EXCEPT !.next = 6, !.onfail = 3],
                   St!Func("9", "GPIO"), St!Dir("9", "out"), St!Then(St!Out("9"), 2)>>
           s6 == <<St!Then(St!Transfer, 6)>>
           s7 == <<St!Open, [St!Transfer EXCEPT !.next = 6, !.onfail = 3],
                   St!Func("9", "GPIO"), St!Dir("9", "out"), St!Then(St!Out("9"), 2),
                   St!Then(St!Transfer, 6)>>
<1>1. St!Body("app_i2c_oled_demo") = (s1 \o (s2 \o s3)) \o s6
  BY DEF St!Body, St!app_i2c_oled_demo, St!hispark_board_test, St!GpioPin
<1>2. s2 \o s3 = s4
  BY Cat2_1
<1>3. s1 \o s4 = s5
  BY Cat2_3
<1>4. s5 \o s6 = s7
  BY Cat5_1
<1> HIDE DEF s1, s2, s3, s4, s5, s6, s7
<1>5. St!Body("app_i2c_oled_demo") = s7
  BY <1>1, <1>2, <1>3, <1>4
<1> QED BY <1>5 DEF s7

LEMMA CanBody ==
  St!Body("app_demo_smart_trash_can") =
    <<St!Func("6", "GPIO"), St!Dir("6", "out"), St!Out("6"), St!Func("8", "GPIO"),
      St!Dir("8", "out"), St!Out("8"), St!Adc("7"), St!Adc("9"), St!Out("8"),
      St!Out("6"), St!Then(St!Adc("11"), 7)>>
<1> DEFINE s1 == <<St!Func("6", "GPIO"), St!Dir("6", "out")>>
           s2 == <<St!Out("6")>>
           s3 == <<St!Func("6", "GPIO"), St!Dir("6", "out"), St!Out("6")>>
           s4 == <<St!Func("8", "GPIO"), St!Dir("8", "out")>>
           s5 == <<St!Func("6", "GPIO"), St!Dir("6", "out"), St!Out("6"),
                   St!Func("8", "GPIO"), St!Dir("8", "out")>>
           s6 == <<St!Out("8")>>
           s7 == <<St!Func("6", "GPIO"), St!Dir("6", "out"), St!Out("6"),
                   St!Func("8", "GPIO"), St!Dir("8", "out"), St!Out("8")>>
           s8 == <<St!Adc("7"), St!Adc("9"), St!Out("8")>>
           s9 == <<St!Func("6", "GPIO"), St!Dir("6", "out"), St!Out("6"),
                   St!Func("8", "GPIO"), St!Dir("8", "out"), St!Out("8"),
                   St!Adc("7"), St!Adc("9"), St!Out("8")>>
           s10 == <<St!Out("6")>>
           s11 == <<St!Func("6", "GPIO"), St!Dir("6", "out"), St!Out("6"),
                   St!Func("8", "GPIO"), St!Dir("8", "out"), St!Out("8"),
                   St!Adc("7"), St!Adc("9"), St!Out("8"), St!Out("6")>>
           s12 == <<St!Then(St!Adc("11"), 7)>>
           s13 == <<St!Func("6", "GPIO"), St!Dir("6", "out"), St!Out("6"),
                   St!Func("8", "GPIO"), St!Dir("8", "out"), St!Out("8"),
                   St!Adc("7"), St!Adc("9"), St!Out("8"), St!Out("6"),
                   St!Then(St!Adc("11"), 7)>>
<1>1. St!Body("app_demo_smart_trash_can") = (((((s1 \o s2) \o s4) \o s6) \o s8) \o s10) \o s12
  BY DEF St!Body, St!app_demo_smart_trash_can, St!CanPins, St!set_engine_angle, St!GpioPin
<1>2. s1 \o s2 = s3
  BY Cat2_1
<1>3. s3 \o s4 = s5
  BY Cat3_2
<1>4. s5 \o s6 = s7
  BY Cat5_1
<1>5. s7 \o s8 = s9
  BY Cat6_3
<1>6. s9 \o s10 = s11
  BY Cat9_1
<1>7. s11 \o s12 = s13
  BY Cat10_1
<1> HIDE DEF s1, s2, s3, s4, s5, s6, s7, s8, s9, s10, s11, s12, s13
<1>8. St!Body("app_demo_smart_trash_can") = s13
  BY <1>1, <1>2, <1>3, <1>4, <1>5, <1>6, <1>7
<1> QED BY <1>8 DEF s13

LEMMA GyroBody ==
  St!Body("gy521_mpu6050") =
    <<St!Then(St!Transfer, 1)>>
  BY DEF St!Body, St!gy521_mpu6050

LEMMA SampleBody ==
  St!Body("samplebiztask") =
    <<St!Func("9", "GPIO"), St!Dir("9", "out"), St!Create("LedTask")>>
<1> DEFINE s1 == <<St!Func("9", "GPIO"), St!Dir("9", "out")>>
           s2 == <<St!Create("LedTask")>>
           s3 == <<St!Func("9", "GPIO"), St!Dir("9", "out"), St!Create("LedTask")>>
<1>1. St!Body("samplebiztask") = s1 \o s2
  BY DEF St!Body, St!LedInit, St!GpioPin
<1>2. s1 \o s2 = s3
  BY Cat2_1
<1> HIDE DEF s1, s2, s3
<1>3. St!Body("samplebiztask") = s3
  BY <1>1, <1>2
<1> QED BY <1>3 DEF s3

LEMMA LedBody ==
  St!Body("LedTask") =
    <<St!Then(St!Out("9"), 1)>>
  BY DEF St!Body, St!LedTask

LEMMA MainBody ==
  St!Body("app_main") =
    IF ohos
    THEN <<St!Create("samplebiztask"), St!Create("app_demo_smart_trash_can"),
           St!Create("gy521_mpu6050")>>
    ELSE <<St!Create("app_demo_smart_trash_can"), St!Create("gy521_mpu6050")>>
<1> DEFINE s1 == <<St!Create("app_demo_smart_trash_can")>>
           s2 == <<St!Create("gy521_mpu6050")>>
           s3 == <<St!Create("samplebiztask")>>
           s4 == <<St!Create("app_demo_smart_trash_can"), St!Create("gy521_mpu6050")>>
           s5 == <<St!Create("samplebiztask"), St!Create("app_demo_smart_trash_can")>>
           s6 == <<St!Create("samplebiztask"), St!Create("app_demo_smart_trash_can"),
                   St!Create("gy521_mpu6050")>>
           none == << >>
<1>1. St!Body("app_main") = ((IF ohos THEN s3 ELSE none) \o s1) \o s2
  BY DEF St!Body, St!app_main, St!NetCfgSampleBiz, St!app_smart_trash_can_task,
    St!app_demo_gy521
<1>2. s3 \o s1 = s5
  BY Cat1_1
<1>3. s5 \o s2 = s6
  BY Cat2_1
<1>4. s1 \o s2 = s4
  BY Cat1_1
<1>5. none \o s1 = s1
  <2>1. s1 \in Seq({St!Create("app_demo_smart_trash_can")})
    OBVIOUS
  <2> HIDE DEF s1
  <2> QED BY <2>1, ConcatEmptySeq
<1> HIDE DEF s1, s2, s3, s4, s5, s6, none
<1>6. St!Body("app_main") = IF ohos THEN s6 ELSE s4
  <2>1. CASE ohos
    BY <2>1, <1>1, <1>2, <1>3
  <2>2. CASE ~ohos
    BY <2>2, <1>1, <1>4, <1>5
  <2> QED BY <2>1, <2>2
<1> QED BY <1>6 DEF s4, s6

----------------------------------------------------------------------------
\* What is left of a step of t, once its statement's own effect is told.
Went(t, targets) ==
  /\ t \in running /\ \E n \in targets : at' = [at EXCEPT ![t] = n]
  /\ UNCHANGED <<starter, i2c, ohos>>
  /\ startFaults' \in 0..StartBound /\ ignored' \in BOOLEAN /\ (ignored => ignored')

\* The next statement of a task, and a step of it.
Now(t) == St!Body(t)[at[t]]
Stepped(t) == St!Execute(t) \/ St!Fail(t)

\* Whatever the statement.
LEMMA StepTaken ==
  ASSUME StartInv, NEW t \in St!Tasks, Stepped(t)
  PROVE  /\ t \in running /\ at \in [St!Tasks -> Nat] /\ at[t] \in Nat
         /\ at[t] \in 1..Len(St!Body(t))
         /\ UNCHANGED <<starter, i2c, ohos>>
         /\ startFaults' \in 0..StartBound /\ ignored' \in BOOLEAN /\ (ignored => ignored')
<1>1. /\ at \in [St!Tasks -> Nat] /\ startFaults \in 0..StartBound
      /\ at[t] \in 1..Len(St!Body(t)) + 1
  BY DEF StartInv
<1>2. /\ t \in running /\ at[t] <= Len(St!Body(t)) /\ UNCHANGED <<starter, i2c, ohos>>
  BY DEF Stepped, St!Execute, St!Fail, St!Runs
<1>3. startFaults' \in 0..StartBound
  BY <1>1, StartAssumption DEF Stepped, St!Execute, St!Fail, St!StartAssumption
<1>4. ignored' \in BOOLEAN /\ (ignored => ignored')
  <2>1. CASE St!Execute(t)
    BY <2>1 DEF St!Execute, StartInv
  <2>2. CASE St!Fail(t)
    BY <2>2, Zenon DEF St!Fail
  <2> QED BY <2>1, <2>2 DEF Stepped
<1>5. at[t] \in 1..Len(St!Body(t))
  BY <1>1, <1>2
<1> QED BY <1>1, <1>2, <1>3, <1>4, <1>5

\* A statement that does what it says.
LEMMA Executed ==
  ASSUME StartInv, NEW t \in St!Tasks, St!Execute(t)
  PROVE  /\ Went(t, {St!After(t)})
         /\ pinFn' = IF Now(t).do = "func" THEN [pinFn EXCEPT ![Now(t).pin] = Now(t).arg] ELSE pinFn
         /\ dir' = IF Now(t).do = "dir" THEN [dir EXCEPT ![Now(t).pin] = Now(t).arg] ELSE dir
         /\ IF Now(t).do = "open" THEN bus' = TRUE ELSE bus' = bus
         /\ running' = IF Now(t).do = "create" THEN running \cup {Now(t).arg} ELSE running
         /\ Now(t).do = "lock" => locked' = TRUE
         /\ Now(t).do = "unlock" => locked' = FALSE
         /\ Now(t).do \notin {"lock", "unlock"} => locked' = locked
<1>1. Went(t, {St!After(t)})
  BY StepTaken DEF St!Execute, Stepped, Went
<1>2. bus \in BOOLEAN /\ bus' = (bus \/ Now(t).do = "open")
  BY DEF St!Execute, StartInv, Now
<1>3. IF Now(t).do = "open" THEN bus' = TRUE ELSE bus' = bus
  BY <1>2, Zenon
<1>4. locked' = IF Now(t).do \in {"lock", "unlock"} THEN Now(t).do = "lock" ELSE locked
  BY DEF St!Execute, Now
<1>5. /\ Now(t).do = "lock" => locked' = TRUE
      /\ Now(t).do = "unlock" => locked' = FALSE
      /\ Now(t).do \notin {"lock", "unlock"} => locked' = locked
  <2>1. CASE Now(t).do = "lock"
    BY <2>1, <1>4
  <2>2. CASE Now(t).do = "unlock"
    BY <2>2, <1>4
  <2>3. CASE Now(t).do \notin {"lock", "unlock"}
    BY <2>3, <1>4
  <2> QED BY <2>1, <2>2, <2>3
<1>6. /\ pinFn' = IF Now(t).do = "func" THEN [pinFn EXCEPT ![Now(t).pin] = Now(t).arg] ELSE pinFn
      /\ dir' = IF Now(t).do = "dir" THEN [dir EXCEPT ![Now(t).pin] = Now(t).arg] ELSE dir
      /\ running' = IF Now(t).do = "create" THEN running \cup {Now(t).arg} ELSE running
  BY DEF St!Execute, Now
<1> QED BY <1>1, <1>3, <1>5, <1>6

\* A call that fails and does nothing.
LEMMA Failed ==
  ASSUME StartInv, NEW t \in St!Tasks, St!Fail(t)
  PROVE  /\ Went(t, {IF Now(t).onfail > 0 THEN Now(t).onfail ELSE St!After(t)})
         /\ Now(t).onfail = 0 /\ Now(t).do \in {"func", "dir", "open"} => ignored'
         /\ Now(t).do \notin {"lock", "unlock"}
         /\ UNCHANGED <<pinFn, dir, bus, running, locked>>
<1>1. Went(t, {IF Now(t).onfail > 0 THEN Now(t).onfail ELSE St!After(t)})
  BY StepTaken DEF St!Fail, Stepped, Went, Now
<1>2. Now(t).onfail = 0 /\ Now(t).do \in {"func", "dir", "open"} => ignored'
  BY Zenon DEF St!Fail, Now
<1>3. Now(t).do \notin {"lock", "unlock"} /\ UNCHANGED <<pinFn, dir, bus, running, locked>>
  BY DEF St!Fail, Now
<1> QED BY <1>1, <1>2, <1>3

\* What a step of t does, as far as the others can tell: it sets up a pin as
\* everybody would, opens the bus, or creates one of its tasks.
Lit == {"lightsensor", "app_i2c_oled_demo", "samplebiztask"}

Creates(t) ==
  CASE t = "app_main" -> {"app_demo_smart_trash_can", "gy521_mpu6050"}
                           \cup (IF ohos THEN {"samplebiztask"} ELSE {})
    [] t = "rotation_sensor_task" -> {"rotation_sensor"}
    [] t = "water_sensor_task" -> {"water_sensor"}
    [] t = "app_demo_rtc_task" -> {"rtc_timer"}
    [] t = "app_oled_i2c_demo_task" -> {"app_i2c_oled_demo"}
    [] t = "app_demo_gy521" -> {"gy521_mpu6050"}
    [] t = "samplebiztask" -> {"LedTask"}
    [] OTHER -> {}

DirOf(p) == IF p \in Driven THEN "out" ELSE "in"

Moved(t, targets) ==
  /\ Went(t, targets)
  /\ \/ UNCHANGED pinFn
     \/ \E p \in St!Pins : pinFn' = [pinFn EXCEPT ![p] = FnOf(p)]
  /\ \/ UNCHANGED dir
     \/ \E p \in St!Pins :
          dir' = [dir EXCEPT ![p] = DirOf(p)] /\ (p = "9" => t \in Lit)
  /\ bus' = TRUE \/ bus' = bus
  /\ \/ UNCHANGED running
     \/ \E u \in Creates(t) : running' = running \cup {u}

LEMMA OpenFields ==
  ASSUME NEW s, s = St!Open
  PROVE  s.do = "open" /\ s.next = 0 /\ s.onfail = 0
  BY DEF St!Open, St!Stmt

LEMMA CreateFields ==
  ASSUME NEW t, NEW s, s = St!Create(t)
  PROVE  s.do = "create" /\ s.arg = t /\ s.next = 0 /\ s.onfail = 0
  BY DEF St!Create, St!Stmt

Uses == {"out", "in", "adc", "isr", "transfer"}

\* A statement that leaves pins, bus and tasks alone.
Used(t, targets) ==
  Moved(t, targets) /\ UNCHANGED <<pinFn, dir, bus, running, locked>>

\* The statement of a use, and one that goes on elsewhere either way.
Use(d, p) == St!Stmt(d, p, "")
Branch(u, n, m) == [u EXCEPT !.next = n, !.onfail = m]

LEMMA UseFields ==
  ASSUME NEW d, NEW p, NEW n, NEW m
  PROVE  /\ LET s == Use(d, p) IN s.do = d /\ s.next = 0 /\ s.onfail = 0
         /\ LET s == St!Then(Use(d, p), n) IN s.do = d /\ s.next = n /\ s.onfail = 0
         /\ LET s == St!Checked(Use(d, p), n) IN s.do = d /\ s.next = 0 /\ s.onfail = n
         /\ LET s == Branch(Use(d, p), n, m)
            IN s.do = d /\ s.next = n /\ s.onfail = m
<1>1. ASSUME NEW s, s = Use(d, p)
      PROVE  s.do = d /\ s.next = 0 /\ s.onfail = 0
  BY <1>1 DEF Use, St!Stmt
<1>2. ASSUME NEW s, s = St!Then(Use(d, p), n)
      PROVE  s.do = d /\ s.next = n /\ s.onfail = 0
  BY <1>2 DEF Use, St!Stmt, St!Then
<1>3. ASSUME NEW s, s = St!Checked(Use(d, p), n)
      PROVE  s.do = d /\ s.next = 0 /\ s.onfail = n
  BY <1>3 DEF Use, St!Stmt, St!Checked
<1>4. ASSUME NEW s, s = Branch(Use(d, p), n, m)
      PROVE  s.do = d /\ s.next = n /\ s.onfail = m
  BY <1>4 DEF Branch, Use, St!Stmt
<1> QED BY <1>1, <1>2, <1>3, <1>4

LEMMA UseNames ==
  /\ St!Transfer = Use("transfer", "")
  /\ \A p : /\ St!Out(p) = Use("out", p) /\ St!In(p) = Use("in", p)
            /\ St!Adc(p) = Use("adc", p) /\ St!Isr(p) = Use("isr", p)
  BY DEF Use, St!Transfer, St!Out, St!In, St!Adc, St!Isr

LEMMA UseTargets ==
  ASSUME StartInv, NEW t \in St!Tasks, Stepped(t), Now(t).do \in Uses
  PROVE  LET next == IF Now(t).next > 0 THEN Now(t).next ELSE at[t] + 1
         IN Used(t, {next, IF Now(t).onfail > 0 THEN Now(t).onfail ELSE next})
<1>1. St!After(t) = IF Now(t).next > 0 THEN Now(t).next ELSE at[t] + 1
  BY DEF St!After, Now
<1>2. Now(t).do \notin {"func", "dir", "open", "create", "lock", "unlock"}
  BY DEF Uses
<1>3. CASE St!Execute(t)
  BY <1>1, <1>2, <1>3, Executed DEF Went, Used, Moved
<1>4. CASE St!Fail(t)
  BY <1>1, <1>2, <1>4, Failed DEF Went, Used, Moved
<1> QED BY <1>3, <1>4 DEF Stepped

LEMMA UseDone ==
  ASSUME StartInv, NEW t \in St!Tasks, Stepped(t), NEW d \in Uses, NEW p,
         NEW u, u = Use(d, p), Now(t) = u
  PROVE  Used(t, {at[t] + 1})
<1>1. Now(t).do = d /\ Now(t).next = 0 /\ Now(t).onfail = 0
  BY UseFields
<1> QED BY <1>1, UseTargets

LEMMA ThenDone ==
  ASSUME StartInv, NEW t \in St!Tasks, Stepped(t), NEW d \in Uses, NEW p,
         NEW u, u = Use(d, p), NEW n \in Nat \ {0}, Now(t) = St!Then(u, n)
  PROVE  Used(t, {n})
<1>1. Now(t).do = d /\ Now(t).next = n /\ Now(t).onfail = 0
  BY UseFields
<1> QED BY <1>1, UseTargets

LEMMA CheckedDone ==
  ASSUME StartInv, NEW t \in St!Tasks, Stepped(t), NEW d \in Uses, NEW p,
         NEW u, u = Use(d, p), NEW n \in Nat \ {0}, Now(t) = St!Checked(u, n)
  PROVE  Used(t, {at[t] + 1, n})
<1>1. Now(t).do = d /\ Now(t).next = 0 /\ Now(t).onfail = n
  BY UseFields
<1> QED BY <1>1, UseTargets

LEMMA BranchDone ==
  ASSUME StartInv, NEW t \in St!Tasks, Stepped(t), NEW d \in Uses, NEW p,
         NEW u, u = Use(d, p), NEW n \in Nat \ {0},
         NEW m \in Nat \ {0}, Now(t) = Branch(u, n, m)
  PROVE  Used(t, {n, m})
<1>1. Now(t).do = d /\ Now(t).next = n /\ Now(t).onfail = m
  BY UseFields
<1>2. n > 0 /\ m > 0
  OBVIOUS
<1>3. Used(t, {IF Now(t).next > 0 THEN Now(t).next ELSE at[t] + 1,
               IF Now(t).onfail > 0 THEN Now(t).onfail
               ELSE IF Now(t).next > 0 THEN Now(t).next ELSE at[t] + 1})
  BY <1>1, UseTargets
<1> QED BY <1>1, <1>2, <1>3

\* A pin's function, whose result nobody checks.
LEMMA FuncDone ==
  ASSUME StartInv, NEW t \in St!Tasks, Stepped(t),
         NEW p \in St!Pins, Now(t) = St!Func(p, FnOf(p))
  PROVE  Moved(t, {at[t] + 1}) /\ (~ignored' => Taken(p)') /\ UNCHANGED <<running, locked>>
<1>1. Now(t).do = "func" /\ Now(t).pin = p /\ Now(t).arg = FnOf(p) /\ Now(t).next = 0 /\ Now(t).onfail = 0
  BY DEF St!Func, St!Stmt
<1>2. St!After(t) = at[t] + 1
  BY <1>1 DEF St!After, Now
<1>0. pinFn \in [St!Pins -> {"boot", "GPIO", "I2C0"}]
  BY DEF StartInv
<1>3. CASE St!Execute(t)
  BY <1>1, <1>2, <1>3, Executed, <1>0 DEF Moved, Taken
<1>4. CASE St!Fail(t)
  BY <1>1, <1>2, <1>4, Failed DEF Moved, Taken
<1> QED BY <1>3, <1>4 DEF Stepped

\* A pin's direction.
LEMMA DirDone ==
  ASSUME StartInv, NEW t \in St!Tasks, Stepped(t),
         NEW p \in St!Pins, p = "9" => t \in Lit, Now(t) = St!Dir(p, DirOf(p))
  PROVE  /\ Moved(t, {at[t] + 1})
         /\ ~ignored' => (p \in Driven /\ Taken(p) => Drives(p)')
         /\ UNCHANGED <<running, locked>>
<1>1. Now(t).do = "dir" /\ Now(t).pin = p /\ Now(t).arg = DirOf(p) /\ Now(t).next = 0 /\ Now(t).onfail = 0
  BY DEF St!Dir, St!Stmt
<1>2. St!After(t) = at[t] + 1
  BY <1>1 DEF St!After, Now
<1>0. dir \in [St!Pins -> {"in", "out"}]
  BY DEF StartInv
<1>3. CASE St!Execute(t)
  BY <1>1, <1>2, <1>3, Executed, <1>0 DEF Moved, DirOf, Taken, Drives
<1>4. CASE St!Fail(t)
  BY <1>1, <1>2, <1>4, Failed DEF Moved, DirOf, Taken, Drives
<1> QED BY <1>3, <1>4 DEF Stepped

\* The bus.
LEMMA OpenDone ==
  ASSUME StartInv, NEW t \in St!Tasks, Stepped(t),
         Now(t) = St!Open
  PROVE  Moved(t, {at[t] + 1}) /\ (~ignored' => bus') /\ UNCHANGED <<running, locked>>
<1>1. Now(t).do = "open" /\ Now(t).next = 0 /\ Now(t).onfail = 0
  BY OpenFields
<1>2. St!After(t) = at[t] + 1
  BY <1>1 DEF St!After, Now
<1>3. CASE St!Execute(t)
  BY <1>1, <1>2, <1>3, Executed DEF Moved
<1>4. CASE St!Fail(t)
  BY <1>1, <1>2, <1>4, Failed DEF Moved
<1> QED BY <1>3, <1>4 DEF Stepped

\* A task, created or not.
LEMMA CreateDone ==
  ASSUME StartInv, NEW t \in St!Tasks, Stepped(t),
         NEW u \in Creates(t), Now(t) = St!Create(u)
  PROVE  /\ Moved(t, {at[t] + 1}) /\ running' \ running \subseteq {u}
         /\ UNCHANGED <<pinFn, dir, bus, locked>>
<1>1. Now(t).do = "create" /\ Now(t).arg = u /\ Now(t).next = 0 /\ Now(t).onfail = 0
  BY CreateFields
<1>2. St!After(t) = at[t] + 1
  BY <1>1 DEF St!After, Now
<1>3. CASE St!Execute(t)
  BY <1>1, <1>2, <1>3, Executed DEF Moved
<1>4. CASE St!Fail(t)
  BY <1>1, <1>2, <1>4, Failed DEF Moved
<1> QED BY <1>3, <1>4 DEF Stepped

\* The two kinds of calls whose failure leaves io_gpio_demo and gpio_isr_demo.
LEMMA CheckedFuncDone ==
  ASSUME StartInv, NEW t \in St!Tasks, Stepped(t),
         NEW p \in St!Pins, NEW n \in Nat \ {0}, Now(t) = St!Checked(St!Func(p, FnOf(p)), n)
  PROVE  /\ (Moved(t, {at[t] + 1}) /\ Taken(p)') \/ Moved(t, {n})
         /\ UNCHANGED <<running, locked>>
<1>1. Now(t).do = "func" /\ Now(t).pin = p /\ Now(t).arg = FnOf(p) /\ Now(t).next = 0 /\ Now(t).onfail = n
  BY DEF St!Checked, St!Func, St!Stmt
<1>2. St!After(t) = at[t] + 1
  BY <1>1 DEF St!After, Now
<1>0. pinFn \in [St!Pins -> {"boot", "GPIO", "I2C0"}]
  BY DEF StartInv
<1>3. CASE St!Execute(t)
  BY <1>1, <1>2, <1>3, Executed, <1>0 DEF Moved, Taken
<1>4. CASE St!Fail(t)
  BY <1>1, <1>2, <1>4, Failed DEF Moved, Taken
<1> QED BY <1>3, <1>4 DEF Stepped

LEMMA CheckedDirDone ==
  ASSUME StartInv, NEW t \in St!Tasks, Stepped(t),
         NEW p \in St!Pins, NEW n \in Nat \ {0}, p = "9" => t \in Lit, Now(t) = St!Checked(St!Dir(p, DirOf(p)), n)
  PROVE  Moved(t, {at[t] + 1, n}) /\ UNCHANGED <<running, locked>>
<1>1. Now(t).do = "dir" /\ Now(t).pin = p /\ Now(t).arg = DirOf(p) /\ Now(t).next = 0 /\ Now(t).onfail = n
  BY DEF St!Checked, St!Dir, St!Stmt
<1>2. St!After(t) = at[t] + 1
  BY <1>1 DEF St!After, Now
<1>0. dir \in [St!Pins -> {"in", "out"}]
  BY DEF StartInv
<1>3. CASE St!Execute(t)
  BY <1>1, <1>2, <1>3, Executed, <1>0 DEF Moved, Went
<1>4. CASE St!Fail(t)
  BY <1>1, <1>2, <1>4, Failed DEF Moved, Went
<1> QED BY <1>3, <1>4 DEF Stepped

\* Nothing that was set up is lost, whoever makes the step.
LEMMA Grows ==
  ASSUME StartInv, NEW t \in St!Tasks, NEW targets, Moved(t, targets)
  PROVE  /\ \A p \in St!Pins : (Taken(p) => Taken(p)') /\ (Drives(p) => Drives(p)')
         /\ (bus => bus') /\ (ignored => ignored')
<1>1. pinFn \in [St!Pins -> {"boot", "GPIO", "I2C0"}] /\ dir \in [St!Pins -> {"in", "out"}]
  BY DEF StartInv
<1>2. \A p \in St!Pins : dir[p] = "out" => p \in Driven
  BY DEF StartInv
<1>3. \A p \in St!Pins : Taken(p) => Taken(p)'
  BY <1>1 DEF Moved, Taken
<1>4. \A p \in St!Pins : dir[p] = "out" => dir'[p] = "out"
  BY <1>1, <1>2 DEF Moved, DirOf
<1> QED BY <1>3, <1>4 DEF Moved, Drives, Went

\* The whole of a step of t, and where it may leave it.
Ends(t) == 1..Len(St!Body(t)) + 1

Effect(t) ==
  \E n \in Ends(t) :
    /\ Moved(t, {n})
    /\ locked' \in BOOLEAN
    /\ locked' => t = "app_oled_i2c_demo_task" /\ n \in {2, 3}
    /\ ~ignored' => Knows(t, n, pinFn', dir', bus')
    /\ \A u \in running' \ running : ~ignored' => Knows(u, 1, pinFn', dir', bus')

LEMMA EffectIs ==
  ASSUME NEW t, NEW n \in Ends(t), Moved(t, {n}),
         locked' \in BOOLEAN, locked' => t = "app_oled_i2c_demo_task" /\ n \in {2, 3},
         ~ignored' => Knows(t, n, pinFn', dir', bus'),
         \A u \in running' \ running : ~ignored' => Knows(u, 1, pinFn', dir', bus')
  PROVE  Effect(t)
  BY Zenon DEF Effect

\* A step that creates nothing.
LEMMA EffectOf ==
  ASSUME NEW t, NEW n \in Ends(t), Moved(t, {n}), ~locked, UNCHANGED <<running, locked>>,
         ~ignored' => Knows(t, n, pinFn', dir', bus')
  PROVE  Effect(t)
<1>1. running' \ running = {} /\ locked' = FALSE
  OBVIOUS
<1> QED BY <1>1, EffectIs

\* A step that may create a task.
LEMMA EffectNew ==
  ASSUME NEW t, NEW n \in Ends(t), Moved(t, {n}), locked' = FALSE,
         ~ignored' => Knows(t, n, pinFn', dir', bus'),
         \A u \in running' \ running : ~ignored' => Knows(u, 1, pinFn', dir', bus')
  PROVE  Effect(t)
  BY EffectIs

LEMMA EndsOf ==
  ASSUME NEW t
  PROVE  /\ Len(St!Body(t)) = 3 => \A n \in 1..4 : n \in Ends(t)
         /\ Len(St!Body(t)) = 11 => \A n \in 1..12 : n \in Ends(t)
         /\ Len(St!Body(t)) = 12 => \A n \in 1..13 : n \in Ends(t)
<1>1. ASSUME Len(St!Body(t)) = 3 PROVE \A n \in 1..4 : n \in Ends(t)
  BY <1>1 DEF Ends
<1>2. ASSUME Len(St!Body(t)) = 11 PROVE \A n \in 1..12 : n \in Ends(t)
  BY <1>2 DEF Ends
<1>3. ASSUME Len(St!Body(t)) = 12 PROVE \A n \in 1..13 : n \in Ends(t)
  BY <1>3 DEF Ends
<1> QED BY <1>1, <1>2, <1>3

\* Where a task is when it steps, and what it knows there.
LEMMA Position ==
  ASSUME StartInv, NEW t \in running, Stepped(t)
  PROVE  /\ t \in St!Tasks /\ at[t] \in 1..Len(St!Body(t))
         /\ locked \in BOOLEAN /\ (locked => t = "app_oled_i2c_demo_task" /\ at[t] \in {2, 3})
         /\ ~ignored => Knows(t, at[t], pinFn, dir, bus)
<1>1. /\ t \in St!Tasks /\ (~ignored => Knows(t, at[t], pinFn, dir, bus))
      /\ (locked => starter = "app_oled_i2c_demo_task" /\ at[starter] \in {2, 3})
      /\ locked \in BOOLEAN
  BY DEF StartInv
<1>2. locked => t = starter
  BY DEF Stepped, St!Execute, St!Fail, St!Runs
<1> QED BY <1>1, <1>2, StepTaken

----------------------------------------------------------------------------
\* The steps of each task.
LEMMA LightSteps ==
  ASSUME StartInv, "lightsensor" \in running, Stepped("lightsensor")
  PROVE  Effect("lightsensor")
<1> DEFINE t == "lightsensor"
<1>1. Len(St!Body(t)) = 6
  BY LightBody
<1>2. /\ t \in St!Tasks /\ at[t] \in 1..6 /\ Now(t) = St!Body(t)[at[t]]
      /\ ~ignored => Knows(t, at[t], pinFn, dir, bus)
  BY <1>1, Position DEF Now
<1>3. ~locked
  BY Position
<1>4. \A n \in 1..7 : n \in Ends(t)
  BY <1>1 DEF Ends
<1>5. CASE at[t] = 1
  <2>1. Now(t) = St!Func("11", FnOf("11"))
    BY <1>2, <1>5, LightBody DEF FnOf
  <2>2. Moved(t, {2}) /\ UNCHANGED <<running, locked>> /\ (~ignored' => Taken("11")')
    BY <1>2, <1>5, <2>1, FuncDone DEF St!Pins
  <2>3. (ignored => ignored') /\ (bus => bus')
        /\ \A p \in St!Pins : (Taken(p) => Taken(p)') /\ (Drives(p) => Drives(p)')
    BY <1>2, <2>2, Grows
  <2>4. ~ignored' => Knows(t, 2, pinFn', dir', bus')
    BY <1>2, <1>5, <2>2, <2>3 DEF Knows, Taken, Drives, St!Pins
  <2> QED BY <1>3, <1>4, <2>2, <2>4, EffectOf
<1>6. CASE at[t] = 2
  <2>1. Now(t) = St!Dir("11", DirOf("11"))
    BY <1>2, <1>6, LightBody DEF DirOf, Driven
  <2>2. Moved(t, {3}) /\ UNCHANGED <<running, locked>>
    BY <1>2, <1>6, <2>1, DirDone DEF St!Pins
  <2>3. (ignored => ignored') /\ (bus => bus')
        /\ \A p \in St!Pins : (Taken(p) => Taken(p)') /\ (Drives(p) => Drives(p)')
    BY <1>2, <2>2, Grows
  <2>4. ~ignored' => Knows(t, 3, pinFn', dir', bus')
    BY <1>2, <1>6, <2>2, <2>3 DEF Knows, Taken, Drives, St!Pins
  <2> QED BY <1>3, <1>4, <2>2, <2>4, EffectOf
<1>7. CASE at[t] = 3
  <2>1. Now(t) = St!Func("9", FnOf("9"))
    BY <1>2, <1>7, LightBody DEF FnOf
  <2>2. Moved(t, {4}) /\ UNCHANGED <<running, locked>> /\ (~ignored' => Taken("9")')
    BY <1>2, <1>7, <2>1, FuncDone DEF St!Pins
  <2>3. (ignored => ignored') /\ (bus => bus')
        /\ \A p \in St!Pins : (Taken(p) => Taken(p)') /\ (Drives(p) => Drives(p)')
    BY <1>2, <2>2, Grows
  <2>4. ~ignored' => Knows(t, 4, pinFn', dir', bus')
    BY <1>2, <1>7, <2>2, <2>3 DEF Knows, Taken, Drives, St!Pins
  <2> QED BY <1>3, <1>4, <2>2, <2>4, EffectOf
<1>8. CASE at[t] = 4
  <2>1. Now(t) = St!Dir("9", DirOf("9"))
    BY <1>2, <1>8, LightBody DEF DirOf, Driven
  <2>2. /\ Moved(t, {5}) /\ UNCHANGED <<running, locked>>
        /\ ~ignored' => (Taken("9") => Drives("9")')
    BY <1>2, <1>8, <2>1, DirDone DEF St!Pins, Driven, Lit
  <2>3. (ignored => ignored') /\ (bus => bus')
        /\ \A p \in St!Pins : (Taken(p) => Taken(p)') /\ (Drives(p) => Drives(p)')
    BY <1>2, <2>2, Grows
  <2>4. ~ignored' => Knows(t, 5, pinFn', dir', bus')
    BY <1>2, <1>8, <2>2, <2>3 DEF Knows, Taken, Drives, St!Pins
  <2> QED BY <1>3, <1>4, <2>2, <2>4, EffectOf
<1>9. CASE at[t] = 5
  <2>1. Now(t) = St!Checked(St!Adc("11"), 7)
    BY <1>2, <1>9, LightBody
  <2>2. St!Adc("11") = Use("adc", "11")
    BY UseNames
  <2>3. at[t] + 1 = 6 /\ 7 \in Nat \ {0} /\ "adc" \in Uses
    BY <1>9 DEF Uses
  <2>4. Used(t, {at[t] + 1, 7})
    BY <1>2, <2>1, <2>2, <2>3, CheckedDone, Zenon
  <2>5. UNCHANGED <<running, locked>> /\ \E n \in {6, 7} : Moved(t, {n})
    BY <2>3, <2>4 DEF Used, Moved, Went
  <2>6. PICK n \in {6, 7} : Moved(t, {n})
    BY <2>5
  <2>7. (ignored => ignored') /\ (bus => bus')
        /\ \A p \in St!Pins : (Taken(p) => Taken(p)') /\ (Drives(p) => Drives(p)')
    BY <1>2, <2>6, Grows
  <2>8. ~ignored' => Knows(t, n, pinFn', dir', bus')
    BY <1>2, <1>9, <2>6, <2>7 DEF Knows, Taken, Drives, St!Pins
  <2> QED BY <1>3, <1>4, <2>5, <2>6, <2>8, EffectOf
<1>10. CASE at[t] = 6
  <2>1. Now(t) = St!Then(St!Out("9"), 5)
    BY <1>2, <1>10, LightBody
  <2>2. St!Out("9") = Use("out", "9")
    BY UseNames
  <2>3. at[t] + 1 = 7 /\ 5 \in Nat \ {0} /\ "out" \in Uses
    BY <1>10 DEF Uses
  <2>4. Used(t, {5})
    BY <1>2, <2>1, <2>2, <2>3, ThenDone, Zenon
  <2>5. Moved(t, {5}) /\ UNCHANGED <<running, locked>>
    BY <2>3, <2>4 DEF Used
  <2>6. (ignored => ignored') /\ (bus => bus')
        /\ \A p \in St!Pins : (Taken(p) => Taken(p)') /\ (Drives(p) => Drives(p)')
    BY <1>2, <2>5, Grows
  <2>7. ~ignored' => Knows(t, 5, pinFn', dir', bus')
    BY <1>2, <1>10, <2>6 DEF Knows, Taken, Drives, St!Pins
  <2> QED BY <1>3, <1>4, <2>5, <2>7, EffectOf
<1> QED BY <1>2, <1>5, <1>6, <1>7, <1>8, <1>9, <1>10

LEMMA RotationInitSteps ==
  ASSUME StartInv, "rotation_sensor_task" \in running, Stepped("rotation_sensor_task")
  PROVE  Effect("rotation_sensor_task")
<1> DEFINE t == "rotation_sensor_task"
<1>1. Len(St!Body(t)) = 3
  BY RotationInitBody
<1>2. /\ t \in St!Tasks /\ at[t] \in 1..3 /\ Now(t) = St!Body(t)[at[t]]
      /\ ~ignored => Knows(t, at[t], pinFn, dir, bus)
  BY <1>1, Position DEF Now
<1>3. ~locked
  BY Position
<1>4. \A n \in 1..4 : n \in Ends(t)
  BY <1>1, EndsOf, Zenon
<1>5. CASE at[t] = 1
  <2>1. Now(t) = St!Func("7", FnOf("7"))
    BY <1>2, <1>5, RotationInitBody DEF FnOf
  <2>2. Moved(t, {2}) /\ UNCHANGED <<running, locked>> /\ (~ignored' => Taken("7")')
    BY <1>2, <1>5, <2>1, FuncDone DEF St!Pins
  <2>3. (ignored => ignored') /\ (bus => bus')
        /\ \A p \in St!Pins : (Taken(p) => Taken(p)') /\ (Drives(p) => Drives(p)')
    BY <1>2, <2>2, Grows
  <2>4. ~ignored' => Knows(t, 2, pinFn', dir', bus')
    BY <1>2, <1>5, <2>2, <2>3 DEF Knows, Taken, Drives, St!Pins
  <2> QED BY <1>3, <1>4, <2>2, <2>4, EffectOf
<1>6. CASE at[t] = 2
  <2>1. Now(t) = St!Dir("7", DirOf("7"))
    BY <1>2, <1>6, RotationInitBody DEF DirOf, Driven
  <2>2. Moved(t, {3}) /\ UNCHANGED <<running, locked>>
    BY <1>2, <1>6, <2>1, DirDone DEF St!Pins
  <2>3. (ignored => ignored') /\ (bus => bus')
        /\ \A p \in St!Pins : (Taken(p) => Taken(p)') /\ (Drives(p) => Drives(p)')
    BY <1>2, <2>2, Grows
  <2>4. ~ignored' => Knows(t, 3, pinFn', dir', bus')
    BY <1>2, <1>6, <2>2, <2>3 DEF Knows, Taken, Drives, St!Pins
  <2> QED BY <1>3, <1>4, <2>2, <2>4, EffectOf
<1>7. CASE at[t] = 3
  <2>1. Now(t) = St!Create("rotation_sensor") /\ "rotation_sensor" \in Creates(t)
    BY <1>2, <1>7, RotationInitBody DEF Creates
  <2>2. /\ Moved(t, {4}) /\ running' \ running \subseteq {"rotation_sensor"}
        /\ UNCHANGED <<pinFn, dir, bus, locked>>
    BY <1>2, <1>7, <2>1, CreateDone
  <2>3. (ignored => ignored') /\ (bus => bus')
        /\ \A p \in St!Pins : (Taken(p) => Taken(p)') /\ (Drives(p) => Drives(p)')
    BY <1>2, <2>2, Grows
  <2>4. ~ignored' => Knows(t, 4, pinFn', dir', bus')
    BY <1>2, <1>7, <2>3 DEF Knows, Taken, Drives, St!Pins
  <2>5. ~ignored' => Knows("rotation_sensor", 1, pinFn', dir', bus')
    BY <1>2, <1>7, <2>3 DEF Knows, Taken, Drives, St!Pins
  <2>6. \A u \in running' \ running : ~ignored' => Knows(u, 1, pinFn', dir', bus')
    BY <2>2, <2>5
  <2>7. locked' = FALSE
    BY <1>3, <2>2
  <2>8. 4 \in Ends(t)
    BY <1>4
  <2> QED BY <2>2, <2>4, <2>6, <2>7, <2>8, EffectNew, Zenon
<1> QED BY <1>2, <1>5, <1>6, <1>7

LEMMA WaterInitSteps ==
  ASSUME StartInv, "water_sensor_task" \in running, Stepped("water_sensor_task")
  PROVE  Effect("water_sensor_task")
<1> DEFINE t == "water_sensor_task"
<1>1. Len(St!Body(t)) = 7
  BY WaterInitBody
<1>2. /\ t \in St!Tasks /\ at[t] \in 1..7 /\ Now(t) = St!Body(t)[at[t]]
      /\ ~ignored => Knows(t, at[t], pinFn, dir, bus)
  BY <1>1, Position DEF Now
<1>3. ~locked
  BY Position
<1>4. \A n \in 1..8 : n \in Ends(t)
  BY <1>1 DEF Ends
<1>5. CASE at[t] = 1
  <2>1. Now(t) = St!Func("13", FnOf("13"))
    BY <1>2, <1>5, WaterInitBody DEF FnOf
  <2>2. Moved(t, {2}) /\ UNCHANGED <<running, locked>> /\ (~ignored' => Taken("13")')
    BY <1>2, <1>5, <2>1, FuncDone DEF St!Pins
  <2>3. (ignored => ignored') /\ (bus => bus')
        /\ \A p \in St!Pins : (Taken(p) => Taken(p)') /\ (Drives(p) => Drives(p)')
    BY <1>2, <2>2, Grows
  <2>4. ~ignored' => Knows(t, 2, pinFn', dir', bus')
    BY <1>2, <1>5, <2>2, <2>3 DEF Knows, Taken, Drives, St!Pins
  <2> QED BY <1>3, <1>4, <2>2, <2>4, EffectOf
<1>6. CASE at[t] = 2
  <2>1. Now(t) = St!Func("14", FnOf("14"))
    BY <1>2, <1>6, WaterInitBody DEF FnOf
  <2>2. Moved(t, {3}) /\ UNCHANGED <<running, locked>> /\ (~ignored' => Taken("14")')
    BY <1>2, <1>6, <2>1, FuncDone DEF St!Pins
  <2>3. (ignored => ignored') /\ (bus => bus')
        /\ \A p \in St!Pins : (Taken(p) => Taken(p)') /\ (Drives(p) => Drives(p)')
    BY <1>2, <2>2, Grows
  <2>4. ~ignored' => Knows(t, 3, pinFn', dir', bus')
    BY <1>2, <1>6, <2>2, <2>3 DEF Knows, Taken, Drives, St!Pins
  <2> QED BY <1>3, <1>4, <2>2, <2>4, EffectOf
<1>7. CASE at[t] = 3
  <2>1. Now(t) = St!Func("7", FnOf("7"))
    BY <1>2, <1>7, WaterInitBody DEF FnOf
  <2>2. Moved(t, {4}) /\ UNCHANGED <<running, locked>> /\ (~ignored' => Taken("7")')
    BY <1>2, <1>7, <2>1, FuncDone DEF St!Pins
  <2>3. (ignored => ignored') /\ (bus => bus')
        /\ \A p \in St!Pins : (Taken(p) => Taken(p)') /\ (Drives(p) => Drives(p)')
    BY <1>2, <2>2, Grows
  <2>4. ~ignored' => Knows(t, 4, pinFn', dir', bus')
    BY <1>2, <1>7, <2>2, <2>3 DEF Knows, Taken, Drives, St!Pins
  <2> QED BY <1>3, <1>4, <2>2, <2>4, EffectOf
<1>8. CASE at[t] = 4
  <2>1. Now(t) = St!Dir("7", DirOf("7"))
    BY <1>2, <1>8, WaterInitBody DEF DirOf, Driven
  <2>2. Moved(t, {5}) /\ UNCHANGED <<running, locked>>
    BY <1>2, <1>8, <2>1, DirDone DEF St!Pins
  <2>3. (ignored => ignored') /\ (bus => bus')
        /\ \A p \in St!Pins : (Taken(p) => Taken(p)') /\ (Drives(p) => Drives(p)')
    BY <1>2, <2>2, Grows
  <2>4. ~ignored' => Knows(t, 5, pinFn', dir', bus')
    BY <1>2, <1>8, <2>2, <2>3 DEF Knows, Taken, Drives, St!Pins
  <2> QED BY <1>3, <1>4, <2>2, <2>4, EffectOf
<1>9. CASE at[t] = 5
  <2>1. Now(t) = St!Open
    BY <1>2, <1>9, WaterInitBody
  <2>2. Moved(t, {6}) /\ UNCHANGED <<running, locked>> /\ (~ignored' => bus')
    BY <1>2, <1>9, <2>1, OpenDone
  <2>3. (ignored => ignored') /\ (bus => bus')
        /\ \A p \in St!Pins : (Taken(p) => Taken(p)') /\ (Drives(p) => Drives(p)')
    BY <1>2, <2>2, Grows
  <2>4. ~ignored' => Knows(t, 6, pinFn', dir', bus')
    BY <1>2, <1>9, <2>2, <2>3 DEF Knows, Taken, Drives, St!Pins
  <2> QED BY <1>3, <1>4, <2>2, <2>4, EffectOf
<1>10. CASE at[t] = 6
  <2>1. Now(t) = St!Transfer
    BY <1>2, <1>10, WaterInitBody
  <2>2. St!Transfer = Use("transfer", "")
    BY UseNames
  <2>3. at[t] + 1 = 7 /\ "transfer" \in Uses
    BY <1>10 DEF Uses
  <2>4. Used(t, {at[t] + 1})
    BY <1>2, <2>1, <2>2, <2>3, UseDone, Zenon
  <2>5. Moved(t, {7}) /\ UNCHANGED <<running, locked>>
    BY <2>3, <2>4 DEF Used
  <2>6. (ignored => ignored') /\ (bus => bus')
        /\ \A p \in St!Pins : (Taken(p) => Taken(p)') /\ (Drives(p) => Drives(p)')
    BY <1>2, <2>5, Grows
  <2>7. ~ignored' => Knows(t, 7, pinFn', dir', bus')
    BY <1>2, <1>10, <2>6 DEF Knows, Taken, Drives, St!Pins
  <2> QED BY <1>3, <1>4, <2>5, <2>7, EffectOf
<1>11. CASE at[t] = 7
  <2>1. Now(t) = St!Create("water_sensor") /\ "water_sensor" \in Creates(t)
    BY <1>2, <1>11, WaterInitBody DEF Creates
  <2>2. /\ Moved(t, {8}) /\ running' \ running \subseteq {"water_sensor"}
        /\ UNCHANGED <<pinFn, dir, bus, locked>>
    BY <1>2, <1>11, <2>1, CreateDone
  <2>3. (ignored => ignored') /\ (bus => bus')
        /\ \A p \in St!Pins : (Taken(p) => Taken(p)') /\ (Drives(p) => Drives(p)')
    BY <1>2, <2>2, Grows
  <2>4. ~ignored' => Knows(t, 8, pinFn', dir', bus')
    BY <1>2, <1>11, <2>3 DEF Knows, Taken, Drives, St!Pins
  <2>5. ~ignored' => Knows("water_sensor", 1, pinFn', dir', bus')
    BY <1>2, <1>11, <2>3 DEF Knows, Taken, Drives, St!Pins
  <2>6. \A u \in running' \ running : ~ignored' => Knows(u, 1, pinFn', dir', bus')
    BY <2>2, <2>5
  <2>7. locked' = FALSE
    BY <1>3, <2>2
  <2>8. 8 \in Ends(t)
    BY <1>4
  <2> QED BY <2>2, <2>4, <2>6, <2>7, <2>8, EffectNew, Zenon
<1> QED BY <1>2, <1>5, <1>6, <1>7, <1>8, <1>9, <1>10, <1>11

LEMMA RtcInitSteps ==
  ASSUME StartInv, "app_demo_rtc_task" \in running, Stepped("app_demo_rtc_task")
  PROVE  Effect("app_demo_rtc_task")
<1> DEFINE t == "app_demo_rtc_task"
<1>1. Len(St!Body(t)) = 3
  BY RtcInitBody
<1>2. /\ t \in St!Tasks /\ at[t] \in 1..3 /\ Now(t) = St!Body(t)[at[t]]
      /\ ~ignored => Knows(t, at[t], pinFn, dir, bus)
  BY <1>1, Position DEF Now
<1>3. ~locked
  BY Position
<1>4. \A n \in 1..4 : n \in Ends(t)
  BY <1>1, EndsOf, Zenon
<1>5. CASE at[t] = 1
  <2>1. Now(t) = St!Func("13", FnOf("13"))
    BY <1>2, <1>5, RtcInitBody DEF FnOf
  <2>2. Moved(t, {2}) /\ UNCHANGED <<running, locked>> /\ (~ignored' => Taken("13")')
    BY <1>2, <1>5, <2>1, FuncDone DEF St!Pins
  <2>3. (ignored => ignored') /\ (bus => bus')
        /\ \A p \in St!Pins : (Taken(p) => Taken(p)') /\ (Drives(p) => Drives(p)')
    BY <1>2, <2>2, Grows
  <2>4. ~ignored' => Knows(t, 2, pinFn', dir', bus')
    BY <1>2, <1>5, <2>2, <2>3 DEF Knows, Taken, Drives, St!Pins
  <2> QED BY <1>3, <1>4, <2>2, <2>4, EffectOf
<1>6. CASE at[t] = 2
  <2>1. Now(t) = St!Func("14", FnOf("14"))
    BY <1>2, <1>6, RtcInitBody DEF FnOf
  <2>2. Moved(t, {3}) /\ UNCHANGED <<running, locked>> /\ (~ignored' => Taken("14")')
    BY <1>2, <1>6, <2>1, FuncDone DEF St!Pins
  <2>3. (ignored => ignored') /\ (bus => bus')
        /\ \A p \in St!Pins : (Taken(p) => Taken(p)') /\ (Drives(p) => Drives(p)')
    BY <1>2, <2>2, Grows
  <2>4. ~ignored' => Knows(t, 3, pinFn', dir', bus')
    BY <1>2, <1>6, <2>2, <2>3 DEF Knows, Taken, Drives, St!Pins
  <2> QED BY <1>3, <1>4, <2>2, <2>4, EffectOf
<1>7. CASE at[t] = 3
  <2>1. Now(t) = St!Create("rtc_timer") /\ "rtc_timer" \in Creates(t)
    BY <1>2, <1>7, RtcInitBody DEF Creates
  <2>2. /\ Moved(t, {4}) /\ running' \ running \subseteq {"rtc_timer"}
        /\ UNCHANGED <<pinFn, dir, bus, locked>>
    BY <1>2, <1>7, <2>1, CreateDone
  <2>3. (ignored => ignored') /\ (bus => bus')
        /\ \A p \in St!Pins : (Taken(p) => Taken(p)') /\ (Drives(p) => Drives(p)')
    BY <1>2, <2>2, Grows
  <2>4. ~ignored' => Knows(t, 4, pinFn', dir', bus')
    BY <1>2, <1>7, <2>3 DEF Knows, Taken, Drives, St!Pins
  <2>5. ~ignored' => Knows("rtc_timer", 1, pinFn', dir', bus')
    BY <1>2, <1>7, <2>3 DEF Knows, Taken, Drives, St!Pins
  <2>6. \A u \in running' \ running : ~ignored' => Knows(u, 1, pinFn', dir', bus')
    BY <2>2, <2>5
  <2>7. locked' = FALSE
    BY <1>3, <2>2
  <2>8. 4 \in Ends(t)
    BY <1>4
  <2> QED BY <2>2, <2>4, <2>6, <2>7, <2>8, EffectNew, Zenon
<1> QED BY <1>2, <1>5, <1>6, <1>7

LEMMA Hx711Steps ==
  ASSUME StartInv, "hi_hx711_task" \in running, Stepped("hi_hx711_task")
  PROVE  Effect("hi_hx711_task")
<1> DEFINE t == "hi_hx711_task"
<1>1. Len(St!Body(t)) = 12
  BY Hx711Body
<1>2. /\ t \in St!Tasks /\ at[t] \in 1..12 /\ Now(t) = St!Body(t)[at[t]]
      /\ ~ignored => Knows(t, at[t], pinFn, dir, bus)
  BY <1>1, Position DEF Now
<1>3. ~locked
  BY Position
<1>4. \A n \in 1..13 : n \in Ends(t)
  BY <1>1, EndsOf, Zenon
<1>5. CASE at[t] = 1
  <2>1. Now(t) = St!Func("13", FnOf("13"))
    BY <1>2, <1>5, Hx711Body DEF FnOf
  <2>2. Moved(t, {2}) /\ UNCHANGED <<running, locked>> /\ (~ignored' => Taken("13")')
    BY <1>2, <1>5, <2>1, FuncDone DEF St!Pins
  <2>3. (ignored => ignored') /\ (bus => bus')
        /\ \A p \in St!Pins : (Taken(p) => Taken(p)') /\ (Drives(p) => Drives(p)')
    BY <1>2, <2>2, Grows
  <2>4. ~ignored' => Knows(t, 2, pinFn', dir', bus')
    BY <1>2, <1>5, <2>2, <2>3 DEF Knows, Taken, Drives, St!Pins
  <2> QED BY <1>3, <1>4, <2>2, <2>4, EffectOf
<1>6. CASE at[t] = 2
  <2>1. Now(t) = St!Func("14", FnOf("14"))
    BY <1>2, <1>6, Hx711Body DEF FnOf
  <2>2. Moved(t, {3}) /\ UNCHANGED <<running, locked>> /\ (~ignored' => Taken("14")')
    BY <1>2, <1>6, <2>1, FuncDone DEF St!Pins
  <2>3. (ignored => ignored') /\ (bus => bus')
        /\ \A p \in St!Pins : (Taken(p) => Taken(p)') /\ (Drives(p) => Drives(p)')
    BY <1>2, <2>2, Grows
  <2>4. ~ignored' => Knows(t, 3, pinFn', dir', bus')
    BY <1>2, <1>6, <2>2, <2>3 DEF Knows, Taken, Drives, St!Pins
  <2> QED BY <1>3, <1>4, <2>2, <2>4, EffectOf
<1>7. CASE at[t] = 3
  <2>1. Now(t) = St!Func("11", FnOf("11"))
    BY <1>2, <1>7, Hx711Body DEF FnOf
  <2>2. Moved(t, {4}) /\ UNCHANGED <<running, locked>> /\ (~ignored' => Taken("11")')
    BY <1>2, <1>7, <2>1, FuncDone DEF St!Pins
  <2>3. (ignored => ignored') /\ (bus => bus')
        /\ \A p \in St!Pins : (Taken(p) => Taken(p)') /\ (Drives(p) => Drives(p)')
    BY <1>2, <2>2, Grows
  <2>4. ~ignored' => Knows(t, 4, pinFn', dir', bus')
    BY <1>2, <1>7, <2>2, <2>3 DEF Knows, Taken, Drives, St!Pins
  <2> QED BY <1>3, <1>4, <2>2, <2>4, EffectOf
<1>8. CASE at[t] = 4
  <2>1. Now(t) = St!Dir("11", DirOf("11"))
    BY <1>2, <1>8, Hx711Body DEF DirOf, Driven
  <2>2. Moved(t, {5}) /\ UNCHANGED <<running, locked>>
    BY <1>2, <1>8, <2>1, DirDone DEF St!Pins
  <2>3. (ignored => ignored') /\ (bus => bus')
        /\ \A p \in St!Pins : (Taken(p) => Taken(p)') /\ (Drives(p) => Drives(p)')
    BY <1>2, <2>2, Grows
  <2>4. ~ignored' => Knows(t, 5, pinFn', dir', bus')
    BY <1>2, <1>8, <2>2, <2>3 DEF Knows, Taken, Drives, St!Pins
  <2> QED BY <1>3, <1>4, <2>2, <2>4, EffectOf
<1>9. CASE at[t] = 5
  <2>1. Now(t) = St!Func("12", FnOf("12"))
    BY <1>2, <1>9, Hx711Body DEF FnOf
  <2>2. Moved(t, {6}) /\ UNCHANGED <<running, locked>> /\ (~ignored' => Taken("12")')
    BY <1>2, <1>9, <2>1, FuncDone DEF St!Pins
  <2>3. (ignored => ignored') /\ (bus => bus')
        /\ \A p \in St!Pins : (Taken(p) => Taken(p)') /\ (Drives(p) => Drives(p)')
    BY <1>2, <2>2, Grows
  <2>4. ~ignored' => Knows(t, 6, pinFn', dir', bus')
    BY <1>2, <1>9, <2>2, <2>3 DEF Knows, Taken, Drives, St!Pins
  <2> QED BY <1>3, <1>4, <2>2, <2>4, EffectOf
<1>10. CASE at[t] = 6
  <2>1. Now(t) = St!Dir("12", DirOf("12"))
    BY <1>2, <1>10, Hx711Body DEF DirOf, Driven
  <2>2. /\ Moved(t, {7}) /\ UNCHANGED <<running, locked>>
        /\ ~ignored' => (Taken("12") => Drives("12")')
    BY <1>2, <1>10, <2>1, DirDone DEF St!Pins, Driven
  <2>3. (ignored => ignored') /\ (bus => bus')
        /\ \A p \in St!Pins : (Taken(p) => Taken(p)') /\ (Drives(p) => Drives(p)')
    BY <1>2, <2>2, Grows
  <2>4. ~ignored' => Knows(t, 7, pinFn', dir', bus')
    BY <1>2, <1>10, <2>2, <2>3 DEF Knows, Taken, Drives, St!Pins
  <2> QED BY <1>3, <1>4, <2>2, <2>4, EffectOf
<1>11. CASE at[t] = 7
  <2>1. Now(t) = St!Out("12")
    BY <1>2, <1>11, Hx711Body
  <2>2. St!Out("12") = Use("out", "12")
    BY UseNames
  <2>3. at[t] + 1 = 8 /\ "out" \in Uses
    BY <1>11 DEF Uses
  <2>4. Used(t, {at[t] + 1})
    BY <1>2, <2>1, <2>2, <2>3, UseDone, Zenon
  <2>5. Moved(t, {8}) /\ UNCHANGED <<running, locked>>
    BY <2>3, <2>4 DEF Used
  <2>6. (ignored => ignored') /\ (bus => bus')
        /\ \A p \in St!Pins : (Taken(p) => Taken(p)') /\ (Drives(p) => Drives(p)')
    BY <1>2, <2>5, Grows
  <2>7. ~ignored' => Knows(t, 8, pinFn', dir', bus')
    BY <1>2, <1>11, <2>6 DEF Knows, Taken, Drives, St!Pins
  <2> QED BY <1>3, <1>4, <2>5, <2>7, EffectOf
<1>12. CASE at[t] = 8
  <2>1. Now(t) = St!Open
    BY <1>2, <1>12, Hx711Body
  <2>2. Moved(t, {9}) /\ UNCHANGED <<running, locked>> /\ (~ignored' => bus')
    BY <1>2, <1>12, <2>1, OpenDone
  <2>3. (ignored => ignored') /\ (bus => bus')
        /\ \A p \in St!Pins : (Taken(p) => Taken(p)') /\ (Drives(p) => Drives(p)')
    BY <1>2, <2>2, Grows
  <2>4. ~ignored' => Knows(t, 9, pinFn', dir', bus')
    BY <1>2, <1>12, <2>2, <2>3 DEF Knows, Taken, Drives, St!Pins
  <2> QED BY <1>3, <1>4, <2>2, <2>4, EffectOf
<1>13. CASE at[t] = 9
  <2>1. Now(t) = St!Checked(St!Transfer, 9)
    BY <1>2, <1>13, Hx711Body
  <2>2. St!Transfer = Use("transfer", "")
    BY UseNames
  <2>3. at[t] + 1 = 10 /\ 9 \in Nat \ {0} /\ "transfer" \in Uses
    BY <1>13 DEF Uses
  <2>4. Used(t, {at[t] + 1, 9})
    BY <1>2, <2>1, <2>2, <2>3, CheckedDone, Zenon
  <2>5. UNCHANGED <<running, locked>> /\ \E n \in {10, 9} : Moved(t, {n})
    BY <2>3, <2>4 DEF Used, Moved, Went
  <2>6. PICK n \in {10, 9} : Moved(t, {n})
    BY <2>5
  <2>7. (ignored => ignored') /\ (bus => bus')
        /\ \A p \in St!Pins : (Taken(p) => Taken(p)') /\ (Drives(p) => Drives(p)')
    BY <1>2, <2>6, Grows
  <2>8. ~ignored' => Knows(t, n, pinFn', dir', bus')
    BY <1>2, <1>13, <2>6, <2>7 DEF Knows, Taken, Drives, St!Pins
  <2> QED BY <1>3, <1>4, <2>5, <2>6, <2>8, EffectOf
<1>14. CASE at[t] = 10
  <2>1. Now(t) = St!In("11")
    BY <1>2, <1>14, Hx711Body
  <2>2. St!In("11") = Use("in", "11")
    BY UseNames
  <2>3. at[t] + 1 = 11 /\ "in" \in Uses
    BY <1>14 DEF Uses
  <2>4. Used(t, {at[t] + 1})
    BY <1>2, <2>1, <2>2, <2>3, UseDone, Zenon
  <2>5. Moved(t, {11}) /\ UNCHANGED <<running, locked>>
    BY <2>3, <2>4 DEF Used
  <2>6. (ignored => ignored') /\ (bus => bus')
        /\ \A p \in St!Pins : (Taken(p) => Taken(p)') /\ (Drives(p) => Drives(p)')
    BY <1>2, <2>5, Grows
  <2>7. ~ignored' => Knows(t, 11, pinFn', dir', bus')
    BY <1>2, <1>14, <2>6 DEF Knows, Taken, Drives, St!Pins
  <2> QED BY <1>3, <1>4, <2>5, <2>7, EffectOf
<1>15. CASE at[t] = 11
  <2>1. Now(t) = St!Out("12")
    BY <1>2, <1>15, Hx711Body
  <2>2. St!Out("12") = Use("out", "12")
    BY UseNames
  <2>3. at[t] + 1 = 12 /\ "out" \in Uses
    BY <1>15 DEF Uses
  <2>4. Used(t, {at[t] + 1})
    BY <1>2, <2>1, <2>2, <2>3, UseDone, Zenon
  <2>5. Moved(t, {12}) /\ UNCHANGED <<running, locked>>
    BY <2>3, <2>4 DEF Used
  <2>6. (ignored => ignored') /\ (bus => bus')
        /\ \A p \in St!Pins : (Taken(p) => Taken(p)') /\ (Drives(p) => Drives(p)')
    BY <1>2, <2>5, Grows
  <2>7. ~ignored' => Knows(t, 12, pinFn', dir', bus')
    BY <1>2, <1>15, <2>6 DEF Knows, Taken, Drives, St!Pins
  <2> QED BY <1>3, <1>4, <2>5, <2>7, EffectOf
<1>16. CASE at[t] = 12
  <2>1. Now(t) = St!Then(St!Transfer, 10)
    BY <1>2, <1>16, Hx711Body
  <2>2. St!Transfer = Use("transfer", "")
    BY UseNames
  <2>3. at[t] + 1 = 13 /\ 10 \in Nat \ {0} /\ "transfer" \in Uses
    BY <1>16 DEF Uses
  <2>4. Used(t, {10})
    BY <1>2, <2>1, <2>2, <2>3, ThenDone, Zenon
  <2>5. Moved(t, {10}) /\ UNCHANGED <<running, locked>>
    BY <2>3, <2>4 DEF Used
  <2>6. (ignored => ignored') /\ (bus => bus')
        /\ \A p \in St!Pins : (Taken(p) => Taken(p)') /\ (Drives(p) => Drives(p)')
    BY <1>2, <2>5, Grows
  <2>7. ~ignored' => Knows(t, 10, pinFn', dir', bus')
    BY <1>2, <1>16, <2>6 DEF Knows, Taken, Drives, St!Pins
  <2> QED BY <1>3, <1>4, <2>5, <2>7, EffectOf
<1> QED BY <1>2, <1>5, <1>6, <1>7, <1>8, <1>9, <1>10, <1>11, <1>12, <1>13, <1>14, <1>15, <1>16

LEMMA IoGpioSteps ==
  ASSUME StartInv, "app_demo_custom_io_gpio" \in running, Stepped("app_demo_custom_io_gpio")
  PROVE  Effect("app_demo_custom_io_gpio")
<1> DEFINE t == "app_demo_custom_io_gpio"
<1>1. Len(St!Body(t)) = 5
  BY IoGpioBody
<1>2. /\ t \in St!Tasks /\ at[t] \in 1..5 /\ Now(t) = St!Body(t)[at[t]]
      /\ ~ignored => Knows(t, at[t], pinFn, dir, bus)
  BY <1>1, Position DEF Now
<1>3. ~locked
  BY Position
<1>4. \A n \in 1..6 : n \in Ends(t)
  BY <1>1 DEF Ends
<1>5. CASE at[t] = 1
  <2>1. Now(t) = St!Checked(St!Func("0", FnOf("0")), 4)
    BY <1>2, <1>5, IoGpioBody DEF FnOf
  <2>2. "0" \in St!Pins /\ at[t] + 1 = 2 /\ 4 \in Nat \ {0}
    BY <1>5 DEF St!Pins
  <2>3. /\ (Moved(t, {at[t] + 1}) /\ Taken("0")') \/ Moved(t, {4})
        /\ UNCHANGED <<running, locked>>
    BY <1>2, <2>1, <2>2, CheckedFuncDone, Zenon
  <2>4. PICK n \in {2, 4} : Moved(t, {n}) /\ (n = 2 => Taken("0")')
    BY <2>2, <2>3
  <2>5. (ignored => ignored') /\ (bus => bus')
        /\ \A p \in St!Pins : (Taken(p) => Taken(p)') /\ (Drives(p) => Drives(p)')
    BY <1>2, <2>4, Grows
  <2>6. ~ignored' => Knows(t, n, pinFn', dir', bus')
    BY <1>2, <1>5, <2>4, <2>5 DEF Knows, Taken, Drives, St!Pins
  <2> QED BY <1>3, <1>4, <2>3, <2>4, <2>6, EffectOf
<1>6. CASE at[t] = 2
  <2>1. Now(t) = St!Checked(St!Dir("0", DirOf("0")), 4)
    BY <1>2, <1>6, IoGpioBody DEF DirOf, Driven
  <2>2. "0" \in St!Pins /\ "0" # "9" /\ at[t] + 1 = 3 /\ 4 \in Nat \ {0}
    BY <1>6 DEF St!Pins
  <2>3. Moved(t, {at[t] + 1, 4}) /\ UNCHANGED <<running, locked>>
    BY <1>2, <2>1, <2>2, CheckedDirDone, Zenon
  <2>4. PICK n \in {3, 4} : Moved(t, {n})
    BY <2>2, <2>3 DEF Moved, Went
  <2>5. (ignored => ignored') /\ (bus => bus')
        /\ \A p \in St!Pins : (Taken(p) => Taken(p)') /\ (Drives(p) => Drives(p)')
    BY <1>2, <2>4, Grows
  <2>6. ~ignored' => Knows(t, n, pinFn', dir', bus')
    BY <1>2, <1>6, <2>4, <2>5 DEF Knows, Taken, Drives, St!Pins
  <2> QED BY <1>3, <1>4, <2>3, <2>4, <2>6, EffectOf
<1>7. CASE at[t] = 3
  <2>1. Now(t) = St!Checked(St!In("0"), 4)
    BY <1>2, <1>7, IoGpioBody
  <2>2. St!In("0") = Use("in", "0")
    BY UseNames
  <2>3. at[t] + 1 = 4 /\ 4 \in Nat \ {0} /\ "in" \in Uses
    BY <1>7 DEF Uses
  <2>4. Used(t, {at[t] + 1, 4})
    BY <1>2, <2>1, <2>2, <2>3, CheckedDone, Zenon
  <2>5. UNCHANGED <<running, locked>> /\ \E n \in {4, 4} : Moved(t, {n})
    BY <2>3, <2>4 DEF Used, Moved, Went
  <2>6. PICK n \in {4, 4} : Moved(t, {n})
    BY <2>5
  <2>7. (ignored => ignored') /\ (bus => bus')
        /\ \A p \in St!Pins : (Taken(p) => Taken(p)') /\ (Drives(p) => Drives(p)')
    BY <1>2, <2>6, Grows
  <2>8. ~ignored' => Knows(t, n, pinFn', dir', bus')
    BY <1>2, <1>7, <2>6, <2>7 DEF Knows, Taken, Drives, St!Pins
  <2> QED BY <1>3, <1>4, <2>5, <2>6, <2>8, EffectOf
<1>8. CASE at[t] = 4
  <2>1. Now(t) = St!Checked(St!Dir("0", DirOf("0")), 6)
    BY <1>2, <1>8, IoGpioBody DEF DirOf, Driven
  <2>2. "0" \in St!Pins /\ "0" # "9" /\ at[t] + 1 = 5 /\ 6 \in Nat \ {0}
    BY <1>8 DEF St!Pins
  <2>3. Moved(t, {at[t] + 1, 6}) /\ UNCHANGED <<running, locked>>
    BY <1>2, <2>1, <2>2, CheckedDirDone, Zenon
  <2>4. PICK n \in {5, 6} : Moved(t, {n})
    BY <2>2, <2>3 DEF Moved, Went
  <2>5. (ignored => ignored') /\ (bus => bus')
        /\ \A p \in St!Pins : (Taken(p) => Taken(p)') /\ (Drives(p) => Drives(p)')
    BY <1>2, <2>4, Grows
  <2>6. ~ignored' => Knows(t, n, pinFn', dir', bus')
    BY <1>2, <1>8, <2>4, <2>5 DEF Knows, Taken, Drives, St!Pins
  <2> QED BY <1>3, <1>4, <2>3, <2>4, <2>6, EffectOf
<1>9. CASE at[t] = 5
  <2>1. Now(t) = St!Isr("0")
    BY <1>2, <1>9, IoGpioBody
  <2>2. St!Isr("0") = Use("isr", "0")
    BY UseNames
  <2>3. at[t] + 1 = 6 /\ "isr" \in Uses
    BY <1>9 DEF Uses
  <2>4. Used(t, {at[t] + 1})
    BY <1>2, <2>1, <2>2, <2>3, UseDone, Zenon
  <2>5. Moved(t, {6}) /\ UNCHANGED <<running, locked>>
    BY <2>3, <2>4 DEF Used
  <2>6. (ignored => ignored') /\ (bus => bus')
        /\ \A p \in St!Pins : (Taken(p) => Taken(p)') /\ (Drives(p) => Drives(p)')
    BY <1>2, <2>5, Grows
  <2>7. ~ignored' => Knows(t, 6, pinFn', dir', bus')
    BY <1>2, <1>9, <2>6 DEF Knows, Taken, Drives, St!Pins
  <2> QED BY <1>3, <1>4, <2>5, <2>7, EffectOf
<1> QED BY <1>2, <1>5, <1>6, <1>7, <1>8, <1>9

LEMMA GyroInitSteps ==
  ASSUME StartInv, "app_demo_gy521" \in running, Stepped("app_demo_gy521")
  PROVE  Effect("app_demo_gy521")
<1> DEFINE t == "app_demo_gy521"
<1>1. Len(St!Body(t)) = 1
  BY GyroInitBody
<1>2. /\ t \in St!Tasks /\ at[t] \in 1..1 /\ Now(t) = St!Body(t)[at[t]]
      /\ ~ignored => Knows(t, at[t], pinFn, dir, bus)
  BY <1>1, Position DEF Now
<1>3. ~locked
  BY Position
<1>4. \A n \in 1..2 : n \in Ends(t)
  BY <1>1 DEF Ends
<1>5. at[t] = 1
  BY <1>2
<1>6. Effect(t)
  <2>1. Now(t) = St!Create("gy521_mpu6050") /\ "gy521_mpu6050" \in Creates(t)
    BY <1>2, <1>5, GyroInitBody DEF Creates
  <2>2. /\ Moved(t, {2}) /\ running' \ running \subseteq {"gy521_mpu6050"}
        /\ UNCHANGED <<pinFn, dir, bus, locked>>
    BY <1>2, <1>5, <2>1, CreateDone
  <2>3. (ignored => ignored') /\ (bus => bus')
        /\ \A p \in St!Pins : (Taken(p) => Taken(p)') /\ (Drives(p) => Drives(p)')
    BY <1>2, <2>2, Grows
  <2>4. ~ignored' => Knows(t, 2, pinFn', dir', bus')
    BY <1>2, <1>5, <2>3 DEF Knows, Taken, Drives, St!Pins
  <2>5. ~ignored' => Knows("gy521_mpu6050", 1, pinFn', dir', bus')
    BY <1>2, <1>5, <2>3 DEF Knows, Taken, Drives, St!Pins
  <2>6. \A u \in running' \ running : ~ignored' => Knows(u, 1, pinFn', dir', bus')
    BY <2>2, <2>5
  <2>7. locked' = FALSE
    BY <1>3, <2>2
  <2>8. 2 \in Ends(t)
    BY <1>4
  <2> QED BY <2>2, <2>4, <2>6, <2>7, <2>8, EffectNew, Zenon
<1> QED BY <1>6

LEMMA RotationSteps ==
  ASSUME StartInv, "rotation_sensor" \in running, Stepped("rotation_sensor")
  PROVE  Effect("rotation_sensor")
<1> DEFINE t == "rotation_sensor"
<1>1. Len(St!Body(t)) = 1
  BY RotationBody
<1>2. /\ t \in St!Tasks /\ at[t] \in 1..1 /\ Now(t) = St!Body(t)[at[t]]
      /\ ~ignored => Knows(t, at[t], pinFn, dir, bus)
  BY <1>1, Position DEF Now
<1>3. ~locked
  BY Position
<1>4. \A n \in 1..2 : n \in Ends(t)
  BY <1>1 DEF Ends
<1>5. at[t] = 1
  BY <1>2
<1>6. Effect(t)
  <2>1. Now(t) = Branch(St!Adc("5"), 1, 2)
    BY <1>2, <1>5, RotationBody DEF Branch
  <2>2. St!Adc("5") = Use("adc", "5")
    BY UseNames
  <2>3. at[t] + 1 = 2 /\ 1 \in Nat \ {0} /\ 2 \in Nat \ {0} /\ "adc" \in Uses
    BY <1>5 DEF Uses
  <2>4. Used(t, {1, 2})
    BY <1>2, <2>1, <2>2, <2>3, BranchDone, Zenon
  <2>5. UNCHANGED <<running, locked>> /\ \E n \in {1, 2} : Moved(t, {n})
    BY <2>3, <2>4 DEF Used, Moved, Went
  <2>6. PICK n \in {1, 2} : Moved(t, {n})
    BY <2>5
  <2>7. (ignored => ignored') /\ (bus => bus')
        /\ \A p \in St!Pins : (Taken(p) => Taken(p)') /\ (Drives(p) => Drives(p)')
    BY <1>2, <2>6, Grows
  <2>8. ~ignored' => Knows(t, n, pinFn', dir', bus')
    BY <1>2, <1>5, <2>6, <2>7 DEF Knows, Taken, Drives, St!Pins
  <2> QED BY <1>3, <1>4, <2>5, <2>6, <2>8, EffectOf
<1> QED BY <1>6

LEMMA WaterSteps ==
  ASSUME StartInv, "water_sensor" \in running, Stepped("water_sensor")
  PROVE  Effect("water_sensor")
<1> DEFINE t == "water_sensor"
<1>1. Len(St!Body(t)) = 2
  BY WaterBody
<1>2. /\ t \in St!Tasks /\ at[t] \in 1..2 /\ Now(t) = St!Body(t)[at[t]]
      /\ ~ignored => Knows(t, at[t], pinFn, dir, bus)
  BY <1>1, Position DEF Now
<1>3. ~locked
  BY Position
<1>4. \A n \in 1..3 : n \in Ends(t)
  BY <1>1 DEF Ends
<1>5. CASE at[t] = 1
  <2>1. Now(t) = St!Checked(St!Adc("7"), 3)
    BY <1>2, <1>5, WaterBody
  <2>2. St!Adc("7") = Use("adc", "7")
    BY UseNames
  <2>3. at[t] + 1 = 2 /\ 3 \in Nat \ {0} /\ "adc" \in Uses
    BY <1>5 DEF Uses
  <2>4. Used(t, {at[t] + 1, 3})
    BY <1>2, <2>1, <2>2, <2>3, CheckedDone, Zenon
  <2>5. UNCHANGED <<running, locked>> /\ \E n \in {2, 3} : Moved(t, {n})
    BY <2>3, <2>4 DEF Used, Moved, Went
  <2>6. PICK n \in {2, 3} : Moved(t, {n})
    BY <2>5
  <2>7. (ignored => ignored') /\ (bus => bus')
        /\ \A p \in St!Pins : (Taken(p) => Taken(p)') /\ (Drives(p) => Drives(p)')
    BY <1>2, <2>6, Grows
  <2>8. ~ignored' => Knows(t, n, pinFn', dir', bus')
    BY <1>2, <1>5, <2>6, <2>7 DEF Knows, Taken, Drives, St!Pins
  <2> QED BY <1>3, <1>4, <2>5, <2>6, <2>8, EffectOf
<1>6. CASE at[t] = 2
  <2>1. Now(t) = St!Then(St!Transfer, 1)
    BY <1>2, <1>6, WaterBody
  <2>2. St!Transfer = Use("transfer", "")
    BY UseNames
  <2>3. at[t] + 1 = 3 /\ 1 \in Nat \ {0} /\ "transfer" \in Uses
    BY <1>6 DEF Uses
  <2>4. Used(t, {1})
    BY <1>2, <2>1, <2>2, <2>3, ThenDone, Zenon
  <2>5. Moved(t, {1}) /\ UNCHANGED <<running, locked>>
    BY <2>3, <2>4 DEF Used
  <2>6. (ignored => ignored') /\ (bus => bus')
        /\ \A p \in St!Pins : (Taken(p) => Taken(p)') /\ (Drives(p) => Drives(p)')
    BY <1>2, <2>5, Grows
  <2>7. ~ignored' => Knows(t, 1, pinFn', dir', bus')
    BY <1>2, <1>6, <2>6 DEF Knows, Taken, Drives, St!Pins
  <2> QED BY <1>3, <1>4, <2>5, <2>7, EffectOf
<1> QED BY <1>2, <1>5, <1>6

LEMMA RtcSteps ==
  ASSUME StartInv, "rtc_timer" \in running, Stepped("rtc_timer")
  PROVE  Effect("rtc_timer")
<1> DEFINE t == "rtc_timer"
<1>1. Len(St!Body(t)) = 2
  BY RtcBody
<1>2. /\ t \in St!Tasks /\ at[t] \in 1..2 /\ Now(t) = St!Body(t)[at[t]]
      /\ ~ignored => Knows(t, at[t], pinFn, dir, bus)
  BY <1>1, Position DEF Now
<1>3. ~locked
  BY Position
<1>4. \A n \in 1..3 : n \in Ends(t)
  BY <1>1 DEF Ends
<1>5. CASE at[t] = 1
  <2>1. Now(t) = St!Open
    BY <1>2, <1>5, RtcBody
  <2>2. Moved(t, {2}) /\ UNCHANGED <<running, locked>> /\ (~ignored' => bus')
    BY <1>2, <1>5, <2>1, OpenDone
  <2>3. (ignored => ignored') /\ (bus => bus')
        /\ \A p \in St!Pins : (Taken(p) => Taken(p)') /\ (Drives(p) => Drives(p)')
    BY <1>2, <2>2, Grows
  <2>4. ~ignored' => Knows(t, 2, pinFn', dir', bus')
    BY <1>2, <1>5, <2>2, <2>3 DEF Knows, Taken, Drives, St!Pins
  <2> QED BY <1>3, <1>4, <2>2, <2>4, EffectOf
<1>6. CASE at[t] = 2
  <2>1. Now(t) = St!Then(St!Transfer, 2)
    BY <1>2, <1>6, RtcBody
  <2>2. St!Transfer = Use("transfer", "")
    BY UseNames
  <2>3. at[t] + 1 = 3 /\ 2 \in Nat \ {0} /\ "transfer" \in Uses
    BY <1>6 DEF Uses
  <2>4. Used(t, {2})
    BY <1>2, <2>1, <2>2, <2>3, ThenDone, Zenon
  <2>5. Moved(t, {2}) /\ UNCHANGED <<running, locked>>
    BY <2>3, <2>4 DEF Used
  <2>6. (ignored => ignored') /\ (bus => bus')
        /\ \A p \in St!Pins : (Taken(p) => Taken(p)') /\ (Drives(p) => Drives(p)')
    BY <1>2, <2>5, Grows
  <2>7. ~ignored' => Knows(t, 2, pinFn', dir', bus')
    BY <1>2, <1>6, <2>6 DEF Knows, Taken, Drives, St!Pins
  <2> QED BY <1>3, <1>4, <2>5, <2>7, EffectOf
<1> QED BY <1>2, <1>5, <1>6

LEMMA OledSteps ==
  ASSUME StartInv, "app_i2c_oled_demo" \in running, Stepped("app_i2c_oled_demo")
  PROVE  Effect("app_i2c_oled_demo")
<1> DEFINE t == "app_i2c_oled_demo"
<1>1. Len(St!Body(t)) = 6
  BY OledBody
<1>2. /\ t \in St!Tasks /\ at[t] \in 1..6 /\ Now(t) = St!Body(t)[at[t]]
      /\ ~ignored => Knows(t, at[t], pinFn, dir, bus)
  BY <1>1, Position DEF Now
<1>3. ~locked
  BY Position
<1>4. \A n \in 1..7 : n \in Ends(t)
  BY <1>1 DEF Ends
<1>5. CASE at[t] = 1
  <2>1. Now(t) = St!Open
    BY <1>2, <1>5, OledBody
  <2>2. Moved(t, {2}) /\ UNCHANGED <<running, locked>> /\ (~ignored' => bus')
    BY <1>2, <1>5, <2>1, OpenDone
  <2>3. (ignored => ignored') /\ (bus => bus')
        /\ \A p \in St!Pins : (Taken(p) => Taken(p)') /\ (Drives(p) => Drives(p)')
    BY <1>2, <2>2, Grows
  <2>4. ~ignored' => Knows(t, 2, pinFn', dir', bus')
    BY <1>2, <1>5, <2>2, <2>3 DEF Knows, Taken, Drives, St!Pins
  <2> QED BY <1>3, <1>4, <2>2, <2>4, EffectOf
<1>6. CASE at[t] = 2
  <2>1. Now(t) = Branch(St!Transfer, 6, 3)
    BY <1>2, <1>6, OledBody DEF Branch
  <2>2. St!Transfer = Use("transfer", "")
    BY UseNames
  <2>3. at[t] + 1 = 3 /\ 6 \in Nat \ {0} /\ 3 \in Nat \ {0} /\ "transfer" \in Uses
    BY <1>6 DEF Uses
  <2>4. Used(t, {6, 3})
    BY <1>2, <2>1, <2>2, <2>3, BranchDone, Zenon
  <2>5. UNCHANGED <<running, locked>> /\ \E n \in {6, 3} : Moved(t, {n})
    BY <2>3, <2>4 DEF Used, Moved, Went
  <2>6. PICK n \in {6, 3} : Moved(t, {n})
    BY <2>5
  <2>7. (ignored => ignored') /\ (bus => bus')
        /\ \A p \in St!Pins : (Taken(p) => Taken(p)') /\ (Drives(p) => Drives(p)')
    BY <1>2, <2>6, Grows
  <2>8. ~ignored' => Knows(t, n, pinFn', dir', bus')
    BY <1>2, <1>6, <2>6, <2>7 DEF Knows, Taken, Drives, St!Pins
  <2> QED BY <1>3, <1>4, <2>5, <2>6, <2>8, EffectOf
<1>7. CASE at[t] = 3
  <2>1. Now(t) = St!Func("9", FnOf("9"))
    BY <1>2, <1>7, OledBody DEF FnOf
  <2>2. Moved(t, {4}) /\ UNCHANGED <<running, locked>> /\ (~ignored' => Taken("9")')
    BY <1>2, <1>7, <2>1, FuncDone DEF St!Pins
  <2>3. (ignored => ignored') /\ (bus => bus')
        /\ \A p \in St!Pins : (Taken(p) => Taken(p)') /\ (Drives(p) => Drives(p)')
    BY <1>2, <2>2, Grows
  <2>4. ~ignored' => Knows(t, 4, pinFn', dir', bus')
    BY <1>2, <1>7, <2>2, <2>3 DEF Knows, Taken, Drives, St!Pins
  <2> QED BY <1>3, <1>4, <2>2, <2>4, EffectOf
<1>8. CASE at[t] = 4
  <2>1. Now(t) = St!Dir("9", DirOf("9"))
    BY <1>2, <1>8, OledBody DEF DirOf, Driven
  <2>2. /\ Moved(t, {5}) /\ UNCHANGED <<running, locked>>
        /\ ~ignored' => (Taken("9") => Drives("9")')
    BY <1>2, <1>8, <2>1, DirDone DEF St!Pins, Driven, Lit
  <2>3. (ignored => ignored') /\ (bus => bus')
        /\ \A p \in St!Pins : (Taken(p) => Taken(p)') /\ (Drives(p) => Drives(p)')
    BY <1>2, <2>2, Grows
  <2>4. ~ignored' => Knows(t, 5, pinFn', dir', bus')
    BY <1>2, <1>8, <2>2, <2>3 DEF Knows, Taken, Drives, St!Pins
  <2> QED BY <1>3, <1>4, <2>2, <2>4, EffectOf
<1>9. CASE at[t] = 5
  <2>1. Now(t) = St!Then(St!Out("9"), 2)
    BY <1>2, <1>9, OledBody
  <2>2. St!Out("9") = Use("out", "9")
    BY UseNames
  <2>3. at[t] + 1 = 6 /\ 2 \in Nat \ {0} /\ "out" \in Uses
    BY <1>9 DEF Uses
  <2>4. Used(t, {2})
    BY <1>2, <2>1, <2>2, <2>3, ThenDone, Zenon
  <2>5. Moved(t, {2}) /\ UNCHANGED <<running, locked>>
    BY <2>3, <2>4 DEF Used
  <2>6. (ignored => ignored') /\ (bus => bus')
        /\ \A p \in St!Pins : (Taken(p) => Taken(p)') /\ (Drives(p) => Drives(p)')
    BY <1>2, <2>5, Grows
  <2>7. ~ignored' => Knows(t, 2, pinFn', dir', bus')
    BY <1>2, <1>9, <2>6 DEF Knows, Taken, Drives, St!Pins
  <2> QED BY <1>3, <1>4, <2>5, <2>7, EffectOf
<1>10. CASE at[t] = 6
  <2>1. Now(t) = St!Then(St!Transfer, 6)
    BY <1>2, <1>10, OledBody
  <2>2. St!Transfer = Use("transfer", "")
    BY UseNames
  <2>3. at[t] + 1 = 7 /\ 6 \in Nat \ {0} /\ "transfer" \in Uses
    BY <1>10 DEF Uses
  <2>4. Used(t, {6})
    BY <1>2, <2>1, <2>2, <2>3, ThenDone, Zenon
  <2>5. Moved(t, {6}) /\ UNCHANGED <<running, locked>>
    BY <2>3, <2>4 DEF Used
  <2>6. (ignored => ignored') /\ (bus => bus')
        /\ \A p \in St!Pins : (Taken(p) => Taken(p)') /\ (Drives(p) => Drives(p)')
    BY <1>2, <2>5, Grows
  <2>7. ~ignored' => Knows(t, 6, pinFn', dir', bus')
    BY <1>2, <1>10, <2>6 DEF Knows, Taken, Drives, St!Pins
  <2> QED BY <1>3, <1>4, <2>5, <2>7, EffectOf
<1> QED BY <1>2, <1>5, <1>6, <1>7, <1>8, <1>9, <1>10

LEMMA CanSteps ==
  ASSUME StartInv, "app_demo_smart_trash_can" \in running, Stepped("app_demo_smart_trash_can")
  PROVE  Effect("app_demo_smart_trash_can")
<1> DEFINE t == "app_demo_smart_trash_can"
<1>1. Len(St!Body(t)) = 11
  BY CanBody
<1>2. /\ t \in St!Tasks /\ at[t] \in 1..11 /\ Now(t) = St!Body(t)[at[t]]
      /\ ~ignored => Knows(t, at[t], pinFn, dir, bus)
  BY <1>1, Position DEF Now
<1>3. ~locked
  BY Position
<1>4. \A n \in 1..12 : n \in Ends(t)
  BY <1>1, EndsOf, Zenon
<1>5. CASE at[t] = 1
  <2>1. Now(t) = St!Func("6", FnOf("6"))
    BY <1>2, <1>5, CanBody DEF FnOf
  <2>2. Moved(t, {2}) /\ UNCHANGED <<running, locked>> /\ (~ignored' => Taken("6")')
    BY <1>2, <1>5, <2>1, FuncDone DEF St!Pins
  <2>3. (ignored => ignored') /\ (bus => bus')
        /\ \A p \in St!Pins : (Taken(p) => Taken(p)') /\ (Drives(p) => Drives(p)')
    BY <1>2, <2>2, Grows
  <2>4. ~ignored' => Knows(t, 2, pinFn', dir', bus')
    BY <1>2, <1>5, <2>2, <2>3 DEF Knows, Taken, Drives, St!Pins
  <2> QED BY <1>3, <1>4, <2>2, <2>4, EffectOf
<1>6. CASE at[t] = 2
  <2>1. Now(t) = St!Dir("6", DirOf("6"))
    BY <1>2, <1>6, CanBody DEF DirOf, Driven
  <2>2. /\ Moved(t, {3}) /\ UNCHANGED <<running, locked>>
        /\ ~ignored' => (Taken("6") => Drives("6")')
    BY <1>2, <1>6, <2>1, DirDone DEF St!Pins, Driven
  <2>3. (ignored => ignored') /\ (bus => bus')
        /\ \A p \in St!Pins : (Taken(p) => Taken(p)') /\ (Drives(p) => Drives(p)')
    BY <1>2, <2>2, Grows
  <2>4. ~ignored' => Knows(t, 3, pinFn', dir', bus')
    BY <1>2, <1>6, <2>2, <2>3 DEF Knows, Taken, Drives, St!Pins
  <2> QED BY <1>3, <1>4, <2>2, <2>4, EffectOf
<1>7. CASE at[t] = 3
  <2>1. Now(t) = St!Out("6")
    BY <1>2, <1>7, CanBody
  <2>2. St!Out("6") = Use("out", "6")
    BY UseNames
  <2>3. at[t] + 1 = 4 /\ "out" \in Uses
    BY <1>7 DEF Uses
  <2>4. Used(t, {at[t] + 1})
    BY <1>2, <2>1, <2>2, <2>3, UseDone, Zenon
  <2>5. Moved(t, {4}) /\ UNCHANGED <<running, locked>>
    BY <2>3, <2>4 DEF Used
  <2>6. (ignored => ignored') /\ (bus => bus')
        /\ \A p \in St!Pins : (Taken(p) => Taken(p)') /\ (Drives(p) => Drives(p)')
    BY <1>2, <2>5, Grows
  <2>7. ~ignored' => Knows(t, 4, pinFn', dir', bus')
    BY <1>2, <1>7, <2>6 DEF Knows, Taken, Drives, St!Pins
  <2> QED BY <1>3, <1>4, <2>5, <2>7, EffectOf
<1>8. CASE at[t] = 4
  <2>1. Now(t) = St!Func("8", FnOf("8"))
    BY <1>2, <1>8, CanBody DEF FnOf
  <2>2. Moved(t, {5}) /\ UNCHANGED <<running, locked>> /\ (~ignored' => Taken("8")')
    BY <1>2, <1>8, <2>1, FuncDone DEF St!Pins
  <2>3. (ignored => ignored') /\ (bus => bus')
        /\ \A p \in St!Pins : (Taken(p) => Taken(p)') /\ (Drives(p) => Drives(p)')
    BY <1>2, <2>2, Grows
  <2>4. ~ignored' => Knows(t, 5, pinFn', dir', bus')
    BY <1>2, <1>8, <2>2, <2>3 DEF Knows, Taken, Drives, St!Pins
  <2> QED BY <1>3, <1>4, <2>2, <2>4, EffectOf
<1>9. CASE at[t] = 5
  <2>1. Now(t) = St!Dir("8", DirOf("8"))
    BY <1>2, <1>9, CanBody DEF DirOf, Driven
  <2>2. /\ Moved(t, {6}) /\ UNCHANGED <<running, locked>>
        /\ ~ignored' => (Taken("8") => Drives("8")')
    BY <1>2, <1>9, <2>1, DirDone DEF St!Pins, Driven
  <2>3. (ignored => ignored') /\ (bus => bus')
        /\ \A p \in St!Pins : (Taken(p) => Taken(p)') /\ (Drives(p) => Drives(p)')
    BY <1>2, <2>2, Grows
  <2>4. ~ignored' => Knows(t, 6, pinFn', dir', bus')
    BY <1>2, <1>9, <2>2, <2>3 DEF Knows, Taken, Drives, St!Pins
  <2> QED BY <1>3, <1>4, <2>2, <2>4, EffectOf
<1>10. CASE at[t] = 6
  <2>1. Now(t) = St!Out("8")
    BY <1>2, <1>10, CanBody
  <2>2. St!Out("8") = Use("out", "8")
    BY UseNames
  <2>3. at[t] + 1 = 7 /\ "out" \in Uses
    BY <1>10 DEF Uses
  <2>4. Used(t, {at[t] + 1})
    BY <1>2, <2>1, <2>2, <2>3, UseDone, Zenon
  <2>5. Moved(t, {7}) /\ UNCHANGED <<running, locked>>
    BY <2>3, <2>4 DEF Used
  <2>6. (ignored => ignored') /\ (bus => bus')
        /\ \A p \in St!Pins : (Taken(p) => Taken(p)') /\ (Drives(p) => Drives(p)')
    BY <1>2, <2>5, Grows
  <2>7. ~ignored' => Knows(t, 7, pinFn', dir', bus')
    BY <1>2, <1>10, <2>6 DEF Knows, Taken, Drives, St!Pins
  <2> QED BY <1>3, <1>4, <2>5, <2>7, EffectOf
<1>11. CASE at[t] = 7
  <2>1. Now(t) = St!Adc("7")
    BY <1>2, <1>11, CanBody
  <2>2. St!Adc("7") = Use("adc", "7")
    BY UseNames
  <2>3. at[t] + 1 = 8 /\ "adc" \in Uses
    BY <1>11 DEF Uses
  <2>4. Used(t, {at[t] + 1})
    BY <1>2, <2>1, <2>2, <2>3, UseDone, Zenon
  <2>5. Moved(t, {8}) /\ UNCHANGED <<running, locked>>
    BY <2>3, <2>4 DEF Used
  <2>6. (ignored => ignored') /\ (bus => bus')
        /\ \A p \in St!Pins : (Taken(p) => Taken(p)') /\ (Drives(p) => Drives(p)')
    BY <1>2, <2>5, Grows
  <2>7. ~ignored' => Knows(t, 8, pinFn', dir', bus')
    BY <1>2, <1>11, <2>6 DEF Knows, Taken, Drives, St!Pins
  <2> QED BY <1>3, <1>4, <2>5, <2>7, EffectOf
<1>12. CASE at[t] = 8
  <2>1. Now(t) = St!Adc("9")
    BY <1>2, <1>12, CanBody
  <2>2. St!Adc("9") = Use("adc", "9")
    BY UseNames
  <2>3. at[t] + 1 = 9 /\ "adc" \in Uses
    BY <1>12 DEF Uses
  <2>4. Used(t, {at[t] + 1})
    BY <1>2, <2>1, <2>2, <2>3, UseDone, Zenon
  <2>5. Moved(t, {9}) /\ UNCHANGED <<running, locked>>
    BY <2>3, <2>4 DEF Used
  <2>6. (ignored => ignored') /\ (bus => bus')
        /\ \A p \in St!Pins : (Taken(p) => Taken(p)') /\ (Drives(p) => Drives(p)')
    BY <1>2, <2>5, Grows
  <2>7. ~ignored' => Knows(t, 9, pinFn', dir', bus')
    BY <1>2, <1>12, <2>6 DEF Knows, Taken, Drives, St!Pins
  <2> QED BY <1>3, <1>4, <2>5, <2>7, EffectOf
<1>13. CASE at[t] = 9
  <2>1. Now(t) = St!Out("8")
    BY <1>2, <1>13, CanBody
  <2>2. St!Out("8") = Use("out", "8")
    BY UseNames
  <2>3. at[t] + 1 = 10 /\ "out" \in Uses
    BY <1>13 DEF Uses
  <2>4. Used(t, {at[t] + 1})
    BY <1>2, <2>1, <2>2, <2>3, UseDone, Zenon
  <2>5. Moved(t, {10}) /\ UNCHANGED <<running, locked>>
    BY <2>3, <2>4 DEF Used
  <2>6. (ignored => ignored') /\ (bus => bus')
        /\ \A p \in St!Pins : (Taken(p) => Taken(p)') /\ (Drives(p) => Drives(p)')
    BY <1>2, <2>5, Grows
  <2>7. ~ignored' => Knows(t, 10, pinFn', dir', bus')
    BY <1>2, <1>13, <2>6 DEF Knows, Taken, Drives, St!Pins
  <2> QED BY <1>3, <1>4, <2>5, <2>7, EffectOf
<1>14. CASE at[t] = 10
  <2>1. Now(t) = St!Out("6")
    BY <1>2, <1>14, CanBody
  <2>2. St!Out("6") = Use("out", "6")
    BY UseNames
  <2>3. at[t] + 1 = 11 /\ "out" \in Uses
    BY <1>14 DEF Uses
  <2>4. Used(t, {at[t] + 1})
    BY <1>2, <2>1, <2>2, <2>3, UseDone, Zenon
  <2>5. Moved(t, {11}) /\ UNCHANGED <<running, locked>>
    BY <2>3, <2>4 DEF Used
  <2>6. (ignored => ignored') /\ (bus => bus')
        /\ \A p \in St!Pins : (Taken(p) => Taken(p)') /\ (Drives(p) => Drives(p)')
    BY <1>2, <2>5, Grows
  <2>7. ~ignored' => Knows(t, 11, pinFn', dir', bus')
    BY <1>2, <1>14, <2>6 DEF Knows, Taken, Drives, St!Pins
  <2> QED BY <1>3, <1>4, <2>5, <2>7, EffectOf
<1>15. CASE at[t] = 11
  <2>1. Now(t) = St!Then(St!Adc("11"), 7)
    BY <1>2, <1>15, CanBody
  <2>2. St!Adc("11") = Use("adc", "11")
    BY UseNames
  <2>3. at[t] + 1 = 12 /\ 7 \in Nat \ {0} /\ "adc" \in Uses
    BY <1>15 DEF Uses
  <2>4. Used(t, {7})
    BY <1>2, <2>1, <2>2, <2>3, ThenDone, Zenon
  <2>5. Moved(t, {7}) /\ UNCHANGED <<running, locked>>
    BY <2>3, <2>4 DEF Used
  <2>6. (ignored => ignored') /\ (bus => bus')
        /\ \A p \in St!Pins : (Taken(p) => Taken(p)') /\ (Drives(p) => Drives(p)')
    BY <1>2, <2>5, Grows
  <2>7. ~ignored' => Knows(t, 7, pinFn', dir', bus')
    BY <1>2, <1>15, <2>6 DEF Knows, Taken, Drives, St!Pins
  <2> QED BY <1>3, <1>4, <2>5, <2>7, EffectOf
<1> QED BY <1>2, <1>5, <1>6, <1>7, <1>8, <1>9, <1>10, <1>11, <1>12, <1>13, <1>14, <1>15

LEMMA GyroSteps ==
  ASSUME StartInv, "gy521_mpu6050" \in running, Stepped("gy521_mpu6050")
  PROVE  Effect("gy521_mpu6050")
<1> DEFINE t == "gy521_mpu6050"
<1>1. Len(St!Body(t)) = 1
  BY GyroBody
<1>2. /\ t \in St!Tasks /\ at[t] \in 1..1 /\ Now(t) = St!Body(t)[at[t]]
      /\ ~ignored => Knows(t, at[t], pinFn, dir, bus)
  BY <1>1, Position DEF Now
<1>3. ~locked
  BY Position
<1>4. \A n \in 1..2 : n \in Ends(t)
  BY <1>1 DEF Ends
<1>5. at[t] = 1
  BY <1>2
<1>6. Effect(t)
  <2>1. Now(t) = St!Then(St!Transfer, 1)
    BY <1>2, <1>5, GyroBody
  <2>2. St!Transfer = Use("transfer", "")
    BY UseNames
  <2>3. at[t] + 1 = 2 /\ 1 \in Nat \ {0} /\ "transfer" \in Uses
    BY <1>5 DEF Uses
  <2>4. Used(t, {1})
    BY <1>2, <2>1, <2>2, <2>3, ThenDone, Zenon
  <2>5. Moved(t, {1}) /\ UNCHANGED <<running, locked>>
    BY <2>3, <2>4 DEF Used
  <2>6. (ignored => ignored') /\ (bus => bus')
        /\ \A p \in St!Pins : (Taken(p) => Taken(p)') /\ (Drives(p) => Drives(p)')
    BY <1>2, <2>5, Grows
  <2>7. ~ignored' => Knows(t, 1, pinFn', dir', bus')
    BY <1>2, <1>5, <2>6 DEF Knows, Taken, Drives, St!Pins
  <2> QED BY <1>3, <1>4, <2>5, <2>7, EffectOf
<1> QED BY <1>6

LEMMA SampleSteps ==
  ASSUME StartInv, "samplebiztask" \in running, Stepped("samplebiztask")
  PROVE  Effect("samplebiztask")
<1> DEFINE t == "samplebiztask"
<1>1. Len(St!Body(t)) = 3
  BY SampleBody
<1>2. /\ t \in St!Tasks /\ at[t] \in 1..3 /\ Now(t) = St!Body(t)[at[t]]
      /\ ~ignored => Knows(t, at[t], pinFn, dir, bus)
  BY <1>1, Position DEF Now
<1>3. ~locked
  BY Position
<1>4. \A n \in 1..4 : n \in Ends(t)
  BY <1>1 DEF Ends
<1>5. CASE at[t] = 1
  <2>1. Now(t) = St!Func("9", FnOf("9"))
    BY <1>2, <1>5, SampleBody DEF FnOf
  <2>2. Moved(t, {2}) /\ UNCHANGED <<running, locked>> /\ (~ignored' => Taken("9")')
    BY <1>2, <1>5, <2>1, FuncDone DEF St!Pins
  <2>3. (ignored => ignored') /\ (bus => bus')
        /\ \A p \in St!Pins : (Taken(p) => Taken(p)') /\ (Drives(p) => Drives(p)')
    BY <1>2, <2>2, Grows
  <2>4. ~ignored' => Knows(t, 2, pinFn', dir', bus')
    BY <1>2, <1>5, <2>2, <2>3 DEF Knows, Taken, Drives, St!Pins
  <2> QED BY <1>3, <1>4, <2>2, <2>4, EffectOf
<1>6. CASE at[t] = 2
  <2>1. Now(t) = St!Dir("9", DirOf("9"))
    BY <1>2, <1>6, SampleBody DEF DirOf, Driven
  <2>2. /\ Moved(t, {3}) /\ UNCHANGED <<running, locked>>
        /\ ~ignored' => (Taken("9") => Drives("9")')
    BY <1>2, <1>6, <2>1, DirDone DEF St!Pins, Driven, Lit
  <2>3. (ignored => ignored') /\ (bus => bus')
        /\ \A p \in St!Pins : (Taken(p) => Taken(p)') /\ (Drives(p) => Drives(p)')
    BY <1>2, <2>2, Grows
  <2>4. ~ignored' => Knows(t, 3, pinFn', dir', bus')
    BY <1>2, <1>6, <2>2, <2>3 DEF Knows, Taken, Drives, St!Pins
  <2> QED BY <1>3, <1>4, <2>2, <2>4, EffectOf
<1>7. CASE at[t] = 3
  <2>1. Now(t) = St!Create("LedTask") /\ "LedTask" \in Creates(t)
    BY <1>2, <1>7, SampleBody DEF Creates
  <2>2. /\ Moved(t, {4}) /\ running' \ running \subseteq {"LedTask"}
        /\ UNCHANGED <<pinFn, dir, bus, locked>>
    BY <1>2, <1>7, <2>1, CreateDone
  <2>3. (ignored => ignored') /\ (bus => bus')
        /\ \A p \in St!Pins : (Taken(p) => Taken(p)') /\ (Drives(p) => Drives(p)')
    BY <1>2, <2>2, Grows
  <2>4. ~ignored' => Knows(t, 4, pinFn', dir', bus')
    BY <1>2, <1>7, <2>3 DEF Knows, Taken, Drives, St!Pins
  <2>5. ~ignored' => Knows("LedTask", 1, pinFn', dir', bus')
    BY <1>2, <1>7, <2>3 DEF Knows, Taken, Drives, St!Pins
  <2>6. \A u \in running' \ running : ~ignored' => Knows(u, 1, pinFn', dir', bus')
    BY <2>2, <2>5
  <2>7. locked' = FALSE
    BY <1>3, <2>2
  <2>8. 4 \in Ends(t)
    BY <1>4
  <2> QED BY <2>2, <2>4, <2>6, <2>7, <2>8, EffectNew, Zenon
<1> QED BY <1>2, <1>5, <1>6, <1>7

LEMMA LedSteps ==
  ASSUME StartInv, "LedTask" \in running, Stepped("LedTask")
  PROVE  Effect("LedTask")
<1> DEFINE t == "LedTask"
<1>1. Len(St!Body(t)) = 1
  BY LedBody
<1>2. /\ t \in St!Tasks /\ at[t] \in 1..1 /\ Now(t) = St!Body(t)[at[t]]
      /\ ~ignored => Knows(t, at[t], pinFn, dir, bus)
  BY <1>1, Position DEF Now
<1>3. ~locked
  BY Position
<1>4. \A n \in 1..2 : n \in Ends(t)
  BY <1>1 DEF Ends
<1>5. at[t] = 1
  BY <1>2
<1>6. Effect(t)
  <2>1. Now(t) = St!Then(St!Out("9"), 1)
    BY <1>2, <1>5, LedBody
  <2>2. St!Out("9") = Use("out", "9")
    BY UseNames
  <2>3. at[t] + 1 = 2 /\ 1 \in Nat \ {0} /\ "out" \in Uses
    BY <1>5 DEF Uses
  <2>4. Used(t, {1})
    BY <1>2, <2>1, <2>2, <2>3, ThenDone, Zenon
  <2>5. Moved(t, {1}) /\ UNCHANGED <<running, locked>>
    BY <2>3, <2>4 DEF Used
  <2>6. (ignored => ignored') /\ (bus => bus')
        /\ \A p \in St!Pins : (Taken(p) => Taken(p)') /\ (Drives(p) => Drives(p)')
    BY <1>2, <2>5, Grows
  <2>7. ~ignored' => Knows(t, 1, pinFn', dir', bus')
    BY <1>2, <1>5, <2>6 DEF Knows, Taken, Drives, St!Pins
  <2> QED BY <1>3, <1>4, <2>5, <2>7, EffectOf
<1> QED BY <1>6

\* app_main and the entry that locks the scheduler.
LEMMA MainSteps ==
  ASSUME StartInv, "app_main" \in running, Stepped("app_main")
  PROVE  Effect("app_main")
<1> DEFINE t == "app_main"
           L == Len(St!Body(t))
<1>1. /\ t \in St!Tasks /\ at[t] \in 1..L /\ Now(t) = St!Body(t)[at[t]] /\ ~locked
  BY Position DEF Now
<1>2. L \in {2, 3} /\ \E u \in Creates(t) : Now(t) = St!Create(u)
  <2>1. CASE ohos
    <3>1. St!Body(t) = <<St!Create("samplebiztask"), St!Create("app_demo_smart_trash_can"),
                         St!Create("gy521_mpu6050")>>
      BY <2>1, MainBody
    <3>2. L = 3 /\ at[t] \in 1..3
      BY <3>1, <1>1
    <3>3. Now(t) \in {St!Create("samplebiztask"), St!Create("app_demo_smart_trash_can"),
                      St!Create("gy521_mpu6050")}
      BY <3>1, <3>2, <1>1
    <3> QED BY <2>1, <3>2, <3>3 DEF Creates
  <2>2. CASE ~ohos
    <3>1. St!Body(t) = <<St!Create("app_demo_smart_trash_can"), St!Create("gy521_mpu6050")>>
      BY <2>2, MainBody
    <3>2. L = 2 /\ at[t] \in 1..2
      BY <3>1, <1>1
    <3>3. Now(t) \in {St!Create("app_demo_smart_trash_can"), St!Create("gy521_mpu6050")}
      BY <3>1, <3>2, <1>1
    <3> QED BY <3>2, <3>3 DEF Creates
  <2> QED BY <2>1, <2>2
<1>3. PICK u \in Creates(t) : Now(t) = St!Create(u)
  BY <1>2
<1>4. /\ Moved(t, {at[t] + 1}) /\ running' \ running \subseteq {u}
      /\ UNCHANGED <<pinFn, dir, bus, locked>>
  BY <1>1, <1>3, CreateDone
<1>5. at[t] + 1 \in Ends(t)
  BY <1>1, <1>2 DEF Ends
<1>6. /\ Knows(t, at[t] + 1, pinFn', dir', bus')
      /\ \A v \in Creates(t) : Knows(v, 1, pinFn', dir', bus')
  BY DEF Knows, Creates
<1>7. locked' = FALSE
  BY <1>1, <1>4
<1>8. \A v \in running' \ running : ~ignored' => Knows(v, 1, pinFn', dir', bus')
  BY <1>3, <1>4, <1>6
<1> QED BY <1>4, <1>5, <1>6, <1>7, <1>8, EffectNew, Zenon

LEMMA LockFields ==
  ASSUME NEW s, s \in {St!Lock, St!Unlock}
  PROVE  /\ s.do \in {"lock", "unlock"} /\ s.next = 0
         /\ s = St!Lock => s.do = "lock"
         /\ s = St!Unlock => s.do = "unlock"
<1>1. CASE s = St!Lock
  BY <1>1 DEF St!Lock, St!Unlock, St!Stmt
<1>2. CASE s = St!Unlock
  BY <1>2 DEF St!Lock, St!Unlock, St!Stmt
<1> QED BY <1>1, <1>2

LEMMA OledInitSteps ==
  ASSUME StartInv, "app_oled_i2c_demo_task" \in running, Stepped("app_oled_i2c_demo_task")
  PROVE  Effect("app_oled_i2c_demo_task")
<1> DEFINE t == "app_oled_i2c_demo_task"
<1>1. Len(St!Body(t)) = 3
  BY OledInitBody
<1>2. t \in St!Tasks /\ at[t] \in 1..3 /\ Now(t) = St!Body(t)[at[t]] /\ locked \in BOOLEAN
  BY <1>1, Position DEF Now
<1>3. \A n \in 1..4 : n \in Ends(t)
  BY <1>1, EndsOf, Zenon
<1>4. \A n, v : v \in {t, "app_i2c_oled_demo"} =>
        (n = 1 \/ v = t => Knows(v, n, pinFn', dir', bus'))
  BY DEF Knows
<1>5. CASE at[t] \in {1, 3}
  <2>1. Now(t) \in {St!Lock, St!Unlock} /\ (at[t] = 3 => Now(t) = St!Unlock)
    BY <1>2, <1>5, OledInitBody
  <2>2. /\ Now(t).do \in {"lock", "unlock"} /\ Now(t).next = 0
        /\ at[t] = 3 => Now(t).do = "unlock"
    BY <2>1, LockFields
  <2>3. St!Execute(t)
    BY <1>2, <2>2, Failed DEF Stepped
  <2>4. St!After(t) = at[t] + 1
    BY <2>2 DEF St!After, Now
  <2>5. /\ Moved(t, {at[t] + 1}) /\ UNCHANGED running
        /\ locked' \in BOOLEAN /\ (at[t] = 3 => locked' = FALSE)
    BY <1>2, <2>2, <2>3, <2>4, Executed DEF Moved
  <2>6. at[t] + 1 \in Ends(t) /\ (locked' => at[t] + 1 \in {2, 3})
    BY <1>3, <1>5, <2>5
  <2>7. running' \ running = {} /\ Knows(t, at[t] + 1, pinFn', dir', bus')
    BY <1>4, <2>5
  <2> QED BY <2>5, <2>6, <2>7, EffectIs
<1>6. CASE at[t] = 2
  <2>1. Now(t) = St!Create("app_i2c_oled_demo") /\ "app_i2c_oled_demo" \in Creates(t)
    BY <1>2, <1>6, OledInitBody DEF Creates
  <2>2. /\ Moved(t, {3}) /\ running' \ running \subseteq {"app_i2c_oled_demo"}
        /\ UNCHANGED <<pinFn, dir, bus, locked>>
    BY <1>2, <1>6, <2>1, CreateDone
  <2>3. \A u \in running' \ running : Knows(u, 1, pinFn', dir', bus')
    BY <2>2, <1>4
  <2>4. 3 \in Ends(t) /\ Knows(t, 3, pinFn', dir', bus') /\ locked' \in BOOLEAN
    BY <1>2, <1>3, <1>4, <2>2
  <2> QED BY <2>2, <2>3, <2>4, EffectIs
<1> QED BY <1>2, <1>5, <1>6

LEMMA AnyStep ==
  ASSUME StartInv, NEW t \in running, Stepped(t)
  PROVE  Effect(t)
<1>1. t \in St!Tasks
  BY Position
<1> QED
  BY <1>1, LightSteps, RotationInitSteps, WaterInitSteps, RtcInitSteps, Hx711Steps,
     OledInitSteps, IoGpioSteps, GyroInitSteps, RotationSteps, WaterSteps, RtcSteps,
     OledSteps, CanSteps, GyroSteps, SampleSteps, LedSteps, MainSteps
     DEF St!Tasks, St!Starters

\* A step of one task, with what it does to the others.
LEMMA EffectKeeps ==
  ASSUME StartInv, NEW t \in running, Effect(t)
  PROVE  StartInv'
<1>1. PICK n \in Ends(t) :
        /\ Moved(t, {n})
        /\ locked' \in BOOLEAN
        /\ locked' => t = "app_oled_i2c_demo_task" /\ n \in {2, 3}
        /\ ~ignored' => Knows(t, n, pinFn', dir', bus')
        /\ \A u \in running' \ running : ~ignored' => Knows(u, 1, pinFn', dir', bus')
  BY Zenon DEF Effect
<1>2. /\ starter \in St!Starters /\ starter \in running /\ running \subseteq St!Tasks
      /\ at \in [St!Tasks -> Nat]
      /\ \A u \in St!Tasks : at[u] \in 1..Len(St!Body(u)) + 1
      /\ \A u \in St!Tasks \ running : at[u] = 1
      /\ pinFn \in [St!Pins -> {"boot", "GPIO", "I2C0"}]
      /\ dir \in [St!Pins -> {"in", "out"}]
      /\ i2c \in BOOLEAN /\ ohos \in BOOLEAN /\ bus \in BOOLEAN
      /\ starter \in St!LeaveBusToBuild => i2c
      /\ i2c => BusUp
      /\ \A u \in running : starter \in StartedBy(u)
      /\ "samplebiztask" \in running \/ "LedTask" \in running => ohos
      /\ \A p \in St!Pins : dir[p] = "out" => p \in Driven
      /\ dir["9"] = "out" => ohos \/ starter # "app_main"
      /\ ~ignored => \A u \in running : Knows(u, at[u], pinFn, dir, bus)
  BY DEF StartInv
<1>3. /\ at' = [at EXCEPT ![t] = n] /\ UNCHANGED <<starter, i2c, ohos>>
      /\ startFaults' \in 0..StartBound /\ ignored' \in BOOLEAN
  BY <1>1 DEF Moved, Went
<1>4. t \in St!Tasks
  BY <1>2
<1>5. /\ (ignored => ignored') /\ (bus => bus')
      /\ \A p \in St!Pins : (Taken(p) => Taken(p)') /\ (Drives(p) => Drives(p)')
  BY <1>1, <1>4, Grows
<1>6. n \in Nat /\ n \in 1..Len(St!Body(t)) + 1
  BY <1>2, <1>4 DEF Ends
<1>7. at' \in [St!Tasks -> Nat] /\ \A u \in St!Tasks : at'[u] \in 1..Len(St!Body(u)) + 1
  <2>1. St!Body(t)' = St!Body(t)
    BY <1>3 DEF St!Body
  <2> QED BY <1>2, <1>3, <1>6
<1>8. /\ running \subseteq running'
      /\ \A u \in running' \ running : u \in Creates(t)
  BY <1>1 DEF Moved
<1>9. \A u \in Creates(t) : u \in St!Tasks /\ starter \in StartedBy(u)
  <2>1. starter \in StartedBy(t)
    BY <1>2
  <2> QED BY <2>1 DEF Creates, StartedBy, St!Tasks, St!Starters
<1>10. running' \subseteq St!Tasks /\ starter' \in running'
       /\ \A u \in running' : starter' \in StartedBy(u)
  BY <1>2, <1>3, <1>8, <1>9
<1>11. \A u \in St!Tasks \ running' : at'[u] = 1
  BY <1>2, <1>3, <1>8
<1>12. pinFn' \in [St!Pins -> {"boot", "GPIO", "I2C0"}]
  BY <1>1, <1>2 DEF Moved, FnOf
<1>13. dir' \in [St!Pins -> {"in", "out"}]
  BY <1>1, <1>2 DEF Moved, DirOf
<1>14. \A p \in St!Pins : dir'[p] = "out" => p \in Driven
  BY <1>1, <1>2 DEF Moved, DirOf
<1>15. bus' \in BOOLEAN
  BY <1>1, <1>2 DEF Moved
<1>16. i2c' => BusUp'
  BY <1>2, <1>3, <1>5 DEF BusUp, St!Pins
<1>17. "samplebiztask" \in running' \/ "LedTask" \in running' => ohos'
  <2>1. "samplebiztask" \in Creates(t) \/ "LedTask" \in Creates(t) => ohos
    BY <1>2 DEF Creates
  <2> QED BY <2>1, <1>2, <1>3, <1>8
<1>18. dir'["9"] = "out" => ohos' \/ starter' # "app_main"
  <2>1. t \in Lit => ohos \/ starter # "app_main"
    BY <1>2 DEF Lit, StartedBy
  <2>2. dir'["9"] = "out" => dir["9"] = "out" \/ t \in Lit
    BY <1>1, <1>2 DEF Moved, St!Pins
  <2> QED BY <2>1, <2>2, <1>2, <1>3
<1>19. ~ignored' => \A u \in running' : Knows(u, at'[u], pinFn', dir', bus')
  <2> SUFFICES ASSUME ~ignored', NEW u \in running' PROVE Knows(u, at'[u], pinFn', dir', bus')
    OBVIOUS
  <2>1. CASE u \notin running
    BY <2>1, <1>1, <1>10, <1>11, <1>2, <1>3
  <2>2. CASE u = t
    BY <2>2, <1>1, <1>2, <1>3, <1>4
  <2>3. CASE u \in running /\ u # t
    <3>1. at'[u] = at[u] /\ Knows(u, at[u], pinFn, dir, bus)
      BY <2>3, <1>2, <1>3, <1>5
    <3> QED BY <3>1, <1>5 DEF Knows, Taken, Drives, St!Pins
  <2> QED BY <2>1, <2>2, <2>3
<1>20. locked' => starter' = "app_oled_i2c_demo_task" /\ at'[starter'] \in {2, 3}
  <2>1. ASSUME locked' PROVE t = "app_oled_i2c_demo_task" /\ n \in {2, 3}
    BY <2>1, <1>1
  <2>2. t = "app_oled_i2c_demo_task" => starter = t
    BY <1>2 DEF StartedBy
  <2> QED BY <2>1, <2>2, <1>2, <1>3, <1>4
<1>21. \A u \in St!Tasks : St!Body(u)' = St!Body(u)
  BY <1>3 DEF St!Body, St!app_main
<1>22. \A u \in St!Tasks : at'[u] \in 1..Len(St!Body(u)') + 1
  BY <1>7, <1>21
<1> QED
  BY <1>1, <1>2, <1>3, <1>7, <1>10, <1>11, <1>12, <1>13, <1>14, <1>15, <1>16, <1>17, <1>18,
     <1>19, <1>20, <1>22 DEF StartInv

----------------------------------------------------------------------------
LEMMA StartInvInit ==
  ASSUME St!Init
  PROVE  StartInv
<1>1. /\ starter \in St!Starters /\ running = {starter} /\ at = [t \in St!Tasks |-> 1]
      /\ ohos \in BOOLEAN /\ (ohos => starter = "app_main")
      /\ i2c \in BOOLEAN /\ (starter \in St!LeaveBusToBuild => i2c)
      /\ pinFn = [p \in St!Pins |-> IF i2c /\ p \in {"13", "14"} THEN "I2C0" ELSE "boot"]
      /\ dir = [p \in St!Pins |-> "in"] /\ bus = i2c
      /\ locked = FALSE /\ startFaults = 0 /\ ignored = FALSE
  BY DEF St!Init
<1>2. starter \in St!Tasks
  BY <1>1 DEF St!Tasks
<1>3. \A t \in St!Tasks : Len(St!Body(t)) \in Nat
  BY LightBody, RotationInitBody, WaterInitBody, RtcInitBody, Hx711Body, OledInitBody,
     IoGpioBody, GyroInitBody, RotationBody, WaterBody, RtcBody, OledBody, CanBody, GyroBody,
     SampleBody, LedBody, MainBody DEF St!Tasks, St!Starters
<1>4. at \in [St!Tasks -> Nat] /\ \A t \in St!Tasks : at[t] = 1 /\ at[t] \in 1..Len(St!Body(t)) + 1
  BY <1>1, <1>3
<1>5. /\ pinFn \in [St!Pins -> {"boot", "GPIO", "I2C0"}]
      /\ dir \in [St!Pins -> {"in", "out"}] /\ \A p \in St!Pins : dir[p] = "in"
  BY <1>1
<1>6. i2c => BusUp
  BY <1>1 DEF BusUp, Taken, FnOf, St!Pins
<1>7. /\ starter \in StartedBy(starter)
      /\ starter \notin {"samplebiztask", "LedTask"}
  BY <1>1 DEF StartedBy, St!Starters
<1>8. Knows(starter, 1, pinFn, dir, bus)
  BY <1>1 DEF Knows, St!Starters
<1>9. startFaults \in 0..StartBound
  BY <1>1, StartAssumption DEF St!StartAssumption
<1>10. {i2c, ohos, bus, locked, ignored} \subseteq BOOLEAN
  BY <1>1
<1>11. /\ dir["9"] = "in"
       /\ running \subseteq St!Tasks
       /\ "samplebiztask" \notin running /\ "LedTask" \notin running
  BY <1>1, <1>2, <1>5, <1>7 DEF St!Pins
<1>12. \A t \in running : starter \in StartedBy(t) /\ Knows(t, at[t], pinFn, dir, bus)
  BY <1>1, <1>2, <1>4, <1>7, <1>8
<1> QED
  BY <1>1, <1>4, <1>5, <1>6, <1>9, <1>10, <1>11, <1>12 DEF StartInv

LEMMA StartInvNext ==
  ASSUME StartInv, St!Next \/ UNCHANGED St!startVars
  PROVE  StartInv'
<1>1. ASSUME NEW t \in running, Stepped(t) PROVE StartInv'
  BY <1>1, AnyStep, EffectKeeps
<1>2. ASSUME UNCHANGED St!startVars PROVE StartInv'
  <2>1. UNCHANGED <<starter, i2c, ohos, running, at, pinFn, dir, bus, locked, startFaults, ignored>>
    BY <1>2 DEF St!startVars
  <2>2. \A u \in St!Tasks : St!Body(u)' = St!Body(u)
    BY <2>1 DEF St!Body, St!app_main
  <2>3. BusUp' = BusUp
    BY <2>1 DEF BusUp, Taken
  <2> QED BY <2>1, <2>2, <2>3 DEF StartInv
<1> QED BY <1>1, <1>2 DEF St!Next, St!Over, Stepped

----------------------------------------------------------------------------
\* What the next statement of a task needs is there.
Fit(t) == St!Ready(Now(t)) \/ (ohos /\ Now(t) = St!Adc("9"))

LEMMA SetUpReady ==
  /\ \A p, f : St!Ready(St!Func(p, f)) /\ St!Ready(St!Dir(p, f))
  /\ \A p, f, n : /\ St!Ready(St!Checked(St!Func(p, f), n))
                  /\ St!Ready(St!Checked(St!Dir(p, f), n))
  /\ \A u : St!Ready(St!Create(u))
  /\ St!Ready(St!Open) /\ St!Ready(St!Lock) /\ St!Ready(St!Unlock)
<1>1. ASSUME NEW s, s.do \in {"func", "dir", "create", "open", "lock", "unlock"}
      PROVE  St!Ready(s)
  BY <1>1 DEF St!Ready
<1>2. ASSUME NEW p, NEW f, NEW n
      PROVE  /\ St!Func(p, f).do = "func" /\ St!Dir(p, f).do = "dir"
             /\ St!Checked(St!Func(p, f), n).do = "func"
             /\ St!Checked(St!Dir(p, f), n).do = "dir"
  BY DEF St!Func, St!Dir, St!Checked, St!Stmt
<1>3. ASSUME NEW u PROVE St!Create(u).do = "create"
  BY DEF St!Create, St!Stmt
<1>4. St!Open.do = "open" /\ St!Lock.do = "lock" /\ St!Unlock.do = "unlock"
  BY DEF St!Open, St!Lock, St!Unlock, St!Stmt
<1> QED BY <1>1, <1>2, <1>3, <1>4

\* A use, wherever it goes on.
LEMMA UsePins ==
  ASSUME NEW d, NEW p, NEW n, NEW m
  PROVE  /\ LET s == Use(d, p) IN s.do = d /\ s.pin = p
         /\ LET s == St!Then(Use(d, p), n) IN s.do = d /\ s.pin = p
         /\ LET s == St!Checked(Use(d, p), n) IN s.do = d /\ s.pin = p
         /\ LET s == Branch(Use(d, p), n, m) IN s.do = d /\ s.pin = p
<1>1. ASSUME NEW s, s = Use(d, p) PROVE s.do = d /\ s.pin = p
  BY <1>1 DEF Use, St!Stmt
<1>2. ASSUME NEW s, s = St!Then(Use(d, p), n) PROVE s.do = d /\ s.pin = p
  BY <1>2 DEF Use, St!Stmt, St!Then
<1>3. ASSUME NEW s, s = St!Checked(Use(d, p), n) PROVE s.do = d /\ s.pin = p
  BY <1>3 DEF Use, St!Stmt, St!Checked
<1>4. ASSUME NEW s, s = Branch(Use(d, p), n, m) PROVE s.do = d /\ s.pin = p
  BY <1>4 DEF Branch, Use, St!Stmt
<1> QED BY <1>1, <1>2, <1>3, <1>4

ReadyUse(u) ==
  /\ St!Ready(u)
  /\ \A n : St!Ready(St!Then(u, n)) /\ St!Ready(St!Checked(u, n))
  /\ \A n, m : St!Ready(Branch(u, n, m))

LEMMA ReadyUses ==
  ASSUME NEW d, NEW p,
         ASSUME NEW s, s.do = d, s.pin = p PROVE St!Ready(s)
  PROVE  ReadyUse(Use(d, p))
  BY UsePins DEF ReadyUse

LEMMA UseReady ==
  /\ bus /\ pinFn["13"] = "I2C0" /\ pinFn["14"] = "I2C0" => ReadyUse(St!Transfer)
  /\ \A p : /\ pinFn[p] = "GPIO" /\ dir[p] = "out" => ReadyUse(St!Out(p))
            /\ pinFn[p] = "GPIO" /\ dir[p] = "in" => ReadyUse(St!In(p))
            /\ dir[p] = "in" => ReadyUse(St!Adc(p)) /\ ReadyUse(St!Isr(p))
<1>1. ASSUME bus /\ pinFn["13"] = "I2C0" /\ pinFn["14"] = "I2C0"
      PROVE  ReadyUse(Use("transfer", ""))
  BY <1>1, ReadyUses DEF St!Ready
<1>2. ASSUME NEW p, pinFn[p] = "GPIO", dir[p] = "out" PROVE ReadyUse(Use("out", p))
  BY <1>2, ReadyUses DEF St!Ready
<1>3. ASSUME NEW p, pinFn[p] = "GPIO", dir[p] = "in" PROVE ReadyUse(Use("in", p))
  BY <1>3, ReadyUses DEF St!Ready
<1>4. ASSUME NEW p, dir[p] = "in"
      PROVE  ReadyUse(Use("adc", p)) /\ ReadyUse(Use("isr", p))
  BY <1>4, ReadyUses DEF St!Ready
<1> QED BY <1>1, <1>2, <1>3, <1>4, UseNames

LEMMA Place ==
  ASSUME StartInv, ~ignored, NEW t \in running, at[t] <= Len(St!Body(t))
  PROVE  at[t] \in 1..Len(St!Body(t)) /\ Knows(t, at[t], pinFn, dir, bus)
<1>1. t \in St!Tasks /\ at[t] \in 1..Len(St!Body(t)) + 1
  BY DEF StartInv
<1> QED BY <1>1 DEF StartInv

LEMMA Inputs ==
  ASSUME StartInv, NEW p \in {"0", "5", "7", "11"}
  PROVE  dir[p] = "in"
<1>1. p \in St!Pins \ Driven
  BY DEF St!Pins, Driven
<1> QED BY <1>1 DEF StartInv

LEMMA SharedPin ==
  ASSUME StartInv, "app_demo_smart_trash_can" \in running
  PROVE  ohos \/ dir["9"] = "in"
<1>1. starter = "app_main"
  BY DEF StartInv, StartedBy
<1> QED BY <1>1 DEF StartInv, St!Pins

LEMMA Built ==
  ASSUME StartInv, NEW t \in running, t \in {"app_i2c_oled_demo", "gy521_mpu6050"}
  PROVE  bus /\ pinFn["13"] = "I2C0" /\ pinFn["14"] = "I2C0"
<1>1. starter \in St!LeaveBusToBuild
  BY DEF StartInv, StartedBy, St!LeaveBusToBuild
<1> QED BY <1>1 DEF StartInv, BusUp, Taken, FnOf

LEMMA LightReady ==
  ASSUME StartInv, ~ignored, "lightsensor" \in running,
         at["lightsensor"] <= Len(St!Body("lightsensor"))
  PROVE  Fit("lightsensor")
<1> DEFINE t == "lightsensor"
<1>1. Len(St!Body(t)) = 6
  BY LightBody
<1>2. /\ at[t] \in 1..6 /\ Now(t) = St!Body(t)[at[t]]
      /\ Knows(t, at[t], pinFn, dir, bus)
  BY <1>1, Place DEF Now
<1>3. CASE at[t] \in {1, 2, 3, 4}
  BY <1>2, <1>3, LightBody, SetUpReady DEF Fit
<1>4. CASE at[t] = 5
  <2>1. dir["11"] = "in"
    BY Inputs
  <2> QED BY <1>2, <1>4, <2>1, LightBody, UseReady DEF Fit, ReadyUse
<1>5. CASE at[t] = 6
  <2>1. pinFn["9"] = "GPIO" /\ dir["9"] = "out"
    BY <1>2, <1>5 DEF Knows, FnOf
  <2> QED BY <1>2, <1>5, <2>1, LightBody, UseReady DEF Fit, ReadyUse
<1> QED BY <1>2, <1>3, <1>4, <1>5

LEMMA RotationInitReady ==
  ASSUME StartInv, ~ignored, "rotation_sensor_task" \in running,
         at["rotation_sensor_task"] <= Len(St!Body("rotation_sensor_task"))
  PROVE  Fit("rotation_sensor_task")
<1> DEFINE t == "rotation_sensor_task"
<1>1. Len(St!Body(t)) = 3
  BY RotationInitBody
<1>2. /\ at[t] \in 1..3 /\ Now(t) = St!Body(t)[at[t]]
      /\ Knows(t, at[t], pinFn, dir, bus)
  BY <1>1, Place DEF Now
<1>3. CASE at[t] \in {1, 2, 3}
  BY <1>2, <1>3, RotationInitBody, SetUpReady DEF Fit
<1> QED BY <1>2, <1>3

LEMMA WaterInitReady ==
  ASSUME StartInv, ~ignored, "water_sensor_task" \in running,
         at["water_sensor_task"] <= Len(St!Body("water_sensor_task"))
  PROVE  Fit("water_sensor_task")
<1> DEFINE t == "water_sensor_task"
<1>1. Len(St!Body(t)) = 7
  BY WaterInitBody
<1>2. /\ at[t] \in 1..7 /\ Now(t) = St!Body(t)[at[t]]
      /\ Knows(t, at[t], pinFn, dir, bus)
  BY <1>1, Place DEF Now
<1>3. CASE at[t] \in {1, 2, 3, 4, 5, 7}
  BY <1>2, <1>3, WaterInitBody, SetUpReady DEF Fit
<1>4. CASE at[t] = 6
  <2>1. bus /\ pinFn["13"] = "I2C0" /\ pinFn["14"] = "I2C0"
    BY <1>2, <1>4 DEF Knows, FnOf
  <2> QED BY <1>2, <1>4, <2>1, WaterInitBody, UseReady DEF Fit, ReadyUse
<1> QED BY <1>2, <1>3, <1>4

LEMMA RtcInitReady ==
  ASSUME StartInv, ~ignored, "app_demo_rtc_task" \in running,
         at["app_demo_rtc_task"] <= Len(St!Body("app_demo_rtc_task"))
  PROVE  Fit("app_demo_rtc_task")
<1> DEFINE t == "app_demo_rtc_task"
<1>1. Len(St!Body(t)) = 3
  BY RtcInitBody
<1>2. /\ at[t] \in 1..3 /\ Now(t) = St!Body(t)[at[t]]
      /\ Knows(t, at[t], pinFn, dir, bus)
  BY <1>1, Place DEF Now
<1>3. CASE at[t] \in {1, 2, 3}
  BY <1>2, <1>3, RtcInitBody, SetUpReady DEF Fit
<1> QED BY <1>2, <1>3

LEMMA Hx711Ready ==
  ASSUME StartInv, ~ignored, "hi_hx711_task" \in running,
         at["hi_hx711_task"] <= Len(St!Body("hi_hx711_task"))
  PROVE  Fit("hi_hx711_task")
<1> DEFINE t == "hi_hx711_task"
<1>1. Len(St!Body(t)) = 12
  BY Hx711Body
<1>2. /\ at[t] \in 1..12 /\ Now(t) = St!Body(t)[at[t]]
      /\ Knows(t, at[t], pinFn, dir, bus)
  BY <1>1, Place DEF Now
<1>3. CASE at[t] \in {1, 2, 3, 4, 5, 6, 8}
  BY <1>2, <1>3, Hx711Body, SetUpReady DEF Fit
<1>4. CASE at[t] \in {7, 11}
  <2>1. pinFn["12"] = "GPIO" /\ dir["12"] = "out"
    BY <1>2, <1>4 DEF Knows, FnOf
  <2> QED BY <1>2, <1>4, <2>1, Hx711Body, UseReady DEF Fit, ReadyUse
<1>5. CASE at[t] \in {9, 12}
  <2>1. bus /\ pinFn["13"] = "I2C0" /\ pinFn["14"] = "I2C0"
    BY <1>2, <1>5 DEF Knows, FnOf
  <2> QED BY <1>2, <1>5, <2>1, Hx711Body, UseReady DEF Fit, ReadyUse
<1>6. CASE at[t] = 10
  <2>1. pinFn["11"] = "GPIO"
    BY <1>2, <1>6 DEF Knows, FnOf
  <2>2. dir["11"] = "in"
    BY Inputs
  <2> QED BY <1>2, <1>6, <2>1, <2>2, Hx711Body, UseReady DEF Fit, ReadyUse
<1> QED BY <1>2, <1>3, <1>4, <1>5, <1>6

LEMMA OledInitReady ==
  ASSUME StartInv, ~ignored, "app_oled_i2c_demo_task" \in running,
         at["app_oled_i2c_demo_task"] <= Len(St!Body("app_oled_i2c_demo_task"))
  PROVE  Fit("app_oled_i2c_demo_task")
<1> DEFINE t == "app_oled_i2c_demo_task"
<1>1. Len(St!Body(t)) = 3
  BY OledInitBody
<1>2. /\ at[t] \in 1..3 /\ Now(t) = St!Body(t)[at[t]]
      /\ Knows(t, at[t], pinFn, dir, bus)
  BY <1>1, Place DEF Now
<1>3. CASE at[t] \in {1, 2, 3}
  BY <1>2, <1>3, OledInitBody, SetUpReady DEF Fit
<1> QED BY <1>2, <1>3

LEMMA IoGpioReady ==
  ASSUME StartInv, ~ignored, "app_demo_custom_io_gpio" \in running,
         at["app_demo_custom_io_gpio"] <= Len(St!Body("app_demo_custom_io_gpio"))
  PROVE  Fit("app_demo_custom_io_gpio")
<1> DEFINE t == "app_demo_custom_io_gpio"
<1>1. Len(St!Body(t)) = 5
  BY IoGpioBody
<1>2. /\ at[t] \in 1..5 /\ Now(t) = St!Body(t)[at[t]]
      /\ Knows(t, at[t], pinFn, dir, bus)
  BY <1>1, Place DEF Now
<1>3. CASE at[t] \in {1, 2, 4}
  BY <1>2, <1>3, IoGpioBody, SetUpReady DEF Fit
<1>4. CASE at[t] = 3
  <2>1. pinFn["0"] = "GPIO"
    BY <1>2, <1>4 DEF Knows, FnOf
  <2>2. dir["0"] = "in"
    BY Inputs
  <2> QED BY <1>2, <1>4, <2>1, <2>2, IoGpioBody, UseReady DEF Fit, ReadyUse
<1>5. CASE at[t] = 5
  <2>1. dir["0"] = "in"
    BY Inputs
  <2> QED BY <1>2, <1>5, <2>1, IoGpioBody, UseReady DEF Fit, ReadyUse
<1> QED BY <1>2, <1>3, <1>4, <1>5

LEMMA GyroInitReady ==
  ASSUME StartInv, ~ignored, "app_demo_gy521" \in running,
         at["app_demo_gy521"] <= Len(St!Body("app_demo_gy521"))
  PROVE  Fit("app_demo_gy521")
<1> DEFINE t == "app_demo_gy521"
<1>1. Len(St!Body(t)) = 1
  BY GyroInitBody
<1>2. /\ at[t] \in 1..1 /\ Now(t) = St!Body(t)[at[t]]
      /\ Knows(t, at[t], pinFn, dir, bus)
  BY <1>1, Place DEF Now
<1>3. CASE at[t] = 1
  BY <1>2, <1>3, GyroInitBody, SetUpReady DEF Fit
<1> QED BY <1>2, <1>3

LEMMA RotationReady ==
  ASSUME StartInv, ~ignored, "rotation_sensor" \in running,
         at["rotation_sensor"] <= Len(St!Body("rotation_sensor"))
  PROVE  Fit("rotation_sensor")
<1> DEFINE t == "rotation_sensor"
<1>1. Len(St!Body(t)) = 1
  BY RotationBody
<1>2. /\ at[t] \in 1..1 /\ Now(t) = St!Body(t)[at[t]]
      /\ Knows(t, at[t], pinFn, dir, bus)
  BY <1>1, Place DEF Now
<1>3. CASE at[t] = 1
  <2>1. dir["5"] = "in"
    BY Inputs
  <2>2. Now(t) = Branch(St!Adc("5"), 1, 2)
    BY <1>2, <1>3, RotationBody DEF Branch
  <2> QED BY <2>1, <2>2, UseReady DEF Fit, ReadyUse
<1> QED BY <1>2, <1>3

LEMMA WaterReady ==
  ASSUME StartInv, ~ignored, "water_sensor" \in running,
         at["water_sensor"] <= Len(St!Body("water_sensor"))
  PROVE  Fit("water_sensor")
<1> DEFINE t == "water_sensor"
<1>1. Len(St!Body(t)) = 2
  BY WaterBody
<1>2. /\ at[t] \in 1..2 /\ Now(t) = St!Body(t)[at[t]]
      /\ Knows(t, at[t], pinFn, dir, bus)
  BY <1>1, Place DEF Now
<1>3. CASE at[t] = 1
  <2>1. dir["7"] = "in"
    BY Inputs
  <2> QED BY <1>2, <1>3, <2>1, WaterBody, UseReady DEF Fit, ReadyUse
<1>4. CASE at[t] = 2
  <2>1. bus /\ pinFn["13"] = "I2C0" /\ pinFn["14"] = "I2C0"
    BY <1>2, <1>4 DEF Knows, FnOf
  <2> QED BY <1>2, <1>4, <2>1, WaterBody, UseReady DEF Fit, ReadyUse
<1> QED BY <1>2, <1>3, <1>4

LEMMA RtcReady ==
  ASSUME StartInv, ~ignored, "rtc_timer" \in running,
         at["rtc_timer"] <= Len(St!Body("rtc_timer"))
  PROVE  Fit("rtc_timer")
<1> DEFINE t == "rtc_timer"
<1>1. Len(St!Body(t)) = 2
  BY RtcBody
<1>2. /\ at[t] \in 1..2 /\ Now(t) = St!Body(t)[at[t]]
      /\ Knows(t, at[t], pinFn, dir, bus)
  BY <1>1, Place DEF Now
<1>3. CASE at[t] = 1
  BY <1>2, <1>3, RtcBody, SetUpReady DEF Fit
<1>4. CASE at[t] = 2
  <2>1. bus /\ pinFn["13"] = "I2C0" /\ pinFn["14"] = "I2C0"
    BY <1>2, <1>4 DEF Knows, FnOf
  <2> QED BY <1>2, <1>4, <2>1, RtcBody, UseReady DEF Fit, ReadyUse
<1> QED BY <1>2, <1>3, <1>4

LEMMA OledReady ==
  ASSUME StartInv, ~ignored, "app_i2c_oled_demo" \in running,
         at["app_i2c_oled_demo"] <= Len(St!Body("app_i2c_oled_demo"))
  PROVE  Fit("app_i2c_oled_demo")
<1> DEFINE t == "app_i2c_oled_demo"
<1>1. Len(St!Body(t)) = 6
  BY OledBody
<1>2. /\ at[t] \in 1..6 /\ Now(t) = St!Body(t)[at[t]]
      /\ Knows(t, at[t], pinFn, dir, bus)
  BY <1>1, Place DEF Now
<1>3. CASE at[t] \in {1, 3, 4}
  BY <1>2, <1>3, OledBody, SetUpReady DEF Fit
<1>4. CASE at[t] \in {2, 6}
  <2>1. bus /\ pinFn["13"] = "I2C0" /\ pinFn["14"] = "I2C0"
    BY Built
  <2>2. Now(t) = Branch(St!Transfer, 6, 3) \/ Now(t) = St!Then(St!Transfer, 6)
    BY <1>2, <1>4, OledBody DEF Branch
  <2> QED BY <2>1, <2>2, UseReady DEF Fit, ReadyUse
<1>5. CASE at[t] = 5
  <2>1. pinFn["9"] = "GPIO" /\ dir["9"] = "out"
    BY <1>2, <1>5 DEF Knows, FnOf
  <2> QED BY <1>2, <1>5, <2>1, OledBody, UseReady DEF Fit, ReadyUse
<1> QED BY <1>2, <1>3, <1>4, <1>5

LEMMA CanReady ==
  ASSUME StartInv, ~ignored, "app_demo_smart_trash_can" \in running,
         at["app_demo_smart_trash_can"] <= Len(St!Body("app_demo_smart_trash_can"))
  PROVE  Fit("app_demo_smart_trash_can")
<1> DEFINE t == "app_demo_smart_trash_can"
<1>1. Len(St!Body(t)) = 11
  BY CanBody
<1>2. /\ at[t] \in 1..11 /\ Now(t) = St!Body(t)[at[t]]
      /\ Knows(t, at[t], pinFn, dir, bus)
  BY <1>1, Place DEF Now
<1>3. CASE at[t] \in {1, 2, 4, 5}
  BY <1>2, <1>3, CanBody, SetUpReady DEF Fit
<1>4. CASE at[t] \in {3, 10}
  <2>1. pinFn["6"] = "GPIO" /\ dir["6"] = "out"
    BY <1>2, <1>4 DEF Knows, FnOf
  <2> QED BY <1>2, <1>4, <2>1, CanBody, UseReady DEF Fit, ReadyUse
<1>5. CASE at[t] \in {6, 9}
  <2>1. pinFn["8"] = "GPIO" /\ dir["8"] = "out"
    BY <1>2, <1>5 DEF Knows, FnOf
  <2> QED BY <1>2, <1>5, <2>1, CanBody, UseReady DEF Fit, ReadyUse
<1>6. CASE at[t] = 7
  <2>1. dir["7"] = "in"
    BY Inputs
  <2> QED BY <1>2, <1>6, <2>1, CanBody, UseReady DEF Fit, ReadyUse
<1>7. CASE at[t] = 8
  <2>1. Now(t) = St!Adc("9")
    BY <1>2, <1>7, CanBody
  <2>2. ohos \/ dir["9"] = "in"
    BY SharedPin
  <2> QED BY <2>1, <2>2, UseReady DEF Fit, ReadyUse
<1>8. CASE at[t] = 11
  <2>1. dir["11"] = "in"
    BY Inputs
  <2> QED BY <1>2, <1>8, <2>1, CanBody, UseReady DEF Fit, ReadyUse
<1> QED BY <1>2, <1>3, <1>4, <1>5, <1>6, <1>7, <1>8

LEMMA GyroReady ==
  ASSUME StartInv, ~ignored, "gy521_mpu6050" \in running,
         at["gy521_mpu6050"] <= Len(St!Body("gy521_mpu6050"))
  PROVE  Fit("gy521_mpu6050")
<1> DEFINE t == "gy521_mpu6050"
<1>1. Len(St!Body(t)) = 1
  BY GyroBody
<1>2. /\ at[t] \in 1..1 /\ Now(t) = St!Body(t)[at[t]]
      /\ Knows(t, at[t], pinFn, dir, bus)
  BY <1>1, Place DEF Now
<1>3. CASE at[t] = 1
  <2>1. bus /\ pinFn["13"] = "I2C0" /\ pinFn["14"] = "I2C0"
    BY Built
  <2> QED BY <1>2, <1>3, <2>1, GyroBody, UseReady DEF Fit, ReadyUse
<1> QED BY <1>2, <1>3

LEMMA SampleReady ==
  ASSUME StartInv, ~ignored, "samplebiztask" \in running,
         at["samplebiztask"] <= Len(St!Body("samplebiztask"))
  PROVE  Fit("samplebiztask")
<1> DEFINE t == "samplebiztask"
<1>1. Len(St!Body(t)) = 3
  BY SampleBody
<1>2. /\ at[t] \in 1..3 /\ Now(t) = St!Body(t)[at[t]]
      /\ Knows(t, at[t], pinFn, dir, bus)
  BY <1>1, Place DEF Now
<1>3. CASE at[t] \in {1, 2, 3}
  BY <1>2, <1>3, SampleBody, SetUpReady DEF Fit
<1> QED BY <1>2, <1>3

LEMMA LedReady ==
  ASSUME StartInv, ~ignored, "LedTask" \in running,
         at["LedTask"] <= Len(St!Body("LedTask"))
  PROVE  Fit("LedTask")
<1> DEFINE t == "LedTask"
<1>1. Len(St!Body(t)) = 1
  BY LedBody
<1>2. /\ at[t] \in 1..1 /\ Now(t) = St!Body(t)[at[t]]
      /\ Knows(t, at[t], pinFn, dir, bus)
  BY <1>1, Place DEF Now
<1>3. CASE at[t] = 1
  <2>1. pinFn["9"] = "GPIO" /\ dir["9"] = "out"
    BY <1>2, <1>3 DEF Knows, FnOf
  <2> QED BY <1>2, <1>3, <2>1, LedBody, UseReady DEF Fit, ReadyUse
<1> QED BY <1>2, <1>3

LEMMA MainReady ==
  ASSUME StartInv, ~ignored, "app_main" \in running,
         at["app_main"] <= Len(St!Body("app_main"))
  PROVE  Fit("app_main")
<1>1. \E u : Now("app_main") = St!Create(u)
  <2>1. CASE ohos
    <3>1. Len(St!Body("app_main")) = 3
      BY <2>1, MainBody
    <3>2. at["app_main"] \in 1..3
      BY <3>1, Place
    <3> QED BY <2>1, <3>2, MainBody DEF Now
  <2>2. CASE ~ohos
    <3>1. Len(St!Body("app_main")) = 2
      BY <2>2, MainBody
    <3>2. at["app_main"] \in 1..2
      BY <3>1, Place
    <3> QED BY <2>2, <3>2, MainBody DEF Now
  <2> QED BY <2>1, <2>2
<1> QED BY <1>1, SetUpReady DEF Fit

LEMMA StartInvReady ==
  ASSUME StartInv
  PROVE  St!PinsReady
<1>1. ASSUME ~ignored, NEW t \in running, at[t] <= Len(St!Body(t))
      PROVE  Fit(t)
  <2>1. t \in St!Tasks
    BY DEF StartInv
  <2> QED
    BY <1>1, <2>1, LightReady, RotationInitReady, WaterInitReady, RtcInitReady, Hx711Ready,
       OledInitReady, IoGpioReady, GyroInitReady, RotationReady, WaterReady, RtcReady,
       OledReady, CanReady, GyroReady, SampleReady, LedReady, MainReady
       DEF St!Tasks, St!Starters
<1> QED BY <1>1 DEF St!PinsReady, Fit, Now

\* No task uses a pin or the bus before it is set up, or after another took it
\* (Startup): whatever the order in which the scheduler runs the tasks and
\* whichever calls fail, up to the first failure nobody notices
\* (app_demo_water_sensor.c:74-93, app_demo_smart_trash_can.c:137).
THEOREM PinsAlwaysReady == DemosSpec => []PinsReady
<1>1. DemosInit => StartInv
  BY StartInvInit DEF DemosInit
<1>2. StartInv /\ [DemosNext]_allVars => StartInv'
  <2> SUFFICES ASSUME StartInv, [DemosNext]_allVars PROVE StartInv'
    OBVIOUS
  <2>1. St!Next \/ UNCHANGED St!startVars
    BY DemosStep DEF startVars, St!startVars
  <2> QED BY <2>1, StartInvNext
<1>3. StartInv => PinsReady
  BY StartInvReady DEF PinsReady
<1> QED BY <1>1, <1>2, <1>3, PTL DEF DemosSpec

----------------------------------------------------------------------------
(* The display.  While a pass has lost nothing, what is left to draw is the *)
(* rest of its line, and what is to be seen of the items drawn is there:    *)
(* the ones after them touch none of it.                                    *)

OledChars == {Dis!Label[j] : j \in 1..15} \cup {Dis!Number[j] : j \in 1..5} \cup {"clear"}
OledItems == [x : Nat, y : Nat, chr : OledChars]

\* The items of text of a pass, after the row it may clear first.
Before(v) == IF v < 6900 THEN 0 ELSE 1
ItemAt(j) == IF j <= 15 THEN 8 * (j - 1) ELSE 70 + 8 * (j - 16)
CharAt(j) == IF j <= 15 THEN Dis!Label[j] ELSE Dis!Number[j - 15]

\* Those not drawn over.
Seen == 1..8 \cup 15..20

\* What the first n items of a pass leave on the display.
SeenOf(n) ==
  /\ Before(voltage) = 1 /\ n >= 1 => \A c \in Dis!Columns : screen[<<6, c>>] = Dis!Dark
  /\ \A j \in Seen : Before(voltage) + j <= n =>
       \A m \in 1..6 : screen[<<3, ItemAt(j) + m - 1>>] = Dis!Pixels(CharAt(j), m)

\* n items are drawn, the others wait.
Halfway(n) ==
  /\ Len(todo) = Before(voltage) + 20 - n
  /\ \A j \in 1..Len(todo) : todo[j] = Dis!Line(voltage)[n + j]
  /\ SeenOf(n)

OledInv ==
  /\ oled \in {"init", "measure", "sleep"} /\ voltage \in Voltages
  /\ DOMAIN screen = Dis!Pages \X Dis!Columns
  /\ oled = "init" => ~clean
  /\ oled = "sleep" /\ clean =>
       /\ Dis!Said(vstr) \in {voltage, voltage - 1}
       /\ todo \in Seq(OledItems) /\ \E n \in 0..Before(voltage) + 20 : Halfway(n)

\* u is s, of length m, and t, of length n, together.
IsCat(S, u, s, m, t, n) ==
  /\ u \in Seq(S) /\ Len(u) = m + n
  /\ \A j \in 1..m : u[j] = s[j]
  /\ \A j \in 1..n : u[m + j] = t[j]

LEMMA CatAt ==
  ASSUME NEW S, NEW s \in Seq(S), NEW t \in Seq(S), NEW m \in Nat, NEW n \in Nat,
         Len(s) = m, Len(t) = n
  PROVE  IsCat(S, s \o t, s, m, t, n)
<1>1. s \o t \in Seq(S) /\ Len(s \o t) = m + n
  BY ConcatProperties
<1>2. \A j \in 1..m + n : (s \o t)[j] = IF j <= m THEN s[j] ELSE t[j - m]
  BY ConcatProperties
<1>3. ASSUME NEW j \in 1..m PROVE (s \o t)[j] = s[j]
  BY <1>2
<1>4. ASSUME NEW j \in 1..n PROVE (s \o t)[m + j] = t[j]
  <2>1. m + j \in 1..m + n /\ ~(m + j <= m) /\ (m + j) - m = j
    OBVIOUS
  <2> QED BY <1>2, <2>1
<1> QED BY <1>1, <1>3, <1>4 DEF IsCat

\* A string of the display, character by character.
IsStr(s, x, y, chars, n) ==
  /\ s \in Seq(OledItems) /\ Len(s) = n
  /\ \A j \in 1..n : s[j].x = x + 8 * (j - 1) /\ s[j].y = y /\ s[j].chr = chars[j]

LEMMA StrIs ==
  ASSUME NEW x \in Nat, NEW y \in Nat, NEW n \in Nat, NEW chars,
         Len(chars) = n, \A j \in 1..n : chars[j] \in OledChars
  PROVE  IsStr(Dis!Str(x, y, chars), x, y, chars, n)
<1> DEFINE s == Dis!Str(x, y, chars)
<1>1. s = [j \in 1..n |-> [x |-> x + 8 * (j - 1), y |-> y, chr |-> chars[j]]]
  BY DEF Dis!Str
<1>2. s \in [1..n -> OledItems]
  BY <1>1 DEF OledItems
<1>3. s \in Seq(OledItems) /\ Len(s) = n
  <2>1. s \in Seq(OledItems)
    BY <1>2, SeqDef
  <2>2. DOMAIN s = 1..n
    BY <1>2
  <2> QED BY <2>1, <2>2, LenProperties
<1> QED BY <1>1, <1>3 DEF IsStr

LEMMA LabelIs ==
  /\ Len(Dis!Label) = 15 /\ \A j \in 1..15 : Dis!Label[j] \in OledChars
  /\ Len(Dis!Number) = 5 /\ \A j \in 1..5 : Dis!Number[j] \in OledChars
<1>1. Len(Dis!Label) = 15 /\ Len(Dis!Number) = 5
  BY DEF Dis!Label, Dis!Number
<1>2. \A j \in 1..15 : Dis!Label[j] \in OledChars
  BY DEF OledChars
<1>3. \A j \in 1..5 : Dis!Number[j] \in OledChars
  BY DEF OledChars
<1> QED BY <1>1, <1>2, <1>3

\* A pass: the row it clears, the label, the number.
LEMMA LineIs ==
  ASSUME NEW v \in Nat
  PROVE  LET b == Before(v)
             l == Dis!Line(v) IN
         /\ l \in Seq(OledItems) /\ Len(l) = b + 20
         /\ b = 1 => l[1].x = 0 /\ l[1].y = 6 /\ l[1].chr = "clear"
         /\ \A j \in 1..20 : l[b + j].x = ItemAt(j) /\ l[b + j].y = 3 /\ l[b + j].chr = CharAt(j)
<1> DEFINE b == Before(v)
           s0 == IF v < 6900 THEN <<>> ELSE <<Dis!Clear(6)>>
           s1 == Dis!Str(0, 3, Dis!Label)
           s2 == Dis!Str(70, 3, Dis!Number)
<1>1. /\ s0 \in Seq(OledItems) /\ Len(s0) = b
      /\ b = 1 => s0[1].x = 0 /\ s0[1].y = 6 /\ s0[1].chr = "clear"
  <2>1. CASE v < 6900
    BY <2>1, EmptySeq DEF Before
  <2>2. CASE ~(v < 6900)
    <3>1. Dis!Clear(6) \in OledItems
      BY DEF Dis!Clear, OledItems, OledChars
    <3>2. s0 = <<Dis!Clear(6)>> /\ b = 1
      BY <2>2 DEF Before
    <3>3. Dis!Clear(6).x = 0 /\ Dis!Clear(6).y = 6 /\ Dis!Clear(6).chr = "clear"
      BY DEF Dis!Clear
    <3> QED BY <3>1, <3>2, <3>3
  <2> QED BY <2>1, <2>2
<1>2. IsStr(s1, 0, 3, Dis!Label, 15)
  <2>1. 0 \in Nat /\ 3 \in Nat /\ 15 \in Nat
    OBVIOUS
  <2> QED BY <2>1, LabelIs, StrIs, Zenon
<1>3. IsStr(s2, 70, 3, Dis!Number, 5)
  <2>1. 70 \in Nat /\ 3 \in Nat /\ 5 \in Nat
    OBVIOUS
  <2> QED BY <2>1, LabelIs, StrIs, Zenon
<1>4. Dis!Line(v) = (s0 \o s1) \o s2
  BY DEF Dis!Line
<1>5. b \in {0, 1}
  BY DEF Before
<1> HIDE DEF b, s0, s1, s2
<1> DEFINE u == s0 \o s1
           w == u \o s2
<1>6. IsCat(OledItems, u, s0, b, s1, 15)
  <2>1. b \in Nat /\ 15 \in Nat /\ s1 \in Seq(OledItems) /\ Len(s1) = 15
    BY <1>2, <1>5 DEF IsStr
  <2> QED BY <1>1, <2>1, CatAt, Zenon
<1> HIDE DEF u
<1>9. IsCat(OledItems, w, u, b + 15, s2, 5)
  <2>1. /\ u \in Seq(OledItems) /\ Len(u) = b + 15 /\ b + 15 \in Nat
        /\ s2 \in Seq(OledItems) /\ Len(s2) = 5 /\ 5 \in Nat
    BY <1>3, <1>5, <1>6 DEF IsCat, IsStr
  <2> QED BY <2>1, CatAt, Zenon
<1>10. Dis!Line(v) = w
  BY <1>4 DEF u
<1> HIDE DEF w
<1>7. /\ w \in Seq(OledItems) /\ Len(w) = b + 20
      /\ b = 1 => w[1] = s0[1]
      /\ \A j \in 1..15 : w[b + j] = s1[j]
      /\ \A j \in 1..5 : w[b + 15 + j] = s2[j]
  <2>4. /\ \A j \in 1..b : u[j] = s0[j]
        /\ \A j \in 1..15 : u[b + j] = s1[j]
    BY <1>6 DEF IsCat
  <2>5. \A j \in 1..15 : b + j \in 1..b + 15
    BY <1>5
  <2>6. /\ w \in Seq(OledItems) /\ Len(w) = b + 20
        /\ \A j \in 1..b + 15 : w[j] = u[j]
        /\ \A j \in 1..5 : w[b + 15 + j] = s2[j]
    BY <1>5, <1>9 DEF IsCat
  <2>7. b = 1 => w[1] = s0[1]
    BY <2>4, <2>6
  <2>8. \A j \in 1..15 : w[b + j] = s1[j]
    BY <2>4, <2>5, <2>6
  <2> QED BY <2>6, <2>7, <2>8
<1>8. ASSUME NEW j \in 1..20
      PROVE  w[b + j].x = ItemAt(j) /\ w[b + j].y = 3 /\ w[b + j].chr = CharAt(j)
  <2>1. CASE j <= 15
    <3>0. j \in 1..15
      BY <2>1
    <3>1. w[b + j] = s1[j]
      BY <3>0, <1>7, Zenon
    <3>2. s1[j].x = 0 + 8 * (j - 1) /\ s1[j].y = 3 /\ s1[j].chr = Dis!Label[j]
      BY <3>0, <1>2, Zenon DEF IsStr
    <3>3. ItemAt(j) = 8 * (j - 1) /\ CharAt(j) = Dis!Label[j]
      BY <2>1 DEF ItemAt, CharAt
    <3> QED BY <3>1, <3>2, <3>3
  <2>2. CASE j > 15
    <3>1. j - 15 \in 1..5 /\ b + 15 + (j - 15) = b + j /\ (j - 15) - 1 = j - 16
      BY <2>2, <1>5
    <3>2. w[b + j] = s2[j - 15]
      BY <3>1, <1>7
    <3>3. s2[j - 15].x = 70 + 8 * (j - 16) /\ s2[j - 15].y = 3 /\ s2[j - 15].chr = Dis!Number[j - 15]
      BY <3>1, <1>3 DEF IsStr
    <3>4. ItemAt(j) = 70 + 8 * (j - 16) /\ CharAt(j) = Dis!Number[j - 15]
      BY <2>2 DEF ItemAt, CharAt
    <3> QED BY <3>2, <3>3, <3>4
  <2> QED BY <2>1, <2>2
<1> QED BY <1>1, <1>7, <1>8, <1>10 DEF b

\* Columns from one to another, around the display.
LEMMA Around ==
  ASSUME NEW c \in 0..127, NEW x \in 0..127
  PROVE  /\ c < x => (c - x) % 128 = (c - x) + 128
         /\ c >= x => (c - x) % 128 = c - x
  OBVIOUS

\* What drawing an item does when no transfer is lost.
LEMMA DrawnWhole ==
  ASSUME DOMAIN screen = Dis!Pages \X Dis!Columns, NEW item, item.x \in Dis!Columns,
         Dis!Drawn(item, {}, 0)
  PROVE  /\ DOMAIN screen' = Dis!Pages \X Dis!Columns
         /\ item.chr = "clear" /\ item.y \in Dis!Pages =>
              \A c \in Dis!Columns : screen'[<<item.y, c>>] = Dis!Dark
         /\ item.chr # "clear" /\ item.y \in Dis!Pages /\ item.x <= 122 =>
              /\ \A m \in 1..6 : screen'[<<item.y, item.x + m - 1>>] = Dis!Pixels(item.chr, m)
              /\ \A c \in Dis!Columns : c < item.x \/ c > item.x + 5 =>
                   screen'[<<item.y, c>>] = screen[<<item.y, c>>]
         /\ \A y \in Dis!Pages \ {item.y}, c \in Dis!Columns : screen'[<<y, c>>] = screen[<<y, c>>]
<1> DEFINE place(c) == ((c - item.x) % 128) + 1
           length == IF item.chr = "clear" THEN 128 ELSE 6
<1>1. Dis!Position(item.x, item.y, {}).page = item.y /\ Dis!Position(item.x, item.y, {}).col = item.x
  <2>1. 16 * (item.x \div 16) + (item.x % 16) = item.x
    BY DEF Dis!Columns
  <2>2. /\ Dis!Position(item.x, item.y, {}).page = item.y
        /\ Dis!Position(item.x, item.y, {}).col = 16 * (item.x \div 16) + (item.x % 16)
    BY DEF Dis!Position
  <2> QED BY <2>1, <2>2
<1>2. \A n \in Int : ~(0 \in 1..n)
  OBVIOUS
<1>3. \A c \in Dis!Columns : place(c) \in 1..128
  BY DEF Dis!Columns
<1>4. screen' = [p \in DOMAIN screen |->
                   IF p[1] = item.y /\ place(p[2]) <= length
                   THEN Dis!Pixels(item.chr, place(p[2])) ELSE screen[p]]
  <2> DEFINE sent(n) == IF 0 \in 1..n THEN n + 1 ELSE n
  <2>1. screen' = [p \in DOMAIN screen |->
                   IF p[1] = item.y /\ sent(place(p[2])) <= length
                   THEN Dis!Pixels(item.chr, sent(place(p[2]))) ELSE screen[p]]
    BY <1>1 DEF Dis!Drawn
  <2>2. \A p \in DOMAIN screen : sent(place(p[2])) = place(p[2])
    <3>1. \A p \in DOMAIN screen : p[2] \in Dis!Columns
      OBVIOUS
    <3> QED BY <1>2, <1>3, <3>1
  <2> HIDE DEF place, sent
  <2> QED BY <2>1, <2>2
<1> HIDE DEF place
<1>5. \A y \in Dis!Pages, c \in Dis!Columns :
        screen'[<<y, c>>] = IF y = item.y /\ place(c) <= length
                            THEN Dis!Pixels(item.chr, place(c)) ELSE screen[<<y, c>>]
  BY <1>3, <1>4
<1>6. DOMAIN screen' = Dis!Pages \X Dis!Columns
  BY <1>4
<1>7. ASSUME item.chr = "clear", item.y \in Dis!Pages, NEW c \in Dis!Columns
      PROVE  screen'[<<item.y, c>>] = Dis!Dark
  BY <1>3, <1>5, <1>7 DEF Dis!Pixels
<1>8. ASSUME item.x <= 122
      PROVE  /\ \A m \in 1..6 : item.x + m - 1 \in Dis!Columns /\ place(item.x + m - 1) = m
             /\ \A c \in Dis!Columns : c < item.x \/ c > item.x + 5 => place(c) > 6
  <2>1. ASSUME NEW m \in 1..6 PROVE item.x + m - 1 \in Dis!Columns /\ place(item.x + m - 1) = m
    <3>1. item.x + m - 1 \in 0..127 /\ (item.x + m - 1) - item.x = m - 1
      BY <1>8 DEF Dis!Columns
    <3>2. (m - 1) % 128 = m - 1
      OBVIOUS
    <3> QED BY <3>1, <3>2 DEF Dis!Columns, place
  <2>2. ASSUME NEW c \in Dis!Columns, c < item.x \/ c > item.x + 5 PROVE place(c) > 6
    <3>1. c \in 0..127 /\ item.x \in 0..122
      BY <1>8 DEF Dis!Columns
    <3>2. CASE c < item.x
      <4>1. (c - item.x) % 128 = (c - item.x) + 128
        BY <3>1, <3>2, Around
      <4> QED BY <3>1, <3>2, <4>1 DEF place
    <3>3. CASE c > item.x + 5
      <4>1. (c - item.x) % 128 = c - item.x
        BY <3>1, <3>3
      <4> QED BY <3>1, <3>3, <4>1 DEF place
    <3> QED BY <2>2, <3>2, <3>3
  <2> QED BY <2>1, <2>2
<1>9. ASSUME item.chr # "clear", item.y \in Dis!Pages, item.x <= 122
      PROVE  /\ \A m \in 1..6 : screen'[<<item.y, item.x + m - 1>>] = Dis!Pixels(item.chr, m)
             /\ \A c \in Dis!Columns : c < item.x \/ c > item.x + 5 =>
                  screen'[<<item.y, c>>] = screen[<<item.y, c>>]
  <2>1. length = 6
    BY <1>9
  <2>2. ASSUME NEW m \in 1..6
        PROVE  screen'[<<item.y, item.x + m - 1>>] = Dis!Pixels(item.chr, m)
    <3>1. item.x + m - 1 \in Dis!Columns /\ place(item.x + m - 1) = m /\ m <= 6
      BY <1>8, <1>9
    <3> QED BY <1>5, <1>9, <2>1, <3>1
  <2>3. ASSUME NEW c \in Dis!Columns, c < item.x \/ c > item.x + 5
        PROVE  screen'[<<item.y, c>>] = screen[<<item.y, c>>]
    <3>1. place(c) > 6 /\ place(c) \in 1..128
      BY <1>3, <1>8, <1>9, <2>3
    <3> QED BY <1>5, <1>9, <2>1, <3>1
  <2> QED BY <2>2, <2>3
<1> QED BY <1>5, <1>6, <1>7, <1>9

\* The digits of a number.
LEMMA DecimalIs ==
  ASSUME NEW v \in Nat
  PROVE  v = 1000 * (v \div 1000) + 100 * ((v \div 100) % 10) + 10 * ((v \div 10) % 10) + (v % 10)
<1>1. v = 10 * (v \div 10) + (v % 10)
  OBVIOUS
<1>2. v \div 10 = 10 * (v \div 100) + ((v \div 10) % 10)
  OBVIOUS
<1>3. v \div 100 = 10 * (v \div 1000) + ((v \div 100) % 10)
  OBVIOUS
<1> DEFINE a == v \div 10
           b == v \div 100
           c == v \div 1000
           d == v % 10
           e == a % 10
           f == b % 10
<1>4. a \in Int /\ b \in Int /\ c \in Int /\ d \in Int /\ e \in Int /\ f \in Int
  OBVIOUS
<1> HIDE DEF a, b, c, d, e, f
<1>5. v = 10 * a + d /\ a = 10 * b + e /\ b = 10 * c + f
  BY <1>1, <1>2, <1>3 DEF a, b, c, d, e, f
<1>6. v = 1000 * c + 100 * f + 10 * e + d
  BY <1>4, <1>5
<1> QED BY <1>6 DEF a, b, c, d, e, f

\* What is before the point.
IsIntegral(whole, n) ==
  /\ whole \in Seq(Nat) /\ Len(whole) \in 0..2 /\ \A m \in 1..Len(whole) : whole[m] \in 0..9
  /\ Len(whole) = 0 => n = 0
  /\ Len(whole) = 1 => n = whole[1]
  /\ Len(whole) = 2 => n = 10 * whole[1] + whole[2]

LEMMA IntegralIs ==
  ASSUME NEW n \in 0..32
  PROVE  IsIntegral(Dis!Integral(n), n)
<1> DEFINE I == Dis!Integral(n)
<1>1. CASE n = 0
  <2>1. I = <<>>
    BY <1>1 DEF Dis!Integral
  <2>2. I \in Seq(Nat) /\ Len(I) = 0
    BY <2>1, EmptySeq
  <2> HIDE DEF I
  <2>3. \A m \in 1..Len(I) : I[m] \in 0..9
    BY <2>2
  <2> QED BY <1>1, <2>2, <2>3 DEF I, IsIntegral
<1>2. CASE n \in 1..9
  <2>1. I = <<n>>
    BY <1>2 DEF Dis!Integral
  <2>2. I \in Seq(Nat) /\ Len(I) = 1 /\ I[1] = n
    BY <2>1, <1>2
  <2> HIDE DEF I
  <2>3. \A m \in 1..Len(I) : I[m] \in 0..9
    BY <1>2, <2>2
  <2> QED BY <2>2, <2>3 DEF I, IsIntegral
<1>3. CASE n \in 10..32
  <2>1. I = <<n \div 10, n % 10>>
    BY <1>3 DEF Dis!Integral
  <2>2. n \div 10 \in 0..9 /\ n % 10 \in 0..9 /\ n = 10 * (n \div 10) + (n % 10)
    BY <1>3
  <2>3. I \in Seq(Nat) /\ Len(I) = 2 /\ I[1] = n \div 10 /\ I[2] = n % 10
    BY <2>1, <2>2
  <2> HIDE DEF I
  <2>4. \A m \in 1..Len(I) : I[m] \in 0..9
    BY <2>2, <2>3
  <2> QED BY <2>2, <2>3, <2>4 DEF I, IsIntegral
<1> QED BY <1>1, <1>2, <1>3

\* The last digit that is not 0, or the point.
LastOf(str, m) == m \in 1..Len(str) /\ str[m] # 0 /\ \A j \in m + 1..Len(str) : str[j] = 0
DigitAt(text, j) == IF j \in DOMAIN text /\ text[j] # Dis!Dot THEN text[j] ELSE 0

\* A text with q digits before its point.
IsText(str, q) ==
  /\ str \in Seq(Nat) /\ Len(str) = q + 4 /\ str[q + 1] = 10
  /\ \A j \in 1..q + 4 : j # q + 1 => str[j] \in 0..9

LEMMA LastDigit ==
  ASSUME NEW q \in 0..2, NEW str, IsText(str, q)
  PROVE  LET k_ == CHOOSE m \in 1..Len(str) : str[m] # 0 /\ \A j \in m + 1..Len(str) : str[j] = 0
         IN k_ \in q + 1..q + 4 /\ LastOf(str, k_)
<1> DEFINE K == CHOOSE m \in 1..Len(str) : str[m] # 0 /\ \A j \in m + 1..Len(str) : str[j] = 0
<1>1. Len(str) = q + 4 /\ str[q + 1] = 10
  BY DEF IsText
<1>2. \E m \in 1..Len(str) : str[m] # 0 /\ \A j \in m + 1..Len(str) : str[j] = 0
  <2>1. CASE str[q + 4] # 0
    <3>1. q + 4 \in 1..Len(str) /\ \A j \in (q + 4) + 1..Len(str) : str[j] = 0
      BY <1>1
    <3> QED BY <2>1, <3>1
  <2>2. CASE str[q + 4] = 0 /\ str[q + 3] # 0
    <3>1. q + 3 \in 1..Len(str) /\ \A j \in (q + 3) + 1..Len(str) : str[j] = 0
      BY <1>1, <2>2
    <3> QED BY <2>2, <3>1
  <2>3. CASE str[q + 4] = 0 /\ str[q + 3] = 0 /\ str[q + 2] # 0
    <3>1. \A j \in (q + 2) + 1..Len(str) : j = q + 3 \/ j = q + 4
      BY <1>1
    <3>2. q + 2 \in 1..Len(str) /\ \A j \in (q + 2) + 1..Len(str) : str[j] = 0
      BY <1>1, <2>3, <3>1
    <3> QED BY <2>3, <3>2
  <2>4. CASE str[q + 4] = 0 /\ str[q + 3] = 0 /\ str[q + 2] = 0
    <3>1. \A j \in (q + 1) + 1..Len(str) : j = q + 2 \/ j = q + 3 \/ j = q + 4
      BY <1>1
    <3>2. q + 1 \in 1..Len(str) /\ \A j \in (q + 1) + 1..Len(str) : str[j] = 0
      BY <1>1, <2>4, <3>1
    <3> QED BY <1>1, <3>2
  <2> QED BY <2>1, <2>2, <2>3, <2>4
<1>3. K \in 1..Len(str) /\ str[K] # 0 /\ \A j \in K + 1..Len(str) : str[j] = 0
  BY <1>2
<1> HIDE DEF K
<1>4. K \in q + 1..q + 4
  <2>1. SUFFICES ASSUME K < q + 1 PROVE FALSE
    BY <1>1, <1>3
  <2>2. q + 1 \in K + 1..Len(str)
    BY <1>1, <1>3, <2>1
  <2> QED BY <1>1, <1>3, <2>2
<1>5. LastOf(str, K)
  BY <1>3 DEF LastOf
<1> QED BY <1>4, <1>5 DEF K

\* Leaving out the zeros at its end loses none of its digits.
LEMMA Trimmed ==
  ASSUME NEW q \in 0..2, NEW str, IsText(str, q), NEW k_ \in q + 1..q + 4, LastOf(str, k_)
  PROVE  LET text == SubSeq(str, 1, k_) IN
         /\ (CHOOSE j \in DOMAIN text : text[j] = Dis!Dot) = q + 1
         /\ \A j \in 1..q + 4 : j # q + 1 => DigitAt(text, j) = str[j]
         /\ \A j \in -1..0 : DigitAt(text, j) = 0
<1> DEFINE text == SubSeq(str, 1, k_)
<1>1. k_ \in Int /\ 1 \in Int /\ 1 <= k_ /\ k_ <= Len(str)
  BY DEF IsText
<1>2. \A j \in 1..k_ : str[j] \in Nat
  BY <1>1, ElementOfSeq DEF IsText
<1>3. text \in Seq(Nat) /\ Len(text) = k_ /\ \A j \in 1..k_ : text[j] = str[j]
  BY <1>1, <1>2, SubSeqProperties
<1>4. DOMAIN text = 1..k_
  BY <1>3, LenProperties
<1> HIDE DEF text
<1>5. q + 1 \in DOMAIN text /\ text[q + 1] = Dis!Dot
  <2>1. q + 1 \in 1..k_
    OBVIOUS
  <2> QED BY <2>1, <1>3, <1>4 DEF IsText, Dis!Dot
<1>6. ASSUME NEW j \in DOMAIN text, j # q + 1 PROVE text[j] \in 0..9 /\ text[j] = str[j]
  <2>1. j \in 1..k_ /\ j \in 1..q + 4
    BY <1>4
  <2> QED BY <1>3, <1>6, <2>1 DEF IsText
<1>7. \A j \in DOMAIN text : text[j] = Dis!Dot => j = q + 1
  BY <1>6 DEF Dis!Dot
<1>8. (CHOOSE j \in DOMAIN text : text[j] = Dis!Dot) = q + 1
  BY <1>5, <1>7
<1>9. ASSUME NEW j \in 1..q + 4, j # q + 1 PROVE DigitAt(text, j) = str[j]
  <2>1. CASE j \in DOMAIN text
    <3>1. text[j] # Dis!Dot
      BY <1>7, <1>9, <2>1
    <3> QED BY <1>6, <1>9, <2>1, <3>1 DEF DigitAt
  <2>2. CASE j \notin DOMAIN text
    <3>1. j \in k_ + 1..Len(str)
      BY <1>4, <2>2 DEF IsText
    <3> QED BY <2>2, <3>1 DEF DigitAt, LastOf
  <2> QED BY <2>1, <2>2
<1>10. ASSUME NEW j \in -1..0 PROVE DigitAt(text, j) = 0
  BY <1>4 DEF DigitAt
<1> QED BY <1>8, <1>9, <1>10 DEF text

LEMMA SaidOf ==
  ASSUME NEW q \in 0..2, NEW str, IsText(str, q), NEW k_ \in q + 1..q + 4, LastOf(str, k_)
  PROVE  Dis!Said(SubSeq(str, 1, k_)) =
           (IF q = 2 THEN 10000 * str[1] + 1000 * str[2] ELSE IF q = 1 THEN 1000 * str[1] ELSE 0)
             + str[q + 2] * 100 + str[q + 3] * 10 + str[q + 4]
<1> DEFINE text == SubSeq(str, 1, k_)
           point == CHOOSE j \in DOMAIN text : text[j] = Dis!Dot
<1>1. point = q + 1
  BY Trimmed
<1>2. Dis!Said(text) =
        DigitAt(text, point - 2) * 10000 + DigitAt(text, point - 1) * 1000
          + DigitAt(text, point + 1) * 100 + DigitAt(text, point + 2) * 10 + DigitAt(text, point + 3)
  BY DEF Dis!Said, DigitAt
<1> HIDE DEF point
<1>3. /\ point - 2 = q - 1 /\ point - 1 = q
      /\ point + 1 = q + 2 /\ point + 2 = q + 3 /\ point + 3 = q + 4
  BY <1>1
<1>4. /\ DigitAt(text, q + 2) = str[q + 2] /\ DigitAt(text, q + 3) = str[q + 3]
      /\ DigitAt(text, q + 4) = str[q + 4]
  <2>1. /\ q + 2 \in 1..q + 4 /\ q + 3 \in 1..q + 4 /\ q + 4 \in 1..q + 4
        /\ q + 2 # q + 1 /\ q + 3 # q + 1 /\ q + 4 # q + 1
    OBVIOUS
  <2> QED BY <2>1, Trimmed, Zenon
<1>5. /\ q = 0 => DigitAt(text, -1) = 0 /\ DigitAt(text, 0) = 0
      /\ q = 1 => DigitAt(text, 0) = 0 /\ DigitAt(text, 1) = str[1]
      /\ q = 2 => DigitAt(text, 1) = str[1] /\ DigitAt(text, 2) = str[2]
  BY Trimmed
<1>6. str[q + 2] \in 0..9 /\ str[q + 3] \in 0..9 /\ str[q + 4] \in 0..9
      /\ (q >= 1 => str[1] \in 0..9) /\ (q = 2 => str[2] \in 0..9)
  BY DEF IsText
<1>7. Dis!Said(text) = DigitAt(text, q - 1) * 10000 + DigitAt(text, q) * 1000
                         + str[q + 2] * 100 + str[q + 3] * 10 + str[q + 4]
  BY <1>2, <1>3, <1>4
<1> HIDE DEF text
<1> DEFINE whole == IF q = 2 THEN 10000 * str[1] + 1000 * str[2] ELSE IF q = 1 THEN 1000 * str[1] ELSE 0
           d1 == DigitAt(text, q - 1)
           d0 == DigitAt(text, q)
           a == str[q + 2]
           b == str[q + 3]
           c == str[q + 4]
<1>8. d1 * 10000 + d0 * 1000 = whole
  <2>1. CASE q = 0
    <3>1. q - 1 = -1 /\ whole = 0
      BY <2>1
    <3>2. d1 = 0 /\ d0 = 0
      BY <1>5, <2>1, <3>1
    <3> QED BY <3>1, <3>2
  <2>2. CASE q = 1
    <3>1. q - 1 = 0 /\ whole = 1000 * str[1]
      BY <2>2
    <3>2. d1 = 0 /\ d0 = str[1]
      BY <1>5, <2>2, <3>1
    <3>3. str[1] \in 0..9
      BY <1>6, <2>2
    <3> HIDE DEF d1, d0, whole
    <3> QED BY <3>1, <3>2, <3>3
  <2>3. CASE q = 2
    <3>1. q - 1 = 1 /\ whole = 10000 * str[1] + 1000 * str[2]
      BY <2>3
    <3>2. d1 = str[1] /\ d0 = str[2]
      BY <1>5, <2>3, <3>1
    <3>3. str[1] \in 0..9 /\ str[2] \in 0..9
      BY <1>6, <2>3
    <3> HIDE DEF d1, d0, whole
    <3> QED BY <3>1, <3>2, <3>3
  <2> QED BY <2>1, <2>2, <2>3
<1>9. Dis!Said(text) = d1 * 10000 + d0 * 1000 + a * 100 + b * 10 + c
  BY <1>7
<1> HIDE DEF d1, d0, a, b, c, whole
<1>10. Dis!Said(text) = whole + a * 100 + b * 10 + c
  BY <1>8, <1>9
<1> QED BY <1>10 DEF text, whole, a, b, c

\* The same for a text as flaot_to_string cuts it.
SumOf(str, q) ==
  (IF q = 2 THEN 10000 * str[1] + 1000 * str[2] ELSE IF q = 1 THEN 1000 * str[1] ELSE 0)
    + str[q + 2] * 100 + str[q + 3] * 10 + str[q + 4]
CutOf(str) ==
  LET kept == CHOOSE m \in 1..Len(str) : str[m] # 0 /\ \A j \in m + 1..Len(str) : str[j] = 0
  IN SubSeq(str, 1, kept)

LEMMA SaidCut ==
  ASSUME NEW q \in 0..2, NEW str, IsText(str, q)
  PROVE  Dis!Said(CutOf(str)) = SumOf(str, q)
<1> DEFINE K == CHOOSE m \in 1..Len(str) : str[m] # 0 /\ \A j \in m + 1..Len(str) : str[j] = 0
<1>1. K \in q + 1..q + 4 /\ LastOf(str, K)
  BY LastDigit
<1> HIDE DEF K
<1>2. Dis!Said(SubSeq(str, 1, K)) = SumOf(str, q)
  BY <1>1, SaidOf DEF SumOf
<1> QED BY <1>2 DEF CutOf, K

\* Digits, a point, and three digits.
IsPoint(dot) == dot \in Seq(Nat) /\ Len(dot) = 1 /\ dot[1] = 10
IsThree(three) ==
  three \in Seq(Nat) /\ Len(three) = 3 /\ three[1] \in 0..9 /\ three[2] \in 0..9 /\ three[3] \in 0..9
NumberOf(n, three) == 1000 * n + 100 * three[1] + 10 * three[2] + three[3]
IsWhole(whole, q) ==
  q \in 0..2 /\ whole \in Seq(Nat) /\ Len(whole) = q /\ \A m \in 1..q : whole[m] \in 0..9
TextOf(str, whole, three, q) ==
  /\ IsText(str, q)
  /\ \A j \in 1..q : str[j] = whole[j]
  /\ str[q + 2] = three[1] /\ str[q + 3] = three[2] /\ str[q + 4] = three[3]

LEMMA TextIs ==
  ASSUME NEW whole, NEW q, IsWhole(whole, q), NEW dot, IsPoint(dot), NEW three, IsThree(three)
  PROVE  TextOf((whole \o dot) \o three, whole, three, q)
<1> DEFINE head == whole \o dot
<1>1. IsCat(Nat, head, whole, q, dot, 1)
  <2>1. /\ whole \in Seq(Nat) /\ q \in Nat /\ Len(whole) = q
        /\ dot \in Seq(Nat) /\ 1 \in Nat /\ Len(dot) = 1
    BY DEF IsWhole, IsPoint
  <2> QED BY <2>1, CatAt, Zenon
<1> HIDE DEF head
<1> DEFINE str == head \o three
<1>2. IsCat(Nat, str, head, q + 1, three, 3)
  <2>1. /\ head \in Seq(Nat) /\ Len(head) = q + 1 /\ q + 1 \in Nat
        /\ three \in Seq(Nat) /\ Len(three) = 3 /\ 3 \in Nat
    BY <1>1 DEF IsCat, IsWhole, IsThree
  <2> QED BY <2>1, CatAt, Zenon
<1> HIDE DEF str
<1>3. q \in 0..2
  BY DEF IsWhole
<1>4. /\ str \in Seq(Nat) /\ Len(str) = (q + 1) + 3
      /\ \A j \in 1..q + 1 : str[j] = head[j]
      /\ \A j \in 1..3 : str[(q + 1) + j] = three[j]
  BY <1>2 DEF IsCat
<1>5. /\ \A j \in 1..q : head[j] = whole[j]
      /\ \A j \in 1..1 : head[q + j] = dot[j]
  BY <1>1 DEF IsCat
<1>6. str[q + 1] = 10
  <2>1. q + 1 \in 1..q + 1 /\ 1 \in 1..1
    BY <1>3
  <2>2. str[q + 1] = head[q + 1] /\ head[q + 1] = dot[1]
    BY <1>4, <1>5, <2>1, Zenon
  <2> QED BY <2>2 DEF IsPoint
<1>7. ASSUME NEW j \in 1..q PROVE str[j] = whole[j] /\ str[j] \in 0..9
  <2>1. j \in 1..q + 1
    BY <1>3
  <2>2. str[j] = whole[j]
    BY <1>4, <1>5, <2>1, Zenon
  <2> QED BY <2>2 DEF IsWhole
<1>8. str[q + 2] = three[1] /\ str[q + 3] = three[2] /\ str[q + 4] = three[3]
  <2>1. (q + 1) + 1 = q + 2 /\ (q + 1) + 2 = q + 3 /\ (q + 1) + 3 = q + 4
    BY <1>3
  <2>2. 1 \in 1..3 /\ 2 \in 1..3 /\ 3 \in 1..3
    OBVIOUS
  <2>3. str[(q + 1) + 1] = three[1] /\ str[(q + 1) + 2] = three[2] /\ str[(q + 1) + 3] = three[3]
    BY <1>4, <2>2, Zenon
  <2> QED BY <2>1, <2>3, Zenon
<1>9. Len(str) = q + 4
  BY <1>3, <1>4
<1>10. ASSUME NEW j \in 1..q + 4, j # q + 1 PROVE str[j] \in 0..9
  <2>1. CASE j \in 1..q
    BY <1>7, <2>1
  <2>2. CASE j \notin 1..q
    <3>1. j = q + 2 \/ j = q + 3 \/ j = q + 4
      BY <1>3, <1>10, <2>2
    <3>2. three[1] \in 0..9 /\ three[2] \in 0..9 /\ three[3] \in 0..9
      BY DEF IsThree
    <3> QED BY <1>8, <3>1, <3>2, Zenon
  <2> QED BY <2>1, <2>2
<1>11. IsText(str, q)
  BY <1>4, <1>6, <1>9, <1>10 DEF IsText
<1>12. TextOf(str, whole, three, q)
  BY <1>7, <1>8, <1>11 DEF TextOf
<1> QED BY <1>12 DEF str, head

\* It says the number the digits make.
LEMMA SumIs ==
  ASSUME NEW n \in Nat, NEW whole, IsIntegral(whole, n), NEW three, IsThree(three),
         NEW str, TextOf(str, whole, three, Len(whole))
  PROVE  SumOf(str, Len(whole)) = NumberOf(n, three)
<1> DEFINE q == Len(whole)
           thousands == IF q = 2 THEN 10000 * str[1] + 1000 * str[2] ELSE IF q = 1 THEN 1000 * str[1] ELSE 0
<1>1. q \in 0..2 /\ (q = 0 => n = 0) /\ (q = 1 => n = whole[1]) /\ (q = 2 => n = 10 * whole[1] + whole[2])
  BY DEF IsIntegral
<1>2. \A j \in 1..q : str[j] = whole[j] /\ whole[j] \in 0..9
  BY DEF IsIntegral, TextOf
<1>3. SumOf(str, q) = thousands + str[q + 2] * 100 + str[q + 3] * 10 + str[q + 4]
  BY DEF SumOf
<1>4. str[q + 2] = three[1] /\ str[q + 3] = three[2] /\ str[q + 4] = three[3]
  BY DEF TextOf
<1>5. SumOf(str, q) = thousands + three[1] * 100 + three[2] * 10 + three[3]
  BY <1>3, <1>4
<1>6. three[1] \in 0..9 /\ three[2] \in 0..9 /\ three[3] \in 0..9
  BY DEF IsThree
<1> HIDE DEF q
<1>7. thousands = 1000 * n
  <2>1. CASE q = 0
    BY <1>1, <2>1
  <2>2. CASE q = 1
    <3>1. str[1] = whole[1]
      BY <1>2, <2>2
    <3> QED BY <1>1, <2>2, <3>1
  <2>3. CASE q = 2
    <3> DEFINE a == str[1]
               b == str[2]
    <3>1. a = whole[1] /\ b = whole[2] /\ a \in 0..9 /\ b \in 0..9
      BY <1>2, <2>3
    <3>2. n = 10 * a + b
      BY <1>1, <2>3, <3>1
    <3>3. thousands = 10000 * a + 1000 * b
      BY <2>3
    <3> HIDE DEF a, b, thousands
    <3> QED BY <3>1, <3>2, <3>3
  <2> QED BY <1>1, <2>1, <2>2, <2>3
<1> HIDE DEF thousands
<1> DEFINE d1 == three[1]
           d2 == three[2]
           d3 == three[3]
<1>8. SumOf(str, q) = 1000 * n + d1 * 100 + d2 * 10 + d3 /\ d1 \in 0..9 /\ d2 \in 0..9 /\ d3 \in 0..9
  BY <1>5, <1>6, <1>7
<1> HIDE DEF d1, d2, d3
<1>9. SumOf(str, q) = 1000 * n + 100 * d1 + 10 * d2 + d3
  BY <1>8
<1> QED BY <1>9 DEF q, d1, d2, d3, NumberOf

\* Put together and cut.
LEMMA SaidAll ==
  ASSUME NEW n \in Nat, NEW whole, IsIntegral(whole, n), NEW dot, IsPoint(dot), NEW three, IsThree(three)
  PROVE  Dis!Said(CutOf((whole \o dot) \o three)) = NumberOf(n, three)
<1> DEFINE q == Len(whole)
<1>1. IsWhole(whole, q)
  BY DEF IsIntegral, IsWhole
<1> HIDE DEF q
<1>2. TextOf((whole \o dot) \o three, whole, three, q)
  BY <1>1, TextIs, Zenon
<1> DEFINE str == (whole \o dot) \o three
<1>3. TextOf(str, whole, three, q)
  BY <1>2
<1> HIDE DEF str
<1>4. SumOf(str, q) = NumberOf(n, three)
  BY <1>3, SumIs, Zenon DEF q
<1>5. q \in 0..2 /\ IsText(str, q)
  BY <1>1, <1>3 DEF IsWhole, TextOf
<1>6. Dis!Said(CutOf(str)) = SumOf(str, q)
  BY <1>5, SaidCut, Zenon
<1> QED BY <1>4, <1>6, Zenon DEF str

\* The text of a voltage says it.
IsReading(v) == v \in Nat /\ v <= Dis!MaxReading

LEMMA SaidIs ==
  ASSUME NEW v, IsReading(v)
  PROVE  Dis!Said(Dis!flaot_to_string(v)) = v
<1> DEFINE n == v \div 1000
<1>1. n \in 0..32 /\ n \in Nat /\ n = v \div 1000 /\ v \in Nat
  BY DEF IsReading, Dis!MaxReading
<1> HIDE DEF n
<1> DEFINE whole == Dis!Integral(n)
           dot == <<Dis!Dot>>
<1>2. IsIntegral(whole, n)
  BY <1>1, IntegralIs
<1>3. IsPoint(dot)
  BY DEF IsPoint, Dis!Dot
<1> HIDE DEF whole, dot
<1> DEFINE three == Dis!Decimals(v)
<1>4. three[1] = (v \div 100) % 10 /\ three[2] = (v \div 10) % 10 /\ three[3] = v % 10
  BY DEF Dis!Decimals
<1>5. IsThree(three)
  <2>1. (v \div 100) % 10 \in 0..9 /\ (v \div 10) % 10 \in 0..9 /\ v % 10 \in 0..9
    BY <1>1
  <2>2. three \in Seq(Nat) /\ Len(three) = 3
    BY <2>1 DEF Dis!Decimals
  <2> QED BY <1>4, <2>1, <2>2 DEF IsThree
<1> HIDE DEF three
<1>6. NumberOf(n, three) = v
  BY <1>1, <1>4, DecimalIs DEF NumberOf
<1>7. Dis!Said(CutOf((whole \o dot) \o three)) = NumberOf(n, three)
  <2>1. n \in Nat
    BY <1>1
  <2> QED BY <1>2, <1>3, <1>5, <2>1, SaidAll, Zenon
<1>8. Dis!flaot_to_string(v) = CutOf((whole \o dot) \o three)
  BY DEF Dis!flaot_to_string, CutOf, n, whole, dot, three
<1> QED BY <1>6, <1>7, <1>8

LEMMA VoltageIs ==
  ASSUME NEW v \in Voltages
  PROVE  IsReading(v)
<1>1. Voltages \subseteq 0..Dis!MaxReading
  BY DisplayAssumption DEF Dis!OledAssumption
<1>2. v \in 0..Dis!MaxReading
  BY <1>1
<1>3. Dis!MaxReading \in Int
  BY DEF Dis!MaxReading
<1> QED BY <1>2, <1>3 DEF IsReading

\* What is drawn later is drawn elsewhere.
LEMMA Apart ==
  ASSUME NEW j \in Seen, NEW nth \in 1..20, j < nth, NEW m \in 1..6
  PROVE  LET c == ItemAt(j) + m - 1 IN c \in Dis!Columns /\ (c < ItemAt(nth) \/ c > ItemAt(nth) + 5)
<1>1. (j \in 1..8 \/ j \in 15..20) /\ j \in Int /\ nth \in Int /\ m \in Int /\ 1 <= m /\ m <= 6
  BY DEF Seen
<1>2. CASE j <= 8 /\ nth <= 15
  BY <1>1, <1>2 DEF ItemAt, Dis!Columns
<1>3. CASE j <= 8 /\ nth > 15
  BY <1>1, <1>3 DEF ItemAt, Dis!Columns
<1>4. CASE j = 15
  BY <1>1, <1>4 DEF ItemAt, Dis!Columns
<1>5. CASE j > 15
  BY <1>1, <1>5 DEF ItemAt, Dis!Columns
<1> QED BY <1>1, <1>2, <1>3, <1>4, <1>5

LEMMA CharIs ==
  ASSUME NEW nth \in 1..20
  PROVE  ItemAt(nth) \in Dis!Columns /\ ItemAt(nth) <= 122 /\ CharAt(nth) # "clear"
<1>1. ItemAt(nth) \in Dis!Columns /\ ItemAt(nth) <= 122
  BY DEF ItemAt, Dis!Columns
<1>2. \A j \in 1..15 : Dis!Label[j] # "clear"
  <2>1. \A j \in 1..15 : \/ j = 1 \/ j = 2 \/ j = 3 \/ j = 4 \/ j = 5 \/ j = 6 \/ j = 7 \/ j = 8
                         \/ j = 9 \/ j = 10 \/ j = 11 \/ j = 12 \/ j = 13 \/ j = 14 \/ j = 15
    OBVIOUS
  <2>2. /\ Dis!Label[1] # "clear" /\ Dis!Label[2] # "clear" /\ Dis!Label[3] # "clear"
        /\ Dis!Label[4] # "clear" /\ Dis!Label[5] # "clear" /\ Dis!Label[6] # "clear"
        /\ Dis!Label[7] # "clear" /\ Dis!Label[8] # "clear" /\ Dis!Label[9] # "clear"
        /\ Dis!Label[10] # "clear" /\ Dis!Label[11] # "clear" /\ Dis!Label[12] # "clear"
        /\ Dis!Label[13] # "clear" /\ Dis!Label[14] # "clear" /\ Dis!Label[15] # "clear"
    BY DEF Dis!Label
  <2> QED BY <2>1, <2>2
<1>3. \A j \in 1..5 : Dis!Number[j] # "clear"
  BY DEF Dis!Number
<1>4. nth <= 15 => nth \in 1..15
  OBVIOUS
<1>5. nth > 15 => nth - 15 \in 1..5
  OBVIOUS
<1> QED BY <1>1, <1>2, <1>3, <1>4, <1>5 DEF CharAt

\* The next item, drawn whole.
LEMMA NextItem ==
  ASSUME voltage \in Nat, voltage' = voltage, DOMAIN screen = Dis!Pages \X Dis!Columns,
         NEW n \in Nat, n < Before(voltage) + 20, SeenOf(n), NEW item,
         item = Dis!Line(voltage)[n + 1], Dis!Drawn(item, {}, 0)
  PROVE  SeenOf(n + 1)'
<1> DEFINE b == Before(voltage)
<1>1. b \in {0, 1} /\ b' = b
  BY DEF Before
<1>2. /\ b = 1 => Dis!Line(voltage)[1].x = 0 /\ Dis!Line(voltage)[1].y = 6 /\ Dis!Line(voltage)[1].chr = "clear"
      /\ \A j \in 1..20 : /\ Dis!Line(voltage)[b + j].x = ItemAt(j) /\ Dis!Line(voltage)[b + j].y = 3
                          /\ Dis!Line(voltage)[b + j].chr = CharAt(j)
  BY LineIs
<1>3. 3 \in Dis!Pages /\ 6 \in Dis!Pages /\ 3 # 6
  BY DEF Dis!Pages
<1> HIDE DEF b
<1>4. CASE n + 1 <= b
  <2>1. n = 0 /\ b = 1
    BY <1>1, <1>4
  <2>2. item.x = 0 /\ item.y = 6 /\ item.chr = "clear"
    BY <1>2, <2>1
  <2>3. item.x \in Dis!Columns
    BY <2>2 DEF Dis!Columns
  <2>4. \A c \in Dis!Columns : screen'[<<6, c>>] = Dis!Dark
    <3>1. \A c \in Dis!Columns : screen'[<<item.y, c>>] = Dis!Dark
      BY <1>3, <2>2, <2>3, DrawnWhole
    <3> QED BY <2>2, <3>1
  <2>5. \A j \in Seen : ~(b + j <= n + 1)
    BY <2>1 DEF Seen
  <2> QED BY <1>1, <2>4, <2>5 DEF SeenOf, b
<1>5. CASE ~(n + 1 <= b)
  <2> DEFINE nth == n + 1 - b
  <2>1. nth \in 1..20 /\ b + nth = n + 1
    BY <1>1, <1>5 DEF b
  <2> HIDE DEF nth
  <2>2. item.x = ItemAt(nth) /\ item.y = 3 /\ item.chr = CharAt(nth)
    BY <1>2, <2>1
  <2>3. item.x \in Dis!Columns /\ item.x <= 122 /\ item.chr # "clear"
    BY <2>1, <2>2, CharIs
  <2>4. /\ \A m \in 1..6 : screen'[<<3, ItemAt(nth) + m - 1>>] = Dis!Pixels(CharAt(nth), m)
        /\ \A c \in Dis!Columns : c < ItemAt(nth) \/ c > ItemAt(nth) + 5 => screen'[<<3, c>>] = screen[<<3, c>>]
        /\ \A c \in Dis!Columns : screen'[<<6, c>>] = screen[<<6, c>>]
    <3>1. item.y \in Dis!Pages /\ 6 \in Dis!Pages \ {item.y}
      BY <1>3, <2>2
    <3>2. /\ \A m \in 1..6 : screen'[<<item.y, item.x + m - 1>>] = Dis!Pixels(item.chr, m)
          /\ \A c \in Dis!Columns : c < item.x \/ c > item.x + 5 =>
               screen'[<<item.y, c>>] = screen[<<item.y, c>>]
      BY <2>3, <3>1, DrawnWhole
    <3>3. \A c \in Dis!Columns : screen'[<<6, c>>] = screen[<<6, c>>]
      BY <2>3, <3>1, DrawnWhole
    <3> QED BY <2>2, <3>2, <3>3
  <2>5. ASSUME b = 1 PROVE \A c \in Dis!Columns : screen'[<<6, c>>] = Dis!Dark
    <3>1. n >= 1
      BY <1>5, <2>5
    <3> QED BY <2>4, <2>5, <3>1 DEF SeenOf, b
  <2>6. ASSUME NEW j \in Seen, b + j <= n + 1, NEW m \in 1..6
        PROVE  screen'[<<3, ItemAt(j) + m - 1>>] = Dis!Pixels(CharAt(j), m)
    <3>1. CASE j = nth
      BY <2>4, <3>1
    <3>2. CASE j # nth
      <4>1. j < nth /\ b + j <= n
        BY <1>1, <2>1, <2>6, <3>2 DEF Seen
      <4>2. screen[<<3, ItemAt(j) + m - 1>>] = Dis!Pixels(CharAt(j), m)
        BY <4>1 DEF SeenOf, b
      <4> DEFINE c == ItemAt(j) + m - 1
      <4>3. c \in Dis!Columns /\ (c < ItemAt(nth) \/ c > ItemAt(nth) + 5)
        BY <2>1, <4>1, Apart
      <4> HIDE DEF c
      <4>4. screen'[<<3, c>>] = screen[<<3, c>>]
        BY <2>4, <4>3
      <4> QED BY <4>2, <4>4 DEF c
    <3> QED BY <3>1, <3>2
  <2> QED BY <1>1, <2>5, <2>6 DEF SeenOf, b
<1> QED BY <1>4, <1>5

LEMMA OledDraws ==
  ASSUME OledInv, Dis!Draw
  PROVE  OledInv'
<1>1. PICK loss : Dis!Drawn(Head(todo), loss[1], loss[2]) /\ clean' = (clean /\ loss = <<{}, 0>>)
  BY DEF Dis!Draw
<1>2. todo # <<>> /\ todo' = Tail(todo) /\ oled' = oled /\ vstr' = vstr /\ voltage' = voltage
  BY DEF Dis!Draw
<1>3. DOMAIN screen' = DOMAIN screen
  BY <1>1 DEF Dis!Drawn
<1>4. ASSUME oled' = "sleep", clean'
      PROVE  /\ Dis!Said(vstr') \in {voltage', voltage' - 1}
             /\ todo' \in Seq(OledItems) /\ \E n \in 0..Before(voltage') + 20 : Halfway(n)'
  <2>1. clean /\ oled = "sleep" /\ Dis!Drawn(Head(todo), {}, 0)
    <3>1. clean /\ loss = <<{}, 0>> /\ oled = "sleep"
      BY <1>1, <1>2, <1>4
    <3>2. loss[1] = {} /\ loss[2] = 0
      BY <3>1
    <3> QED BY <1>1, <3>1, <3>2, Zenon
  <2>2. PICK n \in 0..Before(voltage) + 20 : Halfway(n)
    BY <2>1 DEF OledInv
  <2>3. todo \in Seq(OledItems) /\ Dis!Said(vstr) \in {voltage, voltage - 1}
    BY <2>1 DEF OledInv
  <2> DEFINE b == Before(voltage)
  <2>4. b \in {0, 1} /\ n \in Nat /\ n \in 0..b + 20 /\ b' = b
    BY <1>2 DEF Before
  <2> HIDE DEF b
  <2>5. /\ Head(todo) = todo[1] /\ Tail(todo) \in Seq(OledItems) /\ Len(Tail(todo)) = Len(todo) - 1
        /\ \A j \in 1..Len(todo) - 1 : Tail(todo)[j] = todo[j + 1]
        /\ Len(todo) \in Nat /\ Len(todo) >= 1
    <3>1. Len(todo) \in Nat /\ (Len(todo) = 0 <=> todo = <<>>)
      BY <2>3, LenProperties, EmptySeq
    <3>2. /\ Tail(todo) \in Seq(OledItems) /\ Len(Tail(todo)) = Len(todo) - 1
          /\ \A j \in 1..Len(Tail(todo)) : Tail(todo)[j] = todo[j + 1]
      BY <1>2, <2>3, HeadTailProperties
    <3> QED BY <1>2, <3>1, <3>2
  <2>6. /\ Len(todo) = b + 20 - n /\ SeenOf(n)
        /\ \A j \in 1..Len(todo) : todo[j] = Dis!Line(voltage)[n + j]
    BY <2>2 DEF Halfway, b
  <2>7. n + 1 \in 0..b + 20 /\ n < b + 20 /\ 1 \in 1..Len(todo)
    BY <2>4, <2>5, <2>6
  <2>8. Head(todo) = Dis!Line(voltage)[n + 1]
    BY <2>5, <2>6, <2>7
  <2>9. voltage \in Nat /\ DOMAIN screen = Dis!Pages \X Dis!Columns
    BY VoltageIs DEF OledInv, IsReading
  <2>10. SeenOf(n + 1)'
    BY <1>1, <1>2, <2>1, <2>4, <2>6, <2>7, <2>8, <2>9, NextItem DEF b
  <2>11. ASSUME NEW j \in 1..Len(todo')
         PROVE  todo'[j] = Dis!Line(voltage)[(n + 1) + j]
    <3>1. j \in 1..Len(todo) - 1 /\ j + 1 \in 1..Len(todo) /\ n + (j + 1) = (n + 1) + j
      BY <1>2, <2>4, <2>5
    <3>2. todo'[j] = todo[j + 1] /\ todo[j + 1] = Dis!Line(voltage)[n + (j + 1)]
      BY <1>2, <2>5, <2>6, <3>1, Zenon
    <3> QED BY <3>1, <3>2
  <2>12. Len(todo') = b + 20 - (n + 1)
    BY <1>2, <2>4, <2>5, <2>6
  <2>13. Halfway(n + 1)'
    BY <1>2, <2>4, <2>10, <2>11, <2>12 DEF Halfway, b
  <2> QED BY <1>2, <2>3, <2>4, <2>5, <2>7, <2>13 DEF b
<1> QED BY <1>1, <1>2, <1>3, <1>4 DEF OledInv

LEMMA OledStep ==
  ASSUME OledInv, Dis!Next \/ UNCHANGED Dis!oledVars
  PROVE  OledInv'
<1>1. CASE Dis!InitFails
  BY <1>1 DEF OledInv, Dis!InitFails, Halfway, SeenOf
<1>2. CASE Dis!oled_display_init
  BY <1>2 DEF OledInv, Dis!oled_display_init
<1>3. CASE Dis!Draw
  BY <1>3, OledDraws
<1>4. CASE Dis!power_writeread
  <2>1. oled' = "sleep" /\ UNCHANGED <<voltage, screen>> /\ oled = "measure"
    BY <1>4 DEF Dis!power_writeread
  <2>2. ASSUME clean'
        PROVE  /\ Dis!Said(vstr') \in {voltage', voltage' - 1}
               /\ todo' \in Seq(OledItems) /\ \E n \in 0..Before(voltage') + 20 : Halfway(n)'
    <3>1. /\ \E v \in {voltage, voltage - 1} \cap Nat : vstr' = Dis!flaot_to_string(v)
          /\ todo' = Dis!Line(voltage)
      BY <1>4, <2>2 DEF Dis!power_writeread
    <3>2. PICK v \in {voltage, voltage - 1} \cap Nat : vstr' = Dis!flaot_to_string(v)
      BY <3>1
    <3>3. IsReading(voltage)
      BY VoltageIs DEF OledInv
    <3>4. IsReading(v)
      <4>1. Dis!MaxReading \in Int
        BY DEF Dis!MaxReading
      <4> QED BY <3>3, <4>1 DEF IsReading
    <3>5. Dis!Said(vstr') = v
      BY <3>2, <3>4, SaidIs, Zenon
    <3>6. Dis!Said(vstr') \in {voltage', voltage' - 1}
      BY <2>1, <3>5
    <3> DEFINE b == Before(voltage)
    <3>7. todo' \in Seq(OledItems) /\ Len(todo') = b + 20
      BY <3>1, <3>3, LineIs DEF IsReading
    <3>8. b \in {0, 1} /\ b' = b
      BY <2>1 DEF Before
    <3> HIDE DEF b
    <3>9. SeenOf(0)'
      <4>1. \A j \in Seen : ~(b + j <= 0)
        BY <3>8 DEF Seen
      <4> QED BY <3>8, <4>1 DEF SeenOf, b
    <3>10. \A j \in 1..Len(todo') : todo'[j] = Dis!Line(voltage)[0 + j]
      BY <3>1, <3>7, <3>8
    <3>11. Len(todo') = b + 20 - 0 /\ 0 \in 0..b + 20
      BY <3>7, <3>8
    <3>12. Halfway(0)'
      BY <2>1, <3>8, <3>9, <3>10, <3>11 DEF Halfway, b
    <3> QED BY <3>6, <3>7, <3>8, <3>11, <3>12 DEF b
  <2> QED BY <2>1, <2>2 DEF OledInv
<1>5. CASE Dis!SleepOled
  BY <1>5 DEF OledInv, Dis!SleepOled
<1>6. CASE Dis!VoltageMoves
  BY <1>6 DEF OledInv, Dis!VoltageMoves
<1>7. CASE UNCHANGED Dis!oledVars
  BY <1>7 DEF OledInv, Dis!oledVars, Halfway, SeenOf
<1> QED BY <1>1, <1>2, <1>3, <1>4, <1>5, <1>6, <1>7 DEF Dis!Next

LEMMA OledHeals ==
  ASSUME OledInv
  PROVE  Dis!DisplayHeals
<1> SUFFICES ASSUME oled = "sleep", todo = <<>>, clean
             PROVE  /\ Dis!Reads(0, 3, SubSeq(Dis!Label, 1, 8)) /\ Dis!Reads(70, 3, Dis!Number)
                    /\ Dis!Reads(112, 3, <<"V">>)
                    /\ voltage >= 6900 => \A c \in Dis!Columns : screen[<<6, c>>] = Dis!Dark
                    /\ Dis!Said(vstr) \in {voltage, voltage - 1}
  BY DEF Dis!DisplayHeals
<1> DEFINE b == Before(voltage)
<1>1. PICK n \in 0..b + 20 : Halfway(n)
  BY DEF OledInv
<1>2. b \in {0, 1} /\ (voltage >= 6900 /\ voltage \in Nat => b = 1)
  BY DEF Before
<1>3. Len(todo) = 0
  BY EmptySeq
<1> HIDE DEF b
<1>4. n = b + 20 /\ SeenOf(n)
  BY <1>1, <1>2, <1>3 DEF Halfway, b
<1>5. ASSUME NEW j \in Seen, NEW m \in 1..6
      PROVE  screen[<<3, ItemAt(j) + m - 1>>] = Dis!Pixels(CharAt(j), m)
  <2>1. b + j <= n
    BY <1>2, <1>4 DEF Seen
  <2> QED BY <1>4, <2>1 DEF SeenOf, b
<1>6. Dis!Reads(0, 3, SubSeq(Dis!Label, 1, 8))
  <2> DEFINE s == SubSeq(Dis!Label, 1, 8)
  <2>1. DOMAIN s = 1..8 /\ \A j \in 1..8 : s[j] = Dis!Label[j]
    <3>1. \A j \in 1..8 : Dis!Label[j] \in OledChars
      BY LabelIs
    <3>2. 1 \in Int /\ 8 \in Int
      OBVIOUS
    <3>3. s \in Seq(OledChars) /\ Len(s) = 8 /\ \A j \in 1..8 : s[j] = Dis!Label[j]
      BY <3>1, <3>2, SubSeqProperties, LabelIs
    <3> QED BY <3>3, LenProperties
  <2> HIDE DEF s
  <2>2. ASSUME NEW j \in 1..8, NEW m \in 1..6
        PROVE  screen[<<3, 0 + 8 * (j - 1) + m - 1>>] = Dis!Pixels(s[j], m)
    <3>1. j \in Seen /\ 0 + 8 * (j - 1) + m - 1 = ItemAt(j) + m - 1 /\ CharAt(j) = Dis!Label[j]
      BY DEF Seen, ItemAt, CharAt
    <3> QED BY <1>5, <2>1, <3>1
  <2> QED BY <2>1, <2>2 DEF Dis!Reads, s
<1>7. Dis!Reads(70, 3, Dis!Number)
  <2>1. DOMAIN Dis!Number = 1..5
    BY DEF Dis!Number
  <2>2. ASSUME NEW j \in 1..5, NEW m \in 1..6
        PROVE  screen[<<3, 70 + 8 * (j - 1) + m - 1>>] = Dis!Pixels(Dis!Number[j], m)
    <3>1. j + 15 \in Seen /\ 70 + 8 * (j - 1) + m - 1 = ItemAt(j + 15) + m - 1
      BY DEF Seen, ItemAt
    <3>2. CharAt(j + 15) = Dis!Number[j]
      <4>1. ~(j + 15 <= 15) /\ (j + 15) - 15 = j
        OBVIOUS
      <4> QED BY <4>1 DEF CharAt
    <3> QED BY <1>5, <3>1, <3>2
  <2> QED BY <2>1, <2>2 DEF Dis!Reads
<1>8. Dis!Reads(112, 3, <<"V">>)
  <2>1. ItemAt(15) = 112 /\ CharAt(15) = "V" /\ 15 \in Seen
    BY DEF ItemAt, CharAt, Seen, Dis!Label
  <2>2. ASSUME NEW j \in DOMAIN <<"V">>, NEW m \in 1..6
        PROVE  screen[<<3, 112 + 8 * (j - 1) + m - 1>>] = Dis!Pixels(<<"V">>[j], m)
    <3>1. j = 1 /\ <<"V">>[j] = "V"
      OBVIOUS
    <3>2. 112 + 8 * (j - 1) + m - 1 = ItemAt(15) + m - 1
      BY <2>1, <3>1
    <3>3. screen[<<3, ItemAt(15) + m - 1>>] = Dis!Pixels("V", m)
      <4>1. screen[<<3, ItemAt(15) + m - 1>>] = Dis!Pixels(CharAt(15), m)
        <5>1. \A q \in Seen : screen[<<3, ItemAt(q) + m - 1>>] = Dis!Pixels(CharAt(q), m)
          BY <1>5
        <5>2. 15 \in Seen
          BY <2>1
        <5> QED BY <5>1, <5>2, Zenon
      <4>2. CharAt(15) = "V"
        BY <2>1
      <4> QED BY <4>1, <4>2, Zenon
    <3> QED BY <3>1, <3>2, <3>3
  <2> QED BY <2>2 DEF Dis!Reads
<1>9. voltage \in Nat
  BY VoltageIs DEF OledInv, IsReading
<1>11. Dis!Said(vstr) \in {voltage, voltage - 1}
  BY DEF OledInv
<1>10. ASSUME voltage >= 6900 PROVE \A c \in Dis!Columns : screen[<<6, c>>] = Dis!Dark
  <2>1. b = 1
    BY <1>2, <1>9, <1>10
  <2>2. n >= 1
    BY <1>4, <2>1
  <2> QED BY <1>4, <2>1, <2>2 DEF SeenOf, b
<1> QED BY <1>6, <1>7, <1>8, <1>10, <1>11

\* After one pass without a loss the line can be read, whatever losses came
\* before it, and the text of the voltage says what was measured (Oled), for
\* every voltage the sensor can count (app_demo_io_gpio.c:583) and any number
\* of lost transfers.
THEOREM DisplayAlwaysHeals == DemosSpec => []DisplayHeals
<1> DEFINE PartInv == part = "oled" => OledInv
<1>1. DemosInit => PartInv
  BY DEF DemosInit, Dis!Init, OledInv
<1>2. PartInv /\ [DemosNext]_allVars => PartInv'
  <2> SUFFICES ASSUME PartInv, [DemosNext]_allVars, part = "oled" PROVE OledInv'
    BY DemosStep
  <2>1. Dis!Next \/ UNCHANGED Dis!oledVars
    BY DemosStep DEF oledVars, Dis!oledVars
  <2> QED BY <2>1, OledStep
<1>3. PartInv => DisplayHeals
  BY OledHeals DEF DisplayHeals
<1> QED BY <1>1, <1>2, <1>3, PTL DEF DemosSpec

----------------------------------------------------------------------------
(* Types, part by part: the air, the scale and the analog sensors.          *)

LEMMA PairFinite == \A a, b : IsFiniteSet({a, b})
<1>1. ASSUME NEW a, NEW b PROVE IsFiniteSet({a, b})
  <2>1. {a, b} = {a} \cup {b}
    OBVIOUS
  <2>2. IsFiniteSet({a}) /\ IsFiniteSet({b})
    BY FS_Singleton
  <2>3. IsFiniteSet({a} \cup {b})
    BY <2>2, FS_Union
  <2> QED BY <2>1, <2>3
<1> QED BY <1>1

LEMMA AirTyped ==
  ASSUME Air!TypeOK, Air!Next \/ UNCHANGED Air!bmpVars
  PROVE  Air!TypeOK'
<1> USE DEF Air!TypeOK, Air!Raws, Air!Stack, Air!OldAge, Air!Reset, Air!Skipped
<1>0. BmpBound \in Nat
  BY BmpAssumption DEF Air!FaultsAssumption
<1>1. ASSUME NEW calls, IsFiniteSet(calls), NEW failed, Air!Transfers(calls, failed)
      PROVE  bmpFaults' \in 0..BmpBound
  <2>1. Air!Cardinality(failed) = Cardinality(failed)
    BY DEF Air!Cardinality, Cardinality
  <2>2. IsFiniteSet(failed)
    BY <1>1, FS_Subset DEF Air!Transfers
  <2>3. Cardinality(failed) \in Nat
    BY <2>2, FS_CardinalityType
  <2> QED BY <1>0, <1>1, <2>1, <2>3 DEF Air!Transfers
<1>2. /\ IsFiniteSet({"trim", "ctrl_meas"}) /\ IsFiniteSet({"read", "write"})
      /\ IsFiniteSet({"status", "data"})
  BY PairFinite
<1>3. CASE Air!bme280_bmp280_init
  <2>1. bmpFaults' \in 0..BmpBound
    BY <1>1, <1>2, <1>3 DEF Air!bme280_bmp280_init
  <2> QED BY <1>3, <2>1 DEF Air!bme280_bmp280_init
<1>4. CASE Air!ForcedMode
  <2>1. bmpFaults' \in 0..BmpBound
    BY <1>1, <1>2, <1>4 DEF Air!ForcedMode
  <2>2. rbuf' \in {"meas", "other"} /\ ctrl_meas' \in {"meas", "other"}
    BY <1>4 DEF Air!ForcedMode
  <2>3. result' \in Air!Raws /\ converting' \in BOOLEAN
    BY <1>4 DEF Air!ForcedMode
  <2> QED BY <1>4, <2>1, <2>2, <2>3 DEF Air!ForcedMode
<1>5. CASE Air!readData
  <2>1. bmpFaults' \in 0..BmpBound
    BY <1>1, <1>2, <1>5 DEF Air!readData
  <2>2. raw' \in Air!Raws /\ rbuf' \in {"meas", "other"} /\ burst' \in {0, 1}
    BY <1>5 DEF Air!readData, Air!Latest
  <2> QED BY <1>5, <2>1, <2>2 DEF Air!readData
<1>6. CASE Air!Calibrate
  <2>1. t_fine' = burst
    BY <1>6 DEF Air!Calibrate, Air!calibration_T
  <2>2. press_cal' \in [raw : Air!Raws, burst : {0, 1}, t_fine : {0, 1}]
    BY <1>6, <2>1 DEF Air!Calibrate, Air!calibration_P, Air!Unset
  <2> QED BY <1>6, <2>1, <2>2 DEF Air!Calibrate
<1>7. CASE Air!SleepBmp
  BY <1>7 DEF Air!SleepBmp
<1>8. CASE Air!Converted
  <2>1. result' \in Air!Raws
    BY <1>8 DEF Air!Converted
  <2> QED BY <1>8, <2>1 DEF Air!Converted
<1>9. CASE UNCHANGED Air!bmpVars
  BY <1>9 DEF Air!bmpVars
<1> QED BY <1>3, <1>4, <1>5, <1>6, <1>7, <1>8, <1>9 DEF Air!Next

\* While an average is not complete, a reading is missing.
ScaleTyped == Hx!TypeOK /\ (scale \in {"wait", "bits"} => taken < Readings)

LEMMA ScaleTypedStep ==
  ASSUME ScaleTyped, Hx!Next \/ UNCHANGED Hx!scaleVars
  PROVE  ScaleTyped'
<1> USE DEF ScaleTyped, Hx!TypeOK
<1>0. Bits \in Nat \ {0} /\ Readings \in Nat \ {0} /\ MaxResets \in Nat /\ Hx!Busy = -1
  BY ScaleAssumption DEF Hx!ScaleAssumption, Hx!Busy
<1>1. ASSUME Hx!Stays \/ Hx!Resets PROVE chip' \in Hx!Busy..Bits /\ resets' \in 0..MaxResets
  BY <1>0, <1>1 DEF Hx!Stays, Hx!Resets, Hx!Sent
<1>2. CASE Hx!WaitReady
  BY <1>0, <1>2 DEF Hx!WaitReady
<1>3. CASE Hx!Pulse
  BY <1>0, <1>1, <1>3 DEF Hx!Pulse
<1>4. CASE Hx!LastPulse
  BY <1>0, <1>1, <1>4 DEF Hx!LastPulse
<1>5. CASE Hx!Base
  BY <1>0, <1>5 DEF Hx!Base
<1>6. CASE Hx!Weigh
  BY <1>0, <1>6 DEF Hx!Weigh
<1>7. CASE Hx!Show
  <2>1. ASSUME NEW w \in Hx!Weights, NEW c \in DOMAIN Hx!Text(w)
        PROVE  Hx!Text(w)[c] \in Hx!Weights \cup {"blank", "g"}
    BY DEF Hx!Text, Hx!Weights
  <2>2. display' \in [1..9 -> Hx!Weights \cup {"blank", "g"}]
    BY <1>7, <2>1 DEF Hx!Show, Hx!Written
  <2> QED BY <1>7, <2>2 DEF Hx!Show
<1>8. CASE Hx!SleepScale
  BY <1>0, <1>8 DEF Hx!SleepScale
<1>9. CASE Hx!Converted
  BY <1>0, <1>9 DEF Hx!Converted
<1>10. CASE Hx!LoadChanges
  BY <1>10 DEF Hx!LoadChanges
<1>11. CASE UNCHANGED Hx!scaleVars
  BY <1>11 DEF Hx!scaleVars
<1> QED BY <1>2, <1>3, <1>4, <1>5, <1>6, <1>7, <1>8, <1>9, <1>10, <1>11
         DEF Hx!Next, Hx!hi_hx711_task

\* A pass that goes on has a sample to take.
AdcTexts == {"none", "is Rainning", "a sunny day"}

AdcTyped ==
  /\ demo \in Adc!Demos /\ adc \in {"sample", "print", "sleep", "ended"} /\ k \in 0..Samples
  /\ data \in {0} \cup Levels /\ level \in Levels /\ wet \in BOOLEAN /\ bright \in BOOLEAN
  /\ vlt_max \in 0..MaxLevel + 1 /\ vlt_min \in 0..MaxLevel + 1
  /\ printed.min \in 0..MaxLevel + 1 /\ printed.max \in 0..MaxLevel + 1
  /\ adcOled \in AdcTexts
  /\ adcLamp \in BOOLEAN /\ steady \in BOOLEAN
  /\ (adc = "sample" => k < Samples /\ (demo = "light" => k < 1))

LEMMA AdcTypedStep ==
  ASSUME AdcTyped, Adc!Next \/ UNCHANGED Adc!adcVars
  PROVE  AdcTyped'
<1> USE DEF AdcTyped
<1>0. /\ Samples \in Nat \ {0} /\ MaxLevel \in Nat /\ MaxLevel >= 1
      /\ Levels \subseteq 1..MaxLevel
  <2>1. Samples \in Nat \ {0} /\ MaxLevel \in Nat /\ Levels \subseteq 1..MaxLevel
    BY AdcAssumption DEF Adc!AdcAssumption
  <2>2. level \in 1..MaxLevel
    BY <2>1
  <2> QED BY <2>1, <2>2
<1>1. ASSUME NEW a \in 0..MaxLevel + 1, NEW b \in 0..MaxLevel + 1
      PROVE  Adc!Lower(a, b) \in 0..MaxLevel + 1 /\ Adc!Higher(a, b) \in 0..MaxLevel + 1
  BY <1>0 DEF Adc!Lower, Adc!Higher
<1>2. CASE Adc!RotationSample
  <2>1. k' \in 0..Samples /\ (adc' = "sample" => k' < Samples) /\ adc' \in {"sample", "print"}
    BY <1>0, <1>2 DEF Adc!RotationSample, Adc!Sampling
  <2> QED BY <1>0, <1>2, <2>1 DEF Adc!RotationSample, Adc!Sampling
<1>3. CASE Adc!RotationPrint
  <2>1. data \in 0..MaxLevel + 1
    BY <1>0
  <2>2. vlt_max' \in 0..MaxLevel + 1 /\ vlt_min' \in 0..MaxLevel + 1
    BY <1>1, <1>3, <2>1 DEF Adc!RotationPrint
  <2>3. printed'.min = vlt_min' /\ printed'.max = vlt_max'
    BY <1>3 DEF Adc!RotationPrint
  <2> QED BY <1>3, <2>2, <2>3 DEF Adc!RotationPrint
<1>4. CASE Adc!WaterSample
  <2>1. /\ demo = "water" /\ adc = "sample" /\ k' = k + 1 /\ steady' = (steady \/ k = 0)
        /\ adc' = IF k' = Samples THEN "print" ELSE "sample"
        /\ vlt_max' = Adc!Higher(0, IF wet THEN 2 ELSE 0) /\ vlt_min' = Adc!Lower(vlt_min, vlt_max')
        /\ UNCHANGED <<demo, data, level, wet, bright, printed, adcLamp>>
    BY <1>4, Zenon DEF Adc!WaterSample, Adc!Sampling
  <2>2. (IF wet THEN 2 ELSE 0) \in 0..MaxLevel + 1 /\ 0 \in 0..MaxLevel + 1
    BY <1>0
  <2>3. vlt_max' \in 0..MaxLevel + 1
    BY <1>1, <2>1, <2>2
  <2>4. vlt_min' \in 0..MaxLevel + 1
    BY <1>1, <2>1, <2>3
  <2>5. adcOled' \in AdcTexts
    <3>1. adcOled' = "is Rainning" \/ adcOled' = "a sunny day"
      BY <1>4, Zenon DEF Adc!WaterSample
    <3> QED BY <3>1, Zenon DEF AdcTexts
  <2>6. k' \in 0..Samples /\ (adc' = "sample" => k' < Samples) /\ adc' \in {"sample", "print"}
    BY <1>0, <2>1
  <2> QED BY <1>0, <2>1, <2>3, <2>4, <2>5, <2>6
<1>5. CASE Adc!LightSample
  BY <1>0, <1>5 DEF Adc!LightSample, Adc!Sampling
<1>6. CASE Adc!ReadFails
  BY <1>6 DEF Adc!ReadFails
<1>7. CASE Adc!SleepAdc
  BY <1>0, <1>7 DEF Adc!SleepAdc
<1>8. CASE Adc!SensorChanges
  BY <1>8 DEF Adc!SensorChanges
<1>9. CASE UNCHANGED Adc!adcVars
  BY <1>9 DEF Adc!adcVars
<1> QED BY <1>2, <1>3, <1>4, <1>5, <1>6, <1>7, <1>8, <1>9 DEF Adc!Next

LEMMA AdcTypedImplies == AdcTyped => Adc!TypeOK
BY Zenon DEF AdcTyped, Adc!TypeOK, AdcTexts

----------------------------------------------------------------------------
(* The types of the stand-alone gyroscope and of the GPS receiver.         *)

\* A round has no more zeros than reads.
MpuTyped == Gy!TypeOK /\ zeros <= reads

LEMMA MpuTypedStep ==
  ASSUME MpuTyped, Gy!Next \/ UNCHANGED Gy!mpuVars
  PROVE  MpuTyped'
<1>0. MpuReports \in Nat /\ MpuBound \in Nat
  BY MpuAssumption DEF Gy!MpuAssumption
<1> DEFINE Flags == flag_demped = 1 <=> published # <<>> /\ published[Len(published)] = "true"
<1>1. /\ mpu \in {"init", "read", "judge", "sleep"} /\ reads \in 0..6
      /\ awake \in BOOLEAN /\ tilt \in Gy!Tilts /\ acc \subseteq Gy!Tilts /\ zeros \in 0..3
      /\ estimate \in Gy!Tilts \union {"NaN"} /\ flag_demped \in {0, 1}
      /\ published \in Seq({"true", "false"}) /\ Flags
      /\ mpuFaults \in 0..MpuBound /\ tainted \in BOOLEAN /\ been \subseteq Gy!Tilts \union {"NaN"}
      /\ zeros <= reads
  BY Zenon DEF MpuTyped, Gy!TypeOK
<1> DEFINE Rest == /\ mpu' \in {"init", "read", "judge", "sleep"} /\ reads' \in 0..6
                   /\ awake' \in BOOLEAN /\ tilt' \in Gy!Tilts /\ acc' \subseteq Gy!Tilts
                   /\ zeros' \in 0..3 /\ estimate' \in Gy!Tilts \union {"NaN"}
                   /\ mpuFaults' \in 0..MpuBound /\ tainted' \in BOOLEAN /\ been' \subseteq Gy!Tilts \union {"NaN"}
                   /\ zeros' <= reads'
           Said == /\ flag_demped' \in {0, 1} /\ published' \in Seq({"true", "false"}) /\ Flags'
<1>2. Rest /\ Said => MpuTyped'
  BY Zenon DEF MpuTyped, Gy!TypeOK
<1>3. UNCHANGED <<flag_demped, published>> => Said
  BY <1>1, Zenon
<1>4. ASSUME Gy!Fails PROVE mpuFaults' \in 0..MpuBound
  BY <1>0, <1>1, <1>4 DEF Gy!Fails
<1>5. CASE Gy!InitMPU6050
  <2>1. /\ mpu' = "read" /\ (mpuFaults' = mpuFaults \/ Gy!Fails)
        /\ UNCHANGED <<reads, tilt, acc, zeros, estimate, flag_demped, published, tainted, been>>
    BY <1>5 DEF Gy!InitMPU6050
  <2>3. awake' \in BOOLEAN
    BY <1>1, <1>5 DEF Gy!InitMPU6050
  <2>2. Rest
    BY <1>1, <1>4, <2>1, <2>3
  <2> QED BY <1>2, <1>3, <2>1, <2>2
<1>6. CASE Gy!GetData
  <2>1. /\ reads < 6 /\ reads' = reads + 1
        /\ UNCHANGED <<mpu, awake, tilt, estimate, flag_demped, published, been>>
        /\ acc' \in {acc, acc \union {tilt}, acc \union {"unsettled"}}
        /\ tainted' \in {tainted, TRUE}
        /\ zeros' = zeros \/ (reads < 3 /\ zeros' = zeros + 1)
        /\ mpuFaults' = mpuFaults \/ Gy!Fails
    BY <1>6 DEF Gy!GetData
  <2>2. Rest
    <3>1. acc' \subseteq Gy!Tilts /\ tainted' \in BOOLEAN /\ mpuFaults' \in 0..MpuBound
      BY <1>1, <1>4, <2>1 DEF Gy!Tilts
    <3>2. reads' \in 0..6 /\ zeros' \in 0..3 /\ zeros' <= reads'
      BY <1>1, <2>1
    <3> QED BY <1>1, <2>1, <3>1, <3>2
  <2> QED BY <1>2, <1>3, <2>1, <2>2
<1>7. CASE Gy!IMUupdate
  <2>1. /\ mpu' = "judge" /\ reads' = 0 /\ acc' = {} /\ zeros' = 0
        /\ estimate' \in Gy!Updated(estimate)
        /\ UNCHANGED <<awake, tilt, flag_demped, published, mpuFaults, tainted, been>>
    BY <1>7 DEF Gy!IMUupdate
  <2>2. estimate' \in Gy!Tilts \union {"NaN"}
    BY <1>1, <2>1 DEF Gy!Updated
  <2>4. Rest
    BY <1>1, <2>1, <2>2
  <2> QED BY <1>2, <1>3, <2>1, <2>4
<1>8. CASE Gy!Judge
  <2>1. /\ mpu' = "sleep"
        /\ UNCHANGED <<reads, awake, tilt, acc, zeros, estimate, mpuFaults, tainted>>
        /\ \/ Gy!Report("true", 1) \/ Gy!Report("false", 0)
           \/ UNCHANGED <<published, flag_demped, been>>
    BY <1>8 DEF Gy!Judge, Gy!NoReport
  <2>2. Rest
    BY <1>1, <2>1 DEF Gy!Report
  <2>3. ASSUME NEW value \in {"true", "false"}, NEW flag \in {0, 1}, flag = 1 <=> value = "true",
               Gy!Report(value, flag)
        PROVE  Said
    <3>1. published' = Append(published, value) /\ flag_demped' = flag
      BY <2>3 DEF Gy!Report
    <3>2. /\ published' \in Seq({"true", "false"}) /\ Len(published') = Len(published) + 1
          /\ published'[Len(published) + 1] = value /\ Len(published) \in Nat
      BY <1>1, <3>1, AppendProperties
    <3>3. published' # <<>>
      BY <3>2, EmptySeq
    <3>4. published'[Len(published')] = value
      BY <3>2
    <3> QED BY <2>3, <3>1, <3>2, <3>3, <3>4, Zenon
  <2>4. Said
    BY <1>3, <2>1, <2>3
  <2> QED BY <1>2, <2>2, <2>4
<1>9. CASE Gy!SleepMpu
  BY <1>1, <1>2, <1>3, <1>9 DEF Gy!SleepMpu
<1>10. CASE Gy!CanTilts
  <2>1. /\ tilt' \in Gy!Tilts /\ been' = been \union {tilt'}
        /\ UNCHANGED <<mpu, reads, awake, acc, zeros, estimate, flag_demped, published, mpuFaults, tainted>>
    BY <1>10 DEF Gy!CanTilts
  <2>2. Rest
    BY <1>1, <2>1
  <2> QED BY <1>2, <1>3, <2>1, <2>2
<1>11. CASE UNCHANGED Gy!mpuVars
  BY <1>1, <1>2, <1>3, <1>11 DEF Gy!mpuVars
<1> QED BY <1>5, <1>6, <1>7, <1>8, <1>9, <1>10, <1>11 DEF Gy!Next

----------------------------------------------------------------------------
LEMMA GpsTyped ==
  ASSUME Gps!TypeOK, Gps!Next \/ UNCHANGED Gps!gpsVars
  PROVE  Gps!TypeOK'
<1> DEFINE OneSentence == [id : 0..MaxSentences, gga : BOOLEAN, len : 0..MaxSentence, sent : 0..MaxSentence]
<1>0. /\ Chunk \in Nat \ {0} /\ BufferSize \in Nat \ {0}
      /\ MaxSentence \in Nat \ (0..2) /\ MaxSentences \in Nat
  BY GpsAssumption DEF Gps!GpsAssumption
<1>1. /\ reader \in {"running", "lost"} /\ uart_buff \in [1..BufferSize -> Gps!Pieces]
      /\ offset \in Nat /\ gps_data \in Gps!Pieces \X Gps!Pieces /\ fifo \in Seq(Gps!Pieces)
      /\ sending \in OneSentence /\ parsed \in 0..MaxSentences
  BY DEF Gps!TypeOK
<1>2. CASE Gps!gps_demo_task
  <2> DEFINE len == IF Len(fifo) < BufferSize THEN Len(fifo) ELSE BufferSize
             piece == SubSeq(fifo, 1, len)
             rest == SubSeq(fifo, len + 1, Len(fifo))
             buff == Gps!Stored(piece)
  <2>0. Len(fifo) \in Nat /\ fifo # <<>> /\ (Len(fifo) = 0 <=> fifo = <<>>)
    BY <1>1, <1>2, LenProperties, EmptySeq DEF Gps!gps_demo_task
  <2>1. len \in Nat /\ len <= Len(fifo) /\ len >= 1
    BY <1>0, <2>0
  <2>2. /\ fifo' = rest /\ UNCHANGED sending
        /\ \/ /\ offset' = 0 /\ Gps!get_gps(buff) /\ uart_buff' = Gps!Cleared(buff)
              /\ parsed' = fifo[len].id
           \/ /\ offset' = offset + len /\ uart_buff' = buff
              /\ UNCHANGED <<reader, gps_data, parsed>>
           \/ reader' = "lost" /\ UNCHANGED <<uart_buff, offset, gps_data, parsed>>
    BY <1>2 DEF Gps!gps_demo_task, Gps!Lost
  <2> HIDE DEF len
  <2>3. \A j \in 1..Len(fifo) : fifo[j] \in Gps!Pieces
    BY <1>1, ElementOfSeq
  <2>4. rest \in Seq(Gps!Pieces)
    BY <2>0, <2>1, <2>3, SubSeqProperties
  <2>5. Len(piece) = len /\ \A j \in 1..len : piece[j] \in Gps!Pieces
    BY <2>0, <2>1, <2>3, SubSeqProperties
  <2> HIDE DEF piece, rest
  <2>6. buff \in [1..BufferSize -> Gps!Pieces]
    <3>1. ASSUME NEW p \in 1..BufferSize, p - offset \in 1..Len(piece)
          PROVE  piece[p - offset] \in Gps!Pieces
      BY <2>5, <3>1
    <3>2. ASSUME NEW p \in 1..BufferSize PROVE uart_buff[p] \in Gps!Pieces
      BY <1>1
    <3>3. [p \in 1..BufferSize |-> IF p - offset \in 1..Len(piece) THEN piece[p - offset] ELSE uart_buff[p]]
            \in [1..BufferSize -> Gps!Pieces]
      BY <3>1, <3>2
    <3> QED BY <1>1, <3>3 DEF Gps!Stored
  <2> HIDE DEF buff
  <2>7. CASE /\ offset' = 0 /\ Gps!get_gps(buff) /\ uart_buff' = Gps!Cleared(buff)
             /\ parsed' = fifo[len].id
    <3>1. uart_buff' \in [1..BufferSize -> Gps!Pieces]
      BY <1>0, <2>7 DEF Gps!Cleared, Gps!Nothing, Gps!Piece, Gps!Pieces
    <3>2. parsed' \in 0..MaxSentences
      <4>1. fifo[len] \in Gps!Pieces
        BY <2>1, <2>3
      <4> QED BY <2>7, <4>1 DEF Gps!Pieces
    <3>3. reader' \in {"running", "lost"} /\ gps_data' \in Gps!Pieces \X Gps!Pieces
      <4>1. CASE UNCHANGED gps_data
        BY <1>1, <2>7, <4>1 DEF Gps!get_gps, Gps!Lost
      <4>2. CASE ~UNCHANGED gps_data
        <5>1. PICK lat \in Held(buff), lon \in Held(buff) : gps_data' = <<buff[lat], buff[lon]>>
          BY <2>7, <4>2, FieldsTaken
        <5>2. UNCHANGED reader
          BY <2>7, <4>2, FieldsTaken
        <5> QED BY <1>1, <2>6, <5>1, <5>2 DEF Held
      <4> QED BY <4>1, <4>2
    <3> QED BY <1>1, <2>2, <2>4, <2>7, <3>1, <3>2, <3>3 DEF Gps!TypeOK
  <2>8. CASE /\ offset' = offset + len /\ uart_buff' = buff
             /\ UNCHANGED <<reader, gps_data, parsed>>
    BY <1>1, <2>1, <2>2, <2>4, <2>6, <2>8 DEF Gps!TypeOK
  <2>9. CASE reader' = "lost" /\ UNCHANGED <<uart_buff, offset, gps_data, parsed>>
    BY <1>1, <2>2, <2>4, <2>9 DEF Gps!TypeOK
  <2> QED BY <2>2, <2>7, <2>8, <2>9
<1>7. CASE Gps!Undefined
  <2>1. Gps!Nothing \in Gps!Pieces
    BY <1>0 DEF Gps!Nothing, Gps!Piece, Gps!Pieces
  <2> QED BY <1>1, <1>7, <2>1 DEF Gps!TypeOK, Gps!Undefined
<1>3. CASE Gps!ReadNothing
  BY <1>1, <1>3 DEF Gps!TypeOK, Gps!ReadNothing
<1>4. CASE Gps!StartSentence
  <2>1. PICK gga \in BOOLEAN, len \in 3..MaxSentence :
          sending' = [id |-> sending.id + 1, gga |-> gga, len |-> len, sent |-> 0]
    BY <1>4 DEF Gps!StartSentence
  <2>2. sending' \in OneSentence
    <3>1. sending.id + 1 \in 0..MaxSentences /\ len \in 0..MaxSentence /\ 0 \in 0..MaxSentence
      BY <1>0, <1>1, <1>4 DEF Gps!StartSentence
    <3> QED BY <2>1, <3>1
  <2> QED BY <1>1, <1>4, <2>2 DEF Gps!TypeOK, Gps!StartSentence
<1>5. CASE Gps!SendPiece
  <2>1. /\ sending.sent < sending.len
        /\ sending' = [sending EXCEPT !.sent = sending.sent + 1]
        /\ fifo' = fifo \/ fifo' = Append(fifo, Gps!Piece(sending.id, sending.gga, sending'.sent))
        /\ UNCHANGED <<reader, uart_buff, offset, gps_data, parsed>>
    BY <1>5 DEF Gps!SendPiece
  <2>2. sending.sent + 1 \in 0..MaxSentence
    BY <1>0, <1>1, <2>1
  <2>3. sending' \in OneSentence /\ sending'.sent = sending.sent + 1
    BY <1>1, <2>1, <2>2
  <2>4. Gps!Piece(sending.id, sending.gga, sending'.sent) \in Gps!Pieces
    BY <1>1, <2>2, <2>3 DEF Gps!Piece, Gps!Pieces
  <2> DEFINE piece == Gps!Piece(sending.id, sending.gga, sending'.sent)
  <2> HIDE DEF piece
  <2>5. fifo' \in Seq(Gps!Pieces)
    <3>1. piece \in Gps!Pieces
      BY <2>4 DEF piece
    <3>2. Append(fifo, piece) \in Seq(Gps!Pieces)
      BY <1>1, <3>1, AppendProperties
    <3> QED BY <1>1, <2>1, <3>2 DEF piece
  <2> QED BY <1>1, <2>1, <2>3, <2>5 DEF Gps!TypeOK
<1>6. CASE UNCHANGED Gps!gpsVars
  BY <1>1, <1>6 DEF Gps!TypeOK, Gps!gpsVars
<1> QED BY <1>2, <1>3, <1>4, <1>5, <1>6, <1>7 DEF Gps!Next

----------------------------------------------------------------------------
(* The types of the display.                                               *)

OledGlyphs == OledChars \cup {Dis!Hello[j] : j \in 1..12} \cup {" "}
Placed == [x : Dis!Columns, y : Dis!Pages, chr : OledGlyphs]

LEMMA StrPlaced ==
  ASSUME NEW x \in Nat, NEW y \in Dis!Pages, NEW n \in Nat, NEW chars,
         Len(chars) = n, \A j \in 1..n : chars[j] \in OledGlyphs, x + 8 * (n - 1) <= 127
  PROVE  Dis!Str(x, y, chars) \in Seq(Placed)
<1> DEFINE s == Dis!Str(x, y, chars)
<1>1. s = [j \in 1..n |-> [x |-> x + 8 * (j - 1), y |-> y, chr |-> chars[j]]]
  BY DEF Dis!Str
<1>2. \A j \in 1..n : x + 8 * (j - 1) \in Dis!Columns
  BY DEF Dis!Columns
<1>3. s \in [1..n -> Placed]
  BY <1>1, <1>2 DEF Placed
<1> QED BY <1>3, SeqDef

LEMMA ItemsPlaced ==
  /\ \A v \in Nat : Dis!Line(v) \in Seq(Placed)
  /\ <<Dis!Clear(3), Dis!Clear(6), Dis!Clear(7)>> \o Dis!Str(15, 3, Dis!Hello)
       \o Dis!Str(15, 3, [j \in 1..12 |-> " "]) \in Seq(Placed)
<1>1. 3 \in Dis!Pages /\ 6 \in Dis!Pages /\ 7 \in Dis!Pages
  BY DEF Dis!Pages
<1>2. \A p \in Dis!Pages : Dis!Clear(p) \in Placed
  BY DEF Dis!Clear, Placed, Dis!Columns, OledGlyphs, OledChars
<1>3. Dis!Str(0, 3, Dis!Label) \in Seq(Placed)
  <2>1. Len(Dis!Label) = 15 /\ \A j \in 1..15 : Dis!Label[j] \in OledGlyphs
    BY LabelIs DEF OledGlyphs
  <2>2. 0 \in Nat /\ 15 \in Nat /\ 0 + 8 * (15 - 1) <= 127
    OBVIOUS
  <2> QED BY <1>1, <2>1, <2>2, StrPlaced, Zenon
<1>4. Dis!Str(70, 3, Dis!Number) \in Seq(Placed)
  <2>1. Len(Dis!Number) = 5 /\ \A j \in 1..5 : Dis!Number[j] \in OledGlyphs
    BY LabelIs DEF OledGlyphs
  <2>2. 70 \in Nat /\ 5 \in Nat /\ 70 + 8 * (5 - 1) <= 127
    OBVIOUS
  <2> QED BY <1>1, <2>1, <2>2, StrPlaced, Zenon
<1>5. Dis!Str(15, 3, Dis!Hello) \in Seq(Placed)
  <2>1. Len(Dis!Hello) = 12 /\ \A j \in 1..12 : Dis!Hello[j] \in OledGlyphs
    BY DEF OledGlyphs, Dis!Hello
  <2>2. 15 \in Nat /\ 12 \in Nat /\ 15 + 8 * (12 - 1) <= 127
    OBVIOUS
  <2> QED BY <1>1, <2>1, <2>2, StrPlaced, Zenon
<1>6. Dis!Str(15, 3, [j \in 1..12 |-> " "]) \in Seq(Placed)
  <2> DEFINE blanks == [j \in 1..12 |-> " "]
  <2>1. Len(blanks) = 12 /\ \A j \in 1..12 : blanks[j] \in OledGlyphs
    <3>1. \A j \in 1..12 : blanks[j] = " "
      OBVIOUS
    <3>2. blanks \in [1..12 -> {" "}]
      OBVIOUS
    <3> HIDE DEF blanks
    <3>3. Len(blanks) = 12
      BY <3>2, BufferLength, Zenon
    <3> QED BY <3>1, <3>3 DEF OledGlyphs
  <2>2. 15 \in Nat /\ 12 \in Nat /\ 15 + 8 * (12 - 1) <= 127
    OBVIOUS
  <2> HIDE DEF blanks
  <2>3. Dis!Str(15, 3, blanks) \in Seq(Placed)
    BY <1>1, <2>1, <2>2, StrPlaced, Zenon
  <2> QED BY <2>3 DEF blanks
<1>7. ASSUME NEW v \in Nat PROVE Dis!Line(v) \in Seq(Placed)
  <2>1. (IF v < 6900 THEN <<>> ELSE <<Dis!Clear(6)>>) \in Seq(Placed)
    BY <1>1, <1>2
  <2> QED BY <1>3, <1>4, <2>1, ConcatProperties DEF Dis!Line
<1>8. <<Dis!Clear(3), Dis!Clear(6), Dis!Clear(7)>> \in Seq(Placed)
  BY <1>1, <1>2
<1> QED BY <1>5, <1>6, <1>7, <1>8, ConcatProperties

LEMMA TextTyped ==
  ASSUME NEW v, IsReading(v)
  PROVE  Dis!flaot_to_string(v) \in Seq(0..Dis!Dot)
<1> DEFINE n == v \div 1000
           whole == Dis!Integral(n)
           dot == <<Dis!Dot>>
           three == Dis!Decimals(v)
           q == Len(whole)
           str == (whole \o dot) \o three
<1>1. n \in 0..32
  BY DEF IsReading, Dis!MaxReading
<1>2. IsIntegral(whole, n)
  BY <1>1, IntegralIs
<1>3. IsWhole(whole, q)
  BY <1>2 DEF IsIntegral, IsWhole
<1>4. IsPoint(dot)
  BY DEF IsPoint, Dis!Dot
<1>5. IsThree(three)
  <2>1. (v \div 100) % 10 \in 0..9 /\ (v \div 10) % 10 \in 0..9 /\ v % 10 \in 0..9
    BY DEF IsReading
  <2> QED BY <2>1 DEF IsThree, Dis!Decimals
<1>6. Dis!flaot_to_string(v) = CutOf(str)
  BY DEF Dis!flaot_to_string, CutOf
<1> HIDE DEF n, whole, dot, three, q
<1>7. q \in 0..2 /\ IsText(str, q)
  <2>1. TextOf(str, whole, three, q)
    BY <1>3, <1>4, <1>5, TextIs, Zenon
  <2> QED BY <1>3, <2>1 DEF IsWhole, TextOf
<1> HIDE DEF str
<1> DEFINE kept == CHOOSE m \in 1..Len(str) : str[m] # 0 /\ \A j \in m + 1..Len(str) : str[j] = 0
<1>8. kept \in q + 1..q + 4
  BY <1>7, LastDigit
<1> HIDE DEF kept
<1>9. \A j \in 1..kept : str[j] \in 0..10
  BY <1>7, <1>8 DEF IsText
<1>10. 1 \in Int /\ kept \in Int /\ kept <= Len(str)
  BY <1>7, <1>8 DEF IsText
<1>11. SubSeq(str, 1, kept) \in Seq(0..10)
  BY <1>9, <1>10, SubSeqProperties
<1> QED BY <1>6, <1>11 DEF CutOf, kept, Dis!Dot

\* What is left to draw fits the display.
OledTyped ==
  /\ oled \in {"init", "measure", "sleep"} /\ led_test \in {0, 1} /\ todo \in Seq(Placed)
  /\ vstr \in Seq(0..Dis!Dot) /\ voltage \in Voltages
  /\ DOMAIN screen = Dis!Pages \X Dis!Columns
  /\ cursor \in [page : Dis!Pages, col : Dis!Columns]
  /\ oledFaults \in 0..OledBound /\ clean \in BOOLEAN

LEMMA OledTypedInit == Dis!Init => OledTyped
<1> SUFFICES ASSUME Dis!Init PROVE OledTyped
  OBVIOUS
<1>1. OledBound \in Nat
  BY DisplayAssumption DEF Dis!OledAssumption
<1>2. todo = <<>> /\ vstr = <<>>
  BY DEF Dis!Init
<1>3. todo \in Seq(Placed) /\ vstr \in Seq(0..Dis!Dot)
  BY <1>2, EmptySeq
<1>4. cursor \in [page : Dis!Pages, col : Dis!Columns]
  BY DEF Dis!Init, Dis!Pages, Dis!Columns
<1>5. oled = "init" /\ led_test = 0 /\ voltage \in Voltages /\ oledFaults = 0
  BY DEF Dis!Init
<1>6. clean \in BOOLEAN
  BY Zenon DEF Dis!Init
<1>7. DOMAIN screen = Dis!Pages \X Dis!Columns
  BY Zenon DEF Dis!Init
<1> QED BY <1>1, <1>3, <1>4, <1>5, <1>6, <1>7 DEF OledTyped

LEMMA OledTypedImplies == OledTyped => Dis!TypeOK
<1> SUFFICES ASSUME OledTyped PROVE Dis!TypeOK
  OBVIOUS
<1>1. \A n \in DOMAIN todo : todo[n] \in Placed
  BY ElementOfSeq, LenProperties DEF OledTyped
<1>2. \A n \in DOMAIN todo : todo[n].x \in Dis!Columns /\ todo[n].y \in Dis!Pages
  BY <1>1 DEF Placed
<1> QED BY <1>2, Zenon DEF OledTyped, Dis!TypeOK

LEMMA OledTypedStep ==
  ASSUME OledTyped, Dis!Next \/ UNCHANGED Dis!oledVars
  PROVE  OledTyped'
<1>0. OledBound \in Nat
  BY DisplayAssumption DEF Dis!OledAssumption
<1>1. CASE Dis!InitFails
  BY <1>1 DEF OledTyped, Dis!InitFails
<1>2. CASE Dis!oled_display_init
  BY <1>2, ItemsPlaced DEF OledTyped, Dis!oled_display_init
<1>3. CASE Dis!Draw
  <2>1. PICK loss \in Dis!Losses(Head(todo)) :
          /\ Dis!Drawn(Head(todo), loss[1], loss[2])
          /\ oledFaults' = oledFaults + Dis!Cardinality(loss[1]) + (IF loss[2] = 0 THEN 0 ELSE 1)
          /\ clean' = (clean /\ loss = <<{}, 0>>)
    BY <1>3 DEF Dis!Draw
  <2>2. todo # <<>> /\ todo' = Tail(todo) /\ UNCHANGED <<oled, led_test, vstr, voltage>>
    BY <1>3 DEF Dis!Draw
  <2>3. Head(todo) \in Placed /\ todo' \in Seq(Placed)
    BY <2>2, HeadTailProperties DEF OledTyped
  <2>4. /\ loss[1] \in SUBSET {"page", "high", "low"} /\ loss[2] \in 0..6
        /\ oledFaults + Dis!Cardinality(loss[1]) + (IF loss[2] = 0 THEN 0 ELSE 1) <= OledBound
    BY <2>1 DEF Dis!Losses
  <2>5. Dis!Cardinality(loss[1]) \in Nat
    <3>1. Dis!Cardinality(loss[1]) = Cardinality(loss[1])
      BY DEF Dis!Cardinality, Cardinality
    <3>2. IsFiniteSet({"page", "high"} \cup {"low"})
      BY PairFinite, FS_AddElement
    <3>3. loss[1] \subseteq {"page", "high"} \cup {"low"}
      BY <2>4
    <3> QED BY <3>1, <3>2, <3>3, FS_Subset, FS_CardinalityType
  <2>6. oledFaults' \in 0..OledBound
    BY <1>0, <2>1, <2>4, <2>5 DEF OledTyped
  <2>7. clean' \in BOOLEAN
    BY <2>1
  <2> DEFINE item == Head(todo)
             spot == Dis!Position(item.x, item.y, loss[1])
             skip == IF loss[2] = 0 THEN 0 ELSE 1
             length == IF item.chr = "clear" THEN 128 ELSE 6
  <2>8. DOMAIN screen' = DOMAIN screen /\ cursor' = [spot EXCEPT !.col = (spot.col + length - skip) % 128]
    BY <2>1 DEF Dis!Drawn
  <2>9. skip \in {0, 1}
    OBVIOUS
  <2>10. item.x \in 0..127 /\ item.y \in Dis!Pages /\ cursor.col \in 0..127 /\ cursor.page \in Dis!Pages
    BY <2>3 DEF Placed, OledTyped, Dis!Columns
  <2> HIDE DEF item, skip
  <2>11. spot.page \in Dis!Pages /\ spot.col \in Int /\ DOMAIN spot = {"page", "col"}
    BY <2>10 DEF Dis!Position
  <2>12. spot = [page |-> spot.page, col |-> spot.col]
    BY DEF Dis!Position
  <2> HIDE DEF spot
  <2>13. (spot.col + length - skip) % 128 \in 0..127
    BY <2>9, <2>11
  <2>14. cursor' = [page |-> spot.page, col |-> (spot.col + length - skip) % 128]
    BY <2>8, <2>12
  <2>15. cursor' \in [page : Dis!Pages, col : Dis!Columns]
    BY <2>11, <2>13, <2>14 DEF Dis!Columns
  <2> QED BY <2>2, <2>3, <2>6, <2>7, <2>8, <2>15 DEF OledTyped
<1>4. CASE Dis!power_writeread
  <2>1. /\ oled' = "sleep" /\ UNCHANGED <<led_test, voltage, screen, cursor, oledFaults>>
        /\ clean' \in BOOLEAN
    BY <1>4 DEF Dis!power_writeread
  <2>2. vstr' \in Seq(0..Dis!Dot) /\ todo' \in Seq(Placed)
    <3>1. CASE UNCHANGED <<vstr, todo>>
      BY <3>1 DEF OledTyped
    <3>2. CASE ~UNCHANGED <<vstr, todo>>
      <4>1. PICK v \in {voltage, voltage - 1} \cap Nat : vstr' = Dis!flaot_to_string(v)
        BY <1>4, <3>2 DEF Dis!power_writeread
      <4>2. todo' = Dis!Line(voltage)
        BY <1>4, <3>2 DEF Dis!power_writeread
      <4>3. IsReading(voltage)
        BY VoltageIs DEF OledTyped
      <4>4. IsReading(v)
        <5>1. Dis!MaxReading \in Int
          BY DEF Dis!MaxReading
        <5> QED BY <4>3, <5>1 DEF IsReading
      <4>5. voltage \in Nat
        BY <4>3 DEF IsReading
      <4> QED BY <4>1, <4>2, <4>4, <4>5, TextTyped, ItemsPlaced
    <3> QED BY <3>1, <3>2
  <2> QED BY <2>1, <2>2 DEF OledTyped
<1>5. CASE Dis!SleepOled
  BY <1>5 DEF OledTyped, Dis!SleepOled
<1>6. CASE Dis!VoltageMoves
  BY <1>6 DEF OledTyped, Dis!VoltageMoves
<1>7. CASE UNCHANGED Dis!oledVars
  BY <1>7 DEF OledTyped, Dis!oledVars
<1> QED BY <1>1, <1>2, <1>3, <1>4, <1>5, <1>6, <1>7 DEF Dis!Next

----------------------------------------------------------------------------
(* The types of the logs, the raw data and the passwords.                  *)

LEMMA LevelRange ==
  /\ 2^LevelBits \in Int /\ Lg!MAX = 6 /\ 6 <= 2^LevelBits - 1
  /\ \A l \in Int : Lg!Unsigned(l) \in 0..2^LevelBits - 1
<1> DEFINE M == 2^LevelBits
<1>1. M \in Int /\ 6 <= M - 1
  BY LogAssumption DEF Lg!LogAssumption
<1> HIDE DEF M
<1>2. \A l \in Int : l % M \in 0..M - 1
  BY <1>1
<1>3. Lg!MAX = 6
  BY DEF Lg!MAX, Lg!Names
<1> QED BY <1>1, <1>2, <1>3 DEF Lg!Unsigned, M

LEMMA NameTyped ==
  ASSUME NEW n \in Nat
  PROVE  NameOf(n) \in {Lg!Names[m] : m \in 1..Lg!MAX} \cup {"NULL"}
<1>1. CASE n >= Lg!MAX
  BY <1>1 DEF NameOf
<1>2. CASE ~(n >= Lg!MAX)
  <2>1. n + 1 \in 1..Lg!MAX
    BY <1>2, LevelRange
  <2> QED BY <1>2, <2>1 DEF NameOf
<1> QED BY <1>1, <1>2

\* A level in force has a name.
LogTyped == LogInv /\ accepted \in 0..Lg!MAX - 1 /\ Lg!TypeOK

LEMMA LogTypedInit == Lg!Init => LogTyped
<1> SUFFICES ASSUME Lg!Init PROVE LogTyped
  OBVIOUS
<1>1. LogInv
  BY DEF Lg!Init, LogInv, Lg!MAX, Lg!Names, Lg!TRACE, NameOf
<1>2. gIoTLogLevel = 0 /\ accepted = 0 /\ tested = Lg!MAX
  BY DEF Lg!Init, Lg!TRACE
<1>3. line = [log |-> "iot", level |-> Lg!MAX, name |-> "NULL"]
  BY DEF Lg!Init
<1> DEFINE M == 2^LevelBits
           S == {Lg!Names[m] : m \in 1..Lg!MAX} \cup {"NULL"}
<1>4. M \in Int /\ 6 <= M - 1
  BY LevelRange
<1>5. "NULL" \in S
  OBVIOUS
<1> HIDE DEF M, S
<1>6. line \in [log : Lg!Logs, level : 0..M - 1, name : S]
  BY <1>3, <1>4, <1>5, LevelRange DEF Lg!Logs
<1>7. 0 \in 0..M - 1 /\ 0 \in 0..Lg!MAX - 1 /\ Lg!MAX \in 0..Lg!MAX
  BY <1>4, LevelRange
<1> QED BY <1>1, <1>2, <1>6, <1>7 DEF LogTyped, Lg!TypeOK, M, S

LEMMA LogTypedStep == LogTyped /\ Lg!Next => LogTyped'
<1> SUFFICES ASSUME LogTyped, Lg!Next PROVE LogTyped'
  OBVIOUS
<1> DEFINE M == 2^LevelBits
           S == {Lg!Names[m] : m \in 1..Lg!MAX} \cup {"NULL"}
           Lines == [log : Lg!Logs, level : 0..M - 1, name : S]
<1>1. M \in Int /\ 6 <= M - 1 /\ \A l \in Int : Lg!Unsigned(l) \in 0..M - 1
  BY LevelRange
<1>2. \A n \in Nat : NameOf(n) \in S
  BY NameTyped
<1>3. /\ gIoTLogLevel \in 0..M - 1 /\ accepted \in 0..M - 1
      /\ tested \in 0..Lg!MAX /\ line \in Lines
  BY DEF LogTyped, Lg!TypeOK
<1> HIDE DEF M, S
<1>4. LogInv'
  BY LogStep DEF LogTyped
<1>5. \A l \in Lg!LevelArgs : l \in Int
  BY LogAssumption DEF Lg!LevelArgs, Lg!LogAssumption
<1>6. \A l : Lg!LevelName(l) = NameOf(Lg!Unsigned(l))
  BY DEF Lg!LevelName, NameOf
<1>7. ASSUME NEW l \in Int PROVE Lg!LevelName(l) \in S
  <2>1. Lg!Unsigned(l) \in Nat
    BY <1>1
  <2> QED BY <1>2, <1>6, <2>1
<1>8. gIoTLogLevel = accepted /\ accepted \in 0..Lg!MAX - 1
  BY DEF LogTyped, LogInv
<1>9. /\ gIoTLogLevel' \in 0..M - 1 /\ accepted' \in 0..M - 1 /\ accepted' \in 0..Lg!MAX - 1
      /\ tested' \in 0..Lg!MAX /\ line' \in Lines
  <2>1. CASE Lg!IoTLogLevelSet
    <3>1. tested' = tested /\ line' = line
      BY <2>1 DEF Lg!IoTLogLevelSet
    <3>2. \/ accepted' = accepted /\ gIoTLogLevel' = gIoTLogLevel
          \/ \E l \in Lg!LevelArgs : /\ Lg!Unsigned(l) < Lg!MAX
                                     /\ accepted' = Lg!Unsigned(l) /\ gIoTLogLevel' = Lg!Unsigned(l)
      BY <2>1 DEF Lg!IoTLogLevelSet, Lg!Accepts
    <3> QED BY <1>1, <1>3, <1>5, <1>8, <3>1, <3>2, LevelRange
  <2>2. CASE Lg!TestDebug
    <3>1. tested' = gIoTLogLevel /\ UNCHANGED <<gIoTLogLevel, accepted, line>>
      BY <2>2 DEF Lg!TestDebug
    <3> QED BY <1>1, <1>3, <1>8, <3>1, LevelRange
  <2>3. CASE Lg!PrintDebug
    <3>1. /\ tested' = Lg!MAX /\ UNCHANGED <<gIoTLogLevel, accepted>>
          /\ line' = [log |-> "iot", level |-> 1, name |-> Lg!LevelName(1)]
      BY <2>3 DEF Lg!PrintDebug, Lg!IoTLogLevelGetName, Lg!DEBUG
    <3>2. Lg!LevelName(1) \in S
      BY <1>7
    <3> QED BY <1>1, <1>3, <1>8, <3>1, <3>2, LevelRange DEF Lg!Logs
  <2>4. CASE Lg!IotLine \/ Lg!SmartCanLine \/ Lg!GyroscopeLine
    <3>1. PICK log \in Lg!Logs, l \in Lg!LevelArgs : Lg!Prints(log, l, Lg!LevelName(l))
      BY <2>4 DEF Lg!IotLine, Lg!SmartCanLine, Lg!GyroscopeLine, Lg!IoTLogLevelGetName,
        Lg!smart_can_level_num, Lg!gyroscope_level_num, Lg!Logs
    <3>2. Lg!LevelName(l) \in S /\ Lg!Unsigned(l) \in 0..M - 1
      BY <1>1, <1>5, <1>7
    <3>3. line' = [log |-> log, level |-> Lg!Unsigned(l), name |-> Lg!LevelName(l)]
      BY <3>1 DEF Lg!Prints
    <3>4. UNCHANGED <<gIoTLogLevel, accepted, tested>>
      BY <3>1 DEF Lg!Prints
    <3>5. line' \in Lines
      BY <3>2, <3>3
    <3> QED BY <1>3, <1>8, <3>4, <3>5
  <2> QED BY <2>1, <2>2, <2>3, <2>4 DEF Lg!Next
<1>10. Lg!TypeOK'
  BY <1>9 DEF Lg!TypeOK, M, S
<1> QED BY <1>4, <1>9, <1>10 DEF LogTyped

\* Blocks are only those two, and buf holds what the answer asked for.
RawTyped ==
  /\ RawInv /\ buf \in 0..(MAX_DATA_LEN + 1) /\ live \subseteq {"decodeData", "buf"}
  /\ replies \in -1..MaxLen

LEMMA RawTypedInit == Raw!Init => RawTyped
BY RawAssumption DEF Raw!Init, RawInv, RawTyped, Raw!RawAssumption

LEMMA RawTypedImplies == RawTyped => Raw!TypeOK
BY DEF RawTyped, RawInv, Raw!TypeOK

LEMMA RawTypedStep == RawTyped /\ Raw!Next => RawTyped'
<1> SUFFICES ASSUME RawTyped, Raw!Next PROVE RawTyped'
  OBVIOUS
<1>1. RawInv'
  BY RawStep DEF RawTyped
<1>2. MAX_DATA_LEN \in Nat /\ MaxLen \in Nat
  BY RawAssumption DEF Raw!RawAssumption
<1>3. /\ outLen \in 0..MaxLen /\ buf \in 0..(MAX_DATA_LEN + 1)
      /\ live \subseteq {"decodeData", "buf"} /\ replies \in -1..MaxLen
  BY DEF RawTyped, RawInv
<1>4. buf' \in 0..(MAX_DATA_LEN + 1)
  <2>1. CASE Raw!SizeEncoded
    <3> DEFINE q == Raw!mbedtls_base64_encode(outLen, 0)
    <3>1. q.size \in Nat
      BY <1>3 DEF Raw!mbedtls_base64_encode, Raw!Answer
    <3>2. (q.size <= MAX_DATA_LEN /\ buf' = q.size + 1) \/ buf' = buf
      BY <2>1 DEF Raw!SizeEncoded
    <3> HIDE DEF q
    <3> QED BY <1>2, <1>3, <3>1, <3>2
  <2>2. CASE ~Raw!SizeEncoded
    <3>1. buf' = buf
      BY <2>2 DEF Raw!Next, Raw!RecvRawData, Raw!Decode, Raw!SendRawEncodeData, Raw!Encode
    <3> QED BY <1>3, <3>1
  <2> QED BY <2>1, <2>2
<1>5. replies' \in -1..MaxLen
  <2>1. replies' \in {replies, outLen, -1}
    BY DEF Raw!Next, Raw!RecvRawData, Raw!Decode, Raw!SendRawEncodeData, Raw!SizeEncoded, Raw!Encode
  <2> QED BY <1>2, <1>3, <2>1
<1>6. live' \subseteq {"decodeData", "buf"}
  <2>1. live' \subseteq live \cup {"decodeData", "buf"}
    BY DEF Raw!Next, Raw!RecvRawData, Raw!Decode, Raw!SendRawEncodeData, Raw!SizeEncoded, Raw!Encode,
      Raw!Returned
  <2> QED BY <1>3, <2>1
<1> QED BY <1>1, <1>4, <1>5, <1>6 DEF RawTyped

\* Between calls the caller has no buffer.
HmacTyped ==
  /\ HmacInv /\ bufLen \in BufLengths \cup {0} /\ hash \in Hm!Hashes \cup {<<>>}
  /\ context \in {"none", "init", "setup"} /\ ret \in {-1, 0, 1}
  /\ hmacAt = "idle" => pwd = <<>>

LEMMA HmacTypedInit == Hm!Init => HmacTyped
<1>1. Hm!Init => HmacInv
  BY DEF Hm!Init, HmacInv
<1> QED BY <1>1 DEF Hm!Init, HmacTyped

LEMMA HmacTypedImplies == HmacTyped => Hm!TypeOK
<1> SUFFICES ASSUME HmacTyped PROVE Hm!TypeOK
  OBVIOUS
<1>1. pwd \in Seq(HexChars)
  <2>1. CASE hmacAt = "idle"
    BY <2>1 DEF HmacTyped
  <2>2. CASE hmacAt # "idle"
    BY <2>2 DEF HmacTyped, HmacInv
  <2> QED BY <2>1, <2>2
<1> QED BY <1>1 DEF HmacTyped, HmacInv, HexChars, Hm!TypeOK

LEMMA HmacTypedStep == HmacTyped /\ Hm!Next => HmacTyped'
<1> SUFFICES ASSUME HmacTyped, Hm!Next PROVE HmacTyped'
  OBVIOUS
<1>1. HmacInv'
  BY HmacStep DEF HmacTyped
<1>2. bufLen' \in BufLengths \cup {0}
  <2>1. bufLen' \in BufLengths \/ bufLen' = bufLen \/ bufLen' = 0
    BY DEF Hm!Next, Hm!HmacGeneratePwd, Hm!Setup, Hm!Finish, Hm!byte2hexstr, Hm!Exit, Hm!Connects
  <2> QED BY <2>1 DEF HmacTyped
<1>3. hash' \in Hm!Hashes \cup {<<>>}
  <2>1. hash' \in Hm!Hashes \/ hash' = hash \/ hash' = <<>>
    BY Zenon DEF Hm!Next, Hm!HmacGeneratePwd, Hm!Setup, Hm!Finish, Hm!byte2hexstr, Hm!Exit, Hm!Connects
  <2> QED BY <2>1 DEF HmacTyped
<1>4. context' \in {context, "none", "init", "setup"} /\ ret' \in {ret, -1, 0, 1}
  BY DEF Hm!Next, Hm!HmacGeneratePwd, Hm!Setup, Hm!Finish, Hm!byte2hexstr, Hm!Exit, Hm!Connects
<1>5. hmacAt' = "idle" => pwd' = <<>>
  BY DEF Hm!Next, Hm!HmacGeneratePwd, Hm!Setup, Hm!Finish, Hm!byte2hexstr, Hm!Exit, Hm!Connects
<1> QED BY <1>1, <1>2, <1>3, <1>4, <1>5 DEF HmacTyped

----------------------------------------------------------------------------
(* The types of the start-up.                                              *)

\* No task has more than twelve statements.
LEMMA BodyLengths == \A t \in St!Tasks : Len(St!Body(t)) \in 0..12
  BY LightBody, RotationInitBody, WaterInitBody, RtcInitBody, Hx711Body, OledInitBody,
     IoGpioBody, GyroInitBody, RotationBody, WaterBody, RtcBody, OledBody, CanBody, GyroBody,
     SampleBody, LedBody, MainBody DEF St!Tasks, St!Starters

LEMMA StartTyped == StartInv => St!TypeOK
<1> SUFFICES ASSUME StartInv PROVE St!TypeOK
  OBVIOUS
<1>1. /\ starter \in running /\ running \subseteq St!Tasks
      /\ at \in [St!Tasks -> Nat] /\ \A t \in St!Tasks : at[t] \in 1..Len(St!Body(t)) + 1
      /\ pinFn \in [St!Pins -> {"boot", "GPIO", "I2C0"}]
      /\ dir \in [St!Pins -> {"in", "out"}]
      /\ {i2c, ohos, bus, locked, ignored} \subseteq BOOLEAN /\ startFaults \in 0..StartBound
      /\ locked => starter = "app_oled_i2c_demo_task" /\ at[starter] \in {2, 3}
  BY DEF StartInv
<1>2. \A t \in St!Tasks : at[t] \in 1..13 /\ at[t] <= Len(St!Body(t)) + 1
  <2> SUFFICES ASSUME NEW t \in St!Tasks PROVE at[t] \in 1..13 /\ at[t] <= Len(St!Body(t)) + 1
    OBVIOUS
  <2> DEFINE len == Len(St!Body(t))
  <2>1. len \in 0..12 /\ at[t] \in 1..len + 1
    BY <1>1, BodyLengths
  <2> HIDE DEF len
  <2>2. at[t] \in 1..13 /\ at[t] <= len + 1
    BY <2>1
  <2> QED BY <2>2 DEF len
<1>3. at \in [St!Tasks -> 1..13]
  BY <1>1, <1>2
<1>4. locked => at[starter] <= Len(St!Body(starter))
  <2>1. Len(St!Body("app_oled_i2c_demo_task")) = 3
    BY OledInitBody
  <2>2. locked => at["app_oled_i2c_demo_task"] <= 3
    BY <1>1
  <2> QED BY <1>1, <2>1, <2>2, Zenon
<1> QED BY <1>1, <1>2, <1>3, <1>4 DEF St!TypeOK

----------------------------------------------------------------------------
(* The types of boot and deep sleep.                                       *)

Configurations == {"reset", "board", "demo", "lowpower"}
Owners == {"GPIO"} \cup Pwr!Devices

\* The last of the options that take a pin is a device.
LEMMA OptionsAreDevices == DOMAIN Pwr!Claims = 1..8 /\ \A k8 \in 1..8 : Pwr!Claims[k8].option \in Pwr!Devices
<1>1. DOMAIN Pwr!Claims = 1..8
  BY DEF Pwr!Claims
<1>2. ASSUME NEW n \in 1..8 PROVE Pwr!Claims[n].option \in Pwr!Devices
  <2>1. Pwr!Claims[n].option \in {"UART0", "UART1", "UART2", "SPI", "I2C", "PWM", "I2S", "SDIO"}
    BY DEF Pwr!Claims, Pwr!Claim
  <2> QED BY <2>1 DEF Pwr!Devices, Pwr!Drivers, Pwr!Uarts
<1> QED BY <1>1, <1>2

LEMMA GreatestOf ==
  ASSUME NEW S \in SUBSET (1..8), S # {}
  PROVE  Pwr!Max(S) \in S
<1> DEFINE T == {8 - n : n \in S}
<1>1. T \in SUBSET Nat /\ T # {}
  <2>1. PICK n \in S : TRUE
    OBVIOUS
  <2>2. 8 - n \in T
    OBVIOUS
  <2>3. \A k8 \in S : 8 - k8 \in Nat
    OBVIOUS
  <2> QED BY <2>2, <2>3
<1>2. PICK m \in T : \A n \in T : m <= n
  BY <1>1, LeastNat
<1>3. PICK g \in S : m = 8 - g
  BY <1>2
<1>4. ASSUME NEW n \in S PROVE g >= n
  <2>1. 8 - n \in T
    OBVIOUS
  <2>2. m <= 8 - n
    BY <1>2, <2>1
  <2> QED BY <1>3, <2>2
<1> QED BY <1>4 DEF Pwr!Max

LEMMA OwnersTyped ==
  ASSUME NEW b, NEW m \in [Pwr!Pins -> Owners]
  PROVE  Pwr!Multiplexed(b, m) \in [Pwr!Pins -> Owners]
<1> DEFINE takers(p) == {n \in DOMAIN Pwr!Claims : Pwr!Claims[n].option \in b /\ p \in Pwr!Claims[n].pins}
           owner(p) == IF takers(p) = {} THEN m[p] ELSE Pwr!Claims[Pwr!Max(takers(p))].option
<1>1. Pwr!Multiplexed(b, m) = [p \in Pwr!Pins |-> owner(p)]
  BY DEF Pwr!Multiplexed
<1>2. ASSUME NEW p \in Pwr!Pins PROVE owner(p) \in Owners
  <2>1. takers(p) \in SUBSET (1..8)
    BY OptionsAreDevices
  <2> HIDE DEF takers
  <2>2. CASE takers(p) = {}
    BY <2>2
  <2>3. CASE takers(p) # {}
    <3>1. Pwr!Max(takers(p)) \in 1..8
      BY <2>1, <2>3, GreatestOf
    <3> QED BY <2>3, <3>1, OptionsAreDevices DEF Owners
  <2> QED BY <2>2, <2>3
<1> HIDE DEF owner
<1> QED BY <1>1, <1>2

\* What the pins, the chip and the calls are made of; a pin has been saved
\* when the board sleeps.
PinsTyped ==
  /\ mux \in [Pwr!Pins -> Owners] /\ iocfg \in [Pwr!Pins -> Configurations]
  /\ g_iocfg_backup \in [Pwr!Pins -> {"zero"} \cup Configurations]
  /\ state \in {"asleep", "waking"} /\ "hw_handler" \in services =>
       \A p \in Pwr!Saved : g_iocfg_backup[p] \in Configurations

CallsTyped ==
  /\ build \in Builds /\ boot \in 1..20 /\ services \subseteq Pwr!Range(Pwr!BootSteps)
  /\ sleep_type \in {"none", "deep"} /\ g_have_inited \in BOOLEAN
  /\ gates \subseteq Pwr!Devices /\ err_info \subseteq Pwr!Devices /\ failing \subseteq Pwr!Devices
  /\ powerFaults \in 0..PowerBound /\ slept.working \subseteq Pwr!Devices

PowerTyped == PowerInv /\ PinsTyped /\ CallsTyped

LEMMA DevicesUp ==
  /\ Pwr!BuiltIn(build) \cup Pwr!Uarts \subseteq Pwr!Devices
  /\ MayWork \subseteq Pwr!Devices /\ Pwr!UartCalls \subseteq Pwr!Uarts
BY DEF Pwr!BuiltIn, MayWork, Pwr!Devices, Pwr!Drivers, Pwr!Uarts, Pwr!UartCalls

LEMMA StepsNamed ==
  /\ Len(Pwr!BootSteps) = 19
  /\ \A n \in 1..19 : Pwr!BootSteps[n] \in Pwr!Range(Pwr!BootSteps)
<1>1. Len(Pwr!BootSteps) = 19 /\ DOMAIN Pwr!BootSteps = 1..19
  BY DEF Pwr!BootSteps
<1> QED BY <1>1 DEF Pwr!Range

LEMMA PowerTypedInit == Pwr!Init /\ PowerInv => PowerTyped
<1> SUFFICES ASSUME Pwr!Init, PowerInv PROVE PowerTyped
  OBVIOUS
<1>1. PinsTyped
  BY DEF Pwr!Init, PinsTyped, Owners, Configurations
<1>2. CallsTyped
  <2>1. build \in Builds /\ boot = 1 /\ services = {} /\ sleep_type = "none" /\ g_have_inited = FALSE
    BY DEF Pwr!Init
  <2>2. gates = Pwr!Devices /\ err_info = {} /\ failing = {} /\ powerFaults = 0
    BY DEF Pwr!Init
  <2>3. slept.working = {}
    BY DEF Pwr!Init
  <2>4. powerFaults \in 0..PowerBound
    BY <2>2, PowerAssumption DEF Pwr!FaultsAssumption
  <2>5. g_have_inited \in BOOLEAN
    BY <2>1
  <2>6. boot \in 1..20 /\ services \subseteq Pwr!Range(Pwr!BootSteps)
    BY <2>1
  <2> QED BY <2>1, <2>2, <2>3, <2>4, <2>5, <2>6 DEF CallsTyped
<1> QED BY <1>1, <1>2 DEF PowerTyped

LEMMA PowerTypedImplies == PowerTyped => Pwr!TypeOK
<1> SUFFICES ASSUME PowerTyped PROVE Pwr!TypeOK
  OBVIOUS
<1>1. working \subseteq Pwr!Devices /\ saved \subseteq Pwr!Uarts
  BY DevicesUp DEF PowerTyped, PowerInv, WorkInv
<1>2. state \in {"awake", "asleep", "waking"} /\ handlers \subseteq {"entry", "after"}
  BY DEF PowerTyped, PowerInv, BootInv
<1>3. boot \in 1..Len(Pwr!BootSteps) + 1
  BY StepsNamed DEF PowerTyped, CallsTyped
<1> QED BY <1>1, <1>2, <1>3 DEF PowerTyped, PinsTyped, CallsTyped, Owners, Configurations, Pwr!TypeOK

\* One initialisation of the peripherals.
LEMMA PeripheralsTyped ==
  ASSUME PowerTyped, Pwr!peripheral_init
  PROVE  /\ mux' \in [Pwr!Pins -> Owners] /\ iocfg' \in [Pwr!Pins -> Configurations]
         /\ g_have_inited' \in BOOLEAN /\ gates' \subseteq Pwr!Devices
         /\ err_info' \subseteq Pwr!Devices /\ failing' \subseteq Pwr!Devices
         /\ powerFaults' \in 0..PowerBound
<1> DEFINE restored == IF g_have_inited THEN saved ELSE {"UART1"}
<1>1. PICK failed, down :
        /\ failed \in Pwr!Failing(Pwr!BuiltIn(build) \cup Pwr!UartCalls)
        /\ gates' = (gates \ Pwr!Closed(build)) \cup ((Pwr!BuiltIn(build) \cup restored) \ down)
        /\ err_info' = Pwr!ErrInfo(failed) /\ failing' = failed
        /\ powerFaults' = powerFaults + Pwr!Cardinality(failed)
  BY DEF Pwr!peripheral_init
<1>2. /\ g_have_inited' = TRUE /\ mux' = Pwr!Multiplexed(build, mux)
      /\ iocfg' = Pwr!Override(iocfg, Pwr!IoSets(build))
  BY DEF Pwr!peripheral_init
<1>3. mux' \in [Pwr!Pins -> Owners]
  BY <1>2, OwnersTyped DEF PowerTyped, PinsTyped
<1>4. iocfg' \in [Pwr!Pins -> Configurations]
  <2> DEFINE sets == Pwr!IoSets(build)
  <2>1. \A p \in DOMAIN sets : sets[p] = "board"
    BY DEF Pwr!IoSets
  <2>2. iocfg \in [Pwr!Pins -> Configurations]
    BY DEF PowerTyped, PinsTyped
  <2> HIDE DEF sets
  <2>3. iocfg' = [p \in Pwr!Pins |-> IF p \in DOMAIN sets THEN sets[p] ELSE iocfg[p]]
    BY <1>2, <2>2 DEF Pwr!Override, sets
  <2> QED BY <2>1, <2>2, <2>3 DEF Configurations
<1>5. restored \subseteq Pwr!Uarts
  <2>1. saved \subseteq Pwr!Uarts
    BY DEF PowerTyped, PowerInv, WorkInv
  <2> QED BY <2>1 DEF Pwr!Uarts
<1> HIDE DEF restored
<1>6. gates' \subseteq Pwr!Devices
  BY <1>1, <1>5, DevicesUp DEF PowerTyped, CallsTyped
<1>7. powerFaults \in 0..PowerBound /\ PowerBound \in Nat
  BY PowerAssumption DEF PowerTyped, CallsTyped, Pwr!FaultsAssumption
<1>8. failed = {} \/ (\E d \in Pwr!Devices : failed = {d} /\ powerFaults < PowerBound)
  BY <1>1, DevicesUp DEF Pwr!Failing
<1>9. CASE failed = {}
  <2>1. Pwr!Cardinality(failed) = 0
    <3>1. Pwr!Cardinality(failed) = Cardinality(failed)
      BY DEF Pwr!Cardinality, Cardinality
    <3> QED BY <1>9, <3>1, FS_EmptySet
  <2>2. err_info' = {} /\ failing' = {}
    BY <1>1, <1>9 DEF Pwr!ErrInfo, Pwr!ErrBits
  <2> QED BY <1>1, <1>2, <1>3, <1>4, <1>6, <1>7, <2>1, <2>2
<1>10. ASSUME NEW d \in Pwr!Devices, failed = {d}, powerFaults < PowerBound
       PROVE  /\ err_info' \subseteq Pwr!Devices /\ failing' \subseteq Pwr!Devices
              /\ powerFaults' \in 0..PowerBound
  <2>1. Pwr!Cardinality(failed) = 1
    <3>1. Pwr!Cardinality(failed) = Cardinality(failed)
      BY DEF Pwr!Cardinality, Cardinality
    <3> QED BY <1>10, <3>1, FS_Singleton
  <2>2. failing' = {d} /\ err_info' = {Pwr!Bit(d)}
    BY <1>1, <1>10 DEF Pwr!ErrInfo, Pwr!ErrBits
  <2>3. Pwr!Bit(d) \in {d, "UART0", "UART1"}
    BY DEF Pwr!Bit
  <2>4. Pwr!Bit(d) \in Pwr!Devices
    BY <2>3 DEF Pwr!Devices, Pwr!Uarts
  <2>5. powerFaults' = powerFaults + 1
    BY <1>1, <2>1
  <2>6. powerFaults' \in 0..PowerBound
    BY <1>7, <1>10, <2>5
  <2> QED BY <2>2, <2>4, <2>6
<1> QED BY <1>2, <1>3, <1>4, <1>6, <1>8, <1>9, <1>10

LEMMA PowerTypedStep == PowerTyped /\ Pwr!Next => PowerTyped'
<1> SUFFICES ASSUME PowerTyped, Pwr!Next PROVE PowerTyped'
  OBVIOUS
<1>1. PowerInv'
  BY PowerStep DEF PowerTyped
<1>2. PinsTyped /\ CallsTyped
  BY DEF PowerTyped
<1>3. powerFaults \in 0..PowerBound /\ PowerBound \in Nat
  BY <1>2, PowerAssumption DEF CallsTyped, Pwr!FaultsAssumption
<1>4. CASE Pwr!InitPeripherals
  <2>1. /\ Pwr!peripheral_init /\ boot' = boot + 1 /\ boot <= 19 /\ state = "awake"
        /\ services' = services \cup {Pwr!BootSteps[boot]}
        /\ UNCHANGED <<build, state, sleep_type, g_iocfg_backup, slept>>
    BY <1>4, StepsNamed DEF Pwr!InitPeripherals, Pwr!Booting
  <2>2. Pwr!BootSteps[boot] \in Pwr!Range(Pwr!BootSteps)
    BY <1>2, <2>1, StepsNamed DEF CallsTyped
  <2>3. PinsTyped'
    BY <1>2, <2>1, PeripheralsTyped DEF PinsTyped
  <2>4. CallsTyped'
    BY <1>2, <2>1, <2>2, PeripheralsTyped DEF CallsTyped
  <2> QED BY <1>1, <2>3, <2>4 DEF PowerTyped
<1>5. CASE Pwr!InitNoSleep
  <2>1. /\ boot' = boot + 1 /\ boot <= 19 /\ Pwr!BootSteps[boot] = "no_sleep"
        /\ services' \subseteq services \cup {"no_sleep"}
        /\ gates' \subseteq gates \cup {"SDIO"}
        /\ powerFaults' = powerFaults \/ (powerFaults < PowerBound /\ powerFaults' = powerFaults + 1)
        /\ UNCHANGED <<build, state, sleep_type, g_iocfg_backup, slept>>
        /\ UNCHANGED <<g_have_inited, mux, iocfg, err_info, failing>>
    BY <1>5, StepsNamed DEF Pwr!InitNoSleep, Pwr!Booting, Pwr!app_sdio_init
  <2>2. Pwr!BootSteps[boot] \in Pwr!Range(Pwr!BootSteps)
    BY <1>2, <2>1, StepsNamed DEF CallsTyped
  <2>3. PinsTyped'
    BY <1>2, <2>1 DEF PinsTyped
  <2>4. powerFaults' \in 0..PowerBound
    BY <1>3, <2>1
  <2>5. "SDIO" \in Pwr!Devices
    BY DEF Pwr!Devices, Pwr!Drivers
  <2>6. CallsTyped'
    BY <1>2, <2>1, <2>2, <2>4, <2>5 DEF CallsTyped
  <2> QED BY <1>1, <2>3, <2>6 DEF PowerTyped
<1>6. CASE Pwr!BootStep
  <2>1. PICK n \in 3..19 : /\ Pwr!Booting(Pwr!BootSteps[n])
                           /\ services' \subseteq services \cup {Pwr!BootSteps[n]}
    BY <1>6, StepsNamed DEF Pwr!BootStep
  <2>2. /\ boot' = boot + 1 /\ boot <= 19 /\ state = "awake"
        /\ UNCHANGED <<build, state, sleep_type, g_iocfg_backup, slept>>
    BY <2>1, StepsNamed DEF Pwr!Booting
  <2>3. /\ powerFaults' = powerFaults \/ (powerFaults < PowerBound /\ powerFaults' = powerFaults + 1)
        /\ UNCHANGED <<g_have_inited, gates, mux, iocfg, err_info, failing>>
    BY <1>6 DEF Pwr!BootStep
  <2>4. Pwr!BootSteps[n] \in Pwr!Range(Pwr!BootSteps)
    BY StepsNamed
  <2>5. PinsTyped'
    BY <1>2, <2>2, <2>3 DEF PinsTyped
  <2>6. powerFaults' \in 0..PowerBound
    BY <1>3, <2>3
  <2>7. CallsTyped'
    BY <1>2, <2>1, <2>2, <2>3, <2>4, <2>6 DEF CallsTyped
  <2> QED BY <1>1, <2>5, <2>7 DEF PowerTyped
<1>7. CASE Pwr!SetSleepType
  BY <1>1, <1>2, <1>7 DEF Pwr!SetSleepType, PowerTyped, PinsTyped, CallsTyped
<1>8. CASE Pwr!FallAsleep
  <2>1. /\ slept' = [mux |-> mux, iocfg |-> iocfg, working |-> working]
        /\ UNCHANGED <<build, boot, services, handlers, sleep_type, g_have_inited, gates, mux,
                       err_info, powerFaults, failing>>
    BY <1>8 DEF Pwr!FallAsleep
  <2>8. /\ "hw_handler" \in services =>
             /\ iocfg' = [p \in Pwr!Pins |-> IF p \in Pwr!Saved THEN "lowpower" ELSE iocfg[p]]
             /\ g_iocfg_backup' = [p \in Pwr!Pins |-> IF p \in Pwr!Saved THEN iocfg[p] ELSE g_iocfg_backup[p]]
        /\ "hw_handler" \notin services => UNCHANGED <<iocfg, g_iocfg_backup>>
    BY <1>8 DEF Pwr!FallAsleep, Pwr!config_before_sleep, Pwr!Registered
  <2>2. iocfg' \in [Pwr!Pins -> Configurations]
    BY <1>2, <2>8 DEF PinsTyped, Configurations
  <2>3. g_iocfg_backup' \in [Pwr!Pins -> {"zero"} \cup Configurations]
    BY <1>2, <2>8 DEF PinsTyped
  <2>4. "hw_handler" \in services => \A p \in Pwr!Saved : g_iocfg_backup'[p] \in Configurations
    BY <1>2, <2>8 DEF PinsTyped, Pwr!Saved, Pwr!Pins
  <2>5. slept'.working \subseteq Pwr!Devices
    BY <2>1, DevicesUp DEF PowerTyped, PowerInv, WorkInv
  <2>6. PinsTyped'
    BY <1>2, <2>1, <2>2, <2>3, <2>4 DEF PinsTyped
  <2>7. CallsTyped'
    BY <1>2, <2>1, <2>5 DEF CallsTyped
  <2> QED BY <1>1, <2>6, <2>7 DEF PowerTyped
<1>9. CASE Pwr!WakeUp
  BY <1>1, <1>2, <1>9 DEF Pwr!WakeUp, PowerTyped, PinsTyped, CallsTyped
<1>10. CASE Pwr!WakeUpEntry
  <2>1. /\ Pwr!peripheral_init /\ state = "waking"
        /\ UNCHANGED <<build, boot, services, sleep_type, g_iocfg_backup, slept>>
    BY <1>10 DEF Pwr!WakeUpEntry, Pwr!Handled
  <2>2. PinsTyped'
    BY <1>2, <2>1, PeripheralsTyped DEF PinsTyped
  <2>3. CallsTyped'
    BY <1>2, <2>1, PeripheralsTyped DEF CallsTyped
  <2> QED BY <1>1, <2>2, <2>3 DEF PowerTyped
<1>11. CASE Pwr!AfterSleep
  <2>1. /\ state = "waking" /\ "hw_handler" \in services
        /\ UNCHANGED <<build, boot, services, sleep_type, g_iocfg_backup, slept>>
        /\ UNCHANGED <<g_have_inited, gates, mux, err_info, powerFaults, failing>>
        /\ iocfg' = [p \in Pwr!Pins |-> IF p \in Pwr!Saved THEN g_iocfg_backup[p] ELSE iocfg[p]]
    BY <1>11 DEF Pwr!AfterSleep, Pwr!Handled, Pwr!config_after_sleep, Pwr!Registered
  <2>2. iocfg' \in [Pwr!Pins -> Configurations]
    BY <1>2, <2>1 DEF PinsTyped
  <2>3. PinsTyped'
    BY <1>2, <2>1, <2>2 DEF PinsTyped
  <2>4. CallsTyped'
    BY <1>2, <2>1 DEF CallsTyped
  <2> QED BY <1>1, <2>3, <2>4 DEF PowerTyped
<1>12. CASE Pwr!Configure
  <2>1. PICK p \in {"8", "9"}, cfg \in {"demo", "reset"} :
          /\ iocfg' = [iocfg EXCEPT ![p] = cfg] /\ mux' = [mux EXCEPT ![p] = "GPIO"]
          /\ slept' = [slept EXCEPT !.iocfg[p] = cfg, !.mux[p] = "GPIO"]
    BY <1>12 DEF Pwr!Configure
  <2>2. /\ state = "awake"
        /\ UNCHANGED <<build, boot, services, state, sleep_type, g_have_inited, gates,
                 g_iocfg_backup, err_info, powerFaults, failing>>
    BY <1>12 DEF Pwr!Configure
  <2>3. PICK m, c, w : slept = [mux |-> m, iocfg |-> c, working |-> w]
    BY DEF PowerTyped, PowerInv, PinsInv
  <2>4. slept'.working = slept.working
    BY <2>1, <2>3
  <2>5. iocfg' \in [Pwr!Pins -> Configurations] /\ mux' \in [Pwr!Pins -> Owners]
    BY <1>2, <2>1 DEF PinsTyped, Configurations, Owners
  <2>6. PinsTyped'
    BY <1>2, <2>2, <2>5 DEF PinsTyped
  <2>7. CallsTyped'
    BY <1>2, <2>2, <2>4 DEF CallsTyped
  <2> QED BY <1>1, <2>6, <2>7 DEF PowerTyped
<1>13. CASE Pwr!OpenUart2
  <2>1. gates' = gates \cup {"UART2"}
    BY <1>13 DEF Pwr!OpenUart2
  <2>2. gates' \subseteq Pwr!Devices
    BY <1>2, <2>1 DEF CallsTyped, Pwr!Devices, Pwr!Uarts
  <2> QED BY <1>1, <1>2, <1>13, <2>2 DEF Pwr!OpenUart2, PowerTyped, PinsTyped, CallsTyped
<1> QED
  BY <1>4, <1>5, <1>6, <1>7, <1>8, <1>9, <1>10, <1>11, <1>12, <1>13 DEF Pwr!Next, Pwr!app_main

----------------------------------------------------------------------------
(* All of them.                                                             *)

\* Alone, the can puts reports of its own into the queue.
CanTypes == CanInv /\ queued \in Seq({"Person_times", "full"} \X Nat)

TypesInv ==
  /\ part = "can" => CanTypes
  /\ part = "power" => PowerTyped
  /\ part = "air" => Air!TypeOK
  /\ part = "scale" => ScaleTyped
  /\ part = "adc" => AdcTyped
  /\ part = "gps" => Gps!TypeOK
  /\ part = "oled" => OledTyped
  /\ part = "mpu" => MpuTyped
  /\ part = "start" => StartInv
  /\ part = "raw" => RawTyped
  /\ part = "hmac" => HmacTyped
  /\ part = "log" => LogTyped
  /\ part \in {"can", "power", "air", "scale", "adc", "gps", "oled", "mpu", "math",
               "start", "raw", "hmac", "log"}

LEMMA CanTypesInit == Init => CanTypes
<1>1. Init => queued = <<>>
  BY DEF Init
<1>2. <<>> \in Seq({"Person_times", "full"} \X Nat)
  OBVIOUS
<1> QED BY <1>1, <1>2, CanInvInit, VisitsAssumption DEF CanTypes

LEMMA CanTypesStep ==
  ASSUME CanTypes, Next \/ UNCHANGED trashVars
  PROVE  CanTypes'
BY CanInvNext, CanTyped, OwnQueue, VisitsAssumption DEF CanTypes

LEMMA AirTypedInit == Air!Init => Air!TypeOK
<1> SUFFICES ASSUME Air!Init PROVE Air!TypeOK
  OBVIOUS
<1>1. BmpBound \in Nat
  BY BmpAssumption DEF Air!FaultsAssumption
<1>2. first \in BOOLEAN /\ converting \in BOOLEAN
  BY DEF Air!Init
<1>3. press_cal \in [raw : Air!Raws, burst : {0, 1}, t_fine : {0, 1}]
  BY DEF Air!Init, Air!Unset, Air!Raws, Air!Stack, Air!OldAge, Air!Reset
<1>4. Air!Reset \in Air!Raws
  BY DEF Air!Raws, Air!Stack, Air!OldAge, Air!Reset
<1>5. raw \in Air!Raws /\ result \in Air!Raws /\ bmpFaults \in 0..BmpBound
  BY <1>1, <1>4 DEF Air!Init
<1>6. /\ bmp \in {"init", "force", "read", "calibrate", "sleep"}
      /\ rbuf \in {"meas", "other"} /\ trim \in {"zero", "chip"}
      /\ burst \in {0, 1} /\ t_fine \in {0, 1} /\ ctrl_meas \in {"meas", "other"}
  BY DEF Air!Init
<1> QED BY <1>2, <1>3, <1>5, <1>6 DEF Air!TypeOK

LEMMA ScaleTypedInit == Hx!Init => ScaleTyped
<1> SUFFICES ASSUME Hx!Init PROVE ScaleTyped
  OBVIOUS
<1>1. Bits \in Nat \ {0} /\ Readings \in Nat \ {0} /\ MaxResets \in Nat /\ Hx!Busy = -1
  BY ScaleAssumption DEF Hx!ScaleAssumption, Hx!Busy
<1>2. display \in [1..9 -> Hx!Weights \cup {"blank", "g"}]
  BY DEF Hx!Init
<1>3. exact \in BOOLEAN
  BY DEF Hx!Init
<1>4. i \in 0..Bits /\ taken \in 0..Readings /\ chip \in Hx!Busy..Bits /\ resets \in 0..MaxResets
  BY <1>1 DEF Hx!Init
<1>5. weight \in Hx!Weights /\ load \in Hx!Weights /\ latched \in Hx!Weights
  BY DEF Hx!Init, Hx!Weights
<1>6. taken < Readings
  BY <1>1 DEF Hx!Init
<1> QED BY <1>2, <1>3, <1>4, <1>5, <1>6 DEF Hx!Init, ScaleTyped, Hx!TypeOK

LEMMA AdcTypedInit == Adc!Init => AdcTyped
<1> SUFFICES ASSUME Adc!Init PROVE AdcTyped
  OBVIOUS
<1>1. Samples \in Nat \ {0} /\ MaxLevel \in Nat /\ Levels \subseteq 1..MaxLevel
  BY AdcAssumption DEF Adc!AdcAssumption
<1>2. demo \in Adc!Demos /\ adc = "sample" /\ k = 0 /\ data = 0 /\ level \in Levels
  BY DEF Adc!Init
<1>3. wet \in BOOLEAN /\ bright \in BOOLEAN /\ adcLamp \in BOOLEAN /\ steady \in BOOLEAN
  BY DEF Adc!Init
<1>4. vlt_max \in 0..MaxLevel + 1 /\ vlt_min \in 0..MaxLevel + 1
  BY <1>1 DEF Adc!Init
<1>5. printed.min \in 0..MaxLevel + 1 /\ printed.max \in 0..MaxLevel + 1
  BY <1>1 DEF Adc!Init
<1>6. adcOled \in AdcTexts
  BY DEF Adc!Init, AdcTexts
<1> QED BY <1>1, <1>2, <1>3, <1>4, <1>5, <1>6 DEF AdcTyped

LEMMA GpsTypedInit == Gps!Init => Gps!TypeOK
<1> SUFFICES ASSUME Gps!Init PROVE Gps!TypeOK
  OBVIOUS
<1>1. /\ Chunk \in Nat \ {0} /\ BufferSize \in Nat \ {0}
      /\ MaxSentence \in Nat \ (0..2) /\ MaxSentences \in Nat
  BY GpsAssumption DEF Gps!GpsAssumption
<1>2. Gps!Nothing \in Gps!Pieces
  BY <1>1 DEF Gps!Nothing, Gps!Pieces, Gps!Piece
<1>3. uart_buff \in [1..BufferSize -> Gps!Pieces] /\ gps_data \in Gps!Pieces \X Gps!Pieces
  BY <1>2 DEF Gps!Init
<1>4. sending \in [id : 0..MaxSentences, gga : BOOLEAN, len : 0..MaxSentence, sent : 0..MaxSentence]
  BY <1>1 DEF Gps!Init
<1>5. parsed \in 0..MaxSentences /\ offset \in Nat /\ reader \in {"running", "lost"}
  BY <1>1 DEF Gps!Init
<1>6. fifo \in Seq(Gps!Pieces)
  BY EmptySeq DEF Gps!Init
<1> QED BY <1>3, <1>4, <1>5, <1>6 DEF Gps!TypeOK

LEMMA MpuTypedInit == Gy!Init => MpuTyped
<1> SUFFICES ASSUME Gy!Init PROVE MpuTyped
  OBVIOUS
<1>1. MpuReports \in Nat /\ MpuBound \in Nat
  BY MpuAssumption DEF Gy!MpuAssumption
<1>2. awake \in BOOLEAN /\ tainted \in BOOLEAN
  BY DEF Gy!Init
<1>3. published = <<>> /\ flag_demped = 0
  BY DEF Gy!Init
<1>4. published \in Seq({"true", "false"})
  BY <1>3, EmptySeq
<1>5. /\ mpu \in {"init", "read", "judge", "sleep"} /\ reads \in 0..6
      /\ tilt \in Gy!Tilts /\ acc \subseteq Gy!Tilts /\ zeros \in 0..3 /\ zeros <= reads
      /\ estimate \in Gy!Tilts \union {"NaN"} /\ flag_demped \in {0, 1}
      /\ mpuFaults \in 0..MpuBound /\ been \subseteq Gy!Tilts \union {"NaN"}
  BY <1>1 DEF Gy!Init, Gy!Tilts, Gy!Settled, Gy!Sides
<1>6. flag_demped = 1 <=> published # <<>> /\ published[Len(published)] = "true"
  BY <1>3
<1> QED BY <1>2, <1>4, <1>5, <1>6 DEF MpuTyped, Gy!TypeOK

LEMMA TypesInvInit == DemosInit => TypesInv
<1> SUFFICES ASSUME DemosInit PROVE TypesInv
  OBVIOUS
<1>1. /\ Init /\ Pwr!Init /\ Air!Init /\ Hx!Init /\ Adc!Init /\ Gps!Init /\ Gy!Init
      /\ St!Init /\ Raw!Init /\ Hm!Init /\ Lg!Init
      /\ part = "oled" => Dis!Init
  BY DEF DemosInit
<1>2. part \in {"can", "power", "air", "scale", "adc", "gps", "oled", "mpu", "math",
                "start", "raw", "hmac", "log"}
  BY DEF DemosInit
<1>3. CanTypes /\ PowerTyped /\ Air!TypeOK /\ ScaleTyped /\ AdcTyped /\ Gps!TypeOK /\ MpuTyped
  BY <1>1, CanTypesInit, PowerInvInit, PowerTypedInit, AirTypedInit, ScaleTypedInit,
     AdcTypedInit, GpsTypedInit, MpuTypedInit
<1>4. StartInv /\ RawTyped /\ HmacTyped /\ LogTyped
  BY <1>1, StartInvInit, RawTypedInit, HmacTypedInit, LogTypedInit
<1>5. part = "oled" => OledTyped
  BY <1>1, OledTypedInit
<1> QED BY <1>2, <1>3, <1>4, <1>5 DEF TypesInv

LEMMA TypesInvStep == TypesInv /\ [DemosNext]_allVars => TypesInv'
<1> SUFFICES ASSUME TypesInv, [DemosNext]_allVars PROVE TypesInv'
  OBVIOUS
<1>1. part' = part
  BY DemosStep
<1>2. ASSUME part = "can" PROVE CanTypes'
  BY <1>2, DemosStep, CanTypesStep DEF TypesInv
<1>3. ASSUME part = "power" PROVE PowerTyped'
  <2>1. Pwr!Next \/ UNCHANGED powerVars
    BY <1>3, DemosStep
  <2>2. PowerTyped
    BY <1>3 DEF TypesInv
  <2>3. CASE Pwr!Next
    BY <2>2, <2>3, PowerTypedStep
  <2>4. CASE UNCHANGED powerVars
    <3>1. UNCHANGED <<build, boot, services, state, handlers, sleep_type, g_have_inited, gates,
               working, saved, mux, iocfg, g_iocfg_backup, err_info, powerFaults, failing, slept>>
      BY <2>4 DEF powerVars
    <3>2. BootInv' /\ OneFails' /\ WorkInv'
      BY <2>2, <3>1 DEF PowerTyped, PowerInv, BootInv, OneFails, WorkInv, MayWork
    <3>3. PinsInv'
      BY <2>2, <3>1 DEF PowerTyped, PowerInv, PinsInv, Owned, Configured
    <3>4. PinsTyped' /\ CallsTyped'
      BY <2>2, <3>1 DEF PowerTyped, PinsTyped, CallsTyped
    <3> QED BY <3>2, <3>3, <3>4 DEF PowerTyped, PowerInv
  <2> QED BY <2>1, <2>3, <2>4
<1>4. ASSUME part = "air" PROVE Air!TypeOK'
  BY <1>4, DemosStep, AirTyped DEF TypesInv, bmpVars, Air!bmpVars
<1>5. ASSUME part = "scale" PROVE ScaleTyped'
  BY <1>5, DemosStep, ScaleTypedStep DEF TypesInv, scaleVars, Hx!scaleVars
<1>6. ASSUME part = "adc" PROVE AdcTyped'
  BY <1>6, DemosStep, AdcTypedStep DEF TypesInv, adcVars, Adc!adcVars
<1>7. ASSUME part = "gps" PROVE Gps!TypeOK'
  BY <1>7, DemosStep, GpsTyped DEF TypesInv, gpsVars, Gps!gpsVars
<1>8. ASSUME part = "oled" PROVE OledTyped'
  BY <1>8, DemosStep, OledTypedStep DEF TypesInv, oledVars, Dis!oledVars
<1>9. ASSUME part = "mpu" PROVE MpuTyped'
  BY <1>9, DemosStep, MpuTypedStep DEF TypesInv, mpuVars, Gy!mpuVars
<1>10. ASSUME part = "start" PROVE StartInv'
  BY <1>10, DemosStep, StartInvNext DEF TypesInv, startVars, St!startVars
<1>11. ASSUME part = "raw" PROVE RawTyped'
  <2>1. RawTyped /\ (Raw!Next \/ UNCHANGED rawVars)
    BY <1>11, DemosStep DEF TypesInv
  <2> QED BY <2>1, RawTypedStep DEF rawVars, RawTyped, RawInv
<1>12. ASSUME part = "hmac" PROVE HmacTyped'
  <2>1. HmacTyped /\ (Hm!Next \/ UNCHANGED hmacVars)
    BY <1>12, DemosStep DEF TypesInv
  <2> QED BY <2>1, HmacTypedStep DEF hmacVars, HmacTyped, HmacInv, IsHex, Untouched, PwdLen
<1>13. ASSUME part = "log" PROVE LogTyped'
  <2>1. LogTyped /\ (Lg!Next \/ UNCHANGED logVars)
    BY <1>13, DemosStep DEF TypesInv
  <2>2. CASE UNCHANGED logVars
    <3> DEFINE M == 2^LevelBits
               S == {Lg!Names[m] : m \in 1..Lg!MAX} \cup {"NULL"}
    <3>1. UNCHANGED <<gIoTLogLevel, accepted, tested, line>>
      BY <2>2 DEF logVars
    <3>2. LogInv'
      BY <2>1, <3>1 DEF LogTyped, LogInv
    <3> HIDE DEF M, S
    <3>3. Lg!TypeOK'
      BY <2>1, <3>1, Zenon DEF LogTyped, Lg!TypeOK
    <3> QED BY <2>1, <3>1, <3>2, <3>3 DEF LogTyped
  <2> QED BY <2>1, <2>2, LogTypedStep
<1>14. part' \in {"can", "power", "air", "scale", "adc", "gps", "oled", "mpu", "math",
                "start", "raw", "hmac", "log"}
  BY <1>1 DEF TypesInv
<1> QED
  BY <1>1, <1>2, <1>3, <1>4, <1>5, <1>6, <1>7, <1>8, <1>9, <1>10, <1>11, <1>12, <1>13, <1>14
     DEF TypesInv

LEMMA TypesInvImplies == TypesInv => (part # "math" => DemosTypeOK)
<1> SUFFICES ASSUME TypesInv, part # "math" PROVE DemosTypeOK
  OBVIOUS
<1>1. part = "can" => TypeOK
  BY CanTyped DEF TypesInv, CanTypes
<1>2. part = "power" => Pwr!TypeOK
  BY PowerTypedImplies DEF TypesInv
<1>3. part = "air" => Air!TypeOK
  BY DEF TypesInv
<1>4. part = "scale" => Hx!TypeOK
  BY DEF TypesInv, ScaleTyped
<1>5. part = "adc" => Adc!TypeOK
  BY AdcTypedImplies DEF TypesInv
<1>6. part = "gps" => Gps!TypeOK
  BY DEF TypesInv
<1>7. part = "oled" => Dis!TypeOK
  BY OledTypedImplies DEF TypesInv
<1>8. part = "mpu" => Gy!TypeOK
  BY DEF TypesInv, MpuTyped
<1>9. part = "start" => St!TypeOK
  BY StartTyped DEF TypesInv
<1>10. part = "raw" => Raw!TypeOK
  BY RawTypedImplies DEF TypesInv
<1>11. part = "hmac" => Hm!TypeOK
  BY HmacTypedImplies DEF TypesInv
<1>12. part = "log" => Lg!TypeOK
  BY DEF TypesInv, LogTyped
<1>13. part \in {"can", "power", "air", "scale", "adc", "gps", "oled", "mpu", "start", "raw",
                "hmac", "log"}
  BY DEF TypesInv
<1>14. CASE part = "can"
  BY <1>1, <1>14 DEF DemosTypeOK
<1>15. CASE part = "power"
  BY <1>2, <1>15 DEF DemosTypeOK
<1>16. CASE part = "air"
  BY <1>3, <1>16 DEF DemosTypeOK
<1>17. CASE part = "scale"
  BY <1>4, <1>17 DEF DemosTypeOK
<1>18. CASE part = "adc"
  BY <1>5, <1>18 DEF DemosTypeOK
<1>19. CASE part = "gps"
  BY <1>6, <1>19 DEF DemosTypeOK
<1>20. CASE part = "oled"
  BY <1>7, <1>20 DEF DemosTypeOK
<1>21. CASE part = "mpu"
  BY <1>8, <1>21 DEF DemosTypeOK
<1>22. CASE part = "start"
  BY <1>9, <1>22 DEF DemosTypeOK
<1>23. CASE part = "raw"
  BY <1>10, <1>23 DEF DemosTypeOK
<1>24. CASE part = "hmac"
  BY <1>11, <1>24 DEF DemosTypeOK
<1>25. CASE part = "log"
  BY <1>12, <1>25 DEF DemosTypeOK
<1> QED
  BY <1>13, <1>14, <1>15, <1>16, <1>17, <1>18, <1>19, <1>20, <1>21, <1>22, <1>23, <1>24, <1>25

\* The variables of the part that runs have their types: the buffers, the
\* counters and what is left to draw stay within their bounds, and every task of
\* the start-up stands at one of its statements or has returned.  Left out are
\* the angle functions: that an angle is at most pi is a numerical fact (Libm).
THEOREM TypesAlwaysHold == DemosSpec => [](part # "math" => DemosTypeOK)
BY TypesInvInit, TypesInvStep, TypesInvImplies, PTL DEF DemosSpec
=============================================================================
