------------------------------ MODULE AdcDemos ------------------------------
(***************************************************************************)
(* The three demos that read one ADC channel for ever                      *)
(* (HiSpark_Pegasus_Rotation_Sensor/app_demo_rotation_sensor.c,            *)
(* HiSpark_Pegasus_Water_Sensor/app_demo_water_sensor.c and                *)
(* HiSpark_Pegasus_Light_Intensity_Sensor/light_sensor.c).                 *)
(*                                                                         *)
(* Each runs on a board of its own.  The first failed read ends the task   *)
(* and leaves what it last showed.  A voltage is one of a few levels; rain *)
(* is more than 1 V on the water sensor (no ADC code is 1 V exactly), and  *)
(* bright is a code of more than 300 on the light sensor.                  *)
(***************************************************************************)
EXTENDS Integers

CONSTANTS
  Levels,     \* voltages of the rotation sensor
  MaxLevel,   \* the greatest of them; vlt_min starts above it (VLT_MIN)
  Samples     \* ADC_LENGTH

AdcAssumption == Levels \subseteq 1..MaxLevel /\ MaxLevel \in Nat /\ Samples \in Nat \ {0}

Demos == {"rotation", "water", "light"}

VARIABLES
  demo,       \* the demo on this board
  adc,        \* program point of its task: "sample", "print" or "ended"
  k,          \* samples of this pass
  data,       \* the last sample
  level,      \* sensor: rotation
  wet,        \* sensor: rain
  bright,     \* sensor: light
  vlt_max,
  vlt_min,
  printed,    \* what the rotation demo last printed at the end of a pass
  oled,       \* "none", "is Rainning" or "a sunny day"
  lamp,       \* GPIO 9
  steady      \* history: the sensor did not change since the pass began

adcVars == <<demo, adc, k, data, level, wet, bright, vlt_max, vlt_min, printed, oled, lamp, steady>>

Init ==
  /\ demo \in Demos /\ adc = "sample" /\ k = 0 /\ data = 0
  /\ level \in Levels /\ wet = FALSE /\ bright = FALSE
  /\ vlt_max = 0 /\ vlt_min = MaxLevel + 1 /\ printed = [min |-> MaxLevel + 1, max |-> 0]
  /\ oled = "none" /\ lamp = FALSE /\ steady = TRUE

Lower(a, b) == IF a < b THEN a ELSE b
Higher(a, b) == IF a > b THEN a ELSE b

----------------------------------------------------------------------------
\* hi_adc_read fails: return.
ReadFails ==
  /\ adc = "sample"
  /\ adc' = "ended"
  /\ UNCHANGED <<demo, k, data, level, wet, bright, vlt_max, vlt_min, printed, oled, lamp, steady>>

Sampling(d, n) ==
  /\ demo = d /\ adc = "sample"
  /\ k' = k + 1 /\ adc' = IF k' = n THEN "print" ELSE "sample"
  /\ steady' = (steady \/ k = 0)

\* Seeded fault: vlt_max keeps the maximum of the samples so far.
RotationSample_KeepsMax ==
  /\ Sampling("rotation", Samples)
  /\ data' = level
  /\ vlt_max' = vlt_max
  /\ UNCHANGED <<demo, level, wet, bright, vlt_min, printed, oled, lamp>>

\* rotation_sensor: data is global, and the buffer is filled for nothing.
RotationSample ==
  /\ Sampling("rotation", Samples)
  /\ data' = level
  /\ vlt_max' = 0
  /\ UNCHANGED <<demo, level, wet, bright, vlt_min, printed, oled, lamp>>

\* The second loop takes data, not the buffer's vlt, Samples times (line 86).
RotationPrint ==
  /\ demo = "rotation" /\ adc = "print"
  /\ vlt_max' = Higher(data, vlt_max) /\ vlt_min' = Lower(data, vlt_min)
  /\ printed' = [min |-> vlt_min', max |-> vlt_max']
  /\ adc' = "sleep"
  /\ UNCHANGED <<demo, k, data, level, wet, bright, oled, lamp, steady>>

\* Seeded fault: rain once seen in a pass decides it.
WaterSample_KeepsMax ==
  /\ Sampling("water", Samples)
  /\ vlt_max' = Higher(vlt_max, IF wet THEN 2 ELSE 0)
  /\ vlt_min' = Lower(vlt_min, vlt_max')
  /\ oled' = IF vlt_max' > 1 THEN "is Rainning" ELSE "a sunny day"
  /\ UNCHANGED <<demo, data, level, wet, bright, printed, lamp>>

\* water_sensor: every sample decides by itself, since vlt_max starts again.
WaterSample ==
  /\ Sampling("water", Samples)
  /\ vlt_max' = Higher(0, IF wet THEN 2 ELSE 0)
  /\ vlt_min' = Lower(vlt_min, vlt_max')
  /\ oled' = IF vlt_max' > 1 THEN "is Rainning" ELSE "a sunny day"
  /\ UNCHANGED <<demo, data, level, wet, bright, printed, lamp>>

\* lightsensor.
LightSample ==
  /\ Sampling("light", 1)
  /\ lamp' = bright
  /\ UNCHANGED <<demo, data, level, wet, bright, vlt_max, vlt_min, printed, oled>>

\* The pass is over.
SleepAdc ==
  /\ adc = "sleep" \/ (adc = "print" /\ demo # "rotation")
  /\ adc' = "sample" /\ k' = 0
  /\ UNCHANGED <<demo, data, level, wet, bright, vlt_max, vlt_min, printed, oled, lamp, steady>>

SensorChanges ==
  /\ \/ demo = "rotation" /\ level' \in Levels \ {level} /\ UNCHANGED <<wet, bright>>
     \/ demo = "water" /\ wet' = ~wet /\ UNCHANGED <<level, bright>>
     \/ demo = "light" /\ bright' = ~bright /\ UNCHANGED <<level, wet>>
  /\ steady' = FALSE
  /\ UNCHANGED <<demo, adc, k, data, vlt_max, vlt_min, printed, oled, lamp>>

Next ==
  \/ RotationSample \/ RotationPrint \/ WaterSample \/ LightSample
  \/ ReadFails \/ SleepAdc \/ SensorChanges

Spec == Init /\ [][Next]_adcVars

----------------------------------------------------------------------------
\* Types.
TypeOK ==
  /\ demo \in Demos /\ adc \in {"sample", "print", "sleep", "ended"} /\ k \in 0..Samples
  /\ data \in {0} \cup Levels /\ level \in Levels /\ wet \in BOOLEAN /\ bright \in BOOLEAN
  /\ {vlt_max, vlt_min, printed.min, printed.max} \subseteq 0..(MaxLevel + 1)
  /\ oled \in {"none", "is Rainning", "a sunny day"} /\ lamp \in BOOLEAN /\ steady \in BOOLEAN

\* A sensor that is steady for a pass is what the demo shows at the end of the
\* pass, whatever it was before: a level that has passed leaves no trace in the
\* maximum, the text or the lamp.  Only vlt_min never recovers (line 70 sets it
\* once), and stays at or below what is shown.
ShownIsSteady ==
  steady /\ k > 0 /\ (adc = "sleep" \/ (adc = "print" /\ demo # "rotation")) =>
    CASE demo = "rotation" -> printed.max = level /\ printed.min <= level
      [] demo = "water" -> oled = IF wet THEN "is Rainning" ELSE "a sunny day"
      [] demo = "light" -> lamp = bright
=============================================================================
