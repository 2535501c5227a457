------------------------------- MODULE Bmp280 -------------------------------
(***************************************************************************)
(* The air pressure demo                                                   *)
(* (HiSpark_Pegasus_Air_Pressure_Sensor/app_demo_bmp280.c).                *)
(*                                                                         *)
(* Once a second i2c_task_bmp280 asks the chip for one conversion, reads   *)
(* the result registers at once, and prints temperature, pressure and      *)
(* altitude.  No result of a transfer is tested.  A raw value is known by  *)
(* its age, the number of requests since its conversion was asked for;     *)
(* beside ages there are the registers' reset value, what a conversion     *)
(* yields whose oversampling is off, and what a failed read leaves in      *)
(* data[]: the stack's bytes, or another register's when only the write of *)
(* the register's address failed (lines 58-60).                            *)
(***************************************************************************)
EXTENDS Integers, FiniteSets

CONSTANTS MaxFaults   \* bound: transfers that fail in a behaviour

FaultsAssumption == MaxFaults \in Nat

OldAge == 3           \* ages are told apart up to here
Reset == -1
Skipped == -2
Stack == -3
Raws == Stack..OldAge
Unset == [raw |-> Stack, burst |-> 0, t_fine |-> 0]   \* press_cal when it is 0

VARIABLES
  bmp,         \* program point of i2c_task_bmp280
  rbuf,        \* the bits of CTRL_MEAS it holds, or others
  trim,        \* dig_T1, ..., dig_P9: zero, another register's or the chip's
  raw,         \* temp_raw and pres_raw
  burst,       \* parity of the number of readData calls
  t_fine,      \* the burst whose temperature it is
  press_cal,   \* the pressure: Unset, or its raw value, its burst and its t_fine
  first,       \* the first pass is not over
  ctrl_meas,   \* chip: are both measurements sampled?
  converting,  \* chip: a conversion is running
  result,      \* chip: the result registers
  faults       \* transfers that failed

bmpVars == <<bmp, rbuf, trim, raw, burst, t_fine, press_cal, first, ctrl_meas, converting,
             result, faults>>

Init ==
  /\ bmp = "init" /\ rbuf \in {"meas", "other"} /\ trim = "zero"
  /\ raw = Reset /\ burst = 0 /\ t_fine = 1 /\ press_cal = Unset /\ first = TRUE
  /\ ctrl_meas = "other" /\ converting = FALSE /\ result = Reset /\ faults = 0

----------------------------------------------------------------------------
\* The transfers of a step that fail; i2c_m_read and i2c_m_write return it, the
\* first only if its second half fails, and no caller looks.
Transfers(calls, failed) ==
  /\ failed \in SUBSET calls /\ faults + Cardinality(failed) <= MaxFaults
  /\ faults' = faults + Cardinality(failed)

\* bme280_bmp280_init: the id is only logged, and a failed readTrim takes the
\* zeros of its buffer, or other registers.
bme280_bmp280_init ==
  /\ bmp = "init"
  /\ \E failed \in SUBSET {"trim", "ctrl_meas"} :
       /\ Transfers({"trim", "ctrl_meas"}, failed)
       /\ trim' \in IF "trim" \in failed THEN {"zero", "wrong"} ELSE {"chip"}
       /\ ctrl_meas' = IF "ctrl_meas" \in failed THEN "other" ELSE "meas"
  /\ bmp' = "force"
  /\ UNCHANGED <<rbuf, raw, burst, t_fine, press_cal, first, converting, result>>

\* CTRL_MEAS is read, its mode changed and written back: after a read that fails
\* so is whatever rbuf held or another register has, and later reads find that.
ForcedMode ==
  /\ bmp = "force"
  /\ \E failed \in SUBSET {"read", "write"} :
       /\ Transfers({"read", "write"}, failed)
       /\ rbuf' \in IF "read" \in failed THEN {"meas", "other"} ELSE {ctrl_meas}
       /\ ctrl_meas' = IF "write" \in failed THEN ctrl_meas ELSE rbuf'
       /\ converting' = ("write" \notin failed)
  /\ result' = IF result >= 0 /\ result < OldAge THEN result + 1 ELSE result
  /\ bmp' = "read"
  /\ UNCHANGED <<trim, raw, burst, t_fine, press_cal, first>>

\* Seeded fault: the registers are read before a conversion is asked for again.
Latest_OneMore == IF result >= 0 /\ result < OldAge THEN result + 1 ELSE result

\* What the result registers hold: they change when a conversion ends.
Latest == result

\* The status goes to rbuf and is not tested.
readData ==
  /\ bmp = "read"
  /\ \E failed \in SUBSET {"status", "data"} :
       /\ Transfers({"status", "data"}, failed)
       /\ rbuf' \in IF "status" \in failed THEN {"meas", "other"} ELSE {"other"}
       /\ raw' = IF "data" \in failed THEN Stack ELSE Latest
  /\ burst' = 1 - burst
  /\ bmp' = "calibrate"
  /\ UNCHANGED <<trim, t_fine, press_cal, first, ctrl_meas, converting, result>>

\* calibration_T leaves t_fine for calibration_P.
calibration_T == t_fine' = burst

\* With a dig_P1 of zero the divisor is zero, and the pressure is 0.
calibration_P(fine) ==
  press_cal' = IF trim = "zero" THEN Unset ELSE [raw |-> raw, burst |-> burst, t_fine |-> fine]

\* Seeded fault: the pressure is computed first.
Calibrate_PressureFirst ==
  /\ bmp = "calibrate"
  /\ calibration_P(t_fine) /\ calibration_T
  /\ bmp' = "sleep"
  /\ UNCHANGED <<rbuf, trim, raw, burst, first, ctrl_meas, converting, result, faults>>

\* ... and all three values are printed.
Calibrate ==
  /\ bmp = "calibrate"
  /\ calibration_T /\ calibration_P(t_fine')
  /\ bmp' = "sleep"
  /\ UNCHANGED <<rbuf, trim, raw, burst, first, ctrl_meas, converting, result, faults>>

\* A second is longer than a conversion.
SleepBmp ==
  /\ bmp = "sleep" /\ ~converting
  /\ bmp' = "force" /\ first' = FALSE
  /\ UNCHANGED <<rbuf, trim, raw, burst, t_fine, press_cal, ctrl_meas, converting, result, faults>>

\* The chip.
Converted ==
  /\ converting
  /\ converting' = FALSE
  /\ result' = IF ctrl_meas = "meas" THEN 0 ELSE Skipped
  /\ UNCHANGED <<bmp, rbuf, trim, raw, burst, t_fine, press_cal, first, ctrl_meas, faults>>

Next ==
  bme280_bmp280_init \/ ForcedMode \/ readData \/ Calibrate \/ SleepBmp \/ Converted

Spec == Init /\ [][Next]_bmpVars

----------------------------------------------------------------------------
\* Types.
TypeOK ==
  /\ bmp \in {"init", "force", "read", "calibrate", "sleep"}
  /\ rbuf \in {"meas", "other"} /\ trim \in {"zero", "wrong", "chip"} /\ raw \in Raws
  /\ burst \in {0, 1} /\ t_fine \in {0, 1} /\ first \in BOOLEAN
  /\ press_cal \in [raw : Raws, burst : {0, 1}, t_fine : {0, 1}]
  /\ ctrl_meas \in {"meas", "other"} /\ converting \in BOOLEAN /\ result \in Raws
  /\ faults \in 0..MaxFaults

\* What is printed belongs together: the pressure is corrected with the
\* temperature of its own burst, which reaches it through t_fine (line 154);
\* and although the status is not tested (line 224) no value is older than the
\* request before, as long as no transfer failed, except that the first pass
\* may print the reset value (the set-up leaves the chip in its sleep mode, so
\* that the wait of lines 141-142 brings no first value).
ReadingsBelong ==
  bmp = "sleep" =>
    /\ press_cal # Unset => press_cal.t_fine = burst /\ press_cal.burst = burst
    /\ faults = 0 => press_cal # Unset /\ (raw \in {0, 1} \/ (first /\ raw = Reset))
=============================================================================
