------------------------------ MODULE Mpu6050 ------------------------------
(***************************************************************************)
(* The stand-alone gyroscope demo                                          *)
(* (HiSpark_Pegasus_Gyro_Sensor/mpu6050/src/app_demo_gy521.c).             *)
(*                                                                         *)
(* Once a second gy521_mpu6050 reads three accelerations and three rates,  *)
(* one after the other, turns its estimate of the orientation a little     *)
(* towards them, and reports when the estimate is of a can that has fallen *)
(* over or stands again.  A read that fails yields 0, and so do those of a *)
(* chip that was never woken; three accelerations of 0 have no direction,  *)
(* and dividing by their norm makes the estimate NaN, which no later       *)
(* update repairs.  Nothing here looks at the WiFi.  (The trash can's copy *)
(* of the task is in Gyro.tla.)                                            *)
(***************************************************************************)
EXTENDS Integers, Sequences

CONSTANTS
  MaxReports,   \* bound: reports after which the task is not followed
  MaxFaults     \* bound: transfers that fail

MpuAssumption == MaxReports \in Nat /\ MaxFaults \in Nat

\* Where gravity points: well inside the cone of a standing can, or the region
\* of one of the sides it may lie on (two stand for all; Pitch or Roll is beyond
\* 75 degrees), or anywhere else, as in a can that is close to the edge, moved
\* or shaken.  A turn within a settled region stays there; a turn from one to
\* another may pass through any (from one side to the other, upright).
Sides == {"left", "right"}
Settled == Sides \union {"upright"}
Tilts == Settled \union {"unsettled"}

VARIABLES
  mpu,           \* program point of gy521_mpu6050
  reads,         \* of the six reads of this round, those that are done
  awake,         \* chip: PWR_MGMT_1 was written
  tilt,          \* the can
  acc,           \* the tilts this round's readings are of
  zeros,         \* how many of the three are the 0 of a failed read
  estimate,      \* what Pitch and Roll say, or "NaN"
  flag_demped,
  published,     \* iot_publish_tarsh_is_dumped, in order
  faults,        \* transfers that failed
  tainted,       \* history: an update used a failed read
  been           \* history: the estimate at the last report, and the can's
                 \* tilts since

mpuVars == <<mpu, reads, awake, tilt, acc, zeros, estimate, flag_demped,
             published, faults, tainted, been>>

Init ==
  /\ mpu = "init" /\ reads = 0 /\ awake = FALSE
  /\ tilt \in Tilts /\ been = {tilt, "upright"}
  /\ acc = {} /\ zeros = 0 /\ estimate = "upright"       \* q0 = 1
  /\ flag_demped = 0 /\ published = <<>> /\ faults = 0 /\ tainted = FALSE

----------------------------------------------------------------------------
\* A transfer fails; every caller drops the result.
Fails == faults < MaxFaults /\ faults' = faults + 1

\* The chip leaves its sleep unless the first of the five writes fails.
InitMPU6050 ==
  /\ mpu = "init"
  /\ \/ UNCHANGED faults /\ awake' = TRUE
     \/ Fails /\ UNCHANGED awake
  /\ mpu' = "read"
  /\ UNCHANGED <<reads, tilt, acc, zeros, estimate, flag_demped, published, tainted, been>>

\* GetData, six times, the accelerations first: the zeros of its buffer if the
\* transfer fails, the chip's zeros if it sleeps, and two other registers if
\* only the write of the register's address failed (lines 110-125).
GetData ==
  /\ mpu = "read" /\ reads < 6
  /\ reads' = reads + 1
  /\ \/ awake /\ acc' = acc \union {tilt} /\ UNCHANGED <<faults, zeros, tainted>>
     \/ /\ IF awake THEN Fails ELSE UNCHANGED faults
        /\ zeros' = IF reads < 3 THEN zeros + 1 ELSE zeros
        /\ tainted' = TRUE
        /\ UNCHANGED acc
     \/ Fails /\ acc' = acc \union {"unsettled"} /\ tainted' = TRUE /\ UNCHANGED zeros
  /\ UNCHANGED <<mpu, awake, tilt, estimate, flag_demped, published, been>>

\* IMUupdate turns the estimate a fraction of the way to the accelerations, and
\* with the rates: readings of the region it is in leave it there, others may
\* take it anywhere on its way.  NaN stays; accelerations of 0 make it, also
\* those of a can in free fall, or of several tilts.
Updated(old) ==
  IF old = "NaN" \/ zeros = 3 THEN {"NaN"}
  ELSE IF zeros = 0 /\ acc = {old} /\ old \in Settled THEN {old}
  ELSE Tilts \union {"NaN"}

IMUupdate ==
  /\ mpu = "read" /\ reads = 6
  /\ estimate' \in Updated(estimate)
  /\ mpu' = "judge" /\ reads' = 0 /\ acc' = {} /\ zeros' = 0
  /\ UNCHANGED <<awake, tilt, flag_demped, published, faults, tainted, been>>

Report(value, flag) ==
  /\ published' = Append(published, value)
  /\ flag_demped' = flag
  /\ been' = {tilt, estimate}

NoReport == UNCHANGED <<published, flag_demped, been>>

\* Seeded fault: "not above 75" for "below 75", which NaN satisfies too.
Judge_NotAbove ==
  /\ mpu = "judge"
  /\ \/ flag_demped = 0 /\ estimate \in Sides /\ Report("true", 1)
     \/ flag_demped = 1 /\ estimate \notin Sides /\ Report("false", 0)
     \/ (estimate \in Sides <=> flag_demped = 1) /\ NoReport
  /\ mpu' = "sleep"
  /\ UNCHANGED <<reads, awake, tilt, acc, zeros, estimate, faults, tainted>>

\* Seeded fault: the can is judged again every second.
Judge_IgnoresFlag ==
  /\ mpu = "judge"
  /\ \/ estimate \in Sides /\ Report("true", 1)
     \/ flag_demped = 1 /\ estimate = "upright" /\ Report("false", 0)
     \/ estimate \notin Sides /\ NoReport
  /\ mpu' = "sleep"
  /\ UNCHANGED <<reads, awake, tilt, acc, zeros, estimate, faults, tainted>>

\* An unsettled estimate is on either side of 75 degrees; NaN is neither above
\* nor below.
Judge ==
  /\ mpu = "judge"
  /\ \/ flag_demped = 0 /\ estimate \in Sides \union {"unsettled"} /\ Report("true", 1)
     \/ flag_demped = 1 /\ estimate \in {"upright", "unsettled"} /\ Report("false", 0)
     \/ /\ estimate = "upright" => flag_demped = 0
        /\ estimate \in Sides => flag_demped = 1
        /\ NoReport
  /\ mpu' = "sleep"
  /\ UNCHANGED <<reads, awake, tilt, acc, zeros, estimate, faults, tainted>>

SleepMpu ==
  /\ mpu = "sleep" /\ Len(published) < MaxReports /\ mpu' = "read"
  /\ UNCHANGED <<reads, awake, tilt, acc, zeros, estimate, flag_demped, published,
                 faults, tainted, been>>

\* The can falls over, is set up or moved, between any two steps of the task.
CanTilts ==
  /\ tilt' \in Tilts \ {tilt}
  /\ been' = been \union {tilt'}
  /\ UNCHANGED <<mpu, reads, awake, acc, zeros, estimate, flag_demped, published, faults, tainted>>

Next == InitMPU6050 \/ GetData \/ IMUupdate \/ Judge \/ SleepMpu \/ CanTilts

Spec == Init /\ [][Next]_mpuVars

----------------------------------------------------------------------------
\* Types; the flag is the last report.
TypeOK ==
  /\ mpu \in {"init", "read", "judge", "sleep"} /\ reads \in 0..6
  /\ awake \in BOOLEAN /\ tilt \in Tilts /\ acc \subseteq Tilts /\ zeros \in 0..3
  /\ estimate \in Tilts \union {"NaN"} /\ flag_demped \in {0, 1}
  /\ published \in Seq({"true", "false"})
  /\ flag_demped = 1 <=> published # <<>> /\ published[Len(published)] = "true"
  /\ faults \in 0..MaxFaults /\ tainted \in BOOLEAN /\ been \subseteq Tilts \union {"NaN"}

\* Since the last report the can has rested where the estimate was.
Rested == \E t \in Settled : been = {t}

\* Whatever the bus does, an estimate that was lost to a division by zero
\* (lines 146-149, 167-176) never moves the can again; and while the bus works,
\* a can that rests where the estimate has it is not reported again: between
\* two reports the can was moved, or the estimate was still on its way to it,
\* though the six reads of lines 193-199 are made one by one, and the estimate
\* lags and on its way from one side to another passes the postures between.
ReportsAreNews ==
  [][published' # published => estimate # "NaN" /\ (tainted \/ ~Rested)]_mpuVars
=============================================================================
