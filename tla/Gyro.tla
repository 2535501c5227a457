-------------------------------- MODULE Gyro --------------------------------
(***************************************************************************)
(* Has the can been knocked over?  (app/demo/mpu6050/src/app_demo_gy521.c) *)
(*                                                                         *)
(* One task samples the MPU6050 twice a second, and compares pitch and     *)
(* roll with five boxes.  Four of them (front, right, behind, left) are    *)
(* "dumped" and take the same steps; the fifth is "upright" and disjoint   *)
(* from them wherever flag_demped decides; everything else is "other".     *)
(* Unlike the trash can's task, this one keeps its flag until the WiFi is  *)
(* connected.  A read of the bus that fails yields 0, and no caller looks  *)
(* at the result: the orientation computed from some zeros may be any, and *)
(* from accelerations that are all 0 it is NaN for ever, in no box.        *)
(***************************************************************************)
EXTENDS Integers, Sequences, FiniteSets

CONSTANTS
  MaxDumps,     \* bound: reports after which the sensor is right and the can still
  SendMayFail   \* TRUE: IotSendMsg may fail

ASSUME DumpsAssumption == MaxDumps \in Nat
ASSUME SendAssumption  == SendMayFail \in BOOLEAN

Postures == {"dumped", "upright", "other"}

VARIABLES
  gy,           \* program point of gy521_mpu6050
  flag_demped,
  posture,      \* sensor: the box pitch and roll are in
  bus,          \* sensor: which transfers succeed; "asleep": and the chip was not woken
  lost,         \* q0..q3 are NaN
  wifi_status,  \* shared: the last event WpaEventCB stored
  queued,       \* shared: reports IotSendMsg accepted, in order
  missed        \* history: some report was due and did not reach the queue

gyVars == <<gy, flag_demped, posture, bus, lost>>
gyroVars == <<gyVars, wifi_status, queued, missed>>

Init ==
  /\ gy = "init" /\ flag_demped = 0 /\ posture \in Postures
  /\ bus = "good" /\ lost = FALSE
  /\ wifi_status = "none" /\ queued = <<>> /\ missed = FALSE

----------------------------------------------------------------------------
\* iot_publish_tarsh_is_dumped; the result of IotSendMsg is ignored.
PublishDumped(value) ==
  \/ /\ queued' = Append(queued, <<"dumped", value>>)
     /\ UNCHANGED missed
  \/ /\ SendMayFail
     /\ missed' = TRUE
     /\ UNCHANGED queued

\* Where the reports of this task are among those that were queued.
DumpReports == {i \in 1..Len(queued) : queued[i][1] = "dumped"}

\* What becomes of the bytes of Gy521_Write_Byte: unless the first one arrives the
\* chip sleeps on, and answers every read with zeros.
Gy521_Write_Byte ==
  CASE bus = "good" -> {"good"}
    [] bus = "some" -> {"some", "asleep"}
    [] OTHER -> {"asleep"}

\* It is not repeated (line 194).
InitMPU6050 ==
  /\ gy = "init" /\ gy' = "sample"
  /\ bus' \in Gy521_Write_Byte
  /\ UNCHANGED <<flag_demped, posture, lost, wifi_status, queued, missed>>

\* Whether IMUupdate leaves the quaternion NaN: from a norm of 0, and then for good.
Losses ==
  CASE lost \/ bus \in {"none", "asleep"} -> {TRUE}
    [] bus = "some" -> BOOLEAN
    [] OTHER -> {FALSE}

\* The boxes pitch and roll may come out in; the sensor lies no more, and the
\* can lies still, when MaxDumps reports are queued.
Boxes(nan) ==
  CASE nan -> {"other"}
    [] bus = "some" /\ Cardinality(DumpReports) < MaxDumps -> Postures
    [] OTHER -> {posture}

\* Seeded fault: the box alone decides.
Decision_IgnoresFlag(box) ==
  CASE box = "dumped" -> "dumped"
    [] box = "upright" -> "upright"
    [] OTHER -> "sleep"

\* The five-way comparison; a box counts only with the matching flag.
Decision(box) ==
  CASE box = "dumped"  /\ flag_demped = 0 -> "dumped"
    [] box = "upright" /\ flag_demped = 1 -> "upright"
    [] OTHER -> "sleep"

\* GetData, six times, and IMUupdate.
Sample ==
  /\ gy = "sample"
  /\ lost' \in Losses
  /\ \E box \in Boxes(lost') : gy' = Decision(box)
  /\ UNCHANGED <<flag_demped, posture, bus, wifi_status, queued, missed>>

\* Seeded fault: as in the trash can's task, the flag is set even offline.
ReportDumped_FlagAnyway ==
  /\ gy = "dumped"
  /\ IF wifi_status = "CONNECTED" THEN PublishDumped(1) ELSE UNCHANGED <<queued, missed>>
  /\ flag_demped' = 1
  /\ gy' = "sleep"
  /\ UNCHANGED <<posture, bus, lost, wifi_status>>

ReportDumped ==
  /\ gy = "dumped"
  /\ IF wifi_status = "CONNECTED"
       THEN PublishDumped(1) /\ flag_demped' = 1
       ELSE UNCHANGED <<queued, missed, flag_demped>>
  /\ gy' = "sleep"
  /\ UNCHANGED <<posture, bus, lost, wifi_status>>

\* Seeded fault: the flag stays.
ReportUpright_FlagStays ==
  /\ gy = "upright"
  /\ IF wifi_status = "CONNECTED" THEN PublishDumped(1) ELSE UNCHANGED <<queued, missed>>
  /\ gy' = "sleep"
  /\ UNCHANGED <<flag_demped, posture, bus, lost, wifi_status>>

\* "publish not demped" - and the value sent is "true" (line 240).
ReportUpright ==
  /\ gy = "upright"
  /\ IF wifi_status = "CONNECTED"
       THEN PublishDumped(1) /\ flag_demped' = 0
       ELSE UNCHANGED <<queued, missed, flag_demped>>
  /\ gy' = "sleep"
  /\ UNCHANGED <<posture, bus, lost, wifi_status>>

SleepGyro ==
  /\ gy = "sleep"
  /\ gy' = "sample"
  /\ UNCHANGED <<flag_demped, posture, bus, lost, wifi_status, queued, missed>>

GyroTask == InitMPU6050 \/ Sample \/ ReportDumped \/ ReportUpright \/ SleepGyro

Tilts ==
  /\ Cardinality(DumpReports) < MaxDumps
  /\ posture' \in Postures
  /\ UNCHANGED <<gy, flag_demped, bus, lost, wifi_status, queued, missed>>

\* A contact goes, or holds again.
BusChanges ==
  /\ bus # "asleep"
  /\ bus' \in {"good", "some", "none"}
  /\ UNCHANGED <<gy, flag_demped, posture, lost, wifi_status, queued, missed>>

\* In this module alone, wifi_status is what other tasks make it.
StatusChanges ==
  /\ wifi_status' \in {"CONNECTED", "SCAN_DONE", "WPS_TIMEOUT"}
  /\ UNCHANGED <<gyVars, queued, missed>>

Next == GyroTask \/ Tilts \/ BusChanges \/ StatusChanges

Spec == Init /\ [][Next]_gyroVars

FairSpec == Spec /\ WF_gyroVars(GyroTask)

----------------------------------------------------------------------------
\* Types; a report is under way only for a posture the flag does not know yet.
TypeOK ==
  /\ gy \in {"init", "sample", "dumped", "upright", "sleep"}
  /\ gy = "dumped" => flag_demped = 0
  /\ gy = "upright" => flag_demped = 1
  /\ flag_demped \in {0, 1} /\ posture \in Postures
  /\ bus \in {"good", "some", "none", "asleep"} /\ lost \in BOOLEAN
  /\ wifi_status \in {"none", "SCAN_DONE", "CONNECTED", "WPS_TIMEOUT"}
  /\ queued \in Seq({"dumped"} \X {0, 1}) /\ missed \in BOOLEAN

\* Every change of the flag is reported once: without a failed send, the
\* number of reports tells whether the task believes the can lies.
FlagCountsReports == ~missed => flag_demped = Cardinality(DumpReports) % 2

\* A can that stays knocked over is reported as soon as the WiFi and the bus
\* stay up, however long either was down before (lines 205-236 retry) - unless a
\* send failed, for the result of IotSendMsg is ignored, or the estimate was once
\* computed from zeros only (lines 149-152), which nothing repairs.
DumpIsReported ==
  <>[](posture = "dumped" /\ wifi_status = "CONNECTED" /\ bus = "good") /\ []~(missed \/ lost)
    => <>(DumpReports # {} /\ flag_demped = 1)

\* "publish not demped" (line 239): the report that goes with taking the flag
\* back does not say that the can is dumped.
UprightIsNotDumped ==
  [][flag_demped = 1 /\ flag_demped' = 0 /\ queued' # queued
       => queued'[Len(queued')][2] = 0]_gyroVars
=============================================================================
