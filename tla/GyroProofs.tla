----------------------------- MODULE GyroProofs -----------------------------
(***************************************************************************)
(* Proofs about Gyro for every number of reports.  The queue may hold      *)
(* reports of other tasks between those of this one.                       *)
(***************************************************************************)
EXTENDS Gyro, TLAPS, FiniteSetTheorems, SequenceTheorems

Keys == {"Person_times", "full", "dumped"}
QueueOK == queued \in Seq(Keys \X Nat)

Adds(key, value) == queued' = Append(queued, <<key, value>>)

\* The task's own state.
GyOK ==
  /\ gy \in {"init", "sample", "dumped", "upright", "sleep"}
  /\ gy = "dumped" => flag_demped = 0
  /\ gy = "upright" => flag_demped = 1
  /\ flag_demped \in {0, 1} /\ posture \in Postures
  /\ bus \in {"good", "some", "none", "asleep"} /\ lost \in BOOLEAN
  /\ wifi_status \in {"none", "SCAN_DONE", "CONNECTED", "WPS_TIMEOUT"} /\ missed \in BOOLEAN

GyInv == GyOK /\ QueueOK /\ FlagCountsReports

LEMMA DumpsFinite ==
  ASSUME QueueOK
  PROVE  /\ Len(queued) \in Nat
         /\ DumpReports \subseteq 1..Len(queued)
         /\ IsFiniteSet(DumpReports) /\ Cardinality(DumpReports) \in Nat
<1>1. Len(queued) \in Nat
  BY LenProperties DEF QueueOK
<1>2. IsFiniteSet(1..Len(queued)) /\ DumpReports \in SUBSET (1..Len(queued))
  BY <1>1, FS_Interval DEF DumpReports
<1>3. IsFiniteSet(DumpReports)
  BY <1>2, FS_Subset
<1> QED BY <1>1, <1>2, <1>3, FS_CardinalityType

LEMMA DumpsAdd ==
  ASSUME QueueOK, NEW k \in Keys, NEW v \in Nat, Adds(k, v)
  PROVE  /\ QueueOK'
         /\ Cardinality(DumpReports') = IF k = "dumped" THEN Cardinality(DumpReports) + 1
                                                        ELSE Cardinality(DumpReports)
<1>1. /\ Len(queued) \in Nat /\ queued' \in Seq(Keys \X Nat)
      /\ Len(queued') = Len(queued) + 1
      /\ queued'[Len(queued) + 1] = <<k, v>>
      /\ \A i \in 1..Len(queued) : queued'[i] = queued[i]
  <2> DEFINE r == <<k, v>>
  <2>1. r \in Keys \X Nat /\ queued \in Seq(Keys \X Nat) /\ queued' = Append(queued, r)
    BY DEF QueueOK, Adds
  <2> HIDE DEF r
  <2>2. /\ queued' \in Seq(Keys \X Nat) /\ Len(queued') = Len(queued) + 1
        /\ queued'[Len(queued) + 1] = r
        /\ \A i \in 1..Len(queued) : queued'[i] = queued[i]
    BY <2>1, AppendProperties
  <2>3. Len(queued) \in Nat
    BY <2>1, LenProperties
  <2> QED BY <2>2, <2>3 DEF r
<1>2. \A i : i \in 1..Len(queued') <=> i \in 1..Len(queued) \/ i = Len(queued) + 1
  BY <1>1
<1>3. DumpReports' = IF k = "dumped" THEN DumpReports \cup {Len(queued) + 1} ELSE DumpReports
  <2>1. queued'[Len(queued) + 1][1] = k
    BY <1>1
  <2>2. DumpReports' = {i \in 1..Len(queued') : queued'[i][1] = "dumped"}
    BY DEF DumpReports
  <2>3. \A i \in 1..Len(queued) : queued'[i][1] = queued[i][1]
    BY <1>1
  <2> QED BY <1>2, <2>1, <2>2, <2>3 DEF DumpReports
<1>4. Len(queued) + 1 \notin DumpReports
  BY <1>1 DEF DumpReports
<1> QED BY <1>1, <1>3, <1>4, DumpsFinite, FS_AddElement DEF QueueOK

LEMMA GyInvInit ==
  ASSUME Init
  PROVE  GyInv
<1>1. queued = <<>> /\ queued \in Seq(Keys \X Nat)
  BY DEF Init
<1>2. DumpReports = {} /\ Cardinality({}) = 0
  BY <1>1, FS_EmptySet DEF DumpReports
<1>3. GyOK
  BY DEF Init, GyOK
<1>4. QueueOK
  BY <1>1 DEF QueueOK
<1>5. FlagCountsReports
  BY <1>2 DEF Init, FlagCountsReports
<1> QED BY <1>3, <1>4, <1>5 DEF GyInv

\* A report goes with a change of the flag.
LEMMA ReportsAlternate ==
  ASSUME GyInv, PublishDumped(1), flag_demped' = 1 - flag_demped
  PROVE  QueueOK' /\ missed' \in BOOLEAN /\ FlagCountsReports'
<1> USE DEF GyInv, GyOK
<1>1. CASE Adds("dumped", 1) /\ missed' = missed
  <2>1. /\ QueueOK' /\ Cardinality(DumpReports') = Cardinality(DumpReports) + 1
        /\ Cardinality(DumpReports) \in Nat
    BY <1>1, DumpsAdd, DumpsFinite DEF Keys
  <2> QED BY <1>1, <2>1 DEF FlagCountsReports
<1>2. CASE queued' = queued /\ missed' = TRUE
  BY <1>2 DEF QueueOK, FlagCountsReports
<1> QED BY <1>1, <1>2 DEF PublishDumped, Adds

LEMMA GyInvTask ==
  ASSUME GyInv, GyroTask \/ Tilts \/ BusChanges
  PROVE  GyInv'
<1> USE DEF GyInv, GyOK
<1>1. CASE ReportDumped
  <2>1. CASE wifi_status = "CONNECTED"
    BY <1>1, <2>1, ReportsAlternate DEF ReportDumped
  <2>2. CASE wifi_status # "CONNECTED"
    BY <1>1, <2>2 DEF ReportDumped, QueueOK, FlagCountsReports, DumpReports
  <2> QED BY <2>1, <2>2
<1>2. CASE ReportUpright
  <2>1. CASE wifi_status = "CONNECTED"
    BY <1>2, <2>1, ReportsAlternate DEF ReportUpright
  <2>2. CASE wifi_status # "CONNECTED"
    BY <1>2, <2>2 DEF ReportUpright, QueueOK, FlagCountsReports, DumpReports
  <2> QED BY <2>1, <2>2
<1>3. CASE InitMPU6050 \/ Sample \/ SleepGyro \/ Tilts \/ BusChanges
  <2>1. UNCHANGED <<flag_demped, wifi_status, queued, missed>>
    BY <1>3 DEF InitMPU6050, Sample, SleepGyro, Tilts, BusChanges
  <2>2. QueueOK' /\ FlagCountsReports'
    BY <2>1 DEF QueueOK, FlagCountsReports, DumpReports
  <2>3. GyOK'
    <3>1. CASE InitMPU6050
      BY <2>1, <3>1 DEF InitMPU6050, Gy521_Write_Byte
    <3>2. CASE Sample
      <4>1. lost' \in BOOLEAN
        BY <3>2 DEF Sample, Losses
      <4>2. PICK box : gy' = Decision(box)
        BY <3>2 DEF Sample
      <4>3. /\ gy' \in {"dumped", "upright", "sleep"}
            /\ gy' = "dumped" => flag_demped = 0
            /\ gy' = "upright" => flag_demped = 1
        BY <4>2 DEF Decision
      <4> QED BY <2>1, <3>2, <4>1, <4>3 DEF Sample
    <3>3. CASE SleepGyro \/ Tilts \/ BusChanges
      BY <2>1, <3>3 DEF SleepGyro, Tilts, BusChanges
    <3> QED BY <1>3, <3>1, <3>2, <3>3
  <2> QED BY <2>2, <2>3
<1> QED BY <1>1, <1>2, <1>3 DEF GyroTask

\* What the task does to what it shares.
LEMMA TaskShares ==
  ASSUME GyInv, GyroTask \/ Tilts
  PROVE  /\ queued' = queued \/ Adds("dumped", 1)
         /\ missed' \in BOOLEAN /\ (missed' \/ ~missed)
         /\ wifi_status' = wifi_status
BY DEF GyInv, GyOK, GyroTask, InitMPU6050, Sample, ReportDumped, ReportUpright, SleepGyro, Tilts,
       PublishDumped, Adds

\* Another task puts its report between those of this one, or stores a status.
LEMMA GyInvForeign ==
  ASSUME GyInv, UNCHANGED gyVars,
         wifi_status' \in {"none", "SCAN_DONE", "CONNECTED", "WPS_TIMEOUT"},
         missed' \in BOOLEAN, missed' \/ ~missed,
         queued' = queued \/ \E k \in Keys \ {"dumped"}, v \in Nat : Adds(k, v)
  PROVE  GyInv'
<1> USE DEF GyInv
<1>1. GyOK'
  BY DEF GyOK, gyVars
<1>2. QueueOK' /\ Cardinality(DumpReports') = Cardinality(DumpReports)
  BY DumpsAdd DEF QueueOK, DumpReports
<1>3. FlagCountsReports'
  BY <1>2 DEF FlagCountsReports, gyVars
<1> QED BY <1>1, <1>2, <1>3

LEMMA GyInvNext ==
  ASSUME GyInv, [Next]_gyroVars
  PROVE  GyInv'
<1>1. CASE StatusChanges \/ UNCHANGED gyroVars
  BY <1>1, GyInvForeign DEF StatusChanges, gyroVars, GyInv, GyOK
<1> QED BY <1>1, GyInvTask DEF Next

\* Alone, the task has the queue to itself.
LEMMA OwnQueue ==
  ASSUME queued \in Seq({"dumped"} \X {0, 1}), [Next]_gyroVars
  PROVE  queued' \in Seq({"dumped"} \X {0, 1})
<1> DEFINE R == {"dumped"} \X {0, 1}
<1>1. queued' = queued \/ \E r \in R : queued' = Append(queued, r)
  BY DEF Next, GyroTask, InitMPU6050, Sample, ReportDumped, ReportUpright, SleepGyro, Tilts,
         BusChanges, StatusChanges, PublishDumped, gyroVars
<1>2. queued \in Seq(R)
  OBVIOUS
<1> HIDE DEF R
<1>3. queued' \in Seq(R)
  BY <1>1, <1>2, AppendProperties
<1> QED BY <1>3 DEF R

\* The types; a report is under way only for a posture the flag does not know.
THEOREM TypeCorrect == Spec => []TypeOK
<1> DEFINE GyQueue == queued \in Seq({"dumped"} \X {0, 1})
<1>1. Init => GyInv /\ GyQueue
  <2>1. Init => queued = <<>>
    BY DEF Init
  <2> QED BY <2>1, GyInvInit
<1>2. GyInv /\ GyQueue /\ [Next]_gyroVars => (GyInv /\ GyQueue)'
  BY GyInvNext, OwnQueue
<1>3. GyInv /\ GyQueue => TypeOK
  BY DEF GyInv, GyOK, TypeOK
<1> QED BY <1>1, <1>2, <1>3, PTL DEF Spec

\* Without a failed send the number of reports tells what the task believes
\* (app_demo_gy521.c 205-245).
THEOREM FlagsCountReports == Spec => []FlagCountsReports
<1>1. GyInv => FlagCountsReports
  BY DEF GyInv
<1> QED BY <1>1, GyInvInit, GyInvNext, PTL DEF Spec
=============================================================================
