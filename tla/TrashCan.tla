------------------------------ MODULE TrashCan ------------------------------
(***************************************************************************)
(* The lid, the lamp and the fill level                                    *)
(* (app/demo/smart_trash_can/app_demo_smart_trash_can.c).                  *)
(*                                                                         *)
(* One task polls three sensors and reports through iot_publish_*, but     *)
(* only while it reads wifi_status as CONNECTED.  The sensors are the      *)
(* comparison of get_adc_value with 3.0 V; they change between any two     *)
(* readings.  A report is <<key, value>>; the strings "true" and "false"   *)
(* are 1 and 0.  iot_publish_* ignores the result of IotSendMsg, so a      *)
(* report that does not reach its queue is gone.                           *)
(***************************************************************************)
EXTENDS Integers, Sequences, FiniteSets

CONSTANTS
  MaxVisits,    \* bound: visits in a behaviour (g_num never wraps)
  MaxReports,   \* bound: changes of the fill level, through full reports queued
  SendMayFail   \* TRUE: IotSendMsg may fail (no memory, full or missing queue)

ASSUME VisitsAssumption  == MaxVisits \in Nat \ {0}
ASSUME ReportsAssumption == MaxReports \in Nat
ASSUME SendAssumption    == SendMayFail \in BOOLEAN

VARIABLES
  can,          \* program point of app_demo_smart_trash_can
  lid,          \* g_trash_can_is_open
  lamp,         \* GPIO8 drives the lamp
  g_num,        \* people counted
  full_flag,
  person,       \* sensor: somebody is in front of the can
  night,        \* sensor: it is dark
  full,         \* sensor: the can is full
  wifi_status,  \* shared: the last event WpaEventCB stored
  queued,       \* shared: reports IotSendMsg accepted, in order
  missed        \* history: some report was due and did not reach the queue

canVars == <<can, lid, lamp, g_num, full_flag, person, night, full>>
trashVars == <<canVars, wifi_status, queued, missed>>

CanPoints == {"someone", "night", "open", "count", "nobody", "close", "full",
              "reportFull", "notFull", "reportEmpty", "sleep"}

Statuses == {"none", "SCAN_DONE", "CONNECTED", "WPS_TIMEOUT"}

Init ==
  /\ can = "someone" /\ lid = FALSE /\ lamp = FALSE /\ g_num = 0 /\ full_flag = 0
  /\ person \in BOOLEAN /\ night \in BOOLEAN /\ full \in BOOLEAN
  /\ wifi_status = "none" /\ queued = <<>> /\ missed = FALSE

----------------------------------------------------------------------------
\* if (wifi_status == HI_WIFI_EVT_CONNECTED) iot_publish_...
Report(key, value) ==
  \/ /\ wifi_status = "CONNECTED"
     /\ queued' = Append(queued, <<key, value>>)
     /\ UNCHANGED missed
  \/ /\ wifi_status # "CONNECTED" \/ SendMayFail
     /\ missed' = TRUE
     /\ UNCHANGED queued

Silent == UNCHANGED <<queued, missed, wifi_status>>
Sensors == <<person, night, full>>

IsSomeoneThere ==
  /\ can = "someone"
  /\ can' = IF person THEN "night" ELSE "nobody"
  /\ UNCHANGED <<lid, lamp, g_num, full_flag, Sensors>> /\ Silent

\* Seeded fault: the lid is opened, and the visit counted, at every pass.
IsNightTime_OpensAgain ==
  /\ can = "night"
  /\ lamp' = (lamp \/ night)
  /\ can' = "open"
  /\ UNCHANGED <<lid, g_num, full_flag, Sensors>> /\ Silent

IsNightTime ==
  /\ can = "night"
  /\ lamp' = (lamp \/ night)
  /\ can' = IF lid THEN "nobody" ELSE "open"
  /\ UNCHANGED <<lid, g_num, full_flag, Sensors>> /\ Silent

TrashCanOpen ==
  /\ can = "open"
  /\ lid' = TRUE
  /\ g_num' = g_num + 1
  /\ can' = "count"
  /\ UNCHANGED <<lamp, full_flag, Sensors>> /\ Silent

\* Seeded fault: the count is reported before it is incremented.
PublishPersonTime_Stale ==
  /\ can = "count"
  /\ Report("Person_times", g_num - 1)
  /\ can' = "nobody"
  /\ UNCHANGED <<lid, lamp, g_num, full_flag, Sensors, wifi_status>>

PublishPersonTime ==
  /\ can = "count"
  /\ Report("Person_times", g_num)
  /\ can' = "nobody"
  /\ UNCHANGED <<lid, lamp, g_num, full_flag, Sensors, wifi_status>>

IsNobodyThere ==
  /\ can = "nobody"
  /\ can' = IF person THEN "full" ELSE "close"
  /\ UNCHANGED <<lid, lamp, g_num, full_flag, Sensors>> /\ Silent

\* Seeded fault: the lamp is forgotten when the lid closes.
TrashCanClose_LampStays ==
  /\ can = "close"
  /\ lid' = FALSE
  /\ UNCHANGED lamp
  /\ can' = "full"
  /\ UNCHANGED <<g_num, full_flag, Sensors>> /\ Silent

TrashCanClose ==
  /\ can = "close"
  /\ lid' = FALSE /\ lamp' = FALSE
  /\ can' = "full"
  /\ UNCHANGED <<g_num, full_flag, Sensors>> /\ Silent

IsTrashCanFull ==
  /\ can = "full"
  /\ can' = IF full /\ full_flag = 0 THEN "reportFull" ELSE "notFull"
  /\ UNCHANGED <<lid, lamp, g_num, full_flag, Sensors>> /\ Silent

ReportFull ==
  /\ can = "reportFull"
  /\ Report("full", 1)
  /\ full_flag' = 1
  /\ can' = "sleep"
  /\ UNCHANGED <<lid, lamp, g_num, Sensors, wifi_status>>

\* Seeded fault: the flag is not reset.
IsTrashCanEmpty_KeepsFlag ==
  /\ can = "notFull"
  /\ can' = IF ~full /\ full_flag = 1 THEN "reportEmpty" ELSE "sleep"
  /\ UNCHANGED <<lid, lamp, g_num, full_flag, Sensors>> /\ Silent

\* The fill level is read a second time; the flag is reset before the report.
IsTrashCanEmpty ==
  /\ can = "notFull"
  /\ IF ~full /\ full_flag = 1
       THEN full_flag' = 0 /\ can' = "reportEmpty"
       ELSE UNCHANGED full_flag /\ can' = "sleep"
  /\ UNCHANGED <<lid, lamp, g_num, Sensors>> /\ Silent

ReportEmpty ==
  /\ can = "reportEmpty"
  /\ Report("full", 0)
  /\ can' = "sleep"
  /\ UNCHANGED <<lid, lamp, g_num, full_flag, Sensors, wifi_status>>

SleepCan ==
  /\ can = "sleep"
  /\ can' = "someone"
  /\ UNCHANGED <<lid, lamp, g_num, full_flag, Sensors>> /\ Silent

CanTask ==
  \/ IsSomeoneThere \/ IsNightTime \/ TrashCanOpen \/ PublishPersonTime \/ IsNobodyThere
  \/ TrashCanClose \/ IsTrashCanFull \/ ReportFull \/ IsTrashCanEmpty \/ ReportEmpty \/ SleepCan

----------------------------------------------------------------------------
(* The surroundings.                                                       *)

\* Where the reports of a key are among those that were queued.
Sent(key)   == {i \in 1..Len(queued) : queued[i][1] = key}
FullReports == Sent("full")
Counts      == Sent("Person_times")

PersonMoves ==
  /\ person \/ g_num < MaxVisits
  /\ person' = ~person
  /\ UNCHANGED <<can, lid, lamp, g_num, full_flag, night, full>> /\ Silent

NightFalls ==
  /\ night' = ~night
  /\ UNCHANGED <<can, lid, lamp, g_num, full_flag, person, full>> /\ Silent

LevelChanges ==
  /\ Cardinality(FullReports) < MaxReports
  /\ full' = ~full
  /\ UNCHANGED <<can, lid, lamp, g_num, full_flag, person, night>> /\ Silent

Surroundings == PersonMoves \/ NightFalls \/ LevelChanges

\* In this module alone, wifi_status is what other tasks make it.
StatusChanges ==
  /\ wifi_status' \in {"CONNECTED", "SCAN_DONE"}
  /\ UNCHANGED <<canVars, queued, missed>>

Next == CanTask \/ Surroundings \/ StatusChanges

Spec == Init /\ [][Next]_trashVars

FairSpec == Spec /\ WF_trashVars(CanTask)

----------------------------------------------------------------------------
\* Types; a visit is counted once however many passes it lasts, so g_num
\* stays within the visits there were.
TypeOK ==
  /\ can \in CanPoints /\ lid \in BOOLEAN /\ lamp \in BOOLEAN
  /\ g_num \in 0..MaxVisits /\ full_flag \in {0, 1}
  /\ person \in BOOLEAN /\ night \in BOOLEAN /\ full \in BOOLEAN
  /\ wifi_status \in Statuses
  /\ queued \in Seq({"Person_times", "full"} \X Nat)
  /\ missed \in BOOLEAN

\* A pass never ends with the lamp burning over a closed lid, although the
\* person sensor is read twice in a pass (lines 154 and 167) and may change
\* in between, and the lamp and the lid are switched under different readings.
LampNeedsOpenLid == can = "sleep" /\ lamp => lid

\* The counts the cloud receives increase, and the last one is never ahead of
\* or, when nothing was missed, behind the number of openings.
CountsFollowOpenings ==
  /\ \A i, j \in Counts : i < j => queued[i][2] < queued[j][2]
  /\ \A i \in Counts : queued[i][2] \in 1..g_num
  /\ ~missed /\ can # "count" => Cardinality(Counts) = g_num

\* When no report was missed the cloud's picture of the fill level is the
\* task's: the reports alternate, starting with "true", and between passes
\* the last one says what full_flag says.
CloudKnowsLevel ==
  ~missed =>
    /\ \A i \in FullReports : queued[i][2] = Cardinality(FullReports \cap 1..i) % 2
    /\ can = "sleep" => full_flag = Cardinality(FullReports) % 2

\* "The can is full: report it to the cloud, so that the cloud tells the
\* sanitation workers to empty it" (the comment of line 175): a can that
\* stays full while the WiFi stays connected is known to the cloud as full.
FullIsReported ==
  <>[](full /\ wifi_status = "CONNECTED")
    => <>\E i \in FullReports : queued[i][2] = 1 /\ \A j \in FullReports : j <= i
=============================================================================
