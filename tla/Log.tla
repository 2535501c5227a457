-------------------------------- MODULE Log --------------------------------
(***************************************************************************)
(* The logs of the IoT task (iot_demo/iot_log.c and .h), of the can        *)
(* (smart_can_driver_log) and of the gyroscope (gyroscope_log).            *)
(*                                                                         *)
(* The levels are unsigned enumerations: a level below zero is a huge one. *)
(* CONFIG_LINKLOG_ENABLE is set (iot_config.h, 13), so the lines of the    *)
(* IoT task are compiled in.  iot_log.h defines IOT_LOG_TRACE again        *)
(* without its filter (118): only IOT_LOG_DEBUG asks for the level, and    *)
(* another task may set it before the line is out.  The text of a line is  *)
(* left out, and the name of a level stands for its padded form.           *)
(***************************************************************************)
EXTENDS Integers, Sequences

CONSTANTS
  LevelBits,    \* bound: the width of an enumeration
  MaxLevelArg   \* bound: the largest level a caller passes

LogAssumption == LevelBits \in Nat \ 0..2 /\ MaxLevelArg \in 6..2^LevelBits - 1

VARIABLES
  gIoTLogLevel,
  accepted,    \* the last level IoTLogLevelSet said 0 to
  tested,      \* the level IOT_LOG_DEBUG read, while its line is not out
  line         \* what was printed last: its log, its level and its name

logVars == <<gIoTLogLevel, accepted, tested, line>>

Names == <<"TRACE", "DEBUG", "INFO", "WARN", "ERROR", "FATAL">>
MAX   == Len(Names)
TRACE == 0
DEBUG == 1
Logs  == {"iot", "smart_can", "gyroscope"}

\* The levels callers pass, those that are none among them.
LevelArgs == -1..MaxLevelArg

Unsigned(l) == l % 2^LevelBits

LevelName(l) == IF Unsigned(l) >= MAX THEN "NULL" ELSE Names[Unsigned(l) + 1]
IoTLogLevelGetName(l) == LevelName(l)
smart_can_level_num(l) == LevelName(l)
gyroscope_level_num(l) == LevelName(l)

Init ==
  /\ gIoTLogLevel = TRACE /\ accepted = TRACE
  /\ tested = MAX /\ line = [log |-> "iot", level |-> MAX, name |-> "NULL"]

\* Seeded fault: the end of the enumeration passes for a level.
Accepts_Max(l) == Unsigned(l) <= MAX

Accepts(l) == Unsigned(l) < MAX

IoTLogLevelSet ==
  /\ \E l \in LevelArgs :
       IF Accepts(l) THEN gIoTLogLevel' = Unsigned(l) /\ accepted' = Unsigned(l)
       ELSE UNCHANGED <<gIoTLogLevel, accepted>>
  /\ UNCHANGED <<tested, line>>

\* The test of IOT_LOG_DEBUG; a level above it drops the line.
TestDebug ==
  /\ tested = MAX
  /\ DEBUG >= gIoTLogLevel /\ tested' = gIoTLogLevel
  /\ UNCHANGED <<gIoTLogLevel, accepted, line>>

PrintDebug ==
  /\ tested # MAX /\ tested' = MAX
  /\ line' = [log |-> "iot", level |-> DEBUG, name |-> IoTLogLevelGetName(DEBUG)]
  /\ UNCHANGED <<gIoTLogLevel, accepted>>

Prints(log, l, name) ==
  /\ line' = [log |-> log, level |-> Unsigned(l), name |-> name]
  /\ UNCHANGED <<gIoTLogLevel, accepted, tested>>

\* The other macros print their line whatever the level is.
IotLine == \E l \in LevelArgs \ {DEBUG} : Prints("iot", l, IoTLogLevelGetName(l))
SmartCanLine == \E l \in LevelArgs : Prints("smart_can", l, smart_can_level_num(l))
GyroscopeLine == \E l \in LevelArgs : Prints("gyroscope", l, gyroscope_level_num(l))

Next == IoTLogLevelSet \/ TestDebug \/ PrintDebug \/ IotLine \/ SmartCanLine \/ GyroscopeLine

Spec == Init /\ [][Next]_logVars

----------------------------------------------------------------------------
\* Types.
TypeOK ==
  /\ gIoTLogLevel \in 0..2^LevelBits - 1 /\ accepted \in 0..2^LevelBits - 1
  /\ tested \in 0..MAX
  /\ line \in [log : Logs, level : 0..2^LevelBits - 1, name : {Names[n] : n \in 1..MAX} \cup {"NULL"}]

\* A refused level leaves the last accepted one in force, which has a name; a
\* line bears a name exactly when its level has one, and no two levels share
\* theirs (iot_log.c:24-48).
LogNamed ==
  /\ gIoTLogLevel = accepted /\ accepted < MAX
  /\ line.name = "NULL" <=> line.level >= MAX
  /\ \A l \in LevelArgs : LevelName(l) = line.name /\ line.level < MAX => Unsigned(l) = line.level
=============================================================================
