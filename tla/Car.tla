-------------------------------- MODULE Car --------------------------------
(***************************************************************************)
(* Driving, and stopping on low power (HiSpark_Pegasus_Car_Control/        *)
(* car_control.c and HiSpark_Pegasus_Battery_Power_Detection/              *)
(* app_demo_io_gpio.c).                                                    *)
(*                                                                         *)
(* Two tasks drive the same four pins and share g_car_speed without a      *)
(* lock: the driver (outside this repository), which calls the functions   *)
(* of car_control.h, and the battery task, which calls car_stop whenever   *)
(* it measures too little.  A lower g_car_speed is faster.  What is drawn  *)
(* on the display is left out.                                             *)
(***************************************************************************)
EXTENDS Integers, Sequences

CONSTANTS
  MAX_SPEED, MIN_SPEED,     \* app_demo_robot_car.h, outside this repository
  CAR_SPEED_CHANGE_VALUE,
  U16, U32                  \* 2^16 and 2^32 in the code

SpeedAssumption ==
  /\ MAX_SPEED \in Nat /\ MIN_SPEED \in Nat /\ CAR_SPEED_CHANGE_VALUE \in Nat
  /\ U16 \in Nat /\ U32 \in Nat /\ U16 <= U32
  /\ MAX_SPEED <= MIN_SPEED /\ MIN_SPEED < U16 /\ MIN_SPEED + CAR_SPEED_CHANGE_VALUE < U32

Tasks == {"driver", "battery"}
Pins == {0, 1, 9, 10}
Drives == {"forward", "stop", "left", "back", "right"}
Speeds == {"up", "down"}

\* Duties outside the range of speeds; Speed stands for g_car_speed.
PWM_DUTY_STOP == U32
PWM_DUTY_LEFT_RIGHT == U32 + 1
Speed == U32 + 2

Idle == [op |-> "none", at |-> "idle", step |-> 0]

VARIABLES
  g_car_speed,
  call,      \* the function each task is in, and where
  temp,      \* the driver's new speed, computed and not stored yet
  pins,      \* function and output of each pin
  power,     \* program point of the battery task
  voltage,   \* what the INA219 answers: "low", or "other": enough, or a failed read
  drive,     \* history: the driver's last pattern
  alone      \* history: no car_stop of the battery task since it began

carVars == <<g_car_speed, call, temp, pins>>
powerVars == <<power, voltage>>
driveVars == <<drive, alone>>
vars == <<carVars, powerVars, driveVars>>

Init ==
  /\ g_car_speed \in {0, MIN_SPEED, U32 - 1}
  /\ call = [t \in Tasks |-> Idle] /\ temp = 0
  /\ pins = [p \in Pins |-> <<"gpio", 0>>]
  /\ power = "oled_init" /\ voltage = "other"
  /\ drive = "none" /\ alone = FALSE

----------------------------------------------------------------------------
(* car_control.c                                                           *)

\* What gpio_control and pwm_control make of a pin.
Gpio(p, level) == <<p, "gpio", level>>
Pwm(p, duty) == <<p, "pwm", duty>>

\* Seeded fault: going forward does not take the right wheel's pin back.
Pattern_OnePinLess(op) ==
  CASE op = "forward" -> <<Gpio(0, 1), Pwm(1, Speed), Gpio(9, 1), Gpio(9, 1)>>
    [] op = "stop"    -> <<Pwm(0, PWM_DUTY_STOP), Gpio(1, 0), Pwm(9, PWM_DUTY_STOP), Gpio(10, 0)>>
    [] op = "left"    -> <<Gpio(0, 1), Pwm(1, PWM_DUTY_LEFT_RIGHT), Pwm(9, PWM_DUTY_LEFT_RIGHT), Gpio(10, 0)>>
    [] op = "back"    -> <<Pwm(0, Speed), Gpio(1, 1), Pwm(9, Speed), Gpio(10, 1)>>
    [] op = "right"   -> <<Pwm(0, PWM_DUTY_LEFT_RIGHT), Gpio(1, 0), Gpio(9, 1), Pwm(10, PWM_DUTY_LEFT_RIGHT)>>

\* The pins in the order of car_go_forward, car_stop, car_turn_left,
\* car_go_back and car_turn_right.
Pattern(op) ==
  CASE op = "forward" -> <<Gpio(0, 1), Pwm(1, Speed), Gpio(9, 1), Pwm(10, Speed)>>
    [] op = "stop"    -> <<Pwm(0, PWM_DUTY_STOP), Gpio(1, 0), Pwm(9, PWM_DUTY_STOP), Gpio(10, 0)>>
    [] op = "left"    -> <<Gpio(0, 1), Pwm(1, PWM_DUTY_LEFT_RIGHT), Pwm(9, PWM_DUTY_LEFT_RIGHT), Gpio(10, 0)>>
    [] op = "back"    -> <<Pwm(0, Speed), Gpio(1, 1), Pwm(9, Speed), Gpio(10, 1)>>
    [] op = "right"   -> <<Pwm(0, PWM_DUTY_LEFT_RIGHT), Gpio(1, 0), Gpio(9, 1), Pwm(10, PWM_DUTY_LEFT_RIGHT)>>

\* Seeded fault: only the speed functions correct the speed.
Enter_Uncorrected(t, op) ==
  call' = [call EXCEPT ![t] =
             [op |-> op, at |-> IF op \in Speeds THEN "load" ELSE "pins", step |-> 1]]

Enter(t, op) ==
  call' = [call EXCEPT ![t] =
             [op |-> op, at |-> IF op \in Speeds THEN "load" ELSE "low", step |-> 1]]

Goto(t, here, there) ==
  /\ call[t].at = here
  /\ call' = [call EXCEPT ![t].at = there]

\* car_speed_up and car_speed_reduction, in unsigned arithmetic.
LoadSpeed(t) ==
  /\ Goto(t, "load", "store")
  /\ temp' = IF call[t].op = "up"
               THEN (g_car_speed + U32 - CAR_SPEED_CHANGE_VALUE) % U32
               ELSE (g_car_speed + CAR_SPEED_CHANGE_VALUE) % U32
  /\ UNCHANGED <<g_car_speed, pins>>

StoreSpeed(t) ==
  /\ Goto(t, "store", "low")
  /\ g_car_speed' = temp
  /\ temp' = 0
  /\ UNCHANGED pins

\* correct_car_speed: two comparisons, each with a store that may come late.
CorrectLow(t) ==
  /\ Goto(t, "low", IF g_car_speed < MAX_SPEED THEN "max" ELSE "high")
  /\ UNCHANGED <<g_car_speed, temp, pins>>

StoreMax(t) ==
  /\ Goto(t, "max", "high")
  /\ g_car_speed' = MAX_SPEED
  /\ UNCHANGED <<temp, pins>>

CorrectHigh(t) ==
  /\ Goto(t, "high", IF g_car_speed > MIN_SPEED THEN "min" ELSE "pins")
  /\ UNCHANGED <<g_car_speed, temp, pins>>

StoreMin(t) ==
  /\ Goto(t, "min", "pins")
  /\ g_car_speed' = MIN_SPEED
  /\ UNCHANGED <<temp, pins>>

\* The speed functions end once the speed is corrected.
SpeedChanged(t) ==
  /\ call[t].at = "pins" /\ call[t].op \in Speeds
  /\ call' = [call EXCEPT ![t] = Idle]
  /\ UNCHANGED <<g_car_speed, temp, pins>>

\* One gpio_control or pwm_control, whose duty is a hi_u16.  Two tasks inside these for the same pin
\* leave what one after the other would: the last function set is the one seen,
\* and its task sets its output.
SetPin(t) ==
  LET n == call[t].step
      setting == Pattern(call[t].op)[n]
  IN /\ call[t].at = "pins" /\ call[t].op \in Drives
     /\ pins' = [pins EXCEPT ![setting[1]] =
          <<setting[2], IF setting[3] = Speed THEN g_car_speed % U16 ELSE setting[3]>>]
     /\ call' = [call EXCEPT ![t] = IF n = 4 THEN Idle ELSE [@ EXCEPT !.step = n + 1]]
     /\ UNCHANGED <<g_car_speed, temp>>

CarStep(t) ==
  /\ \/ LoadSpeed(t) \/ StoreSpeed(t) \/ CorrectLow(t) \/ StoreMax(t)
     \/ CorrectHigh(t) \/ StoreMin(t) \/ SpeedChanged(t) \/ SetPin(t)
  /\ UNCHANGED <<powerVars, driveVars>>

Drive(op) ==
  /\ call["driver"] = Idle
  /\ Enter("driver", op)
  /\ IF op \in Drives THEN drive' = op /\ alone' = (call["battery"] = Idle)
                      ELSE UNCHANGED driveVars
  /\ UNCHANGED <<g_car_speed, temp, pins, powerVars>>

----------------------------------------------------------------------------
(* app_i2c_oled_demo                                                       *)

\* oled_init stops at the first write_cmd that does not return SUCCESS, and is
\* tried again.  write_cmd returns nothing when it succeeds (line 252), so that
\* either may happen.
oled_init ==
  /\ power = "oled_init"
  /\ power' \in {"oled_init", "measure"}
  /\ UNCHANGED <<carVars, voltage, driveVars>>

\* Seeded fault: car_stop only when the last measurement was enough.
power_writeread_Once ==
  /\ power = "measure"
  /\ IF voltage = "low" /\ alone
       THEN power' = "car_stop" /\ Enter("battery", "stop") /\ alone' = FALSE
       ELSE power' = "sleep" /\ UNCHANGED <<call, alone>>
  /\ UNCHANGED <<g_car_speed, temp, pins, voltage, drive>>

\* A failed measurement returns early.
power_writeread ==
  /\ power = "measure"
  /\ IF voltage = "low"
       THEN power' = "car_stop" /\ Enter("battery", "stop") /\ alone' = FALSE
       ELSE power' = "sleep" /\ UNCHANGED <<call, alone>>
  /\ UNCHANGED <<g_car_speed, temp, pins, voltage, drive>>

CarStopReturns ==
  /\ power = "car_stop" /\ call["battery"] = Idle
  /\ power' = "sleep"
  /\ UNCHANGED <<carVars, voltage, driveVars>>

SleepPower ==
  /\ power = "sleep"
  /\ power' = "measure"
  /\ UNCHANGED <<carVars, voltage, driveVars>>

BatteryTask ==
  oled_init \/ power_writeread \/ CarStep("battery") \/ CarStopReturns \/ SleepPower

VoltageChanges ==
  /\ voltage' \in {"low", "other"}
  /\ UNCHANGED <<carVars, power, driveVars>>

Next ==
  \/ \E op \in Drives \cup Speeds : Drive(op)
  \/ CarStep("driver")
  \/ BatteryTask
  \/ VoltageChanges

Spec == Init /\ [][Next]_vars

FairSpec == Spec /\ WF_vars(BatteryTask)

----------------------------------------------------------------------------
Points == {"idle", "load", "store", "low", "max", "high", "min", "pins"}
Outputs == ({"gpio"} \X {0, 1}) \cup
           ({"pwm"} \X ((0..U32 - 1) \cup {PWM_DUTY_STOP, PWM_DUTY_LEFT_RIGHT}))

\* Types.
TypeOK ==
  /\ g_car_speed \in 0..U32 - 1 /\ temp \in 0..U32 - 1
  /\ call \in [Tasks -> [op : Drives \cup Speeds \cup {"none"}, at : Points, step : 0..4]]
  /\ pins \in [Pins -> Outputs]
  /\ power \in {"oled_init", "measure", "car_stop", "sleep"}
  /\ voltage \in {"low", "other"}
  /\ drive \in Drives \cup {"none"} /\ alone \in BOOLEAN

\* Although g_car_speed is read and written by two tasks without a lock, may
\* wrap, and starts with any value, no wheel gets a duty out of range: between
\* a task's own correction and its last pin, the other stores only bounds.
DutiesInRange ==
  \A p \in Pins :
    pins[p][1] = "pwm" /\ pins[p][2] < U32 => pins[p][2] \in MAX_SPEED..MIN_SPEED

\* A wheel by its two pins.  The right one is on 0 and 1, the left on 9 and 10.
Runs(a, b)   == pins[a] = <<"gpio", 1>> /\ pins[b][1] = "pwm"
Backs(a, b)  == pins[a][1] = "pwm" /\ pins[b] = <<"gpio", 1>>
Stands(a, b) == pins[a][1] = "pwm" /\ pins[b] = <<"gpio", 0>>

\* A pattern leaves nothing of the one before it: when a function returns, and
\* the battery task kept off, the wheels do what was asked.  (With car_stop in
\* between, pins of both may remain, until the next call.)
DriveIsDone ==
  call["driver"] = Idle /\ drive # "none" /\ alone =>
    CASE drive = "forward" -> Runs(0, 1) /\ Runs(9, 10)
      [] drive = "stop"    -> Stands(0, 1) /\ Stands(9, 10)
      [] drive = "left"    -> Runs(0, 1) /\ Stands(9, 10)
      [] drive = "back"    -> Backs(0, 1) /\ Backs(9, 10)
      [] drive = "right"   -> Stands(0, 1) /\ Runs(9, 10)

\* Low power stops the car for good (line 594), once the driver leaves it
\* alone, whatever the two did to the pins at the same time - provided
\* oled_init ever reports success.
LowBatteryStops ==
  <>(power # "oled_init") /\ <>[](voltage = "low" /\ call["driver"] = Idle)
    => <>[](Stands(0, 1) /\ Stands(9, 10))
=============================================================================
