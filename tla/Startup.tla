------------------------------ MODULE Startup ------------------------------
(***************************************************************************)
(* From the entry of each program to the loop of its last task: the pins   *)
(* it takes, the bus it opens, the tasks it creates.                       *)
(*                                                                         *)
(* A pin belongs to what hi_io_set_func said last; before that to whatever *)
(* app_io_init chose for this build ("boot"), except that CONFIG_I2C_SUPPORT *)
(* gives 13 and 14 to I2C0, and peripheral_init opens the bus.  A task runs *)
(* from the moment it is created, unless its creator has locked the        *)
(* scheduler.  Hardly a result is looked at.  Only the uses of pins are    *)
(* left of the loops, which the other modules model; builds with UART2,    *)
(* SPI, I2S or SDIO, which give pins 9 to 14 to those, are left out.       *)
(***************************************************************************)
EXTENDS Integers, Sequences

CONSTANT MaxFaults     \* bound: calls that fail

StartAssumption == MaxFaults \in Nat

Pins == {"0", "5", "6", "7", "8", "9", "11", "12", "13", "14"}

VARIABLES
  starter,    \* the entry this board runs
  i2c, ohos,  \* CONFIG_I2C_SUPPORT, OHOS_SUPPORT
  running,    \* tasks created
  at,         \* each task's next statement
  fn, dir,    \* chip: function and direction of each pin
  bus,        \* hi_i2c_init was called
  locked,     \* hi_task_lock
  faults,     \* calls that failed
  ignored     \* history: one of them went unnoticed

startVars == <<starter, i2c, ohos, running, at, fn, dir, bus, locked, faults, ignored>>

\* A statement.  The program goes on with the one after it, or at next; if it
\* fails and that is checked, at onfail.  Past the last one it returns.
Stmt(do, pin, arg) == [do |-> do, pin |-> pin, arg |-> arg, next |-> 0, onfail |-> 0]
Then(s, target) == [s EXCEPT !.next = target]
Checked(s, target) == [s EXCEPT !.onfail = target]
Func(p, f)  == Stmt("func", p, f)
Dir(p, d)   == Stmt("dir", p, d)
Out(p)      == Stmt("out", p, "")        \* hi_gpio_set_ouput_val
In(p)       == Stmt("in", p, "")         \* hi_gpio_get_input_val
Adc(p)      == Stmt("adc", p, "")        \* hi_adc_read of the channel on p
Isr(p)      == Stmt("isr", p, "")        \* hi_gpio_register_isr_function
Create(t)   == Stmt("create", "", t)
Open        == Stmt("open", "", "")      \* hi_i2c_init
Transfer    == Stmt("transfer", "", "")  \* anything over I2C0
Lock        == Stmt("lock", "", "")
Unlock      == Stmt("unlock", "", "")
I2cPins     == <<Func("13", "I2C0"), Func("14", "I2C0")>>
GpioPin(p, d) == <<Func(p, "GPIO"), Dir(p, d)>>

----------------------------------------------------------------------------
(* The demos.  ADC channels 2 to 5 are on pins 5, 7, 9 and 11.             *)

lightsensor ==
  GpioPin("11", "in") \o GpioPin("9", "out") \o <<Checked(Adc("11"), 7), Then(Out("9"), 5)>>

\* It configures pin 7; the channel the task reads is on pin 5.
rotation_sensor_gpio_init == GpioPin("7", "in")
rotation_sensor_task == rotation_sensor_gpio_init \o <<Create("rotation_sensor")>>
rotation_sensor == <<[Adc("5") EXCEPT !.next = 1, !.onfail = 2]>>

\* Seeded fault: the task is created before its display is set up.
water_sensor_task_Early ==
  I2cPins \o GpioPin("7", "in") \o <<Create("water_sensor"), Open, Transfer>>

\* gpio_config, water_sensor_gpio_init and water_sensor_display first.
water_sensor_init == I2cPins \o GpioPin("7", "in") \o <<Open, Transfer>>
water_sensor_task == water_sensor_init \o <<Create("water_sensor")>>
water_sensor == <<Checked(Adc("7"), 3), Then(Transfer, 1)>>

rtc_gpio_init == I2cPins
app_demo_rtc_task == rtc_gpio_init \o <<Create("rtc_timer")>>
rtc_timer == <<Open, Then(Transfer, 2)>>

\* oled_init is repeated until it succeeds.
hi_hx711_task ==
  I2cPins \o GpioPin("11", "in") \o GpioPin("12", "out")
    \o <<Out("12"), Open, Checked(Transfer, 9), In("11"), Out("12"), Then(Transfer, 10)>>

\* It leaves pins 13 and 14 to app_io_init.
app_oled_i2c_demo_task == <<Lock, Create("app_i2c_oled_demo"), Unlock>>

\* The lamp of the board blinks once if the display does not answer.
hispark_board_test == GpioPin("9", "out") \o <<Then(Out("9"), 2)>>
app_i2c_oled_demo ==
  <<Open, [Transfer EXCEPT !.next = 6, !.onfail = 3]>>
    \o hispark_board_test \o <<Then(Transfer, 6)>>

\* io_gpio_demo returns at the first failure, and its caller goes on with
\* gpio_isr_demo; the pin stays as it is when the driver is closed.
io_gpio_demo ==
  <<Checked(Func("0", "GPIO"), 4), Checked(Dir("0", "in"), 4), Checked(In("0"), 4)>>
gpio_isr_demo == <<Checked(Dir("0", "in"), 6), Isr("0")>>
app_demo_custom_io_gpio == io_gpio_demo \o gpio_isr_demo

----------------------------------------------------------------------------
(* The can and the provisioning sample.                                    *)

\* Seeded fault: the servo's pin is left an input.
CanPins_NoServo ==
  GpioPin("6", "in") \o <<Out("6")>> \o GpioPin("8", "out") \o <<Out("8")>>

\* smart_trash_can_init: the servo and the lamp.
CanPins == GpioPin("6", "out") \o <<Out("6")>> \o GpioPin("8", "out") \o <<Out("8")>>

\* The can reads channels whose pins it never configures.  Moving the lid is
\* pulses on the servo's pin.
set_engine_angle == <<Out("6")>>
app_demo_smart_trash_can ==
  CanPins \o <<Adc("7"), Adc("9"), Out("8")>> \o set_engine_angle \o <<Then(Adc("11"), 7)>>
app_smart_trash_can_task == <<Create("app_demo_smart_trash_can")>>

\* The stand-alone gyroscope demo has the same task.
gy521_mpu6050 == <<Then(Transfer, 1)>>
app_demo_gy521 == <<Create("gy521_mpu6050")>>

\* LedInit, called by SampleBizTask, and the task it creates.
LedInit == GpioPin("9", "out") \o <<Create("LedTask")>>
LedTask == <<Then(Out("9"), 1)>>
NetCfgSampleBiz == <<Create("samplebiztask")>>

\* The entries of app_main that use pins; the provisioning sample only with
\* OHOS_SUPPORT.
app_main ==
  (IF ohos THEN NetCfgSampleBiz ELSE <<>>) \o app_smart_trash_can_task \o app_demo_gy521

Starters ==
  {"lightsensor", "rotation_sensor_task", "water_sensor_task", "app_demo_rtc_task",
   "hi_hx711_task", "app_oled_i2c_demo_task", "app_demo_custom_io_gpio",
   "app_demo_gy521", "app_main"}

Tasks ==
  Starters \cup {"rotation_sensor", "water_sensor", "rtc_timer", "app_i2c_oled_demo",
                 "app_demo_smart_trash_can", "gy521_mpu6050", "samplebiztask", "LedTask"}

Body(t) ==
  CASE t = "lightsensor" -> lightsensor
    [] t = "rotation_sensor_task" -> rotation_sensor_task
    [] t = "water_sensor_task" -> water_sensor_task
    [] t = "app_demo_rtc_task" -> app_demo_rtc_task
    [] t = "hi_hx711_task" -> hi_hx711_task
    [] t = "app_oled_i2c_demo_task" -> app_oled_i2c_demo_task
    [] t = "app_demo_custom_io_gpio" -> app_demo_custom_io_gpio
    [] t = "app_demo_gy521" -> app_demo_gy521
    [] t = "app_main" -> app_main
    [] t = "rotation_sensor" -> rotation_sensor
    [] t = "water_sensor" -> water_sensor
    [] t = "rtc_timer" -> rtc_timer
    [] t = "app_i2c_oled_demo" -> app_i2c_oled_demo
    [] t = "app_demo_smart_trash_can" -> app_demo_smart_trash_can
    [] t = "gy521_mpu6050" -> gy521_mpu6050
    [] t = "samplebiztask" -> LedInit
    [] t = "LedTask" -> LedTask

\* Those that leave the pins of the bus to app_io_init need a build with it.
LeaveBusToBuild == {"app_oled_i2c_demo_task", "app_demo_gy521", "app_main"}

----------------------------------------------------------------------------
Init ==
  /\ starter \in Starters /\ running = {starter} /\ at = [t \in Tasks |-> 1]
  /\ ohos \in BOOLEAN /\ (ohos => starter = "app_main")
  /\ i2c \in BOOLEAN /\ (starter \in LeaveBusToBuild => i2c)
  /\ fn = [p \in Pins |-> IF i2c /\ p \in {"13", "14"} THEN "I2C0" ELSE "boot"]
  /\ dir = [p \in Pins |-> "in"] /\ bus = i2c
  /\ locked = FALSE /\ faults = 0 /\ ignored = FALSE

\* A task may run; only the starter ever holds the lock.
Runs(t) ==
  /\ t \in running /\ at[t] <= Len(Body(t))
  /\ locked => t = starter

After(t) == LET s == Body(t)[at[t]] IN IF s.next > 0 THEN s.next ELSE at[t] + 1

Execute(t) ==
  LET s == Body(t)[at[t]] IN
  /\ Runs(t)
  /\ at' = [at EXCEPT ![t] = After(t)]
  /\ fn' = IF s.do = "func" THEN [fn EXCEPT ![s.pin] = s.arg] ELSE fn
  /\ dir' = IF s.do = "dir" THEN [dir EXCEPT ![s.pin] = s.arg] ELSE dir
  /\ bus' = (bus \/ s.do = "open")
  /\ running' = running \cup (IF s.do = "create" THEN {s.arg} ELSE {})
  /\ locked' = IF s.do \in {"lock", "unlock"} THEN s.do = "lock" ELSE locked
  /\ UNCHANGED <<starter, i2c, ohos, faults, ignored>>

\* A call fails and does nothing.  A task that is not created is logged, and
\* missed by nobody.
Fail(t) ==
  LET s == Body(t)[at[t]] IN
  /\ Runs(t) /\ s.do \notin {"lock", "unlock"} /\ faults < MaxFaults
  /\ faults' = faults + 1
  /\ at' = [at EXCEPT ![t] = IF s.onfail > 0 THEN s.onfail ELSE After(t)]
  /\ ignored' = (ignored \/ (s.onfail = 0 /\ s.do \in {"func", "dir", "open"}))
  /\ UNCHANGED <<starter, i2c, ohos, running, fn, dir, bus, locked>>

\* Every task has returned.
Over ==
  /\ ~locked
  /\ \A t \in running : at[t] > Len(Body(t))
  /\ UNCHANGED startVars

Next == (\E t \in running : Execute(t) \/ Fail(t)) \/ Over

Spec == Init /\ [][Next]_startVars

----------------------------------------------------------------------------
\* Types; who holds the lock still runs.
TypeOK ==
  /\ starter \in running /\ running \subseteq Tasks
  /\ at \in [Tasks -> 1..13] /\ \A t \in Tasks : at[t] <= Len(Body(t)) + 1
  /\ fn \in [Pins -> {"boot", "GPIO", "I2C0"}] /\ dir \in [Pins -> {"in", "out"}]
  /\ {i2c, ohos, bus, locked, ignored} \subseteq BOOLEAN /\ faults \in 0..MaxFaults
  /\ locked => at[starter] <= Len(Body(starter))

\* What a statement needs of the pins.
Ready(s) ==
  CASE s.do = "out" -> fn[s.pin] = "GPIO" /\ dir[s.pin] = "out"
    [] s.do = "in"  -> fn[s.pin] = "GPIO" /\ dir[s.pin] = "in"
    [] s.do \in {"isr", "adc"} -> dir[s.pin] = "in"
    [] s.do = "transfer" -> bus /\ fn["13"] = "I2C0" /\ fn["14"] = "I2C0"
    [] OTHER -> TRUE

\* No task drives, reads or listens on a pin, or moves a byte over the bus,
\* before that was set up by itself, by its creator or by the build, however early
\* the scheduler lets it run, and no other task takes the pin away
\* (app_demo_water_sensor.c:74-93, app_demo_io_gpio.c:156, app_demo_smart_trash_can.c:137),
\* unless a call nobody checks has failed.  The one exception is GPIO 9: with
\* OHOS_SUPPORT the LED of the provisioning sample drives the pin of the can's
\* light sensor (network_config_sample.c:110 and line 84 of the can).
PinsReady ==
  ~ignored =>
    \A t \in running : at[t] <= Len(Body(t)) =>
      LET s == Body(t)[at[t]] IN Ready(s) \/ (ohos /\ s = Adc("9"))
=============================================================================
