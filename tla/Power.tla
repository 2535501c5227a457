------------------------------- MODULE Power -------------------------------
(***************************************************************************)
(* Boot and deep sleep of the board (app/demo/src/app_main.c with          *)
(* app/demo/init/app_io_init.c).                                           *)
(*                                                                         *)
(* app_main brings the chip up and starts the tasks, one call after the    *)
(* other; a call that fails is logged and the next one follows.  Deep      *)
(* sleep takes the power from the peripherals.  The chip's low-power code  *)
(* (external) calls config_before_sleep on the way down and, on the way    *)
(* up, peripheral_init and config_after_sleep; it is switched on by an AT  *)
(* command, since nothing in the repository calls hi_lpc_set_type.         *)
(***************************************************************************)
EXTENDS Integers, Sequences, FiniteSets, SequencesExt

CONSTANTS
  Builds,      \* sets of the CONFIG_* options, one of which is built
  MaxFaults    \* bound: calls that fail in a behaviour

FaultsAssumption == MaxFaults \in Nat

Uarts == {"UART0", "UART1", "UART2"}
Drivers == {"flash", "cipher", "DMA", "I2C", "I2S", "SPI", "PWM", "SDIO"}
Devices == Drivers \cup Uarts

Pins == {"0", "1", "3", "4", "6", "8", "9", "10", "11", "12", "13", "14", "CSN"}

VARIABLES
  build,          \* the options that are built in
  boot,           \* app_main: the next of BootSteps
  services,       \* what app_main has brought up
  state,          \* "awake", "asleep", or "waking"
  handlers,       \* "waking": which of the two calls have returned
  sleep_type,     \* hi_lpc_get_type: HI_DEEP_SLEEP or not
  g_have_inited,
  gates,          \* chip: the clock gates that are open
  working,        \* chip: devices set up since they last lost their power
  saved,          \* chip: UARTs whose registers hi_uart_lp_save keeps
  mux,            \* chip: who each pin belongs to (hi_io_set_func)
  iocfg,          \* chip: the configuration of each pin
  g_iocfg_backup,
  err_info,       \* the error bits of the last peripheral_init
  faults,         \* calls that failed so far
  failing,        \* history: what failed in the last peripheral_init
  slept           \* history: mux, iocfg and working before the last deep sleep, with
                  \* what the demos configured since

powerVars == <<build, boot, services, state, handlers, sleep_type, g_have_inited, gates,
               working, saved, mux, iocfg, g_iocfg_backup, err_info, faults, failing, slept>>

\* The calls of app_main, in order.
BootSteps ==
  <<"peripheral_init", "no_sleep", "wakeup_entry", "factory_nv", "partitions", "nv", "upg",
    "fs", "sal", "lpc", "hw_handler", "at", "diag", "tcpip", "NetCfgSampleBiz",
    "app_demo_iot", "app_smart_trash_can_task", "app_demo_gy521", "gps_demo">>

Init ==
  /\ build \in Builds
  /\ boot = 1 /\ services = {} /\ state = "awake" /\ handlers = {}
  /\ sleep_type = "none" /\ g_have_inited = FALSE
  /\ gates = Devices /\ working = {"UART0"} /\ saved = {}
  /\ mux = [p \in Pins |-> "GPIO"]
  /\ iocfg = [p \in Pins |-> "reset"] /\ g_iocfg_backup = [p \in Pins |-> "zero"]
  /\ err_info = {} /\ faults = 0 /\ failing = {}
  /\ slept = [mux |-> mux, iocfg |-> iocfg, working |-> {}]

----------------------------------------------------------------------------
\* Seeded fault: the gate of SDIO is closed although SDIO is built in.
Closed_SdioToo(b) ==
  {"I2C", "SPI", "DMA", "I2S", "UART2", "SDIO"} \cup IF "PWM_HOLD" \in b THEN {} ELSE {"PWM"}

\* peripheral_close_clken: the gates it closes.
Closed(b) ==
  {"I2C", "SPI", "DMA", "I2S", "UART2"}
    \cup (IF "SDIO" \in b THEN {} ELSE {"SDIO"})
    \cup (IF "PWM_HOLD" \in b THEN {} ELSE {"PWM"})

\* app_io_init: the pins each option takes, in order; the last to take a pin
\* has it.
Claim(option, pins) == [option |-> option, pins |-> pins]
Claims ==
  <<Claim("UART0", {"3", "4"}), Claim("UART1", {"0", "1"}), Claim("UART2", {"11", "12"}),
    Claim("SPI", {"9", "10", "11", "12"}), Claim("I2C", {"13", "14"}), Claim("PWM", {"8"}),
    Claim("I2S", {"9", "10", "11", "12", "13"}),
    Claim("SDIO", {"9", "10", "11", "12", "13", "14"})>>

Multiplexed(b, m) ==
  [p \in Pins |->
     LET takers == {k \in DOMAIN Claims : Claims[k].option \in b /\ p \in Claims[k].pins}
     IN IF takers = {} THEN m[p] ELSE Claims[Max(takers)].option]

\* It also sets what it needs of some pins.
IoSets(b) ==
  [p \in (IF "SPI" \in b THEN {"9"} ELSE {}) \cup
         (IF "SDIO" \in b THEN {"9", "10", "11", "13", "14"} ELSE {}) |-> "board"]

Override(f, g) == [x \in DOMAIN f |-> IF x \in DOMAIN g THEN g[x] ELSE f[x]]

\* The peripherals a build has; flash and cipher are always there.
BuiltIn(b) == {"flash", "cipher"} \cup ({"DMA", "I2C", "I2S", "SPI", "PWM"} \cap b)

\* Only the first boot sets UART1 up; later the UARTs are restored.
UartCalls == IF g_have_inited THEN Uarts ELSE {"UART1"}

Bit(d) ==
  IF ~g_have_inited THEN d
  ELSE CASE d = "UART0" -> "UART1" [] d = "UART1" -> "UART0" [] OTHER -> d

ErrBits(failed) == {Bit(d) : d \in failed}

\* Seeded fault: the results of flash and the UARTs are overwritten.
ErrInfo_Overwritten(failed) == ErrBits(failed \ ({"flash"} \cup Uarts))

\* err_info |= PERIPHERAL_INIT_ERR_...  After deep sleep the bits of UART0 and
\* UART1 are the wrong way round (lines 241 and 245).
ErrInfo(failed) == ErrBits(failed)

\* hi_i2c_deinit, hi_i2s_deinit and hi_spi_deinit share a result with the
\* initialisation: an error may leave the device working.
DeinitFirst == {"I2C", "I2S", "SPI"}

Failing(calls) ==
  {{}} \cup (IF faults < MaxFaults THEN {{d} : d \in calls} ELSE {})

\* Seeded fault: the gates are closed after the peripherals are set up.
peripheral_init_GatesLast ==
  LET calls == BuiltIn(build) \cup UartCalls IN
  \E failed \in Failing(calls) : \E down \in {failed, failed \ DeinitFirst} :
    /\ LET restored == IF g_have_inited THEN saved ELSE {"UART1"}
           up == (BuiltIn(build) \cup restored) \ down
       IN /\ gates' = (gates \cup up) \ Closed(build)
          /\ working' = (working \ Closed(build)) \cup up
    /\ err_info' = ErrInfo(failed) /\ failing' = failed
    /\ faults' = faults + Cardinality(failed)
    /\ g_have_inited' = TRUE
    /\ mux' = Multiplexed(build, mux) /\ iocfg' = Override(iocfg, IoSets(build))
    /\ UNCHANGED saved

\* A device that is set up opens its own gate; what was set up before and is
\* not set up again stops when its gate is closed.
peripheral_init ==
  LET calls == BuiltIn(build) \cup UartCalls IN
  \E failed \in Failing(calls) : \E down \in {failed, failed \ DeinitFirst} :
    /\ LET restored == IF g_have_inited THEN saved ELSE {"UART1"}
           up == (BuiltIn(build) \cup restored) \ down
       IN /\ gates' = (gates \ Closed(build)) \cup up
          /\ working' = (working \ Closed(build)) \cup up
    /\ err_info' = ErrInfo(failed) /\ failing' = failed
    /\ faults' = faults + Cardinality(failed)
    /\ g_have_inited' = TRUE
    /\ mux' = Multiplexed(build, mux) /\ iocfg' = Override(iocfg, IoSets(build))
    /\ UNCHANGED saved

----------------------------------------------------------------------------
(* app_main.                                                               *)

Booting(step) ==
  /\ state = "awake" /\ boot <= Len(BootSteps) /\ BootSteps[boot] = step
  /\ boot' = boot + 1
  /\ UNCHANGED <<build, state, handlers, sleep_type, saved, g_iocfg_backup, slept>>

InitPeripherals ==
  /\ Booting("peripheral_init")
  /\ peripheral_init
  /\ services' = services \cup {"peripheral_init"}

\* peripheral_init_no_sleep: SDIO is set up once, by a task of its own, and
\* keeps its power in deep sleep.
app_sdio_init ==
  /\ working' = working \cup ({"SDIO"} \cap build)
  /\ gates' = gates \cup ({"SDIO"} \cap build)

\* peripheral_init_no_sleep; the failure is logged.
InitNoSleep ==
  /\ Booting("no_sleep")
  /\ \/ app_sdio_init /\ services' = services \cup {"no_sleep"} /\ UNCHANGED faults
     \/ /\ "SDIO" \in build /\ faults < MaxFaults /\ faults' = faults + 1
        /\ UNCHANGED <<working, gates, services>>
  /\ UNCHANGED <<g_have_inited, mux, iocfg, err_info, failing>>

\* Every other call; one that fails is logged, and nothing depends on it but
\* the AT commands.
BootStep ==
  \E i \in 3..Len(BootSteps) :
    /\ Booting(BootSteps[i])
    /\ \/ services' = services \cup {BootSteps[i]} /\ UNCHANGED faults
       \/ faults < MaxFaults /\ faults' = faults + 1 /\ UNCHANGED services
    /\ UNCHANGED <<g_have_inited, gates, working, mux, iocfg, err_info, failing>>

app_main == InitPeripherals \/ InitNoSleep \/ BootStep

----------------------------------------------------------------------------
(* Deep sleep.                                                             *)

Saved == {"6", "8", "10", "11", "12", "13", "CSN"}

\* Seeded fault: the low-power value is written before the pin is saved.
config_before_sleep_WriteFirst ==
  /\ iocfg' = [p \in Pins |-> IF p \in Saved THEN "lowpower" ELSE iocfg[p]]
  /\ g_iocfg_backup' = [p \in Pins |-> IF p \in Saved THEN iocfg'[p] ELSE g_iocfg_backup[p]]
  /\ saved' = working \cap Uarts

config_before_sleep ==
  /\ iocfg' = [p \in Pins |-> IF p \in Saved THEN "lowpower" ELSE iocfg[p]]
  /\ g_iocfg_backup' = [p \in Pins |-> IF p \in Saved THEN iocfg[p] ELSE g_iocfg_backup[p]]
  /\ saved' = working \cap Uarts

config_after_sleep == iocfg' = [p \in Pins |-> IF p \in Saved THEN g_iocfg_backup[p] ELSE iocfg[p]]

SetSleepType ==
  /\ state = "awake" /\ "at" \in services /\ sleep_type = "none"
  /\ sleep_type' = "deep"
  /\ UNCHANGED <<build, boot, services, state, handlers, g_have_inited, gates, working, saved,
                 mux, iocfg, g_iocfg_backup, err_info, faults, failing, slept>>

\* The calls that app_main has registered with the chip (lines 415 and 458, whose
\* results nobody looks at).
Registered ==
  (IF "wakeup_entry" \in services THEN {"entry"} ELSE {})
    \cup (IF "hw_handler" \in services THEN {"after"} ELSE {})

FallAsleep ==
  /\ state = "awake" /\ sleep_type = "deep"
  /\ state' = "asleep"
  /\ IF "after" \in Registered THEN config_before_sleep
     ELSE UNCHANGED <<iocfg, g_iocfg_backup, saved>>
  /\ slept' = [mux |-> mux, iocfg |-> iocfg, working |-> working]
  /\ working' = working \cap {"SDIO"}     \* the others lose their power
  /\ UNCHANGED <<build, boot, services, handlers, sleep_type, g_have_inited, gates, mux,
                 err_info, faults, failing>>

WakeUp ==
  /\ state = "asleep"
  /\ state' = IF Registered = {} THEN "awake" ELSE "waking"
  /\ handlers' = {}
  /\ UNCHANGED <<build, boot, services, sleep_type, g_have_inited, gates, working, saved,
                 mux, iocfg, g_iocfg_backup, err_info, faults, failing, slept>>

Handled(h) ==
  /\ state = "waking" /\ h \in Registered \ handlers
  /\ handlers' = handlers \cup {h}
  /\ state' = IF handlers' = Registered THEN "awake" ELSE "waking"
  /\ UNCHANGED <<build, boot, services, sleep_type, g_iocfg_backup, slept>>

\* The order of the two is the chip's.
WakeUpEntry == Handled("entry") /\ peripheral_init

AfterSleep ==
  /\ Handled("after") /\ config_after_sleep
  /\ UNCHANGED <<g_have_inited, gates, working, saved, mux, err_info, faults, failing>>

\* The demos take and configure pins as they need them (the lamp has GPIO 8);
\* the authentication library of a build with UART2 opens it.
Configure ==
  /\ state = "awake" /\ boot > 1
  /\ \E p \in {"8", "9"} : \E cfg \in {"demo", "reset"} :
       /\ iocfg[p] # cfg /\ iocfg' = [iocfg EXCEPT ![p] = cfg] /\ mux' = [mux EXCEPT ![p] = "GPIO"]
       /\ slept' = [slept EXCEPT !.iocfg[p] = cfg, !.mux[p] = "GPIO"]
  /\ UNCHANGED <<build, boot, services, state, handlers, sleep_type, g_have_inited, gates,
                 working, saved, g_iocfg_backup, err_info, faults, failing>>

OpenUart2 ==
  /\ state = "awake" /\ boot > 1 /\ "UART2" \in build \ working
  /\ working' = working \cup {"UART2"} /\ gates' = gates \cup {"UART2"}
  /\ UNCHANGED <<build, boot, services, state, handlers, sleep_type, g_have_inited, saved,
                 mux, iocfg, g_iocfg_backup, err_info, faults, failing, slept>>

Next ==
  \/ app_main \/ SetSleepType \/ FallAsleep \/ WakeUp \/ WakeUpEntry \/ AfterSleep
  \/ Configure \/ OpenUart2

Spec == Init /\ [][Next]_powerVars

----------------------------------------------------------------------------
\* Types.
TypeOK ==
  /\ build \in Builds /\ boot \in 1..Len(BootSteps) + 1
  /\ services \subseteq Range(BootSteps)
  /\ state \in {"awake", "asleep", "waking"} /\ handlers \subseteq {"entry", "after"}
  /\ sleep_type \in {"none", "deep"} /\ g_have_inited \in BOOLEAN
  /\ gates \subseteq Devices /\ working \subseteq Devices /\ saved \subseteq Uarts
  /\ mux \in [Pins -> {"GPIO"} \cup Devices]
  /\ iocfg \in [Pins -> {"reset", "board", "demo", "lowpower"}]
  /\ g_iocfg_backup \in [Pins -> {"zero", "reset", "board", "demo", "lowpower"}]
  /\ err_info \subseteq Devices /\ failing \subseteq Devices /\ faults \in 0..MaxFaults
  /\ slept.working \subseteq Devices

\* Deep sleep can be noticed by nobody: when the board is awake again, in
\* whichever order the chip made the two calls, each pin has the owner and the
\* configuration it fell asleep with, or those app_io_init gives it: a demo may
\* lose a pin to a peripheral that is built in (the lamp's to PWM1, line 82);
\* no device that works stands behind a closed gate, and whatever worked before
\* works, unless its call has just failed, or one of the two registrations had.
\* SDIO keeps its power, and so must keep its gate (lines 202-206).
WakesAsItSlept ==
  state = "awake" =>
    /\ \A d \in working : d \in gates
    /\ handlers # {} =>
         /\ \A p \in Pins : mux[p] \in {slept.mux[p], Multiplexed(build, slept.mux)[p]}
         /\ \A p \in Pins : iocfg[p] \in {slept.iocfg[p]} \cup Range(IoSets(build))
         /\ Registered = {"entry", "after"} => slept.working \ working \subseteq failing

\* No error of peripheral_init is lost among the later ones, and only the two
\* UARTs of lines 241 and 245 are named for each other.
ErrorsCollected ==
  /\ Cardinality(err_info) = Cardinality(failing)
  /\ err_info \ {"UART0", "UART1"} = failing \ {"UART0", "UART1"}
=============================================================================
