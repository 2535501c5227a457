# Formal model of the HiSpark Pegasus smart trash can

TLA+ modules for the firmware under `src/`: a Hi3861 board that opens and lights a
trash can, counts visits, notices when the can is full or knocked over, and reports
to Huawei's IoT platform over MQTT. Paths below are relative to
`src/HiSpark_Pegasus_trashCan/app/demo/` unless they start with another directory.

## 1. The system

`app_main` (`src/app_main.c`) starts, in this order, the IoT task, the trash-can
task, the gyroscope task and the GPS set-up. They share globals and one message
queue; there is no mutex anywhere.

| Component | State it keeps | Operations | Correct when |
|---|---|---|---|
| MQTT pump, `iot_demo/iot_main.c` | `gIoTAppCb` (queue, callback, stop), heap buffers, MQTT session and its strings | `IoTMain`, `IoTSetMsgCallback`, `IotSendMsg`, `MsgRcvCallBack`, `ConnLostCallBack`, `ProcessQueueMsg`, `MainEntryProcess` | buffers have one owner; messages are handled once and in order; reconnection leaks nothing; drains end |
| WiFi station, `iot_demo/iot_sta.c` | `gLwipNetif`, `gScanDone`, `wifi_status`, the interface's address | `WifiStaReadyWait`, `hi_wifi_start_sta`, `WpaEventCB` | the end of the scan is not missed; no address on a dead link; the wait ends; the status means what its readers take it for |
| IoT task, `iot_demo/app_demo_iot.c` | none of its own | `DemoEntry`, `iot_publish_*` | nobody sends before it has started the pump |
| Trash can, `smart_trash_can/` | lid, lamp, `g_num`, `full_flag` | one polling loop | lamp and lid agree; counts and fill level reach the cloud truthfully |
| Gyroscope, `mpu6050/src/app_demo_gy521.c` | `flag_demped`, attitude filter | one sampling loop | every dump reported once, and taken back truthfully |
| GPS, `gps/app_demo_gps.c` | `gps_data` | `gps_demo`, `gps_demo_task`, `get_gps` | the receiver runs once the WiFi is joined |
| Report builder, `iot_demo/iot_profile.c`, `cjson_init.c` | JSON trees on the heap | `IoTProfilePropertyReport`, `IoTProfileCmdResp` | every allocation failure frees what was made |
| Provisioning sample, `src/network_config_sample.c` | `g_state`, `g_netCfg`, retry count, LED | callbacks of the provisioning service, one task per WiFi event, the raw data exchange | results match what the radio did; blocks are freed on every return |
| Board bring-up, `src/app_main.c`, `init/` | `g_have_inited`, saved pin configuration | `app_main`, `peripheral_init`, `app_io_init`, `config_before_sleep`, `config_after_sleep` | deep sleep gives pins and devices back; no task uses a pin or the bus too early |
| Password, `iot_demo/iot_hmac.c` | none between calls | `HmacGeneratePwd` | the password is the hash, in its buffer |
| Logs, `iot_demo/iot_log.c`, `smart_can_driver_log.c`, `gyroscope_log.c` | `gIoTLogLevel` | `IoTLogLevelSet`, the macros | a level without a name is never in force |
| Angles, `mpu6050/src/asin.c`, `atan.c`, `atan2.c`, `fabs.c` | none | the functions | the right angle in the right quadrant, for every argument |
| Clock demo, `HiSpark_Pegasus_RTC_Driver` | the last register values, one string per field, the display | `rct_set_init`, `rtc_timer` | after an undisturbed pass the display reads the time |
| Car and battery demos, `HiSpark_Pegasus_Car_Control`, `HiSpark_Pegasus_Battery_Power_Detection` | `g_car_speed`, four motor pins, the display | drive patterns, speed, `car_stop` from another task, drawing | duties stay in range; low power stops the car; the display recovers |
| Air pressure demo, `HiSpark_Pegasus_Air_Pressure_Sensor` | trimming values, `t_fine`, the raw values | `i2c_task_bmp280` | a printed pressure belongs to its temperature |
| Scale demo, `HiSpark_Pegasus_Electronic_Scale` | the base, the display | `Sensor_Read`, `hi_hx711_task` | the task and the chip agree on which bit is next |
| Light, rotation and water demos | extremes of the samples, text, lamp | one sampling loop each | a steady sensor is what is shown |
| Stand-alone gyroscope demo, `HiSpark_Pegasus_Gyro_Sensor` | `flag_demped`, attitude filter | one sampling loop | a report is news |

Who touches what: `WpaEventCB` runs on the driver's task and writes `wifi_status`;
the can and the gyroscope read it before they publish. `iot_publish_*` builds a
report and calls `IotSendMsg`, which copies it to the heap and puts the address of
the copy on the pump's queue. The MQTT library calls `MsgRcvCallBack`, which does
the same for messages from the cloud. The pump publishes or delivers, and frees.

What is hard here: a pointer travelling between tasks with no lock; a full queue met
by the very task that drains it; connections lost between any two steps; a status
word that is only the last event; sensors that change between two readings; and
results of sends that nobody looks at. `PROJECT.json` lists each hazard at its line.

## 2. Modules

| Module | Models | Notes |
|---|---|---|
| `IotChannel` | what callers may count on: a bounded FIFO whose messages are concluded once, in order | abstract specification |
| `IotMain` | the pump, its callers, the library and the connection | core module |
| `MCIotMain` | small instances of it, symmetric in the buffers | TLC only |
| `IotMainProofs` | theorems about `IotMain` | TLAPS |
| `WifiSta` | `WifiStaReadyWait`, `WpaEventCB`, the driver and DHCP | |
| `TrashCan` | the can's task and its sensors | |
| `Gyro` | the gyroscope's task, its filter's loss to NaN, and a bus that fails | |
| `Gps` | whether the GPS task is created | |
| `SmartCan` | `WifiSta`, `TrashCan` and `Gyro` as instances, and `DemoEntry`, over shared `wifi_status` and queue | composition |
| `NetConfig` | the provisioning sample: service callbacks, one task per request and per radio event | |
| `IotProfile` | the report builder, as requests to an allocator that may fail | |
| `Rtc` | the clock demo | |
| `Car` | `car_control.c` and the battery task | |
| `Power` | boot, and deep sleep of pins and peripherals | |
| `Startup` | every program from its entry to its last task's loop: pins, bus, tasks | |
| `GpsReceiver` | the GPS task that this build never starts | |
| `Oled` | the battery demo's display, byte by byte | |
| `Bmp280`, `Scale`, `AdcDemos`, `Mpu6050` | one demo and its chip each (`AdcDemos`: three alike) | |
| `RawData`, `Hmac` | the base64 exchange of the provisioning service; the password | |
| `Libm` | `asin`, `atan`, `atan2` and `fabs` in fixed point | |
| `Log` | the three logs and their levels | |
| `MCParts` | `Gyro`, `WifiSta`, `IotProfile`, `Rtc` and `Car` side by side: a behaviour runs one of them | these parts share nothing |
| `MCDemos` | `TrashCan` and the twelve parts from `Power` to `Log`, side by side in the same way | |
| `NetConfigProofs`, `WifiStaProofs`, `TrashCanProofs`, `GyroProofs` | theorems about one module each | TLAPS |
| `SmartCanProofs`, `PartsProofs`, `DemosProofs` | theorems about the compositions, from those about their parts | TLAPS |

A module that `MCParts` or `MCDemos` instantiates states what it assumes of its constants as a
plain definition, and the MC module has the `ASSUME`. Properties of one part that are about one
question are conjoined there under one name: `StationInStep` is `ScanNotLost` and `AddressNeedsLink`,
`MemorySafe` is `BlocksReachable` and `FreedAsMade`, `WheelsObey` is `DutiesInRange` and
`DriveIsDone`, `CloudKnowsCan` is `CountsFollowOpenings` and `CloudKnowsLevel`, `BoardWakesRight` is
`WakesAsItSlept` and `ErrorsCollected`, `BuffersFit` is `RawReleased`, `PwdReads` and `LogNamed`.

### IotMain

`task` is the program counter of `MainEntry`/`MainEntryProcess`/`ProcessQueueMsg`;
its values are the statements between which other tasks can run. `pc[p]` and
`hold[p]` are the two steps of a call of `IotSendMsg` or `MsgRcvCallBack`: the copy to
the heap, and the bounded wait in `hi_msg_queue_send`. `live` is the set of allocated
buffers, `msg` their contents, `queue` the addresses on the OS queue; `cur`,
`polling` and `ret` are the locals `msg`, `timeout = 0` and `ret = HI_ERR_SUCCESS`
of `ProcessQueueMsg`; `client`, `clientID`, `userPwd` the session. `accepted`,
`handled` and `fates` are history, read by properties only. A payload is the call it came
from, `<<caller, number>>`: the code never looks inside.

`hi_msg_queue_send` fails when the queue is full (after its timeout) or does not
exist. `MQTTClient_*` calls succeed or fail freely, and the connection may drop at any step.
Paho runs callbacks either inside `MQTTClient_yield` or on a thread of its own,
depending on the build: `CallbackInYield` selects, and the runs use both. `Resp`
stands for a `msgCallBack` that answers a message with `IotSendMsg`, on the pump's own task: the
interface allows one, and `DemoMsgRcvCallBack` would be one, but its registration
(`app_demo_iot.c:134`) is commented out, so that this firmware has none. `stop` is never set
in the repository, so `MainEntry` does not end.

### WifiSta

`sta` walks through `hi_wifi_start_sta`; each early return goes to the wait for an
address, because `WifiStaReadyWait` ignores the result. The driver queues events
and delivers them in order on its own task; the model's driver does not rejoin by
itself. `ip` and `dhcp` are the interface's. A disconnection is handled in two steps, between which the
task may look: the DHCP client is stopped, then `StaResetAddr` takes the address, and
`OnDisconnected` stores `CONNECTED`, as line 66 does.

### TrashCan and Gyro

`can` and `gy` are program counters; every sensor reading, report and flag update
is a step, and the sensors and `wifi_status` may change between any two. A report
is `<<key, value>>`, appended to `queued` when `IotSendMsg` accepts it;
`missed` records that one was due and did not get there. The strings `"true"` and
`"false"` are 1 and 0. Voltages are abstracted to the comparison with 3.0 V, pitch and
roll to the box they are in: the four "dumped" boxes take identical steps, and the
"upright" box is disjoint from them. In `Gyro`, `bus` says which of a round's reads succeed; a failed
read is 0 and nobody looks. When all accelerations are 0 the filter divides by their norm, and
`lost` says that the quaternion is NaN, which is in no box, for good. `InitMPU6050` writes
the wake-up once and ignores its result: if the write fails the chip sleeps on (`bus = "asleep"`)
and every later read finds zeros.

### Gps and SmartCan

`Gps` shows that the comparison in `gps_demo` reads a local variable nobody writes. `gps_data` therefore
stays empty, and `iot_publish_tarsh_gps`, which `app_demo_iot.c:146` calls when it is not (in builds
with `TAKE_THE_INITIATIVE_TO_REPORT`), is never called.
`SmartCan` conjoins the instances, with `wifi_status`, `queued` and `missed` shared,
and adds `DemoEntry`: nothing can be put on the queue before `IoTMain` has made it.

### NetConfig

`deal` is the service's thread in `DealSsidPwd`; `cfg[r]` is the `CfgNetTask` of request
`r`, `evt[e]` the `WifiConnectTask` of event `e`. `g_netCfg`, `g_state`,
`g_connectRetryCount`, `g_staNetif` and the registered handler are shared by all of them,
without a lock. `g_netCfg` is a record: a field is the number of the request it comes from. A request writes its
name first and the rest in a later step, while `AddDeviceConfig` of an older task reads the fields one by one; the
security type is stored over in a further step (line 255). A `WifiConnectTask` reads `g_state` twice, and tests, loads
and stores the retry count in separate steps, since a later event or request may come in between.
`late` remembers that, when an event came, some task was past its second test of `g_state` and so bound to stop DHCP
(or to count) whatever the event said: `SuccessStands` excepts these tasks, and no others. Failures may have been
reported, and DHCP stopped, any number of times before. The LED is in `Startup`, the raw data exchange in
`RawData`; `GetPinCode` copies a constant.

### IotProfile

A function that builds a tree is the list of what it asks of cJSON (`MakeKvs`,
`MakeService`, ...), and `Requests(payload)` is the whole list of a call. A task walks through it:
each request may fail, and then `ExitMem` runs the exits of the functions under way, innermost
first. `roots` holds the blocks below each function's local root, counted by the allocator
that made them; `kv`, `text` and `topic` are the locals `kv`, `msg` and `topic`.
`cJsonInit` may run at any point. The contents of the blocks are left out, the topic's among them; the lists
are why every kind of value is one kind of node. Command responses are part of the interface
(`iot_profile.h`); in this firmware only `DemoMsgRcvCallBack` would send one, and it is not registered.

### Rtc and Car

In `Rtc` the seven registers are read one by one, and the chip ticks in between. A read is a write of the chip's
register pointer and a transfer from where it points: the first may be lost alone, and then another register's
value comes; if the second fails, the code takes the register for 0. Each write of `rct_set_init` fails
on its own. `screen` holds the two rows in cells of one
character; `Redraw` lists what `rtc_timer` draws for a field, in order, because fields overlap. When a command or a
byte to the display is lost, nothing is known of any cell, while `rtc_data` says that the field was drawn; `spoiled`
are the fields not redrawn since. `int_to_char` leaves old digits behind, as the code does. In `Car`, `call[t]` is the
function of `car_control.c` that task `t` is in. `correct_car_speed` compares and stores in
separate steps, a pin is set in one step with a duty of 16 bits (`hi_u16`), and `g_car_speed` is unsigned. The driver is not in the
repository: it calls any function of `car_control.h` at any time. `write_cmd` returns
nothing when it succeeds, so `oled_init` may report either result.

### Power and Startup

`Power` runs `app_main` call by call for three builds (`Builds` in `MCDemos`); a device works when its
driver call succeeded and its clock gate is open, and a pin has an owner (`mux`) and a
configuration (`iocfg`). The chip's low-power code is external: on the way up it makes the two
calls, `peripheral_init` and `config_after_sleep`, in either order, as far as they are registered: the results of
the two registrations (`app_main.c:415`, 458) are not tested, and `Registered` says which succeeded. `Startup` writes each program
as a list of statements (`Stmt`), since what matters is which task may run between which two of
them; a failed call does nothing and mostly goes unnoticed. Only the uses of pins are left of the
loops. Two facts are exceptions in `PinsReady`: with `OHOS_SUPPORT` the LED of the provisioning
sample drives GPIO 9, the can's light sensor; and after an unchecked failure anything may follow.
The rotation demo configures pin 7 and samples the channel of pin 5, and the can configures none of
its ADC pins; a sampled pin needs only to be an input, which is the state after reset.

### The demos

`Bmp280`: a raw value is known by its age, the number of requests since its conversion was asked for; a failed read
yields the stack's bytes, or another register's if only the write of the register's address failed.
`Scale`: `chip` counts the bits the HX711 has shifted out; a task that is held up with the clock
high resets it, and one held up for as long as a conversion reads on in the next (`heldUp`). `AdcDemos`: `steady` says
that the sensor did not change in this pass.

`GpsReceiver` (in a build with `WRITE_BY_INT`; without it the task echoes): a sentence is a number of pieces, a
field with its comma each. A read takes all that waits, up to the size of the
buffer, and one shorter than `Chunk` (16 bytes) ends the sentence. `temp` has 20 bytes (`TempSize`), while at
9600 baud some 96 may wait after the pause of 100 ms; a read that overruns it, and a search of `get_gps` that finds no
comma or starts in a full buffer, leaves the task `lost`, with any position or none. `UART_BUFF_SIZE` is defined outside the repository.

`Oled`: the display keeps a page and a column; of each item any of its three commands may be lost, and one
byte, at any place, which leaves what follows elsewhere; `flaot_to_string` is computed digit by digit.

`Mpu6050`: the six reads of a round are six
steps, and the chip may never have been woken. The filter turns its estimate a fraction of the way in each round:
readings of the region the estimate is in leave it there, others may take it anywhere, to a posture that the can
never had included. Tilts near an edge or in motion are "unsettled", of which the code may judge either way.

### RawData, Hmac, Libm, Log

`RawData` follows one `RecvRawData` or `SendRawEncodeData` through each call that may fail; `spilt` is
a write past a block. Since `mbedtls_base64_encode` with no buffer answers "buffer too small", which the
code takes for an error (line 402), only an empty text ever gets further. `Hmac` computes the hex digits
of any hash. `Libm` is fixed point, in units of 2^-13; the upper word of an argument, by which
the functions choose their formula, is computed to the bit, and kinds stand for
zero, tiny, huge, infinite and NaN arguments. `Log` keeps levels as unsigned numbers of
`LevelBits` bits and separates the test of `IOT_LOG_DEBUG` from its line.

## 3. Runs

| Run | Checks | Bounds, and why they are enough |
|---|---|---|
| `pump_safe` | `TypeOK`, `OneOwner`, `ReturnCodeHonest`, `SessionTornDown`, `Conservation`, `LossEndsDrain` | one sender, the library's thread and `msgCallBack`, two calls each, the least for an order of one caller's messages; 3 buffers and a queue of 2, so that both run out with a caller waiting; the library has a thread of its own |
| `pump_live` | `ImplementsChannel`, `DrainEnds`, `Reconnects`, `Drained` | one call each, callbacks inside the yield; queue of 1, so that the pump's own callback finds it full, with the pump's hand full too |
| `net_config` | `TypeOK`, `NewestNetwork`, `FailureIsPatient` | two requests, so that the second overwrites what the first task reads; two events, one more than a budget of one retry spends; two attempts to join. The code's values, 5 and 3, only lengthen the loops |
| `net_config_one` | `SuccessStands`, `RequestAnswered` | one request, whose answer a second could take away (section 6); four events: two failures spend the budget, one finds the network, and a task of each may still be running |
| `parts` | gyroscope: `FlagCountsReports`, `DumpIsReported`; station: `StationInStep`, `BecomesReady`; report builder: `MemorySafe`, `WholeTreeSent`; clock: `ClockShown`; car: `WheelsObey`, `LowBatteryStops`; the types of all five, `PartsTypeOK` | three dump reports, so one dump is taken back and followed by another; four radio events: scan, join, leave, and one more; reports of one service with one or two values, of two services, and two command responses: every function once, twice, and not at all (reporters share nothing but the allocator, so one is enough); two seconds at the turn of a year and of a minute below ten, one register handled with any of its transfers lost, a control byte that decodes to a number; speeds of 1 and 2 with a step of 1 in 0..5, so that the subtraction wraps, and duties in 0..2 |
| `demos` | can: `LampNeedsOpenLid`, `CloudKnowsCan`; board: `BoardWakesRight`; demos: `ReadingsBelong`, `ScaleInStep`, `ShownIsSteady`, `PositionIsNew`, `DisplayHeals`, `ReportsAreNews`; start: `PinsReady`; functions: `AnglesPoint`, `BuffersFit`; the types of all thirteen, `DemosTypeOK` | see below |
| `smart_can` | `ReportsNeedNetwork`, `ReportsStayTrue` | scan, join, leave; one visit, fill change and tilt each |

The bounds of `demos`, part by part. Can: three visits and three fill reports (full, emptied, full
again). Board: one failed call, three builds. Pressure: two lost transfers, one in each of two
passes. Scale: 4 bits for 24, averages of 2 for 10, one reset, which may last as long as a conversion; that spoils two
readings, whatever their length. ADC demos: two levels, two samples a pass. GPS: a full read has 2 pieces, `temp` 3 and the UART
4, so that a read can overrun; the buffer 11, one sentence of 8 (the shortest that all seven commas fit in) and a
short one, or two cut ones; two sentences. Display: one
voltage above and one below the limit of 6.9 V, one lost transfer, any of them (the theorem has any number).
Stand-alone gyroscope: two reports, three lost reads, which make one acceleration of 0. Start: two failed calls. Angles: every
multiple of 1/32 up to 4 for one argument and of 1/4 for two, with the special kinds. Raw data: blocks of up to 5 around a
limit of 3. Password: hashes of two bytes whose nibbles are 0, 9, a and f, and buffers one too
small, exact and one too large. Logs: 4-bit levels from -1 to 7.

`CHECK_DEADLOCK FALSE` stands in the two provisioning runs alone: a service that is stopped, or has had
its requests, leaves nothing to do. All other runs check for deadlock; where tasks only wait
or have returned, a step that says so (`Polls`, `Over`) stands for it. `MaxCalls`, `MaxEvents`, `MaxRequests`,
`MaxVisits`, `MaxReports`, `MaxDumps`, `MaxTicks`, `MaxResets`, `MaxSentences`, and `MaxFails` and
`MaxFaults` under the names above bound otherwise endless behaviours.

Five runs end in a violation, each a disagreement between the code and what the
repository says of it (`findings` in `PROJECT.json` quotes the line):

- `wifi_status`: a disconnection is stored as `CONNECTED` (`iot_sta.c:66`). TLC's
  trace: scan, join, lose the access point, and the status says connected.
- `trash_can_full`: a can that fills up offline sets `full_flag`, and is never
  reported, although it stays full and the WiFi comes back and stays.
- `gyro_upright`: the report for "publish not demped" carries the value `"true"`.
- `gps_start`: no behaviour creates the GPS task.
- `smart_can_first`: the can's task calls `IotSendMsg` between the join and
  `IoTMain`, which `iot_main.h` asks to be called first.

## 4. Fairness

`IotMain!FairSpec` gives weak fairness to the pump's task, to `IoTMain`, and to the
end of each wait in `hi_msg_queue_send`: a preemptive scheduler runs what can run,
and `CN_QUEUE_WAITTIMEOUT` bounds the wait. None is given to the callers, to the broker or to the
link. `Drained` therefore assumes `<>[](client = "connected")`. `WifiSta!FairSpec` adds
that a running scan ends, queued events are delivered and a DHCP client on a live
link gets its lease (`PartsSpec` says the same of the station's part); `BecomesReady` assumes that the station joined and stays. The
tasks of the can, the gyroscope and the battery are weakly fair, as endless loops are.
`NetConfig!FairSpec` says that a task that was created runs; the service need not ask,
and the radio need not join, so `RequestAnswered` assumes that it does in the end.
`LowBatteryStops` assumes that `oled_init` reports success once, that the voltage stays low
and that the driver stops calling.

## 5. Proofs

TLAPS proves the following for every value of the constants: any set of tasks, queue and heap
size, any number of visits, events, requests and failed calls, buffers, word lengths and limits of
any size. 8 modules hold the theorems; `theorems` in `PROJECT.json` lists them.

| Module | Theorem | States |
|---|---|---|
| `IotMainProofs` | `TypeCorrect`, `BuffersOwned`, `MessagesConserved` | `Spec => []TypeOK`, `[]OneOwner`, `[]Conservation` |
| | `PumpImplementsChannel` | `Spec => ImplementsChannel`, the refinement |
| | `SessionsTornDown`, `LossesEndDrains`, `ReturnCodesHonest` | `[]SessionTornDown`, `[]LossEndsDrain`, `[]ReturnCodeHonest` |
| `NetConfigProofs` | `TypeCorrect`, `NetworkIsNewest`, `FailuresArePatient`, `SuccessLasts` | `[]TypeOK`, `[]NewestNetwork`, `[]FailureIsPatient`, `[]SuccessStands` |
| `WifiStaProofs` | `ScansNotLost`, `AddressesNeedLink` | both halves of `StationInStep` |
| `TrashCanProofs` | `TypeCorrect`, `LampsNeedOpenLids`, `CountsFollow`, `LevelsKnown` | `[]TypeOK`, `[]LampNeedsOpenLid`, both halves of `CloudKnowsCan` |
| `GyroProofs` | `TypeCorrect`, `FlagsCountReports` | `[]TypeOK`, `[]FlagCountsReports` |
| `SmartCanProofs` | `ReportsFollowNetwork`, `SharedQueueTrue` | `[]ReportsNeedNetwork`, `[]ReportsStayTrue` of the composition |
| `PartsProofs` | `StationKeepsStep`, `WheelsAlwaysObey`, `ClockAlwaysShown`, `PartsTypesHold` | `[]StationInStep`, `[]WheelsObey`, `[]ClockShown`, `[]PartsTypeOK` |
| | `MemoryAlwaysSafe`, `WholeTreesSent` | `[]MemorySafe`, `[]WholeTreeSent` |
| `DemosProofs` | `CloudAlwaysKnows`, `BoardAlwaysWakesRight`, `ReadingsAlwaysBelong`, `ScaleKeepsStep`, `SteadyIsShown`, `BuffersAlwaysFit` | the invariants `CloudKnowsCan`, `BoardWakesRight`, `ReadingsBelong`, `ScaleInStep`, `ShownIsSteady`, `BuffersFit` |
| | `PinsAlwaysReady`, `DisplayAlwaysHeals` | the invariants `PinsReady`, `DisplayHeals` |
| | `TypesAlwaysHold` | `[](part # "math" => DemosTypeOK)`: the types of every part but the angle functions |
| | `ReportsAlwaysNews`, `PositionsAlwaysNew` | the action properties `ReportsAreNews`, `PositionIsNew` |

Each rests on an inductive invariant, whose definition stands before its lemmas: one lemma that it
holds initially, one that each action preserves it, and the theorem that puts them together.
What had to be added to the property, and why:

- The pump. `TypeOK` alone is not inductive: nothing in it says that a sending producer holds a
  buffer, or that the pump holds one while it dispatches. `Shape` adds `Pointers`, which says where
  each pointer is not NULL. `OneOwner` is inductive relative to `Shape`: each action moves one buffer from
  one owner to the next, and an allocated buffer is known to have had none. `Conservation` needs
  both: that a caller or `hi_free` leaves the contents of a queued buffer alone follows from its
  having another owner. The refinement maps `pending` to the message in hand followed by the queue,
  with capacity `QueueCap + 1`. `DrainInv` adds what `ret` means between publication and release
  (the code uses it for the queue wait too); `Numbered` that a message carries the number of
  its call from the allocation on, so that no other call can answer for it.
- Provisioning. The retry count is read, tested and stored without a lock. `Counting` bounds it and every
  loaded copy by the number of tasks that are through: a lost update only makes it smaller. From that,
  a failure is told only after more than `TEST_CONNECT_RETRY_COUNT` events. That a success lasts rests on `Success`:
  once the latest event found the network, no task reads a state that lets it stop DHCP (`NoneDeciding`, where
  `late` did not except it), and what the last task to test tells is the success, which nothing told later
  replaces (`ToldStays`). `Newest` says what has been written of `g_netCfg` at each point of the copy.
- The can. A count is sent while the lid is open; `Opened` takes the one under way off `g_num`. `Visits` says that a visitor
  who was counted stands before an open lid until the sensor has lost him once, which keeps the count within bounds. The reports
  of a key are a set of positions in the queue, so that a report of another task leaves `Counted`
  and `LevelsTold` alone: this is what `SmartCanProofs` composes. There `Up` says that nothing is queued
  before `DemoEntry` found the station ready, and that a ready station stays so.
- The car. `CarInv` follows a pattern of four pins from pin to pin (`IsSet`); `SpeedOK` keeps
  `g_car_speed` in range although two tasks compare and store it in separate steps.
- Reports and responses. A payload is a list of requests on a tree, and the code walks its roots one inside
  the other. `ProfileInv` says that the list is such a walk (`IsWalk`: the roots in progress before and after each
  request, so that every node has a root to be added to and a value is followed by its key), that each call stands
  somewhere on it, and that the nodes it has built are those counted. The blocks of a call that began after `cJsonInit`
  come from `hi_malloc`; only a call that began before may mix them (`HooksOK`, `OwnAllocator`). Services and values may be
  any number: what `FlattenSeq` and `InRoots` compute of them is proved by a least-length argument on
  a table of partial sums (`LeastNat`, `TableUnique`, `FlattenIn`), and walks one after the other are a walk (`WalkOn`).
- The clock. `ClockInv` says that a field shows what it was last drawn from, as far as no other field was drawn over it
  since and no transfer was lost (`spoiled`), and that while nothing changes during a pass, the fields drawn so far show
  one time, which needs the chip's pointer to be where the pass believes it. A string keeps at most old
  digits behind the number last printed into it (`TextOK`). This is where a year of 00 came to light,
  which is never drawn: no run reaches it, and `ClockShown` now excepts it.
- Start-up. Every task that configures a pin gives it the same function and direction, so that nobody takes a
  set-up pin away. `Knows` says what each task has configured before each of its statements.
- Types. `PartsTypesHold` follows from the invariants of the parts; `TypesInv` strengthens the types of the demos where
  they are not inductive alone: a round of the gyroscope has no more zeros than reads (`MpuTyped`), what is
  left to draw fits the display (`OledTyped`), a sleeping board has saved its pins (`PinsTyped`).
- The display of the battery demo. While a pass has lost nothing, what is left to draw is the rest of its line, and what was
  drawn and is not to be drawn over is on the display (`OledInv`). It needs a voltage of at most 13 bits
  of 4 mV, which is what the converter gives (`OledAssumption`, `app_demo_io_gpio.c:583`).
- Deep sleep. `PowerInv` says what is saved of a sleeping board and, for each of the two calls of the
  way up, what it has brought back, if it is registered: the order is then of no matter. That both registrations
  were tried before the command that allows deep sleep comes from the order of `app_main`. `OneFails` names the error of a device.
- The demos. The invariants say what a loop knows at each of its points: which conversion the
  BMP280 works on (`AirFaultless`), how many bits the HX711 has sent, or that it was reset and is silent, or how
  many readings are still out of step (`ScaleInv`), that a can which rested since the last report where its estimate
  was has readings of that region only (`MpuInv`), that the pieces in the GPS buffer are in order, older than
  those in the UART and not older than the last parse, while the task is not lost (`GpsInv`), that a hash fits a buffer that passed the
  guard and that nothing is written before (`HmacInv`).

The assumptions are the named ones of the modules: that bounds are natural numbers, a queue has room, the buffer of a
receiver holds a piece, and so on; each is what the code has as a constant or a type, and TLC evaluates each.

In `MCParts` and `MCDemos` a theorem about a part says `part = ... => invariant`: `PartsStep` and
`DemosStep` show that a step of the whole is a step of the part or leaves it alone.

### Checked by TLC only

- All liveness: `DrainEnds`, `Reconnects`, `Drained`, `RequestAnswered`, `DumpIsReported`,
  `BecomesReady`, `LowBatteryStops`. Fairness and ENABLED are beyond TLAPS.
- `AnglesPoint`: a numerical fact about the polynomials, true for the magnitudes tried and not by algebra.
- The arm of `DemosTypeOK` for the angle functions: `angle.mag <= pi` is a fact of the same kind, and `HighWord` computes
  with powers of 2, of which the provers know nothing.

A note on the provers: Z3 is not given a hypothesis `x' = IF b THEN "s" ELSE "t"`, which its translation
rejects, nor an equation of two CASE expressions; such leaves are Zenon's. Induction is used in its
set form only, a least element of a set of naturals (`LeastNat`).

## 6. Limits

- The bounded number of calls ends every burst of messages. The model therefore cannot show
  whether producers could keep a drain going and so delay `MQTTClient_yield`.
- `MQTTClient_disconnect` may fail; the code ignores it and destroys the client, so the
  model lets it succeed.
- Before `IoTMain`, `queueID` is 0. The model lets a send fail then; on the
  board 0 might name another queue of the system.
- The WiFi driver, DHCP, the MQTT library, the sensors and the OS are external and
  modelled from how the code uses them.
- `RequestAnswered` speaks of a single request: with two, a late result of the first
  unregisters the handler of the second (`network_config_sample.c:141`).
- `SuccessStands` excepts the tasks that were past their second test of `g_state` when the network was found (`late`):
  one of them may stop DHCP afterwards, and does in the model. `NewestNetwork` speaks of the name and the key
  one by one; the security type may be of another request (line 255).
- `ClockShown` leaves out what the code cannot show: a minute or hour of 0 (`int_to_char`
  yields no digit), a year of 00, since `rtc_data` starts with 0 (no redraw),
  and a second next to a minute that was redrawn after it. It also leaves out a field that was drawn before or with a
  lost transfer to the display: the code draws it again only when its register changes. A byte that decodes to
  three digits, which only another register's value could be, would overrun its string and is not followed.
  A failed `oled_init` is not modelled apart: all cells are then unknown.
- `PositionIsNew` ends where the behaviour of the GPS task is undefined: after a read that overruns `temp` or a search
  that finds no comma. `ReportsAreNews` does not say that a report is true: the estimate may pass through
  postures the can never had, and the stand-alone demo reports them.
- The scale and the ADC demos are modelled with a display that does not lose transfers. In `Oled`, an item loses any of
  its commands and at most one byte. A conversion does not disturb a transfer that the HX711 has begun.
- `TrashCan!Report` and `Gyro!ReportDumped` test `wifi_status` and send in one step. The send does not look at the
  status, so a change in between has the effect of one right after.
- `WheelsObey` does not forbid the wrap of the speed (`car_control.c:26`), nor `BoardWakesRight` the two swapped
  error bits (`app_main.c:241`, 245): no comment says otherwise.
- `ReadingsBelong` excepts the first pass of the air pressure demo, which may print what the registers hold after the
  reset: the set-up leaves the chip in its sleep mode, so that its last wait (`app_demo_bmp280.c:142`) prepares no
  value, although the comment of line 141 says that it makes the first one stable.
- `AnglesPoint` allows an error of a few units of 2^-13; the last bits of a double are not modelled.
- `Startup` leaves out builds with UART2, SPI, I2S or SDIO, which give pins 9 to 14 to those. In
  `Power` they are there.
- `LowBatteryStops` and `Oled` take the 27 commands of `oled_init` for one step that may fail.
- `FreedAsMade` confines, and does not exclude, the mixing of allocators: a call that began
  before `cJsonInit` may free with `hi_free` what `malloc` made.

### Not modelled

- `mpu6050/src/math.h` (3300 lines, twice) and most of `libm.h` declare functions the firmware does not
  call, and select among them by type: about half of the lines under `src/`. Of the two copies of the
  angle functions, which are identical byte for byte, the trash can's is the one mapped.
- `hi_wifi_stop_sta` (`iot_sta.c`) and `colorful_light_stepless_dimming` (rotation demo) have no caller;
  `DemoMsgRcvCallBack` (`app_demo_iot.c`) is not registered; `iot_publish_tarsh_gps` is called when `gps_data` is
  filled, which it never is (`gps_start`).
- The arithmetic of the attitude filter and of the BMP280's compensation: real arithmetic, abstracted to what the
  result depends on.
- The texts of the logs, the fonts, and the build scripts.

## 7. Plan

Every component with behaviour of its own has a module, and the safety properties of the firmware's own tasks
are theorems. What is left:

1. That `SmartCan` implements `TrashCan` and `Gyro`, up to the reports of the other task. Its invariants are
   already theirs (`SmartCanProofs` composes `CanInv` and the gyroscope's).
2. A bound on the angles that does not need powers of 2: the exponent as a field of the double.
