------------------------------ MODULE MCDemos ------------------------------
(***************************************************************************)
(* The parts that keep to themselves: the trash can alone, the start of    *)
(* the programs, the board's power, the demos (one task and its chip       *)
(* each), and the functions that keep no state between calls.  A behaviour *)
(* picks one of them and runs it; the others keep one initial state.       *)
(***************************************************************************)
EXTENDS TrashCan

VARIABLES
  part,
  build, boot, services, state, handlers, sleep_type, g_have_inited, gates, working,
  saved, mux, iocfg, g_iocfg_backup, err_info, powerFaults, failing, slept,
  bmp, rbuf, trim, raw, burst, t_fine, press_cal, first, ctrl_meas, converting, result,
  bmpFaults,
  scale, i, exact, based, seen, taken, weight, display, load, chip, latched, resets, heldUp,
  demo, adc, k, data, level, wet, bright, vlt_max, vlt_min, printed, adcOled, adcLamp, steady,
  reader, uart_buff, offset, gps_data, fifo, sending, parsed,
  oled, led_test, todo, vstr, voltage, screen, cursor, oledFaults, clean,
  mpu, reads, awake, tilt, acc, zeros, estimate, flag_demped, published, mpuFaults,
  tainted, been,
  mathFn, argY, argX, angle,
  starter, i2c, ohos, running, at, pinFn, dir, bus, locked, startFaults, ignored,
  rawAt, rawText, decodeLen, outLen, buf, live, spilt, replies,
  hmacAt, bufLen, pwd, hash, context, ret,
  gIoTLogLevel, accepted, tested, line

CONSTANTS
  PowerBound, BmpBound, OledBound, MpuBound, StartBound,    \* failed calls, by part
  Bits, Readings, MaxResets, Levels, MaxLevel, Samples,
  Chunk, TempSize, BufferSize, FifoSize, MaxSentence, MaxSentences, Voltages, MpuReports,
  Step, Coarse, Limit, MAX_DATA_LEN, MaxLen, CN_HMAC256_LEN, BufLengths, HashBytes,
  LevelBits, MaxLevelArg

\* Little built in; almost everything; and PWM that holds its output, over
\* which the reset of the chip has no power.
Builds ==
  {{"UART0", "I2C"},
   {"UART2", "DMA", "I2C", "I2S", "SPI", "PWM", "SDIO"},
   {"PWM", "PWM_HOLD", "SPI"}}

Pwr == INSTANCE Power WITH MaxFaults <- PowerBound, faults <- powerFaults
Air == INSTANCE Bmp280 WITH MaxFaults <- BmpBound, faults <- bmpFaults
Hx  == INSTANCE Scale
Adc == INSTANCE AdcDemos WITH oled <- adcOled, lamp <- adcLamp
Gps == INSTANCE GpsReceiver
Dis == INSTANCE Oled WITH MaxFaults <- OledBound, faults <- oledFaults
Gy  == INSTANCE Mpu6050 WITH MaxReports <- MpuReports, MaxFaults <- MpuBound,
                             faults <- mpuFaults
Mth == INSTANCE Libm WITH fn <- mathFn
St  == INSTANCE Startup WITH MaxFaults <- StartBound, faults <- startFaults, fn <- pinFn
Raw == INSTANCE RawData WITH data <- rawText
Hm  == INSTANCE Hmac
Lg  == INSTANCE Log

ASSUME PowerAssumption   == Pwr!FaultsAssumption
ASSUME BmpAssumption     == Air!FaultsAssumption
ASSUME ScaleAssumption   == Hx!ScaleAssumption
ASSUME AdcAssumption     == Adc!AdcAssumption
ASSUME GpsAssumption     == Gps!GpsAssumption
ASSUME DisplayAssumption == Dis!OledAssumption
ASSUME MpuAssumption     == Gy!MpuAssumption
ASSUME LibmAssumption    == Mth!LibmAssumption
ASSUME StartAssumption   == St!StartAssumption
ASSUME RawAssumption     == Raw!RawAssumption
ASSUME HmacAssumption    == Hm!HmacAssumption
ASSUME LogAssumption     == Lg!LogAssumption

powerVars == <<build, boot, services, state, handlers, sleep_type, g_have_inited, gates,
               working, saved, mux, iocfg, g_iocfg_backup, err_info, powerFaults, failing, slept>>
bmpVars == <<bmp, rbuf, trim, raw, burst, t_fine, press_cal, first, ctrl_meas, converting,
             result, bmpFaults>>
scaleVars == <<scale, i, exact, based, seen, taken, weight, display, load, chip, latched, resets,
               heldUp>>
adcVars == <<demo, adc, k, data, level, wet, bright, vlt_max, vlt_min, printed, adcOled,
             adcLamp, steady>>
gpsVars == <<reader, uart_buff, offset, gps_data, fifo, sending, parsed>>
oledVars == <<oled, led_test, todo, vstr, voltage, screen, cursor, oledFaults, clean>>
mpuVars == <<mpu, reads, awake, tilt, acc, zeros, estimate, flag_demped, published, mpuFaults,
             tainted, been>>
mathVars == <<mathFn, argY, argX, angle>>
startVars == <<starter, i2c, ohos, running, at, pinFn, dir, bus, locked, startFaults, ignored>>
rawVars == <<rawAt, rawText, decodeLen, outLen, buf, live, spilt, replies>>
hmacVars == <<hmacAt, bufLen, pwd, hash, context, ret>>
logVars == <<gIoTLogLevel, accepted, tested, line>>
demoVars == <<bmpVars, scaleVars, adcVars, gpsVars, oledVars, mpuVars>>
callVars == <<mathVars, startVars, rawVars, hmacVars, logVars>>
allVars == <<part, trashVars, powerVars, demoVars, callVars>>

\* A display that is off, for the other parts.
OledOff ==
  /\ oled = "off" /\ led_test = 0 /\ todo = <<>> /\ vstr = <<>> /\ voltage = 0
  /\ screen = <<>> /\ cursor = <<>> /\ oledFaults = 0 /\ clean = FALSE

DemosInit ==
  /\ part \in {"can", "power", "air", "scale", "adc", "gps", "oled", "mpu",
               "math", "start", "raw", "hmac", "log"}
  /\ Init /\ Pwr!Init /\ Air!Init /\ Hx!Init /\ Adc!Init /\ Gps!Init /\ Gy!Init
  /\ Mth!Init /\ St!Init /\ Raw!Init /\ Hm!Init /\ Lg!Init
  /\ IF part = "oled" THEN Dis!Init ELSE OledOff
  /\ part # "can" => ~person /\ ~night /\ ~full
  /\ part # "power" => build = {"UART0", "I2C"}
  /\ part # "air" => rbuf = "meas"
  /\ part # "scale" => load = "none"
  /\ part # "adc" => demo = "light" /\ \A l \in Levels : level <= l
  /\ part # "mpu" => tilt = "upright"
  /\ part # "start" => starter = "lightsensor" /\ ~i2c

Only(p) == part = p /\ UNCHANGED part

CanPart ==
  Only("can") /\ UNCHANGED <<powerVars, demoVars, callVars>>
PowerPart ==
  Only("power") /\ UNCHANGED <<trashVars, demoVars, callVars>>
AirPart ==
  Only("air") /\ UNCHANGED <<trashVars, powerVars, scaleVars, adcVars, gpsVars, oledVars, mpuVars, callVars>>
ScalePart ==
  Only("scale") /\ UNCHANGED <<trashVars, powerVars, bmpVars, adcVars, gpsVars, oledVars, mpuVars, callVars>>
AdcPart ==
  Only("adc") /\ UNCHANGED <<trashVars, powerVars, bmpVars, scaleVars, gpsVars, oledVars, mpuVars, callVars>>
GpsPart ==
  Only("gps") /\ UNCHANGED <<trashVars, powerVars, bmpVars, scaleVars, adcVars, oledVars, mpuVars, callVars>>
OledPart ==
  Only("oled") /\ UNCHANGED <<trashVars, powerVars, bmpVars, scaleVars, adcVars, gpsVars, mpuVars, callVars>>
MpuPart ==
  Only("mpu") /\ UNCHANGED <<trashVars, powerVars, bmpVars, scaleVars, adcVars, gpsVars, oledVars, callVars>>
MathPart ==
  Only("math") /\ UNCHANGED <<trashVars, powerVars, demoVars, startVars, rawVars, hmacVars, logVars>>
StartPart ==
  Only("start") /\ UNCHANGED <<trashVars, powerVars, demoVars, mathVars, rawVars, hmacVars, logVars>>
RawPart ==
  Only("raw") /\ UNCHANGED <<trashVars, powerVars, demoVars, mathVars, startVars, hmacVars, logVars>>
HmacPart ==
  Only("hmac") /\ UNCHANGED <<trashVars, powerVars, demoVars, mathVars, startVars, rawVars, logVars>>
LogPart ==
  Only("log") /\ UNCHANGED <<trashVars, powerVars, demoVars, mathVars, startVars, rawVars, hmacVars>>

DemosNext ==
  \/ CanPart /\ Next
  \/ PowerPart /\ Pwr!Next
  \/ AirPart /\ Air!Next
  \/ ScalePart /\ Hx!Next
  \/ AdcPart /\ Adc!Next
  \/ GpsPart /\ Gps!Next
  \/ OledPart /\ Dis!Next
  \/ MpuPart /\ Gy!Next
  \/ MathPart /\ Mth!Next
  \/ StartPart /\ St!Next
  \/ RawPart /\ Raw!Next
  \/ HmacPart /\ Hm!Next
  \/ LogPart /\ Lg!Next

DemosSpec == DemosInit /\ [][DemosNext]_allVars

----------------------------------------------------------------------------
\* The types of the part that runs.
DemosTypeOK ==
  CASE part = "can"   -> TypeOK
    [] part = "power" -> Pwr!TypeOK
    [] part = "air"   -> Air!TypeOK
    [] part = "scale" -> Hx!TypeOK
    [] part = "adc"   -> Adc!TypeOK
    [] part = "gps"   -> Gps!TypeOK
    [] part = "oled"  -> Dis!TypeOK
    [] part = "mpu"   -> Gy!TypeOK
    [] part = "math"  -> Mth!TypeOK
    [] part = "start" -> St!TypeOK
    [] part = "raw"   -> Raw!TypeOK
    [] part = "hmac"  -> Hm!TypeOK
    [] part = "log"   -> Lg!TypeOK

\* What the cloud hears of the can, its openings and its level, is true and
\* complete (TrashCan).
CloudKnowsCan == CountsFollowOpenings /\ CloudKnowsLevel

\* The board wakes with the pins and devices it fell asleep with, and the errors
\* of its peripherals are in err_info (Power).
BoardWakesRight == part = "power" => Pwr!WakesAsItSlept /\ Pwr!ErrorsCollected

\* A pressure and the temperature that corrects it are of one burst (Bmp280).
ReadingsBelong == part = "air" => Air!ReadingsBelong

\* The task and the HX711 do not get out of step (Scale).
ScaleInStep == part = "scale" => Hx!ScaleInStep

\* A sensor steady for a pass is what is shown (AdcDemos).
ShownIsSteady == part = "adc" => Adc!ShownIsSteady

\* As long as no read overruns its buffer, a position is new, and of one
\* sentence or of two in order (GpsReceiver).
PositionIsNew == Gps!PositionIsNew

\* One pass without a loss repairs the display (Oled).
DisplayHeals == part = "oled" => Dis!DisplayHeals

\* A can that rests where the estimate has it is not reported again (Mpu6050).
ReportsAreNews == Gy!ReportsAreNews

\* Pitch and roll are the angles of the vector they are computed from (Libm).
AnglesPoint == part = "math" => Mth!AnglesPoint

\* No task uses a pin or the bus before it is set up, or after another took
\* it (Startup).
PinsReady == part = "start" => St!PinsReady

\* Whatever fails on the way, memory is freed and neither buffers nor tables
\* are overrun, and a password that is one reads as its hash (RawData, Hmac,
\* Log).
BuffersFit == /\ part = "raw" => Raw!RawReleased
              /\ part = "hmac" => Hm!PwdReads
              /\ part = "log" => Lg!LogNamed
=============================================================================
