-------------------------------- MODULE Rtc --------------------------------
(***************************************************************************)
(* The clock demo (HiSpark_Pegasus_RTC_Driver/app_demo_rtc.c).             *)
(*                                                                         *)
(* rtc_timer reads the seven registers of a DS1307 one after the other,    *)
(* and redraws a field of the display when its register changed.  The chip *)
(* keeps its time without power and ticks whenever it likes.  A character  *)
(* is 8 pixels wide, so column x of the code is cell x \div 8 here; a cell *)
(* of the display's memory holds a digit, or one of the codes below.       *)
(*                                                                         *)
(* No transfer on the bus is checked where it matters: a lost write of the *)
(* chip's register pointer leaves the pointer where it was, and a lost     *)
(* command or byte to the display may put what is drawn anywhere.          *)
(***************************************************************************)
EXTENDS Integers, Sequences

CONSTANTS
  Starts,     \* times the chip may hold when the task starts
  SetTime,    \* the time rct_set_init writes
  MaxTicks,   \* bound: seconds that pass in a behaviour
  Others,     \* what the chip's bytes beyond its seven registers may hold
  MaxFails    \* bound: registers handled with a transfer lost

\* The registers in the order of the code: rct_reg is the index less one.
Regs == <<"second", "minute", "hour", "day", "date", "month", "year">>
Fields == {Regs[n] : n \in 1..7}

Blank == 10
Colon == 11
Dash == 12
Letter == 13
Unknown == 14   \* whatever a lost transfer or the power-up left there

VARIABLES
  rtc,        \* program point: 0 before rct_set_init, then the register to read
  time,       \* the chip's registers
  ticks,      \* seconds passed
  fails,      \* registers handled with a transfer lost
  pointer,    \* the chip's register pointer: the byte it would read next
  rtc_data,   \* what each field was drawn from, in BCD
  ch,         \* ch_second, ch_minute, ...: the strings up to their zero byte
  screen,     \* rows 5 and 6 of the display
  steady,     \* history: no tick and no failed read since the pass began
  over,       \* history: the minute was redrawn after the second
  spoiled     \* history: fields not redrawn since a transfer to the display was lost

rtcVars == <<rtc, time, ticks, fails, pointer, rtc_data, ch, screen, steady, over, spoiled>>

\* The chip has 64 bytes: its registers, a control byte and RAM.
Bytes == 64

Init ==
  /\ rtc = 0 /\ time \in Starts /\ ticks = 0 /\ fails = 0 /\ pointer \in 0..Bytes - 1
  /\ rtc_data = [f \in Fields |-> 0] /\ ch = [f \in Fields |-> <<>>]
  /\ screen = [p \in (5..6) \X (0..15) |-> Unknown] /\ spoiled = Fields
  /\ steady = FALSE /\ over = FALSE

----------------------------------------------------------------------------
\* ds1307_i2c_write and rtc_timer, on the two digits of a register.
ToBcd(v) == (v \div 10) * 16 + (v % 10)
FromBcd(raw) == (raw \div 16) * 10 + (raw % 16)

\* A byte that decodes to three digits would overrun the three bytes of its
\* string; such bytes are not followed.
BoundsAssumption ==
  /\ MaxTicks \in Nat /\ MaxFails \in Nat
  /\ Others \subseteq 0..255 /\ \A raw \in Others : FromBcd(raw) <= 99

Digits(v) ==
  IF v = 0 THEN <<>> ELSE IF v < 10 THEN <<v>> ELSE <<v \div 10, v % 10>>

\* int_to_char writes the digits of v, none for 0, and no zero byte: what was
\* longer keeps its tail.
int_to_char(v, str) ==
  Digits(v) \o SubSeq(str, Len(Digits(v)) + 1, Len(str))

Put(row, col, str) == [row |-> row, col |-> col, str |-> str]

Covers(put, p) == p[1] = put.row /\ p[2] - put.col + 1 \in DOMAIN put.str

\* oled_show_str, string after string: a cell shows the last one drawn over it.
oled_show_str(scr, puts) ==
  [p \in DOMAIN scr |->
     LET drawn == {n \in DOMAIN puts : Covers(puts[n], p)}
         last == puts[CHOOSE n \in drawn : \A m \in drawn : m <= n]
     IN IF drawn = {} THEN scr[p] ELSE last.str[p[2] - last.col + 1]]

\* A number of two digits: below ten a "0" is drawn before its own.
Zero(row, col, v) == Put(row, col, IF v < 10 THEN <<0>> ELSE <<>>)
Number(row, col, v, str) == Put(row, IF v < 10 THEN col + 1 ELSE col, str)

\* Seeded fault: the colon after the minute is drawn first.
Redraw_ColonFirst(f, v, str) ==
  CASE f = "second" -> <<Zero(6, 6, v), Number(6, 6, v, str), Put(6, 8, <<Blank>>)>>
    [] f = "minute" -> <<Put(6, 5, <<Colon>>), Zero(6, 3, v), Number(6, 3, v, str), Put(6, 7, <<0>>)>>
    [] f = "hour"   -> <<Zero(6, 0, v), Number(6, 0, v, str), Put(6, 2, <<Colon>>), Put(6, 8, <<Blank>>)>>
    [] f = "day"    -> <<Put(6, 9, [i \in 1..5 |-> Letter]), Put(6, 14, str)>>
    [] f = "date"   -> <<Zero(5, 8, v), Number(5, 8, v, str), Put(5, 10, <<Blank>>)>>
    [] f = "month"  -> <<Zero(5, 5, v), Number(5, 5, v, str), Put(5, 7, <<Dash>>)>>
    [] f = "year"   -> <<Put(5, 0, <<2, 0>>), Put(5, 2, str), Put(5, 4, <<Dash>>), Put(5, 10, <<Blank>>)>>

\* What rtc_timer shows for a field that changed, in order.
Redraw(f, v, str) ==
  CASE f = "second" -> <<Zero(6, 6, v), Number(6, 6, v, str), Put(6, 8, <<Blank>>)>>
    [] f = "minute" -> <<Zero(6, 3, v), Number(6, 3, v, str), Put(6, 5, <<Colon>>), Put(6, 7, <<0>>)>>
    [] f = "hour"   -> <<Zero(6, 0, v), Number(6, 0, v, str), Put(6, 2, <<Colon>>), Put(6, 8, <<Blank>>)>>
    [] f = "day"    -> <<Put(6, 9, [i \in 1..5 |-> Letter]), Put(6, 14, str)>>
    [] f = "date"   -> <<Zero(5, 8, v), Number(5, 8, v, str), Put(5, 10, <<Blank>>)>>
    [] f = "month"  -> <<Zero(5, 5, v), Number(5, 5, v, str), Put(5, 7, <<Dash>>)>>
    [] f = "year"   -> <<Put(5, 0, <<2, 0>>), Put(5, 2, str), Put(5, 4, <<Dash>>), Put(5, 10, <<Blank>>)>>

----------------------------------------------------------------------------
\* Failures are counted against the bound.
Faults(none) ==
  IF none THEN UNCHANGED fails ELSE fails < MaxFails /\ fails' = fails + 1

\* rct_set_init: a write that fails is logged, and the register stays.  After
\* the last write that succeeds the chip points past its register.
rct_set_init(failed) ==
  /\ time' = [f \in Fields |-> IF f \in failed THEN time[f] ELSE SetTime[f]]
  /\ \/ failed = Fields /\ UNCHANGED pointer
     \/ \E n \in DOMAIN Regs :
          /\ Regs[n] \notin failed /\ \A m \in n + 1..Len(Regs) : Regs[m] \in failed
          /\ pointer' = n

\* oled_fill_screen: a lost transfer leaves cells as they were, or clears
\* another row's.
oled_fill_screen(done) ==
  /\ screen' = [p \in DOMAIN screen |-> IF done THEN Blank ELSE Unknown]
  /\ spoiled' = IF done THEN {} ELSE Fields

\* rtc_timer before its loop.
Setup ==
  /\ rtc = 0 /\ rtc' = 1
  /\ \E failed \in SUBSET Fields, done \in BOOLEAN :
       rct_set_init(failed) /\ oled_fill_screen(done) /\ Faults(failed = {} /\ done)
  /\ UNCHANGED <<ticks, rtc_data, ch, steady, over>>

\* A register's new contents are decoded and drawn; int_to_char works in place.
\* When a command or a byte is lost in between (write_cmd, write_data), nothing
\* is known of any cell, and rtc_data says that the field was drawn.
ReadAndShow(raw, drawn) ==
  LET f == Regs[rtc]
      v == FromBcd(raw)
      str == int_to_char(v, ch[f])
  IN IF raw = rtc_data[f]
       THEN drawn /\ UNCHANGED <<rtc_data, ch, screen, over, spoiled>>
       ELSE /\ rtc_data' = [rtc_data EXCEPT ![f] = raw]
            /\ ch' = [ch EXCEPT ![f] = str]
            /\ screen' = IF drawn THEN oled_show_str(screen, Redraw(f, v, str))
                                  ELSE [p \in DOMAIN screen |-> Unknown]
            /\ spoiled' = IF drawn THEN spoiled \ {f} ELSE Fields
            /\ over' = IF f = "minute" THEN TRUE ELSE IF f = "second" THEN FALSE ELSE over

Contents(p) == IF p < Len(Regs) THEN {ToBcd(time[Regs[p + 1]])} ELSE Others

\* The register's address is written (ds1307_i2c_write), which may be lost, and
\* the byte at the pointer read; reading moves the pointer on.  ds1307_read
\* clears the buffer first, so that a failed read yields 0.  (The clearing takes
\* four bytes where the buffer has two; the stack slots of the chip's ABI are
\* words, so that the other two are padding.)
ds1307_read(raw, moved, came) ==
  LET p == IF moved THEN rtc - 1 ELSE pointer
  IN /\ raw \in IF came THEN Contents(p) ELSE {0}
     /\ pointer' \in {(p + 1) % Bytes} \cup (IF came THEN {} ELSE {p})
     /\ steady' = (moved /\ came /\ (steady \/ rtc = 1))

\* One register of a pass; a new pass begins with the second's.
rtc_timer ==
  /\ rtc > 0
  /\ rtc' = (rtc % Len(Regs)) + 1
  /\ \E raw \in {0} \cup UNION {Contents(p) : p \in 0..Len(Regs)}, moved, came, drawn \in BOOLEAN :
       ds1307_read(raw, moved, came) /\ ReadAndShow(raw, drawn) /\ Faults(moved /\ came /\ drawn)
  /\ UNCHANGED <<time, ticks>>

\* The chip's calendar; every month has 31 days here.
LastUnit(f) ==
  CASE f \in {"second", "minute"} -> 59 [] f = "hour" -> 23 [] f = "day" -> 7
    [] f = "date" -> 31 [] f = "month" -> 12 [] f = "year" -> 99

Restart(f) == IF f \in {"day", "date", "month"} THEN 1 ELSE 0

Turns(f) == \* the fields below f all start again
  LET below == CASE f = "second" -> {} [] f = "minute" -> {"second"}
                 [] f = "hour" -> {"second", "minute"}
                 [] f \in {"day", "date"} -> {"second", "minute", "hour"}
                 [] f = "month" -> {"second", "minute", "hour", "date"}
                 [] f = "year" -> {"second", "minute", "hour", "date", "month"}
  IN \A g \in below : time[g] = LastUnit(g)

Tick ==
  /\ ticks < MaxTicks
  /\ ticks' = ticks + 1
  /\ time' = [f \in Fields |->
       IF ~Turns(f) THEN time[f] ELSE IF time[f] = LastUnit(f) THEN Restart(f) ELSE time[f] + 1]
  /\ steady' = FALSE
  /\ UNCHANGED <<rtc, fails, pointer, rtc_data, ch, screen, over, spoiled>>

Next == Setup \/ rtc_timer \/ Tick

Spec == Init /\ [][Next]_rtcVars

----------------------------------------------------------------------------
\* Types.
TypeOK ==
  /\ rtc \in 0..Len(Regs) /\ ticks \in 0..MaxTicks /\ fails \in 0..MaxFails
  /\ pointer \in 0..Bytes - 1 /\ spoiled \subseteq Fields
  /\ time \in [Fields -> 0..99] /\ rtc_data \in [Fields -> 0..255]
  /\ ch \in [Fields -> Seq(0..9)] /\ \A f \in Fields : Len(ch[f]) <= 2
  /\ screen \in [(5..6) \X (0..15) -> 0..Unknown]
  /\ steady \in BOOLEAN /\ over \in BOOLEAN

Shows(row, col, v) ==
  screen[<<row, col>>] = v \div 10 /\ screen[<<row, col + 1>>] = v % 10

\* After a pass with no tick and no failed read, the display reads the time,
\* although fields overlap when they are redrawn and their strings keep old
\* digits - except a field last drawn before or with a transfer to the display
\* that was lost (it stays wrong until its register changes), and where the code
\* shows no digit for 0: a minute or an hour of 0 is left out here, and so is a
\* second that the "0" drawn with the minute (line 226) belongs to another value
\* of.  Of a year 00 that was never anything else nothing is drawn, for rtc_data
\* starts with 0.
ClockShown ==
  LET Sound(f) == f \notin spoiled
  IN rtc = 1 /\ steady =>
       /\ Sound("minute") /\ time["minute"] # 0 => Shows(6, 3, time["minute"])
       /\ Sound("hour") /\ time["hour"] # 0 => Shows(6, 0, time["hour"])
       /\ Sound("second") /\ ch["second"] # <<>> /\ (time["second"] = 0 <=> over)
            => Shows(6, 6, time["second"])
       /\ Sound("day") => screen[<<6, 14>>] = time["day"]
       /\ Sound("date") => Shows(5, 8, time["date"])
       /\ Sound("month") => Shows(5, 5, time["month"]) /\ screen[<<5, 7>>] = Dash
       /\ Sound("year") /\ time["year"] >= 10 => Shows(5, 0, 20) /\ Shows(5, 2, time["year"])
       /\ Sound("year") /\ time["year"] # 0 => screen[<<5, 4>>] = Dash
       /\ Sound("hour") => screen[<<6, 2>>] \in {Colon, Blank}
       /\ Sound("minute") => screen[<<6, 5>>] \in {Colon, Blank}
=============================================================================
