-------------------------------- MODULE Oled --------------------------------
(***************************************************************************)
(* The display of the battery demo                                         *)
(* (HiSpark_Pegasus_Battery_Power_Detection/app_demo_io_gpio.c).           *)
(*                                                                         *)
(* app_i2c_oled_demo measures the voltage every 20 ms and draws one line   *)
(* of text.  The display keeps a page and a column to write to; three      *)
(* commands set them, and each byte of data moves the column on, within    *)
(* the page.  The results of all these transfers are dropped, so that a    *)
(* lost command sends what follows elsewhere.  A column of pixels is known *)
(* by its character and its place in it.  (What the task does to the car   *)
(* is in Car.tla; the initialisation commands are one step there.)         *)
(***************************************************************************)
EXTENDS Integers, Sequences, FiniteSets

CONSTANTS
  Voltages,   \* what the INA219 may measure, in mV
  MaxFaults   \* bound: transfers lost in a behaviour

\* The INA219 gives 13 bits of 4 mV each.
MaxReading == 32764

OledAssumption == Voltages \subseteq 0..MaxReading /\ MaxFaults \in Nat

Pages == {3, 6, 7}    \* of the eight: the two in use, and the last one filled
Columns == 0..127     \* Max_Column
Dark == <<" ", 0>>
Noise == <<"noise", 0>>   \* what the display holds when it is switched on

VARIABLES
  oled,       \* program point of app_i2c_oled_demo
  led_test,   \* hi3861_board_led_test
  todo,       \* what is left to draw of this pass
  vstr,       \* the text of the voltage, which nothing shows
  voltage,    \* the INA219's reading
  screen,     \* SSD1306: the pixels
  cursor,     \* SSD1306: where the next byte goes
  faults,     \* transfers lost
  clean       \* history: the pass measured, and lost no transfer since

oledVars == <<oled, led_test, todo, vstr, voltage, screen, cursor, faults, clean>>

Init ==
  /\ oled = "init" /\ led_test = 0 /\ todo = <<>> /\ vstr = <<>> /\ voltage \in Voltages
  /\ screen = [p \in Pages \X Columns |-> Noise] /\ cursor = [page |-> 7, col |-> 0]
  /\ faults = 0 /\ clean = FALSE

----------------------------------------------------------------------------
\* oled_show_str, within a row: a character every 8 columns.
Str(x, y, chars) == [j \in 1..Len(chars) |-> [x |-> x + 8 * (j - 1), y |-> y, chr |-> chars[j]]]

Hello  == <<"H", "e", "l", "l", "o", " ", "H", "i", "3", "8", "6", "1">>
Label  == <<"v", "o", "l", "t", "a", "g", "e", ":", " ", " ", " ", " ", " ", " ", "V">>
Number == <<"7", ".", "0", "3", "2">>
Clear(y) == [x |-> 0, y |-> y, chr |-> "clear"]

\* oled_set_position, less the commands lost.
Position(x, y, lost) ==
  [page |-> IF "page" \in lost THEN cursor.page ELSE y,
   col  |-> 16 * ((IF "high" \in lost THEN cursor.col ELSE x) \div 16)
            + ((IF "low" \in lost THEN cursor.col ELSE x) % 16)]

Pixels(chr, n) == IF chr \in {" ", "clear"} THEN Dark ELSE <<chr, n>>

\* oled_show_char in the 6x8 font, or the 128 bytes that clear a page, less the
\* byte lost, if any: those behind it come one column early.
Drawn(item, commands, byte) ==
  LET at == Position(item.x, item.y, commands)
      length == IF item.chr = "clear" THEN 128 ELSE 6
      place(c) == ((c - at.col) % 128) + 1
      sent(n) == IF byte \in 1..n THEN n + 1 ELSE n
  IN /\ screen' = [p \in DOMAIN screen |->
           IF p[1] = at.page /\ sent(place(p[2])) <= length
           THEN Pixels(item.chr, sent(place(p[2]))) ELSE screen[p]]
     /\ cursor' = [at EXCEPT !.col = (at.col + length - (IF byte = 0 THEN 0 ELSE 1)) % 128]

\* The commands and the byte of an item that a pass may lose; the bytes that
\* clear a page are all alike.
Losses(item) ==
  {loss \in (SUBSET {"page", "high", "low"}) \X (IF item.chr = "clear" THEN 0..1 ELSE 0..6) :
     faults + Cardinality(loss[1]) + (IF loss[2] = 0 THEN 0 ELSE 1) <= MaxFaults}

\* One item; power_writeread and oled_display_init draw them in order.
Draw ==
  /\ todo # <<>>
  /\ \E loss \in Losses(Head(todo)) :
       /\ Drawn(Head(todo), loss[1], loss[2])
       /\ faults' = faults + Cardinality(loss[1]) + (IF loss[2] = 0 THEN 0 ELSE 1)
       /\ clean' = (clean /\ loss = <<{}, 0>>)
  /\ todo' = Tail(todo)
  /\ UNCHANGED <<oled, led_test, vstr, voltage>>

\* oled_init failed, which is logged, and the first time the lamp of the board
\* is tested.
InitFails ==
  /\ oled = "init"
  /\ led_test' = 1
  /\ UNCHANGED <<oled, todo, vstr, voltage, screen, cursor, faults, clean>>

\* oled_display_init fills the screen, greets, and takes the greeting back.
oled_display_init ==
  /\ oled = "init"
  /\ oled' = "sleep"
  /\ todo' = <<Clear(3), Clear(6), Clear(7)>> \o Str(15, 3, Hello) \o Str(15, 3, [j \in 1..12 |-> " "])
  /\ UNCHANGED <<led_test, vstr, voltage, screen, cursor, faults, clean>>

\* flaot_to_string: the digits before the point, none for 0, then up to three,
\* less the zeros at the end.  (Dot is the code of the point.)
Dot == 10
Decimals(v) == <<(v \div 100) % 10, (v \div 10) % 10, v % 10>>

Integral(n) == IF n = 0 THEN <<>> ELSE IF n < 10 THEN <<n>> ELSE <<n \div 10, n % 10>>

\* Seeded fault: the zeros are stripped on both sides of the point.
flaot_to_string_NoPoint(v) ==
  LET str == Integral(v \div 1000) \o Decimals(v)
      kept == CHOOSE n \in 0..Len(str) :
                /\ n > 0 => str[n] # 0
                /\ \A m \in n + 1..Len(str) : str[m] = 0
  IN SubSeq(str, 1, kept) \o <<Dot>>

flaot_to_string(v) ==
  LET str == Integral(v \div 1000) \o <<Dot>> \o Decimals(v)
      kept == CHOOSE n \in 1..Len(str) :
                str[n] # 0 /\ \A m \in n + 1..Len(str) : str[m] = 0
  IN SubSeq(str, 1, kept)

\* Seeded fault: the number is drawn before the label.
Line_NumberFirst(v) ==
  (IF v < 6900 THEN <<>> ELSE <<Clear(6)>>) \o Str(70, 3, Number) \o Str(0, 3, Label)

\* What power_writeread draws: the number shown is a constant (line 604).
Line(v) ==
  (IF v < 6900 THEN <<>> ELSE <<Clear(6)>>) \o Str(0, 3, Label) \o Str(70, 3, Number)

\* A measurement that fails draws nothing.  The float may be a thousandth short.
power_writeread ==
  /\ oled = "measure"
  /\ oled' = "sleep"
  /\ \/ /\ \E v \in {voltage, voltage - 1} \cap Nat : vstr' = flaot_to_string(v)
        /\ todo' = Line(voltage) /\ clean' = TRUE
     \/ clean' = FALSE /\ UNCHANGED <<vstr, todo>>
  /\ UNCHANGED <<led_test, voltage, screen, cursor, faults>>

SleepOled ==
  /\ oled = "sleep" /\ todo = <<>>
  /\ oled' = "measure"
  /\ UNCHANGED <<led_test, todo, vstr, voltage, screen, cursor, faults, clean>>

\* Between two measurements.
VoltageMoves ==
  /\ oled = "measure"
  /\ voltage' \in Voltages \ {voltage}
  /\ UNCHANGED <<oled, led_test, todo, vstr, screen, cursor, faults, clean>>

Next ==
  InitFails \/ oled_display_init \/ Draw \/ power_writeread \/ SleepOled \/ VoltageMoves

Spec == Init /\ [][Next]_oledVars

----------------------------------------------------------------------------
\* Types.
TypeOK ==
  /\ oled \in {"init", "measure", "sleep"} /\ led_test \in {0, 1}
  /\ \A n \in DOMAIN todo : todo[n].x \in Columns /\ todo[n].y \in Pages
  /\ vstr \in Seq(0..Dot) /\ voltage \in Voltages
  /\ DOMAIN screen = Pages \X Columns /\ cursor \in [page : Pages, col : Columns]
  /\ faults \in 0..MaxFaults /\ clean \in BOOLEAN

Reads(x, y, chars) ==
  \A j \in DOMAIN chars, n \in 1..6 :
    screen[<<y, x + 8 * (j - 1) + n - 1>>] = Pixels(chars[j], n)

\* What the text of the voltage says, in mV.
Said(str) ==
  LET point == CHOOSE n \in DOMAIN str : str[n] = Dot
      digit(n) == IF n \in DOMAIN str /\ str[n] # Dot THEN str[n] ELSE 0
  IN digit(point - 2) * 10000 + digit(point - 1) * 1000
     + digit(point + 1) * 100 + digit(point + 2) * 10 + digit(point + 3)

\* The display heals: whatever lost transfers have done to it, after one pass
\* without a loss the characters of the line are there, the six blanks of the
\* label hidden under the number that overlaps them, and row 6 is dark unless
\* the power is low.  (Pixels between two characters may stay.)  The text made
\* of the voltage says what was measured, to a thousandth, in at most three
\* decimals.
DisplayHeals ==
  /\ oled = "sleep" /\ todo = <<>> /\ clean =>
       /\ Reads(0, 3, SubSeq(Label, 1, 8)) /\ Reads(70, 3, Number) /\ Reads(112, 3, <<"V">>)
       /\ voltage >= 6900 => \A c \in Columns : screen[<<6, c>>] = Dark
       /\ Said(vstr) \in {voltage, voltage - 1}
=============================================================================
