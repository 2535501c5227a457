------------------------------- MODULE Scale -------------------------------
(***************************************************************************)
(* The electronic scale                                                    *)
(* (HiSpark_Pegasus_Electronic_Scale/app_demo_hx711.c).                    *)
(*                                                                         *)
(* hi_hx711_task averages readings of an HX711 and shows the weight above  *)
(* that of the first average.  It pulses the clock line itself, 24 times   *)
(* for the bits and once more to end the transfer; nothing keeps other     *)
(* tasks away meanwhile, and the chip resets when the line stays high for  *)
(* more than 60 us.  A weight is known by the text it gives: none, "9.50   *)
(* g ", "100.00 g ", or one of 1000 g and more.  A cell of the display is  *)
(* known by who wrote it.                                                  *)
(***************************************************************************)
EXTENDS Integers, Sequences

CONSTANTS
  Bits,        \* bits of a reading (24)
  Readings,    \* readings of an average (10)
  MaxResets    \* bound: resets of the chip in the middle of a reading

ScaleAssumption == Bits \in Nat \ {0} /\ Readings \in Nat \ {0} /\ MaxResets \in Nat

Busy == -1
Weights == {"none", "small", "large", "over"}

VARIABLES
  scale,      \* program point of hi_hx711_task and Sensor_Read
  i,          \* pulses of this reading
  exact,      \* history: every bit of this reading was the chip's
  based,      \* base_data is there ("yes"), and right ("right")
  seen,       \* the readings of this average; "wrong" is one that is not exact
  taken,      \* how many
  weight,     \* hx711_weight
  display,    \* the row of the display, from column 20
  load,       \* what lies on the scale
  chip,       \* HX711: Busy (DT is high) or the number of bits it has sent
  latched,    \* HX711: the load its last conversion saw
  resets,     \* resets so far
  heldUp      \* history: readings still spoiled by a conversion that ended in one

scaleVars == <<scale, i, exact, based, seen, taken, weight, display, load, chip, latched, resets,
               heldUp>>

Init ==
  /\ scale = "wait" /\ i = 0 /\ exact = TRUE /\ based = "no" /\ seen = {} /\ taken = 0
  /\ weight = "none" /\ display = [c \in 1..9 |-> "blank"]
  /\ load \in {"none", "small"} /\ chip = Busy /\ latched = "none" /\ resets = 0
  /\ heldUp = 0

----------------------------------------------------------------------------
(* Sensor_Read.                                                            *)

\* while (input): DT is low when a conversion is ready, and may be low when
\* the chip is in the middle of its bits.
WaitReady ==
  /\ scale = "wait" /\ chip # Busy
  /\ scale' = "bits" /\ i' = 0 /\ exact' = TRUE
  /\ UNCHANGED <<based, seen, taken, weight, display, load, chip, latched, resets, heldUp>>

\* The chip's answer to a pulse: the next bit, or, after the last, DT high.
Sent == IF chip = Busy \/ chip = Bits THEN Busy ELSE chip + 1

Stays == chip' = Sent /\ UNCHANGED resets
Resets == resets < MaxResets /\ resets' = resets + 1 /\ chip' = Busy

\* SCK up, shift, SCK down, read DT.
Pulse ==
  /\ scale = "bits" /\ i < Bits
  /\ i' = i + 1
  /\ Stays \/ Resets
  /\ exact' = (exact /\ chip' = i + 1)
  /\ UNCHANGED <<scale, based, seen, taken, weight, display, load, latched, heldUp>>

\* Seeded fault: the 25th pulse is left out.
LastPulse_LeftOut ==
  /\ scale = "bits" /\ i = Bits
  /\ seen' = seen \cup {IF exact THEN latched ELSE "wrong"} /\ taken' = taken + 1
  /\ scale' = IF taken' = Readings THEN "average" ELSE "wait"
  /\ UNCHANGED <<i, exact, based, weight, display, load, chip, latched, resets, heldUp>>

\* The 25th pulse; Get_Sensor_Read adds the value up.
LastPulse ==
  /\ scale = "bits" /\ i = Bits
  /\ Stays \/ Resets
  /\ seen' = seen \cup {IF exact THEN latched ELSE "wrong"} /\ taken' = taken + 1
  /\ scale' = IF taken' = Readings THEN "average" ELSE "wait"
  /\ heldUp' = IF heldUp = 0 THEN 0 ELSE heldUp - 1
  /\ UNCHANGED <<i, exact, based, weight, display, load, latched>>

----------------------------------------------------------------------------
(* hi_hx711_task.                                                          *)

\* base_data, from the first average.
Base ==
  /\ scale = "average" /\ based = "no"
  /\ based' = IF seen = {"none"} THEN "right" ELSE "yes"
  /\ seen' = {} /\ taken' = 0 /\ scale' = "wait"
  /\ UNCHANGED <<i, exact, weight, display, load, chip, latched, resets, heldUp>>

Weigh ==
  /\ scale = "average" /\ based # "no"
  /\ weight' \in IF based = "right" /\ \E w \in Weights : seen = {w} THEN seen ELSE Weights
  /\ scale' = "show"
  /\ UNCHANGED <<i, exact, based, seen, taken, display, load, chip, latched, resets, heldUp>>

\* sprintf_s(buf, 10, "%.2f g "): nothing at all from 1000 g on.
Text(w) ==
  CASE w = "small" -> <<w, w, w, w, "blank", "g", "blank">>
    [] w = "large" -> <<w, w, w, w, w, w, "blank", "g", "blank">>
    [] OTHER -> <<>>

\* Seeded fault: the number is shown without its unit.
Written_NoUnit(w) ==
  [c \in 1..9 |-> IF c \in DOMAIN Text(w) /\ Text(w)[c] = w THEN w ELSE display[c]]

\* oled_show_str; what was longer keeps its tail.
Written(w) == [c \in 1..9 |-> IF c \in DOMAIN Text(w) THEN Text(w)[c] ELSE display[c]]

\* Weights of 0 and less are not shown.
Show ==
  /\ scale = "show"
  /\ display' = IF weight = "none" THEN display ELSE Written(weight)
  /\ scale' = "sleep"
  /\ UNCHANGED <<i, exact, based, seen, taken, weight, load, chip, latched, resets, heldUp>>

SleepScale ==
  /\ scale = "sleep"
  /\ scale' = "wait" /\ seen' = {} /\ taken' = 0
  /\ UNCHANGED <<i, exact, based, weight, display, load, chip, latched, resets, heldUp>>

hi_hx711_task == WaitReady \/ Pulse \/ LastPulse \/ Base \/ Weigh \/ Show \/ SleepScale

\* The chip converts when nothing is being transferred.  That takes longer than
\* the bits of a reading, but a task that is held up for as long after a reset
\* reads on in the new conversion.
Converted ==
  /\ chip = Busy
  /\ chip' = 0 /\ latched' = load
  /\ heldUp' = IF scale = "bits" THEN 2 ELSE heldUp
  /\ UNCHANGED <<scale, i, exact, based, seen, taken, weight, display, load, resets>>

LoadChanges ==
  /\ load' \in Weights \ {load}
  /\ UNCHANGED <<scale, i, exact, based, seen, taken, weight, display, chip, latched, resets, heldUp>>

Next == hi_hx711_task \/ Converted \/ LoadChanges

Spec == Init /\ [][Next]_scaleVars

----------------------------------------------------------------------------
\* Types.
TypeOK ==
  /\ scale \in {"wait", "bits", "average", "show", "sleep"} /\ i \in 0..Bits
  /\ exact \in BOOLEAN /\ based \in {"no", "yes", "right"}
  /\ seen \subseteq Weights \cup {"wrong"} /\ taken \in 0..Readings
  /\ weight \in Weights /\ load \in Weights /\ latched \in Weights
  /\ display \in [1..9 -> Weights \cup {"blank", "g"}]
  /\ chip \in Busy..Bits /\ resets \in 0..MaxResets /\ heldUp \in 0..2

Shown(w) ==
  LET digits == {c \in 1..9 : \A k \in 1..c : display[k] \notin {"blank", "g"}}
  IN digits = {c \in DOMAIN Text(w) : Text(w)[c] = w} /\ \A c \in digits : display[c] = w

\* The task and the chip stay in step: a reading begins with the first bit of a
\* conversion, and is exact unless the chip was reset while the clock line was
\* high - the reset itself ends the transfer, and the next reading is whole
\* again.  Only after a hold-up as long as a conversion is the next reading made
\* of two, and its 25 pulses bring the two together again.  The number on the
\* display is the last weight that was more than 0 and less than 1000 g, although
\* a shorter text leaves the end of a longer one behind it.
ScaleInStep ==
  /\ scale = "wait" /\ heldUp = 0 => chip \in {Busy, 0}
  /\ resets = 0 => exact /\ "wrong" \notin seen
  /\ scale = "sleep" /\ weight \in {"small", "large"} => Shown(weight)
=============================================================================
