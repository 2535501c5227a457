---------------------------- MODULE GpsReceiver ----------------------------
(***************************************************************************)
(* The body of gps_demo_task (app/demo/gps/app_demo_gps.c), which Gps.tla  *)
(* shows is never started: what it does with the bytes of the receiver.    *)
(*                                                                         *)
(* A piece is a field of a sentence with the comma before it; the first    *)
(* piece, which names the sentence, has none.  Pieces come in at their own *)
(* pace.  A read delivers all there is, up to the size of the buffer,      *)
(* though temp has room for TempSize only (20 bytes, line 67); one shorter *)
(* than Chunk (16 bytes, line 78) is taken for the end of the sentence.    *)
(* What the task does once it has written past temp, or has followed a     *)
(* pointer to nowhere, is undefined: it is "lost", and the position may    *)
(* become anything.                                                        *)
(* (The build is one with WRITE_BY_INT, line 75; without it the task only  *)
(* echoes.)                                                                *)
(***************************************************************************)
EXTENDS Integers, Sequences

CONSTANTS
  Chunk,         \* pieces of a full read
  TempSize,      \* pieces that temp holds
  BufferSize,    \* UART_BUFF_SIZE, in pieces
  FifoSize,      \* pieces the UART keeps: it drops what comes in when it is full
  MaxSentence,   \* pieces of the longest sentence
  MaxSentences   \* bound: sentences in a behaviour

GpsAssumption ==
  /\ Chunk \in Nat \ {0} /\ TempSize \in Nat \ {0} /\ BufferSize \in Nat \ {0}
  /\ FifoSize \in Nat
  /\ MaxSentence \in Nat \ (0..2) /\ MaxSentences \in Nat

VARIABLES
  reader,       \* "running", or "lost"
  uart_buff,    \* the pieces of the buffer, Nothing where it is zero
  offset,
  gps_data,     \* the pieces latitude and longitude were taken from
  fifo,         \* UART: pieces received and not read
  sending,      \* receiver: the sentence it sends
  parsed        \* history: the sentences that had been read at the parse before

gpsVars == <<reader, uart_buff, offset, gps_data, fifo, sending, parsed>>

Piece(id, gga, pos) == [id |-> id, gga |-> gga, pos |-> pos]
Nothing == Piece(0, FALSE, 0)

Init ==
  /\ reader = "running" /\ uart_buff = [p \in 1..BufferSize |-> Nothing] /\ offset = 0
  /\ gps_data = <<Nothing, Nothing>> /\ fifo = <<>>
  /\ sending = [id |-> 0, gga |-> FALSE, len |-> 0, sent |-> 0] /\ parsed = 0

----------------------------------------------------------------------------
\* The C string at uart_buff_ptr: up to the first zero.
StringLength(buff) ==
  CHOOSE n \in 0..BufferSize :
    /\ \A p \in 1..n : buff[p] # Nothing
    /\ n < BufferSize => buff[n + 1] = Nothing

\* strstr(str, "GNGGA")
Mentions(buff) == \E p \in 1..StringLength(buff) : buff[p].gga /\ buff[p].pos = 1

\* strstr(pData, ","): the next piece behind p that begins with a comma, or the
\* place behind the buffer, which stands for the NULL pointer.
Commas(buff) == {p \in 1..StringLength(buff) : buff[p].pos > 1}
strstr(buff, p) ==
  CHOOSE q \in Commas(buff) \cup {BufferSize + 1} :
    /\ p < q \/ q = BufferSize + 1
    /\ \A r \in Commas(buff) : p < r => q <= r

Lost == reader' = "lost" /\ UNCHANGED gps_data

\* get_gps: "GNGGA" is sought anywhere, the commas are counted from the start
\* of the string: the latitude follows the second, the longitude the fourth.
\* Five are needed, and seven if neither value is zero; a search that finds
\* none goes on from a NULL pointer, and the search in a full buffer goes past
\* its end.
get_gps(buff) ==
  IF StringLength(buff) = BufferSize THEN Lost
  ELSE IF ~Mentions(buff) THEN UNCHANGED <<reader, gps_data>>
  ELSE LET lat == strstr(buff, strstr(buff, 0))
           lon == strstr(buff, strstr(buff, lat))
           east == strstr(buff, lon)
           satellites == strstr(buff, strstr(buff, east))
       IN \E last \in {east, satellites} :
            IF last > BufferSize THEN Lost
            ELSE gps_data' = <<buff[lat], buff[lon]>> /\ UNCHANGED reader

\* memcpy_s refuses to write past the end of the buffer.
Stored(pieces) ==
  IF offset + Len(pieces) > BufferSize THEN uart_buff
  ELSE [p \in 1..BufferSize |->
          IF p - offset \in 1..Len(pieces) THEN pieces[p - offset] ELSE uart_buff[p]]

\* Seeded fault: the buffer is not cleared.
Cleared_Not(buff) == buff

\* memset(uart_buff_ptr, 0, 512)
Cleared(buff) == [p \in 1..BufferSize |-> Nothing]

\* A read that temp does not hold overruns it.
gps_demo_task ==
  /\ reader = "running" /\ fifo # <<>>
  /\ LET len == IF Len(fifo) < BufferSize THEN Len(fifo) ELSE BufferSize
         buff == Stored(SubSeq(fifo, 1, len))
     IN /\ fifo' = SubSeq(fifo, len + 1, Len(fifo))
        /\ IF len > TempSize THEN Lost /\ UNCHANGED <<uart_buff, offset, parsed>>
           ELSE IF len < Chunk
             THEN /\ offset' = 0 /\ get_gps(buff) /\ uart_buff' = Cleared(buff)
                  /\ parsed' = fifo[len].id
             ELSE /\ offset' = offset + len /\ uart_buff' = buff
                  /\ UNCHANGED <<reader, gps_data, parsed>>
  /\ UNCHANGED sending

\* "Read nothing!", every 100 ms.
ReadNothing ==
  /\ reader = "running" /\ fifo = <<>>
  /\ UNCHANGED <<reader, uart_buff, offset, gps_data, fifo, sending, parsed>>

\* The memory behind temp is the task's own: a task that is lost may write
\* anything to the position, or nothing ever.
Undefined ==
  /\ reader = "lost"
  /\ gps_data' \in {gps_data, <<Nothing, Nothing>>}
  /\ UNCHANGED <<reader, uart_buff, offset, fifo, sending, parsed>>

\* The receiver starts a sentence, and sends it piece by piece; with a task that
\* is lost it goes on in vain.
StartSentence ==
  /\ reader = "running" /\ sending.sent = sending.len /\ sending.id < MaxSentences
  /\ \E gga \in BOOLEAN, len \in 3..MaxSentence :
       sending' = [id |-> sending.id + 1, gga |-> gga, len |-> len, sent |-> 0]
  /\ UNCHANGED <<reader, uart_buff, offset, gps_data, fifo, parsed>>

SendPiece ==
  /\ reader = "running" /\ sending.sent < sending.len
  /\ sending' = [sending EXCEPT !.sent = @ + 1]
  /\ fifo' = IF Len(fifo) < FifoSize
               THEN Append(fifo, Piece(sending.id, sending.gga, sending'.sent)) ELSE fifo
  /\ UNCHANGED <<reader, uart_buff, offset, gps_data, parsed>>

Next == gps_demo_task \/ ReadNothing \/ Undefined \/ StartSentence \/ SendPiece

Spec == Init /\ [][Next]_gpsVars

----------------------------------------------------------------------------
Pieces == [id : 0..MaxSentences, gga : BOOLEAN, pos : 0..MaxSentence]

\* Types.
TypeOK ==
  /\ reader \in {"running", "lost"} /\ uart_buff \in [1..BufferSize -> Pieces]
  /\ offset \in Nat /\ gps_data \in Pieces \X Pieces /\ fifo \in Seq(Pieces)
  /\ sending \in [id : 0..MaxSentences, gga : BOOLEAN, len : 0..MaxSentence, sent : 0..MaxSentence]
  /\ parsed \in 0..MaxSentences

\* However the sentences are cut and joined by the reads (line 78) - and as long
\* as no read has overrun temp and no search has run off a string, after which
\* nothing holds - a position is taken from what has come in since the parse
\* before: no sentence that was read to its end supplies a second one, and its
\* longitude never comes from an older sentence than its latitude.
PositionIsNew ==
  [][gps_data' # gps_data /\ reader' = "running" =>
       /\ gps_data'[1].id >= parsed
       /\ gps_data'[1].id <= gps_data'[2].id]_gpsVars
=============================================================================
