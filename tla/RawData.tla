------------------------------ MODULE RawData ------------------------------
(***************************************************************************)
(* The raw data of the provisioning service: RecvRawData, which decodes    *)
(* what the phone sent and hands it to SendRawEncodeData, to be encoded    *)
(* and sent back (app/demo/src/network_config_sample.c, 398-473).          *)
(*                                                                         *)
(* Both ask mbedtls for the size first, with no buffer, and then allocate. *)
(* A text is its kind and the number of bytes it stands for.               *)
(***************************************************************************)
EXTENDS Integers

CONSTANTS
  MAX_DATA_LEN,
  MaxLen         \* bound: bytes a text stands for

RawAssumption == MAX_DATA_LEN \in Nat /\ MaxLen \in Nat

VARIABLES
  rawAt,       \* program point
  data,        \* the text received
  decodeLen,   \* size of decodeData
  outLen,      \* bytes to encode
  buf,         \* size of buf, the encoded text with its end
  live,        \* blocks allocated
  spilt,       \* history: a write went past the end of its block
  replies      \* what was sent last: the bytes its text stands for, -1 for nothing

rawVars == <<rawAt, data, decodeLen, outLen, buf, live, spilt, replies>>

Texts == [kind : {"valid", "invalid"}, len : 0..MaxLen]
NULL  == [kind |-> "null", len |-> 0]

\* mbedtls: with no buffer, the size needed and BUFFER_TOO_SMALL; nothing to
\* convert is a success.
Answer(size, room) ==
  [ret |-> IF size > 0 /\ room < size THEN "TOO_SMALL" ELSE "ok", size |-> size]
mbedtls_base64_decode(text, room) ==
  IF text.kind = "invalid" THEN [ret |-> "invalid", size |-> 0] ELSE Answer(text.len, room)
mbedtls_base64_encode(len, room) ==
  Answer(IF len = 0 THEN 0 ELSE 4 * ((len + 2) \div 3) + 1, room)

Init ==
  /\ rawAt = "idle" /\ data = NULL /\ decodeLen = 0 /\ outLen = 0 /\ buf = 0
  /\ live = {} /\ spilt = FALSE /\ replies = -1

----------------------------------------------------------------------------
\* RecvRawData, up to its malloc, which may fail.
RecvRawData ==
  /\ rawAt = "idle"
  /\ data' \in Texts \cup {NULL}
  /\ LET q == mbedtls_base64_decode(data', 0)
         sized == q.ret = "TOO_SMALL" /\ q.size > 0 /\ q.size <= MAX_DATA_LEN
     IN \/ /\ sized
           /\ rawAt' = "decode" /\ decodeLen' = q.size /\ live' = live \cup {"decodeData"}
        \/ rawAt' = "idle" /\ UNCHANGED <<decodeLen, live>>
  /\ replies' = -1
  /\ UNCHANGED <<outLen, buf, spilt>>

Decode ==
  LET d == mbedtls_base64_decode(data, decodeLen) IN
  /\ rawAt = "decode"
  /\ spilt' = (spilt \/ (d.ret = "ok" /\ d.size > decodeLen))
  /\ IF d.ret = "ok" THEN rawAt' = "size" /\ outLen' = d.size /\ UNCHANGED live
     ELSE rawAt' = "idle" /\ live' = live \ {"decodeData"} /\ UNCHANGED outLen
  /\ UNCHANGED <<data, decodeLen, buf, replies>>

\* SendRawEncodeData is global: others may call it, with nothing to send too.
SendRawEncodeData ==
  /\ rawAt = "idle"
  /\ outLen' \in 0..MaxLen
  /\ data' = NULL /\ rawAt' = "size" /\ replies' = -1
  /\ UNCHANGED <<decodeLen, buf, live, spilt>>

\* Seeded fault: an error leaves at once, past the free of the caller.
Returned_AtOnce(blocks) == rawAt' = "idle" /\ live' = blocks

\* SendRawEncodeData returns, and RecvRawData frees its block.
Returned(blocks) == rawAt' = "idle" /\ live' = blocks \ {"decodeData"}

\* Up to malloc, which may fail.  BUFFER_TOO_SMALL, the answer to every
\* question for a size but that for nothing, is taken for an error.
SizeEncoded ==
  LET q == mbedtls_base64_encode(outLen, 0) IN
  /\ rawAt = "size"
  /\ \/ /\ q.ret = "ok" /\ q.size <= MAX_DATA_LEN
        /\ rawAt' = "encode" /\ buf' = q.size + 1 /\ live' = live \cup {"buf"}
     \/ Returned(live) /\ UNCHANGED buf
  /\ UNCHANGED <<data, decodeLen, outLen, spilt, replies>>

\* The room given is that for the text alone; the last byte is memset's.
Encode ==
  LET e == mbedtls_base64_encode(outLen, buf - 1) IN
  /\ rawAt = "encode"
  /\ spilt' = (spilt \/ (e.ret = "ok" /\ e.size > buf))
  /\ replies' = IF e.ret = "ok" THEN outLen ELSE replies
  /\ Returned(live \ {"buf"})
  /\ UNCHANGED <<data, decodeLen, outLen, buf>>

Next == RecvRawData \/ Decode \/ SendRawEncodeData \/ SizeEncoded \/ Encode

Spec == Init /\ [][Next]_rawVars

----------------------------------------------------------------------------
\* Types; a block that is allocated has the size it was asked for.
TypeOK ==
  /\ rawAt \in {"idle", "decode", "size", "encode"} /\ data \in Texts \cup {NULL}
  /\ decodeLen \in 0..MaxLen /\ outLen \in 0..MaxLen /\ buf \in 0..(MAX_DATA_LEN + 1)
  /\ live \subseteq {"decodeData", "buf"} /\ spilt \in BOOLEAN /\ replies \in -1..MaxLen

\* Whatever was sent and whatever fails, when the two functions have returned
\* every block is free again, and nothing was written past the end of one
\* (lines 407-431 and 449-472).
RawReleased == ~spilt /\ (rawAt = "idle" => live = {})
=============================================================================
