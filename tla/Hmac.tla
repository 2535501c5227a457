-------------------------------- MODULE Hmac --------------------------------
(***************************************************************************)
(* The password of the MQTT session (app/demo/iot_demo/iot_hmac.c), as     *)
(* IoTMain asks for it before it connects (iot_main.c, 284-300).           *)
(*                                                                         *)
(* mbedtls is external: it may know no SHA256, and the setup of its        *)
(* context, which allocates, may fail.  A buffer is a sequence of          *)
(* characters; the digits of a hash are its nibbles.                       *)
(***************************************************************************)
EXTENDS Integers, Sequences, FiniteSetsExt

CONSTANTS
  CN_HMAC256_LEN,    \* bytes of a hash
  BufLengths,        \* the buf_len tried, the caller's among them
  HashBytes          \* bound: bytes a hash is made of

HmacAssumption ==
  /\ CN_HMAC256_LEN \in Nat \ {0} /\ BufLengths \subseteq Nat /\ HashBytes \subseteq 0..255
  /\ 2 * CN_HMAC256_LEN + 1 \in BufLengths

VARIABLES
  hmacAt,    \* program point
  bufLen,    \* buf_len
  pwd,       \* the caller's buffer; "?" is what hi_malloc left there
  hash,
  context,   \* "none", "init" or "setup"
  ret        \* the result, 1 before there is one

hmacVars == <<hmacAt, bufLen, pwd, hash, context, ret>>

Digits == <<"0", "1", "2", "3", "4", "5", "6", "7", "8", "9", "a", "b", "c", "d", "e", "f">>
End    == "\\0"
Hashes == [1..CN_HMAC256_LEN -> HashBytes]

Init ==
  /\ hmacAt = "idle" /\ bufLen = 0 /\ pwd = <<>> /\ hash = <<>>
  /\ context = "none" /\ ret = 1

\* Seeded fault: the test forgets the end of the string.
TooShort_NoEnd(len) == len < 2 * CN_HMAC256_LEN

TooShort(len) == len < 2 * CN_HMAC256_LEN + 1

\* The guards.  A key or a content of no length fails like a short buffer.
HmacGeneratePwd ==
  /\ hmacAt = "idle"
  /\ bufLen' \in BufLengths
  /\ pwd' = [i \in 1..bufLen' |-> "?"]
  /\ \E empty \in BOOLEAN, known \in BOOLEAN :
       IF empty \/ TooShort(bufLen') \/ ~known
       THEN hmacAt' = "return" /\ ret' = -1 /\ UNCHANGED context
       ELSE hmacAt' = "setup" /\ context' = "init" /\ ret' = 1
  /\ UNCHANGED hash

Setup ==
  /\ hmacAt = "setup"
  /\ \/ hmacAt' = "hash" /\ ret' = 0 /\ context' = "setup"
     \/ hmacAt' = "exit" /\ ret' = -1 /\ UNCHANGED context
  /\ UNCHANGED <<bufLen, pwd, hash>>

Finish ==
  /\ hmacAt = "hash" /\ hmacAt' = "hex"
  /\ hash' \in Hashes
  /\ UNCHANGED <<bufLen, pwd, context, ret>>

\* The string a buffer becomes: two digits a byte and the end.
byte2hexstr ==
  /\ hmacAt = "hex" /\ hmacAt' = "exit"
  /\ LET n == 2 * CN_HMAC256_LEN
         digit(i) == IF i % 2 = 0 THEN hash[i \div 2 + 1] \div 16 ELSE hash[i \div 2 + 1] % 16
     IN pwd' = [i \in 1..Max({bufLen, n + 1}) |->
                  IF i <= n THEN Digits[digit(i - 1) + 1]
                  ELSE IF i = n + 1 THEN End ELSE pwd[i]]
  /\ UNCHANGED <<bufLen, hash, context, ret>>

Exit ==
  /\ hmacAt = "exit" /\ hmacAt' = "return"
  /\ context' = "none"
  /\ UNCHANGED <<bufLen, pwd, hash, ret>>

\* IoTMain looks at the result of none.
Connects ==
  /\ hmacAt = "return" /\ hmacAt' = "idle"
  /\ bufLen' = 0 /\ pwd' = <<>> /\ hash' = <<>> /\ ret' = 1
  /\ UNCHANGED context

Next == HmacGeneratePwd \/ Setup \/ Finish \/ byte2hexstr \/ Exit \/ Connects

Spec == Init /\ [][Next]_hmacVars

----------------------------------------------------------------------------
\* Types.
TypeOK ==
  /\ hmacAt \in {"idle", "setup", "hash", "hex", "exit", "return"}
  /\ bufLen \in BufLengths \cup {0} /\ pwd \in Seq({Digits[d] : d \in 1..16} \cup {End, "?"})
  /\ hash \in Hashes \cup {<<>>} /\ context \in {"none", "init", "setup"} /\ ret \in {-1, 0, 1}

\* A password is a terminated string that stays in its buffer and, read as hex
\* digits, gives the hash back; when there is none the buffer is as it was, and
\* either way the context of mbedtls is freed (iot_hmac.c:61-77).
PwdReads ==
  hmacAt = "return" =>
    /\ context = "none" /\ Len(pwd) = bufLen
    /\ ret = 0 =>
         /\ pwd[2 * CN_HMAC256_LEN + 1] = End
         /\ \A i \in 1..CN_HMAC256_LEN : \E h, l \in 1..16 :
              pwd[2 * i - 1] = Digits[h] /\ pwd[2 * i] = Digits[l]
                /\ hash[i] = 16 * (h - 1) + l - 1
    /\ ret # 0 => \A i \in 1..bufLen : pwd[i] = "?"
=============================================================================
