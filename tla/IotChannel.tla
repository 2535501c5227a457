----------------------------- MODULE IotChannel -----------------------------
(***************************************************************************)
(* What the callers of IotSendMsg and the MQTT library may count on: a     *)
(* bounded first-in first-out channel.  Every message it accepts is        *)
(* concluded exactly once, in order; one for the cloud may be lost, one    *)
(* from the cloud may find nobody to deliver it to.                        *)
(***************************************************************************)
EXTENDS Integers, Sequences

CONSTANTS Msgs, Cap

VARIABLES pending, done, fates

chanVars == <<pending, done, fates>>

FatesOf(m) ==
  IF m.type = "PUBLISH" THEN {"published", "lost"} ELSE {"delivered", "ignored"}

Init == pending = <<>> /\ done = <<>> /\ fates = <<>>

Accept ==
  /\ Len(pending) < Cap
  /\ \E m \in Msgs : pending' = Append(pending, m)
  /\ UNCHANGED <<done, fates>>

Conclude ==
  /\ pending # <<>>
  /\ pending' = Tail(pending)
  /\ done' = Append(done, Head(pending))
  /\ \E f \in FatesOf(Head(pending)) : fates' = Append(fates, f)

Next == Accept \/ Conclude

Spec == Init /\ [][Next]_chanVars
=============================================================================
