------------------------------ MODULE IotMain ------------------------------
(***************************************************************************)
(* The MQTT pump of the trash can (app/demo/iot_demo/iot_main.c).          *)
(*                                                                         *)
(* Application tasks call IotSendMsg, the MQTT library calls               *)
(* MsgRcvCallBack, and both put the address of a heap buffer on one        *)
(* bounded OS queue.  One task, created by IoTMain, runs MainEntry: it     *)
(* connects, and while the connection is up it drains the queue            *)
(* (ProcessQueueMsg) and yields to the library; when the connection is     *)
(* gone it tears the client down, sleeps, and starts again.                *)
(*                                                                         *)
(* A payload is abstracted to the call it came from, <<caller, number>>.   *)
(* The heap is a set of buffers; any allocation may fail.  The queue and   *)
(* the MQTT client are external: they are modelled by the return values    *)
(* the code tests.                                                         *)
(***************************************************************************)
EXTENDS Integers, Sequences, FiniteSets

CONSTANTS
  Senders,          \* application tasks that call IotSendMsg
  Rcv,              \* the MQTT library calling MsgRcvCallBack
  Resp,             \* msgCallBack itself, answering a command with IotSendMsg
  Bufs,             \* heap blocks that can hold a message
  NoBuf,            \* the NULL pointer
  QueueCap,         \* CN_QUEUE_MSGNUM
  MaxCalls,         \* bound: calls one producer makes in a behaviour
  CallbackInYield   \* TRUE: the library runs callbacks inside MQTTClient_yield;
                    \* FALSE: it runs them on a thread of its own

Producers == Senders \cup {Rcv, Resp}

ASSUME ProducersAssumption == Rcv \notin Senders /\ Resp \notin Senders /\ Rcv # Resp
ASSUME BufsAssumption      == NoBuf \notin Bufs
ASSUME QueueCapAssumption  == QueueCap \in Nat \ {0}
ASSUME MaxCallsAssumption  == MaxCalls \in Nat
ASSUME CallbackAssumption  == CallbackInYield \in BOOLEAN

Msgs == [type : {"PUBLISH", "RECV"}, from : Producers, no : 0..MaxCalls]

\* What became of a message the pump took off the queue.
Fates == {"published", "lost", "delivered", "ignored"}

VARIABLES
  boot,         \* progress of IoTMain: "queue", "task", "done"
  queueUp,      \* gIoTAppCb.queueID names a created queue
  queue,        \* the OS queue: addresses of buffers, oldest first
  live,         \* the message buffers currently allocated
  msg,          \* contents of the buffers
  pc,           \* each producer: "idle" or "send" (inside hi_msg_queue_send)
  hold,         \* the buffer a producer is sending, or NoBuf
  rc,           \* what the producer's last call returned
  calls,        \* calls each producer has started
  task,         \* program point of the IoT task
  cur,          \* ProcessQueueMsg's local msg
  polling,      \* ProcessQueueMsg's local timeout is 0
  ret,          \* ProcessQueueMsg's local ret is HI_ERR_SUCCESS
  client,       \* the MQTT client
  clientID,     \* the clientID string is allocated
  userPwd,      \* the userPwd string is allocated
  msgCallBack,  \* gIoTAppCb.msgCallBack is not NULL
  accepted,     \* history: messages put on the queue, in that order
  handled,      \* history: messages the pump dealt with, in that order
  fates         \* history: fates[i] is what became of handled[i]

prodVars == <<pc, hold, rc, calls>>
heapVars == <<live, msg>>
pumpVars == <<cur, polling, ret>>
connVars == <<client, clientID, userPwd>>
histVars == <<accepted, handled, fates>>
vars == <<boot, queueUp, queue, heapVars, prodVars, task, pumpVars, connVars,
          msgCallBack, histVars>>

TaskPoints ==
  {"off", "clientID", "userPwd", "create", "setCallbacks", "connect",
   "subscribe", "loop", "wait", "dispatch", "callback", "release", "yield",
   "disconnect", "destroy", "freePwd", "freeID", "sleep"}

Init ==
  /\ boot = "queue" /\ queueUp = FALSE /\ queue = <<>>
  /\ live = {}
  /\ msg = [b \in Bufs |-> [type |-> "PUBLISH", from |-> Rcv, no |-> 0]]
  /\ pc = [p \in Producers |-> "idle"]
  /\ hold = [p \in Producers |-> NoBuf]
  /\ rc = [p \in Producers |-> -1]
  /\ calls = [p \in Producers |-> 0]
  /\ task = "off"
  /\ cur = NoBuf /\ polling = FALSE /\ ret = TRUE
  /\ client = "none" /\ clientID = FALSE /\ userPwd = FALSE
  /\ msgCallBack = FALSE
  /\ accepted = <<>> /\ handled = <<>> /\ fates = <<>>

----------------------------------------------------------------------------
(* IoTMain: both failures are only logged, and the function returns 0.     *)

CreateQueue ==
  /\ boot = "queue"
  /\ boot' = "task"
  /\ queueUp' \in BOOLEAN
  /\ UNCHANGED <<queue, heapVars, prodVars, task, pumpVars, connVars, msgCallBack, histVars>>

CreateTask ==
  /\ boot = "task"
  /\ boot' = "done"
  /\ task' \in {"off", "clientID"}
  /\ UNCHANGED <<queueUp, queue, heapVars, prodVars, pumpVars, connVars, msgCallBack, histVars>>

\* iot_main.h: "if you don't care about the message, set it to NULL".
IoTSetMsgCallback ==
  /\ msgCallBack' \in BOOLEAN
  /\ UNCHANGED <<boot, queueUp, queue, heapVars, prodVars, task, pumpVars, connVars, histVars>>

----------------------------------------------------------------------------
(* The producers: IotSendMsg and MsgRcvCallBack.  A call is two steps, the *)
(* allocation and the bounded wait in hi_msg_queue_send, and other tasks   *)
(* run in between.                                                         *)

\* Application tasks call whenever they like; a received message needs a
\* connection; msgCallBack answers while the pump is inside it.
MayCall(p) ==
  \/ p \in Senders
  \/ p = Rcv /\ client = "connected" /\ (CallbackInYield => task = "yield")
  \/ p = Resp /\ task = "callback"

TypeOf(p) == IF p = Rcv THEN "RECV" ELSE "PUBLISH"

\* MsgRcvCallBack returns 1 whatever happened to the message.
\* Seeded fault: rc starts as 0.
Returns_AlwaysZero(p, code) == rc' = [rc EXCEPT ![p] = IF p = Rcv THEN 1 ELSE 0]

Returns(p, code) == rc' = [rc EXCEPT ![p] = IF p = Rcv THEN 1 ELSE code]

StartCall(p) ==
  /\ pc[p] = "idle" /\ MayCall(p) /\ calls[p] < MaxCalls
  /\ calls' = [calls EXCEPT ![p] = @ + 1]

AllocMsg(p) ==
  /\ StartCall(p)
  /\ \E b \in Bufs \ live :
       /\ live' = live \cup {b}
       /\ msg' = [msg EXCEPT ![b] = [type |-> TypeOf(p), from |-> p, no |-> calls'[p]]]
       /\ hold' = [hold EXCEPT ![p] = b]
  /\ pc' = [pc EXCEPT ![p] = "send"]
  /\ UNCHANGED <<boot, queueUp, queue, rc, task, pumpVars, connVars, msgCallBack, histVars>>

AllocFails(p) ==
  /\ StartCall(p)
  /\ Returns(p, -1)
  /\ UNCHANGED <<boot, queueUp, queue, heapVars, pc, hold, task, pumpVars, connVars,
                 msgCallBack, histVars>>

\* Seeded fault: the queue is made one address longer.
QueueHasRoom_OffByOne == queueUp /\ Len(queue) <= QueueCap

\* hi_msg_queue_send finds the queue IoTMain made (364), of CN_QUEUE_MSGNUM
\* addresses, with room for one more.
QueueHasRoom == queueUp /\ Len(queue) < QueueCap

\* Seeded fault: the message overtakes those that wait.
SendSucceeds_AtHead(p) ==
  /\ pc[p] = "send" /\ QueueHasRoom
  /\ queue' = <<hold[p]>> \o queue
  /\ accepted' = Append(accepted, msg[hold[p]])
  /\ hold' = [hold EXCEPT ![p] = NoBuf]
  /\ pc' = [pc EXCEPT ![p] = "idle"]
  /\ Returns(p, 0)
  /\ UNCHANGED <<boot, queueUp, heapVars, calls, task, pumpVars, connVars, msgCallBack,
                 handled, fates>>

SendSucceeds(p) ==
  /\ pc[p] = "send" /\ QueueHasRoom
  /\ queue' = Append(queue, hold[p])
  /\ accepted' = Append(accepted, msg[hold[p]])
  /\ hold' = [hold EXCEPT ![p] = NoBuf]
  /\ pc' = [pc EXCEPT ![p] = "idle"]
  /\ Returns(p, 0)
  /\ UNCHANGED <<boot, queueUp, heapVars, calls, task, pumpVars, connVars, msgCallBack,
                 handled, fates>>

\* Seeded faults: the buffer is not given back; the wait has no timeout.
SendFails_Leaks(p) ==
  /\ pc[p] = "send" /\ ~QueueHasRoom
  /\ hold' = [hold EXCEPT ![p] = NoBuf]
  /\ pc' = [pc EXCEPT ![p] = "idle"]
  /\ Returns(p, -1)
  /\ UNCHANGED <<boot, queueUp, queue, heapVars, calls, task, pumpVars, connVars, msgCallBack,
                 histVars>>

SendFails_WaitsForever(p) ==
  /\ pc[p] = "send" /\ ~queueUp
  /\ live' = live \ {hold[p]}
  /\ hold' = [hold EXCEPT ![p] = NoBuf]
  /\ pc' = [pc EXCEPT ![p] = "idle"]
  /\ Returns(p, -1)
  /\ UNCHANGED <<boot, queueUp, queue, msg, calls, task, pumpVars, connVars, msgCallBack,
                 histVars>>

\* CN_QUEUE_WAITTIMEOUT passed on a full queue, or there is no queue: the
\* caller still owns the buffer and gives it back.
SendFails(p) ==
  /\ pc[p] = "send" /\ ~QueueHasRoom
  /\ live' = live \ {hold[p]}
  /\ hold' = [hold EXCEPT ![p] = NoBuf]
  /\ pc' = [pc EXCEPT ![p] = "idle"]
  /\ Returns(p, -1)
  /\ UNCHANGED <<boot, queueUp, queue, msg, calls, task, pumpVars, connVars, msgCallBack,
                 histVars>>

Produce(p) == AllocMsg(p) \/ AllocFails(p) \/ SendSucceeds(p) \/ SendFails(p)

----------------------------------------------------------------------------
(* MainEntryProcess up to the main loop.  Every library call may fail.     *)

\* The state the set-up and tear-down steps never touch.
NotConn == <<boot, queueUp, queue, heapVars, prodVars, pumpVars, msgCallBack, histVars>>

MakeClientID ==
  /\ task = "clientID"
  /\ \/ clientID' = TRUE /\ task' = "userPwd"
     \/ UNCHANGED clientID /\ task' = "sleep"
  /\ UNCHANGED <<NotConn, client, userPwd>>

\* Seeded fault: the wrong exit label, EXIT_CLIENTID for EXIT_USERPWD.
MakeUserPwd_WrongExit ==
  /\ task = "userPwd"
  /\ \/ userPwd' = TRUE /\ task' = "create"
     \/ UNCHANGED userPwd /\ task' = "sleep"
  /\ UNCHANGED <<NotConn, client, clientID>>

MakeUserPwd ==
  /\ task = "userPwd"
  /\ \/ userPwd' = TRUE /\ task' = "create"
     \/ UNCHANGED userPwd /\ task' = "freeID"
  /\ UNCHANGED <<NotConn, client, clientID>>

CreateClient ==
  /\ task = "create"
  /\ \/ client' = "created" /\ task' = "setCallbacks"
     \/ UNCHANGED client /\ task' = "freePwd"
  /\ UNCHANGED <<NotConn, clientID, userPwd>>

SetCallbacks ==
  /\ task = "setCallbacks"
  /\ task' \in {"connect", "destroy"}
  /\ UNCHANGED <<NotConn, connVars>>

Connect ==
  /\ task = "connect"
  /\ \/ client' = "connected" /\ task' = "subscribe"
     \/ UNCHANGED client /\ task' = "destroy"
  /\ UNCHANGED <<NotConn, clientID, userPwd>>

\* A failed subscription destroys the client without disconnecting it.
Subscribe ==
  /\ task = "subscribe"
  /\ \/ client = "connected" /\ task' = "loop"
     \/ task' = "destroy"
  /\ UNCHANGED <<NotConn, connVars>>

\* The broker or the radio goes away; ConnLostCallBack only logs it.
LinkDrops ==
  /\ client = "connected"
  /\ client' = "dropped"
  /\ UNCHANGED <<NotConn, task, clientID, userPwd>>

----------------------------------------------------------------------------
(* The main loop and ProcessQueueMsg.                                      *)

IsConnected ==
  /\ task = "loop"
  /\ IF client = "connected"
       THEN task' = "wait" /\ polling' = FALSE
       ELSE task' = "disconnect" /\ UNCHANGED polling
  /\ UNCHANGED <<boot, queueUp, queue, heapVars, prodVars, cur, ret, connVars, msgCallBack,
                 histVars>>

QueueWaitTakes ==
  /\ task = "wait" /\ queueUp /\ queue # <<>>
  /\ cur' = Head(queue)
  /\ queue' = Tail(queue)
  /\ ret' = TRUE
  /\ task' = "dispatch"
  /\ UNCHANGED <<boot, queueUp, heapVars, prodVars, polling, connVars, msgCallBack, histVars>>

\* Seeded fault: the first wait has no timeout.
QueueWaitFails_WaitsForever ==
  /\ task = "wait" /\ (~queueUp \/ (queue = <<>> /\ polling))
  /\ ret' = FALSE /\ polling' = TRUE
  /\ task' = "yield"
  /\ UNCHANGED <<boot, queueUp, queue, heapVars, prodVars, cur, connVars, msgCallBack, histVars>>

\* Nothing within the timeout, or no queue: msg stays NULL and the drain ends.
QueueWaitFails ==
  /\ task = "wait" /\ (~queueUp \/ queue = <<>>)
  /\ ret' = FALSE /\ polling' = TRUE
  /\ task' = "yield"
  /\ UNCHANGED <<boot, queueUp, queue, heapVars, prodVars, cur, connVars, msgCallBack, histVars>>

Handled(fate) ==
  /\ handled' = Append(handled, msg[cur])
  /\ fates' = Append(fates, fate)
  /\ UNCHANGED accepted

\* Seeded faults: the result of the publication is dropped; a failed
\* publication is tried again at once.
Publish_IgnoresResult ==
  /\ task = "dispatch" /\ msg[cur].type = "PUBLISH"
  /\ \/ client = "connected" /\ Handled("published")
     \/ Handled("lost")
  /\ task' = "release"
  /\ UNCHANGED <<boot, queueUp, queue, heapVars, prodVars, pumpVars, connVars, msgCallBack>>

Publish_TriesAgain ==
  /\ task = "dispatch" /\ msg[cur].type = "PUBLISH"
  /\ \/ client = "connected" /\ ret' = TRUE /\ Handled("published") /\ task' = "release"
     \/ Len(handled) < 3 /\ ret' = FALSE /\ Handled("lost") /\ UNCHANGED task
  /\ UNCHANGED <<boot, queueUp, queue, heapVars, prodVars, cur, polling, connVars, msgCallBack>>

\* The result of the publication overwrites the result of the queue wait.
Publish ==
  /\ task = "dispatch" /\ msg[cur].type = "PUBLISH"
  /\ \/ client = "connected" /\ ret' = TRUE /\ Handled("published")
     \/ ret' = FALSE /\ Handled("lost")
  /\ task' = "release"
  /\ UNCHANGED <<boot, queueUp, queue, heapVars, prodVars, cur, polling, connVars, msgCallBack>>

Deliver ==
  /\ task = "dispatch" /\ msg[cur].type = "RECV"
  /\ IF msgCallBack
       THEN task' = "callback" /\ Handled("delivered")
       ELSE task' = "release" /\ Handled("ignored")
  /\ UNCHANGED <<boot, queueUp, queue, heapVars, prodVars, pumpVars, connVars, msgCallBack>>

\* msgCallBack returns once the answer it may be sending is through.
CallbackReturns ==
  /\ task = "callback" /\ pc[Resp] = "idle"
  /\ task' = "release"
  /\ UNCHANGED <<boot, queueUp, queue, heapVars, prodVars, pumpVars, connVars, msgCallBack,
                 histVars>>

\* hi_free, the zero timeout and the test of the drain loop.
Release ==
  /\ task = "release"
  /\ live' = live \ {cur}
  /\ cur' = NoBuf
  /\ polling' = TRUE
  /\ task' = IF ret THEN "wait" ELSE "yield"
  /\ UNCHANGED <<boot, queueUp, queue, msg, prodVars, ret, connVars, msgCallBack, histVars>>

Yield ==
  /\ task = "yield"
  /\ CallbackInYield => pc[Rcv] = "idle"
  /\ task' = "loop"
  /\ UNCHANGED <<NotConn, connVars>>

----------------------------------------------------------------------------
(* The exits of MainEntryProcess, and the loop of MainEntry (stop is never *)
(* set by any code of the repository, so the loop does not end).           *)

Disconnect ==
  /\ task = "disconnect"
  /\ client' = "created"
  /\ task' = "destroy"
  /\ UNCHANGED <<NotConn, clientID, userPwd>>

Destroy ==
  /\ task = "destroy"
  /\ client' = "none"
  /\ task' = "freePwd"
  /\ UNCHANGED <<NotConn, clientID, userPwd>>

FreeUserPwd ==
  /\ task = "freePwd"
  /\ userPwd' = FALSE
  /\ task' = "freeID"
  /\ UNCHANGED <<NotConn, client, clientID>>

FreeClientID ==
  /\ task = "freeID"
  /\ clientID' = FALSE
  /\ task' = "sleep"
  /\ UNCHANGED <<NotConn, client, userPwd>>

MainEntryRetries ==
  /\ task = "sleep"
  /\ task' = "clientID"
  /\ UNCHANGED <<NotConn, connVars>>

----------------------------------------------------------------------------
IoTMain == CreateQueue \/ CreateTask

MainEntryProcess ==
  \/ MakeClientID \/ MakeUserPwd \/ CreateClient \/ SetCallbacks \/ Connect \/ Subscribe
  \/ IsConnected \/ Yield \/ Disconnect \/ Destroy \/ FreeUserPwd \/ FreeClientID

ProcessQueueMsg ==
  QueueWaitTakes \/ QueueWaitFails \/ Publish \/ Deliver \/ CallbackReturns \/ Release

IotTask == MainEntryProcess \/ ProcessQueueMsg \/ MainEntryRetries

Next ==
  \/ IoTMain
  \/ IoTSetMsgCallback
  \/ \E p \in Producers : Produce(p)
  \/ LinkDrops
  \/ IotTask

Spec == Init /\ [][Next]_vars

\* The scheduler runs every task that can run, and hi_msg_queue_send gives up
\* after its timeout.  Nothing obliges a task to send, the broker to answer or
\* the connection to drop, so those steps have no fairness.
FairSpec ==
  /\ Spec
  /\ WF_vars(IoTMain)
  /\ WF_vars(IotTask)
  /\ \A p \in Producers : WF_vars(SendSucceeds(p) \/ SendFails(p))

----------------------------------------------------------------------------
\* Types, and the bound of the OS queue (iot_main.c 114-116, 134-142).
TypeOK ==
  /\ boot \in {"queue", "task", "done"} /\ queueUp \in BOOLEAN
  /\ queue \in Seq(Bufs) /\ Len(queue) <= QueueCap
  /\ live \subseteq Bufs /\ msg \in [Bufs -> Msgs]
  /\ pc \in [Producers -> {"idle", "send"}]
  /\ hold \in [Producers -> Bufs \cup {NoBuf}]
  /\ rc \in [Producers -> {-1, 0, 1}]
  /\ calls \in [Producers -> 0..MaxCalls]
  /\ task \in TaskPoints
  /\ cur \in Bufs \cup {NoBuf} /\ polling \in BOOLEAN /\ ret \in BOOLEAN
  /\ client \in {"none", "created", "connected", "dropped"}
  /\ clientID \in BOOLEAN /\ userPwd \in BOOLEAN /\ msgCallBack \in BOOLEAN
  /\ accepted \in Seq(Msgs) /\ handled \in Seq(Msgs) /\ fates \in Seq(Fates)

InQueue == {queue[i] : i \in 1..Len(queue)}
InHand  == {hold[p] : p \in Producers} \ {NoBuf}

\* No buffer leaks, is freed twice or is used after hi_free: every allocated
\* buffer has exactly one owner - the producer that is sending it, the queue
\* (in one place), or the pump - and every owned buffer is allocated.  The
\* buffer changes hands between tasks without a lock (iot_main.c 165-184,
\* 212-238, 394-417).
OneOwner ==
  /\ \A b \in Bufs : b \in live <=> b \in InQueue \cup InHand \cup {cur}
  /\ InQueue \cap InHand = {}
  /\ cur \notin InQueue \cup InHand
  /\ \A p, q \in Producers : hold[p] = hold[q] /\ hold[p] # NoBuf => p = q
  /\ \A i, j \in 1..Len(queue) : queue[i] = queue[j] => i = j

\* What the pump has taken but not dealt with, then what still waits.
InPump  == IF task = "dispatch" THEN <<msg[cur]>> ELSE <<>>
Waiting == [i \in 1..Len(queue) |-> msg[queue[i]]]
Pending == InPump \o Waiting

\* Every message IotSendMsg or MsgRcvCallBack queued is dealt with once, in
\* the order of the queue, with the contents it was queued with, whatever the
\* connection does in between (the queue outlives the client).
Conservation == accepted = handled \o Pending

\* The pump implements the channel its callers see: the queue and the message
\* in the pump's hand are the channel's contents.
Channel ==
  INSTANCE IotChannel WITH pending <- Pending, done <- handled, fates <- fates,
                           Cap <- QueueCap + 1

ImplementsChannel == Channel!Spec

\* IotSendMsg returns 0 exactly when the message is on its way through the
\* queue (iot_main.h: "if success means we write the message to the queue
\* susccess, not means communicate with the server success").
ReturnCodeHonest ==
  \A p \in Producers \ {Rcv} :
    pc[p] = "idle" /\ calls[p] > 0 =>
      (rc[p] = 0 <=> \E i \in 1..Len(accepted) :
                        accepted[i].from = p /\ accepted[i].no = calls[p])

\* A connection that goes away costs at most one message per pass: after a
\* failed publication the drain does not take another message before the
\* library has run and isConnected has been asked again.
LossEndsDrain ==
  task = "wait" /\ polling => fates # <<>> /\ fates[Len(fates)] # "lost"

\* Reconnecting leaks nothing: a new attempt starts with the client destroyed
\* and both strings freed, and no string is freed under a live client.
SessionTornDown ==
  /\ task \in {"off", "sleep", "clientID"} => client = "none" /\ ~clientID /\ ~userPwd
  /\ client # "none" => clientID /\ userPwd
  /\ task \in {"wait", "dispatch", "callback", "release"} => client \in {"connected", "dropped"}

\* One drain of the queue always ends, even when msgCallBack answers into the
\* queue the pump itself is draining while that queue is full.
DrainEnds == task = "wait" ~> task = "loop"

\* A lost connection is noticed although ConnLostCallBack does nothing: the
\* pump starts a new attempt.
Reconnects == client = "dropped" ~> task = "clientID"

\* Once the connection stays up, everything queued is dealt with.
Drained == <>[](client = "connected") => <>[](queue = <<>> /\ cur = NoBuf)
=============================================================================
