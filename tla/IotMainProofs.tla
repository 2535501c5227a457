--------------------------- MODULE IotMainProofs ---------------------------
(***************************************************************************)
(* Proofs about IotMain for every set of tasks, every heap, every queue    *)
(* length and both ways the library may run its callbacks.                 *)
(***************************************************************************)
EXTENDS IotMain, TLAPS, SequenceTheorems

USE ProducersAssumption, BufsAssumption, QueueCapAssumption, MaxCallsAssumption,
    CallbackAssumption

----------------------------------------------------------------------------
(* Where a pointer may be non-NULL, and that there is no task before       *)
(* IoTMain has created it: TypeOK is inductive only with this.             *)

Pointers ==
  /\ \A p \in Producers : hold[p] # NoBuf <=> pc[p] = "send"
  /\ cur # NoBuf <=> task \in {"dispatch", "callback", "release"}
  /\ boot # "done" => task = "off"

Shape == TypeOK /\ Pointers

LEMMA ShapeInit == Init => Shape
<1> SUFFICES ASSUME Init PROVE Shape
  OBVIOUS
<1> USE DEF Init
<1>1. msg \in [Bufs -> Msgs]
  BY DEF Msgs, Producers
<1>2. task \in TaskPoints
  BY DEF TaskPoints
<1>3. TypeOK
  <2>1. queue \in Seq(Bufs) /\ Len(queue) <= QueueCap /\ live \subseteq Bufs
    OBVIOUS
  <2>2. accepted \in Seq(Msgs) /\ handled \in Seq(Msgs) /\ fates \in Seq(Fates)
    OBVIOUS
  <2>3. /\ pc \in [Producers -> {"idle", "send"}]
        /\ hold \in [Producers -> Bufs \cup {NoBuf}]
        /\ rc \in [Producers -> {-1, 0, 1}]
        /\ calls \in [Producers -> 0..MaxCalls]
    OBVIOUS
  <2> QED BY <1>1, <1>2, <2>1, <2>2, <2>3 DEF TypeOK
<1>4. Pointers
  BY DEF Pointers
<1> QED BY <1>3, <1>4 DEF Shape

\* A step leads to a program point of the code.
LEMMA PointsNext ==
  ASSUME task \in TaskPoints, IotTask
  PROVE  task' \in TaskPoints
<1>1. CASE MainEntryProcess
  BY <1>1 DEF MainEntryProcess, TaskPoints, MakeClientID, MakeUserPwd, CreateClient,
       SetCallbacks, Connect, Subscribe, IsConnected, Yield, Disconnect, Destroy,
       FreeUserPwd, FreeClientID
<1>2. CASE ProcessQueueMsg
  BY <1>2 DEF ProcessQueueMsg, TaskPoints, QueueWaitTakes, QueueWaitFails, Publish,
       Deliver, CallbackReturns, Release
<1>3. CASE MainEntryRetries
  BY <1>3 DEF MainEntryRetries, TaskPoints
<1> QED BY <1>1, <1>2, <1>3 DEF IotTask

LEMMA ShapeProduce ==
  ASSUME Shape, NEW p \in Producers, Produce(p)
  PROVE  Shape'
<1> USE DEF Shape, TypeOK, Pointers, heapVars, prodVars, pumpVars, connVars, histVars
<1>1. CASE AllocMsg(p)
  <2>1. calls'[p] \in 0..MaxCalls /\ calls' \in [Producers -> 0..MaxCalls]
    BY <1>1 DEF AllocMsg, StartCall
  <2>2. PICK b \in Bufs \ live :
          /\ live' = live \cup {b}
          /\ msg' = [msg EXCEPT ![b] = [type |-> TypeOf(p), from |-> p, no |-> calls'[p]]]
          /\ hold' = [hold EXCEPT ![p] = b]
    BY <1>1 DEF AllocMsg
  <2>3. TypeOf(p) \in {"PUBLISH", "RECV"}
    BY DEF TypeOf
  <2>4. [type |-> TypeOf(p), from |-> p, no |-> calls'[p]] \in Msgs
    BY <2>1, <2>3 DEF Msgs
  <2>5. msg' \in [Bufs -> Msgs]
    BY <2>2, <2>4
  <2>6. UNCHANGED <<boot, queueUp, queue, rc, task, pumpVars, connVars, msgCallBack, histVars>>
    BY <1>1 DEF AllocMsg
  <2>7. pc' = [pc EXCEPT ![p] = "send"]
    BY <1>1 DEF AllocMsg
  <2>8. TypeOK'
    BY <2>1, <2>2, <2>5, <2>6, <2>7
  <2>9. Pointers'
    BY <2>2, <2>6, <2>7
  <2> QED BY <2>8, <2>9
<1>2. CASE AllocFails(p)
  BY <1>2 DEF AllocFails, StartCall, Returns
<1>3. CASE SendSucceeds(p)
  <2>1. hold[p] \in Bufs
    BY <1>3 DEF SendSucceeds
  <2>2. queue' \in Seq(Bufs) /\ Len(queue') <= QueueCap
    BY <1>3, <2>1, AppendProperties, LenProperties DEF SendSucceeds, QueueHasRoom
  <2>3. accepted' \in Seq(Msgs)
    BY <1>3, <2>1 DEF SendSucceeds
  <2> QED BY <1>3, <2>2, <2>3 DEF SendSucceeds, Returns
<1>4. CASE SendFails(p)
  BY <1>4 DEF SendFails, Returns
<1> QED BY <1>1, <1>2, <1>3, <1>4 DEF Produce

LEMMA ShapeProcessQueueMsg ==
  ASSUME Shape, ProcessQueueMsg
  PROVE  Shape'
<1>0. task' \in TaskPoints
  BY PointsNext DEF Shape, TypeOK, IotTask
<1> USE <1>0 DEF Shape, TypeOK, Pointers, heapVars, prodVars, pumpVars, connVars, histVars
<1>1. CASE QueueWaitTakes
  <2>1. Head(queue) \in Bufs /\ Tail(queue) \in Seq(Bufs) /\ Len(Tail(queue)) <= QueueCap
    BY <1>1, HeadTailProperties, LenProperties DEF QueueWaitTakes
  <2> QED BY <1>1, <2>1 DEF QueueWaitTakes
<1>2. CASE QueueWaitFails
  BY <1>2 DEF QueueWaitFails
<1>3. CASE Publish \/ Deliver
  <2>1. PICK f \in Fates : Handled(f)
    BY <1>3 DEF Publish, Deliver, Fates
  <2>2. cur \in Bufs
    BY <1>3 DEF Publish, Deliver
  <2>3. handled' \in Seq(Msgs) /\ fates' \in Seq(Fates) /\ accepted' = accepted
    BY <2>1, <2>2 DEF Handled
  <2>4. /\ ret' \in BOOLEAN
        /\ task' \in {"callback", "release"}
        /\ UNCHANGED <<boot, queueUp, queue, heapVars, prodVars, cur, polling, connVars,
                       msgCallBack>>
    BY <1>3 DEF Publish, Deliver
  <2> QED BY <2>2, <2>3, <2>4
<1>4. CASE CallbackReturns
  BY <1>4 DEF CallbackReturns
<1>5. CASE Release
  BY <1>5 DEF Release
<1> QED BY <1>1, <1>2, <1>3, <1>4, <1>5 DEF ProcessQueueMsg

LEMMA ShapeMainEntry ==
  ASSUME Shape, MainEntryProcess \/ MainEntryRetries \/ LinkDrops
  PROVE  Shape'
<1>1. task' \in TaskPoints
  BY PointsNext DEF Shape, TypeOK, IotTask, LinkDrops
<1>2. task \notin {"off", "dispatch", "callback", "release"} \/ LinkDrops
  BY DEF MainEntryProcess, MainEntryRetries, MakeClientID, MakeUserPwd, CreateClient,
       SetCallbacks, Connect, Subscribe, IsConnected, Yield, Disconnect, Destroy,
       FreeUserPwd, FreeClientID
<1>3. task' \notin {"dispatch", "callback", "release"} \/ LinkDrops
  BY DEF MainEntryProcess, MainEntryRetries, MakeClientID, MakeUserPwd, CreateClient,
       SetCallbacks, Connect, Subscribe, IsConnected, Yield, Disconnect, Destroy,
       FreeUserPwd, FreeClientID
<1>4. UNCHANGED <<boot, queueUp, queue, heapVars, prodVars, cur, ret, msgCallBack, histVars>>
  BY DEF MainEntryProcess, MainEntryRetries, MakeClientID, MakeUserPwd, CreateClient,
       SetCallbacks, Connect, Subscribe, IsConnected, Yield, Disconnect, Destroy,
       FreeUserPwd, FreeClientID, LinkDrops, NotConn, pumpVars
<1>5. ASSUME TypeOK
      PROVE  /\ polling' \in BOOLEAN
             /\ client' \in {"none", "created", "connected", "dropped"}
  BY <1>5 DEF TypeOK, MainEntryProcess, MainEntryRetries, MakeClientID, MakeUserPwd,
       CreateClient, SetCallbacks, Connect, Subscribe, IsConnected, Yield, Disconnect,
       Destroy, FreeUserPwd, FreeClientID, LinkDrops, NotConn, pumpVars, connVars
<1>6. ASSUME TypeOK PROVE clientID' \in BOOLEAN /\ userPwd' \in BOOLEAN
  BY <1>6 DEF TypeOK, MainEntryProcess, MainEntryRetries, MakeClientID, MakeUserPwd,
       CreateClient, SetCallbacks, Connect, Subscribe, IsConnected, Yield, Disconnect,
       Destroy, FreeUserPwd, FreeClientID, LinkDrops, NotConn, connVars
<1>7. LinkDrops => task' = task
  BY DEF LinkDrops
<1>8. TypeOK'
  BY <1>1, <1>4, <1>5, <1>6 DEF Shape, TypeOK, heapVars, prodVars, histVars
<1>9. Pointers'
  BY <1>2, <1>3, <1>4, <1>7 DEF Shape, Pointers, prodVars
<1> QED BY <1>8, <1>9 DEF Shape

LEMMA ShapeNext ==
  ASSUME Shape, [Next]_vars
  PROVE  Shape'
<1> USE DEF Shape, TypeOK, Pointers, heapVars, prodVars, pumpVars, connVars, histVars
<1>1. CASE IoTMain
  <2>1. CASE CreateQueue
    BY <2>1 DEF CreateQueue
  <2>2. CASE CreateTask
    <3>1. task' \in TaskPoints
      BY <2>2 DEF CreateTask, TaskPoints
    <3>2. cur = NoBuf /\ cur' = cur /\ task' \in {"off", "clientID"}
      BY <2>2 DEF CreateTask
    <3> QED BY <2>2, <3>1, <3>2 DEF CreateTask
  <2> QED BY <1>1, <2>1, <2>2 DEF IoTMain
<1>2. CASE IoTSetMsgCallback
  BY <1>2 DEF IoTSetMsgCallback
<1>3. CASE UNCHANGED vars
  BY <1>3 DEF vars
<1> QED
  BY <1>1, <1>2, <1>3, ShapeProduce, ShapeProcessQueueMsg, ShapeMainEntry
  DEF Next, IotTask

\* Every variable keeps its type, for every value of the constants.
THEOREM TypeCorrect == Spec => []TypeOK
<1>1. Spec => []Shape
  BY ShapeInit, ShapeNext, PTL DEF Spec
<1>2. Shape => TypeOK
  BY DEF Shape
<1> QED BY <1>1, <1>2, PTL

----------------------------------------------------------------------------
(* Ownership.  Only five actions move a buffer; the two that change the    *)
(* queue are described once, by what they do to the set of its elements.   *)

OwnerVars == <<queue, live, hold, cur>>

LEMMA QueueAppend ==
  ASSUME queue \in Seq(Bufs), NEW b \in Bufs, queue' = Append(queue, b)
  PROVE  /\ InQueue' = InQueue \cup {b}
         /\ b \notin InQueue =>
              ((\A i, j \in 1..Len(queue) : queue[i] = queue[j] => i = j)
                 => (\A i, j \in 1..Len(queue') : queue'[i] = queue'[j] => i = j))
<1>1. /\ Len(queue) \in Nat
      /\ Len(queue') = Len(queue) + 1
      /\ \A i \in 1..Len(queue) : queue'[i] = queue[i]
      /\ queue'[Len(queue) + 1] = b
  BY AppendProperties
<1>2. \A i \in 1..Len(queue') : i \in 1..Len(queue) \/ i = Len(queue) + 1
  BY <1>1
<1>3. InQueue' = InQueue \cup {b}
  <2>1. InQueue' \subseteq InQueue \cup {b}
    BY <1>1, <1>2 DEF InQueue
  <2>2. \A i \in 1..Len(queue) : i \in 1..Len(queue')
    BY <1>1
  <2>3. Len(queue) + 1 \in 1..Len(queue')
    BY <1>1
  <2>4. InQueue \cup {b} \subseteq InQueue'
    BY <1>1, <2>2, <2>3 DEF InQueue
  <2> QED BY <2>1, <2>4
<1>4. ASSUME b \notin InQueue,
             \A i, j \in 1..Len(queue) : queue[i] = queue[j] => i = j,
             NEW i \in 1..Len(queue'), NEW j \in 1..Len(queue'), queue'[i] = queue'[j]
      PROVE  i = j
  <2>1. \A k \in 1..Len(queue) : queue[k] # b
    BY <1>4 DEF InQueue
  <2> QED BY <1>1, <1>2, <1>4, <2>1
<1> QED BY <1>3, <1>4

LEMMA QueueTail ==
  ASSUME queue \in Seq(Bufs), queue # <<>>, queue' = Tail(queue),
         \A i, j \in 1..Len(queue) : queue[i] = queue[j] => i = j
  PROVE  /\ Head(queue) \in InQueue
         /\ InQueue' = InQueue \ {Head(queue)}
         /\ \A i, j \in 1..Len(queue') : queue'[i] = queue'[j] => i = j
<1>1. /\ Len(queue) \in Nat \ {0}
      /\ Head(queue) = queue[1]
      /\ Len(queue') = Len(queue) - 1
      /\ \A i \in 1..Len(queue') : queue'[i] = queue[i + 1]
  BY HeadTailProperties, EmptySeq, LenProperties
<1>2. \A i \in 1..Len(queue') : i + 1 \in 1..Len(queue) /\ i + 1 # 1
  BY <1>1
<1>3. \A i \in 1..Len(queue) : i # 1 => i - 1 \in 1..Len(queue') /\ (i - 1) + 1 = i
  BY <1>1
<1>4. 1 \in 1..Len(queue)
  BY <1>1
<1>5. Head(queue) \in InQueue
  BY <1>1, <1>4 DEF InQueue
<1>6. InQueue' \subseteq InQueue \ {Head(queue)}
  BY <1>1, <1>2, <1>4 DEF InQueue
<1>7. InQueue \ {Head(queue)} \subseteq InQueue'
  <2> SUFFICES ASSUME NEW i \in 1..Len(queue), queue[i] # Head(queue)
               PROVE  queue[i] \in InQueue'
    BY DEF InQueue
  <2>1. i # 1
    BY <1>1
  <2>2. i - 1 \in 1..Len(queue') /\ queue'[i - 1] = queue[i]
    BY <1>1, <1>3, <2>1
  <2> QED BY <2>2 DEF InQueue
<1>8. \A i, j \in 1..Len(queue') : queue'[i] = queue'[j] => i = j
  <2> SUFFICES ASSUME NEW i \in 1..Len(queue'), NEW j \in 1..Len(queue'),
                      queue'[i] = queue'[j]
               PROVE  i = j
    OBVIOUS
  <2>1. i + 1 = j + 1
    BY <1>1, <1>2
  <2> QED BY <1>1, <2>1
<1> QED BY <1>5, <1>6, <1>7, <1>8

LEMMA OwnerInit == Init => OneOwner
<1> SUFFICES ASSUME Init PROVE OneOwner
  OBVIOUS
<1>1. InQueue = {}
  BY DEF Init, InQueue
<1>2. \A p \in Producers : hold[p] = NoBuf
  BY DEF Init
<1>3. InHand = {}
  BY <1>2 DEF InHand
<1> QED BY <1>1, <1>2, <1>3 DEF Init, OneOwner

LEMMA OwnerUnchanged ==
  ASSUME OneOwner, UNCHANGED OwnerVars
  PROVE  OneOwner'
BY DEF OneOwner, OwnerVars, InQueue, InHand

LEMMA OwnerAlloc ==
  ASSUME Shape, OneOwner, NEW p \in Producers, AllocMsg(p)
  PROVE  OneOwner'
<1>1. PICK b \in Bufs \ live : live' = live \cup {b} /\ hold' = [hold EXCEPT ![p] = b]
  BY DEF AllocMsg
<1>2. queue' = queue /\ cur' = cur /\ hold[p] = NoBuf
  BY DEF AllocMsg, StartCall, pumpVars, Shape, Pointers
<1>3. InQueue' = InQueue
  BY <1>2 DEF InQueue
<1>4. hold \in [Producers -> Bufs \cup {NoBuf}]
  BY DEF Shape, TypeOK
<1>5. InHand' = InHand \cup {b}
  BY <1>1, <1>2, <1>4 DEF InHand
<1>6. b \notin InQueue \cup InHand \cup {cur}
  BY <1>1 DEF OneOwner
<1>7. \A q \in Producers : hold[q] # b
  BY <1>1, <1>6 DEF InHand
<1>8. \A q, r \in Producers : hold'[q] = hold'[r] /\ hold'[q] # NoBuf => q = r
  BY <1>1, <1>4, <1>7 DEF OneOwner
<1> QED BY <1>1, <1>2, <1>3, <1>5, <1>6, <1>8 DEF OneOwner

LEMMA OwnerSends ==
  ASSUME Shape, OneOwner, NEW p \in Producers, SendSucceeds(p) \/ SendFails(p)
  PROVE  OneOwner'
<1> DEFINE b == hold[p]
<1>1. /\ b \in Bufs
      /\ hold \in [Producers -> Bufs \cup {NoBuf}]
      /\ hold' = [hold EXCEPT ![p] = NoBuf]
      /\ cur' = cur
  BY DEF SendSucceeds, SendFails, Shape, TypeOK, Pointers, pumpVars
<1>2. b \in InHand /\ b \notin InQueue /\ b # cur
  BY <1>1 DEF InHand, OneOwner
<1>3. InHand' = InHand \ {b}
  BY <1>1 DEF InHand, OneOwner
<1>4. \A q, r \in Producers : hold'[q] = hold'[r] /\ hold'[q] # NoBuf => q = r
  BY <1>1 DEF OneOwner
<1>5. CASE SendSucceeds(p)
  <2>1. queue \in Seq(Bufs) /\ queue' = Append(queue, b) /\ live' = live
    BY <1>5 DEF SendSucceeds, Shape, TypeOK, heapVars
  <2>2. /\ InQueue' = InQueue \cup {b}
        /\ \A i, j \in 1..Len(queue') : queue'[i] = queue'[j] => i = j
    BY <1>1, <1>2, <2>1, QueueAppend DEF OneOwner
  <2>3. \A x \in Bufs : x \in live' <=> x \in InQueue' \cup InHand' \cup {cur'}
    BY <1>1, <1>2, <1>3, <2>1, <2>2 DEF OneOwner
  <2>4. InQueue' \cap InHand' = {} /\ cur' \notin InQueue' \cup InHand'
    BY <1>1, <1>2, <1>3, <2>2 DEF OneOwner
  <2> QED BY <1>4, <2>2, <2>3, <2>4 DEF OneOwner
<1>6. CASE SendFails(p)
  <2>1. queue' = queue /\ live' = live \ {b}
    BY <1>6 DEF SendFails
  <2>2. InQueue' = InQueue
    BY <2>1 DEF InQueue
  <2> QED BY <1>1, <1>2, <1>3, <1>4, <2>1, <2>2 DEF OneOwner
<1> QED BY <1>5, <1>6

LEMMA OwnerTakes ==
  ASSUME Shape, OneOwner, QueueWaitTakes
  PROVE  OneOwner'
<1>1. /\ queue \in Seq(Bufs) /\ queue # <<>> /\ queue' = Tail(queue)
      /\ cur = NoBuf /\ cur' = Head(queue)
      /\ live' = live /\ hold' = hold
  BY DEF QueueWaitTakes, Shape, TypeOK, Pointers, heapVars, prodVars
<1>2. /\ Head(queue) \in InQueue
      /\ InQueue' = InQueue \ {Head(queue)}
      /\ \A i, j \in 1..Len(queue') : queue'[i] = queue'[j] => i = j
  BY <1>1, QueueTail DEF OneOwner
<1>3. InHand' = InHand
  BY <1>1 DEF InHand
<1> QED BY <1>1, <1>2, <1>3 DEF OneOwner

LEMMA OwnerReleases ==
  ASSUME Shape, OneOwner, Release
  PROVE  OneOwner'
<1>1. /\ cur \in Bufs /\ cur' = NoBuf /\ live' = live \ {cur}
      /\ queue' = queue /\ hold' = hold
  BY DEF Release, Shape, TypeOK, Pointers, prodVars
<1>2. InQueue' = InQueue /\ InHand' = InHand
  BY <1>1 DEF InQueue, InHand
<1>3. NoBuf \notin InQueue \cup InHand
  <2>1. \A i \in 1..Len(queue) : queue[i] \in Bufs
    BY ElementOfSeq DEF Shape, TypeOK
  <2> QED BY <2>1 DEF InQueue, InHand
<1> QED BY <1>1, <1>2, <1>3 DEF OneOwner

LEMMA OwnerNext ==
  ASSUME Shape, OneOwner, [Next]_vars
  PROVE  OneOwner'
<1> USE DEF OwnerVars, heapVars, prodVars, pumpVars, NotConn
<1>1. CASE IoTMain \/ IoTSetMsgCallback \/ LinkDrops \/ UNCHANGED vars
  BY <1>1, OwnerUnchanged
  DEF IoTMain, CreateQueue, CreateTask, IoTSetMsgCallback, LinkDrops, vars
<1>2. ASSUME NEW p \in Producers, Produce(p) PROVE OneOwner'
  <2>1. CASE AllocFails(p)
    BY <2>1, OwnerUnchanged DEF AllocFails
  <2> QED BY <1>2, <2>1, OwnerAlloc, OwnerSends DEF Produce
<1>3. CASE MainEntryProcess \/ MainEntryRetries
  BY <1>3, OwnerUnchanged
  DEF MainEntryProcess, MainEntryRetries, MakeClientID, MakeUserPwd, CreateClient,
      SetCallbacks, Connect, Subscribe, IsConnected, Yield, Disconnect, Destroy,
      FreeUserPwd, FreeClientID
<1>4. CASE ProcessQueueMsg
  <2>1. CASE QueueWaitFails \/ Publish \/ Deliver \/ CallbackReturns
    BY <2>1, OwnerUnchanged DEF QueueWaitFails, Publish, Deliver, CallbackReturns
  <2> QED BY <1>4, <2>1, OwnerTakes, OwnerReleases DEF ProcessQueueMsg
<1> QED BY <1>1, <1>2, <1>3, <1>4 DEF Next, IotTask

\* A message buffer is never leaked, freed twice or used after it was freed.
THEOREM BuffersOwned == Spec => []OneOwner
<1>1. Init => Shape /\ OneOwner
  BY ShapeInit, OwnerInit
<1>2. Shape /\ OneOwner /\ [Next]_vars => (Shape /\ OneOwner)'
  BY ShapeNext, OwnerNext
<1> QED BY <1>1, <1>2, PTL DEF Spec

----------------------------------------------------------------------------
(* The channel.  Each step of the pump appends to what is pending, takes   *)
(* its head, or leaves it alone; order and refinement both follow.         *)

LEMMA ConsHeadTail ==
  ASSUME NEW S, NEW x \in S, NEW w \in Seq(S)
  PROVE  /\ <<x>> \o w \in Seq(S) /\ <<x>> \o w # <<>>
         /\ Head(<<x>> \o w) = x
         /\ Tail(<<x>> \o w) = w
<1> DEFINE c == <<x>> \o w
<1>1. /\ c \in Seq(S) /\ Len(c) = 1 + Len(w) /\ Len(w) \in Nat
      /\ \A i \in 1..(1 + Len(w)) : c[i] = IF i <= 1 THEN x ELSE w[i - 1]
  BY ConcatProperties, LenProperties
<1>2. c # <<>>
  BY <1>1
<1>3. /\ Head(c) = c[1] /\ Tail(c) \in Seq(S) /\ Len(Tail(c)) = Len(w)
      /\ \A i \in 1..Len(w) : Tail(c)[i] = c[i + 1]
  <2> HIDE DEF c
  <2> QED BY <1>1, <1>2, HeadTailProperties
<1>4. Head(c) = x
  BY <1>1, <1>3
<1>5. \A i \in 1..Len(w) : Tail(c)[i] = w[i]
  <2> HIDE DEF c
  <2> QED BY <1>1, <1>3
<1>6. Tail(c) = w
  <2> HIDE DEF c
  <2> QED BY <1>3, <1>5, SeqEqual
<1> QED BY <1>1, <1>2, <1>4, <1>6

LEMMA SplitHeadTail ==
  ASSUME NEW S, NEW s \in Seq(S), s # <<>>
  PROVE  s = <<Head(s)>> \o Tail(s) /\ Head(s) \in S /\ Tail(s) \in Seq(S)
<1>1. /\ Head(s) \in S /\ Head(s) = s[1]
      /\ Tail(s) \in Seq(S) /\ Len(Tail(s)) = Len(s) - 1
      /\ \A i \in 1..Len(Tail(s)) : Tail(s)[i] = s[i + 1]
  BY HeadTailProperties
<1>2. Len(s) \in Nat \ {0}
  BY EmptySeq
<1> DEFINE c == <<Head(s)>> \o Tail(s)
<1>3. /\ c \in Seq(S) /\ Len(c) = Len(s)
      /\ \A i \in 1..Len(s) : c[i] = IF i <= 1 THEN Head(s) ELSE Tail(s)[i - 1]
  BY <1>1, <1>2, ConcatProperties
<1>4. \A i \in 1..Len(s) : c[i] = s[i]
  <2> HIDE DEF c
  <2> QED BY <1>1, <1>2, <1>3
<1>5. c = s
  <2> HIDE DEF c
  <2> QED BY <1>3, <1>4, SeqEqual
<1> QED BY <1>1, <1>5

\* The contents of a queue whose buffers are not rewritten.
LEMMA WaitingIsSeq ==
  ASSUME queue \in Seq(Bufs), msg \in [Bufs -> Msgs]
  PROVE  /\ Waiting \in Seq(Msgs) /\ Len(Waiting) = Len(queue)
         /\ \A i \in 1..Len(queue) : Waiting[i] = msg[queue[i]]
BY DEF Waiting

LEMMA WaitingAppend ==
  ASSUME queue \in Seq(Bufs), msg \in [Bufs -> Msgs], NEW b \in Bufs,
         queue' = Append(queue, b), msg' = msg
  PROVE  Waiting' = Append(Waiting, msg[b])
<1>1. /\ Waiting \in Seq(Msgs) /\ Len(Waiting) = Len(queue) /\ Len(queue) \in Nat
      /\ \A i \in 1..Len(queue) : Waiting[i] = msg[queue[i]]
  BY WaitingIsSeq, LenProperties
<1>2. /\ queue' \in Seq(Bufs) /\ Len(queue') = Len(queue) + 1
      /\ \A i \in 1..Len(queue) : queue'[i] = queue[i]
      /\ queue'[Len(queue) + 1] = b
  BY AppendProperties
<1>3. /\ Waiting' \in Seq(Msgs) /\ Len(Waiting') = Len(queue')
      /\ \A i \in 1..Len(queue') : Waiting'[i] = msg[queue'[i]]
  BY <1>2 DEF Waiting
<1>4. /\ Append(Waiting, msg[b]) \in Seq(Msgs)
      /\ Len(Append(Waiting, msg[b])) = Len(queue) + 1
      /\ \A i \in 1..Len(queue) : Append(Waiting, msg[b])[i] = Waiting[i]
      /\ Append(Waiting, msg[b])[Len(queue) + 1] = msg[b]
  BY <1>1, AppendProperties
<1>5. \A i \in 1..Len(queue') : Waiting'[i] = Append(Waiting, msg[b])[i]
  <2> SUFFICES ASSUME NEW i \in 1..Len(queue')
               PROVE  Waiting'[i] = Append(Waiting, msg[b])[i]
    OBVIOUS
  <2>1. i \in 1..Len(queue) \/ i = Len(queue) + 1
    BY <1>1, <1>2
  <2> QED BY <1>1, <1>2, <1>3, <1>4, <2>1
<1> QED BY <1>2, <1>3, <1>4, <1>5, SeqEqual

LEMMA WaitingTail ==
  ASSUME queue \in Seq(Bufs), msg \in [Bufs -> Msgs], queue # <<>>,
         queue' = Tail(queue), msg' = msg
  PROVE  /\ Waiting = <<msg[Head(queue)]>> \o Waiting'
         /\ Waiting' \in Seq(Msgs)
<1>1. /\ Waiting \in Seq(Msgs) /\ Len(Waiting) = Len(queue)
      /\ Len(queue) \in Nat \ {0}
      /\ \A i \in 1..Len(queue) : Waiting[i] = msg[queue[i]]
  BY WaitingIsSeq, EmptySeq
<1>2. /\ queue' \in Seq(Bufs) /\ Len(queue') = Len(queue) - 1
      /\ Head(queue) = queue[1]
      /\ \A i \in 1..Len(queue') : queue'[i] = queue[i + 1]
  BY HeadTailProperties
<1>3. /\ Waiting' \in Seq(Msgs) /\ Len(Waiting') = Len(queue')
      /\ \A i \in 1..Len(queue') : Waiting'[i] = msg[queue'[i]]
  BY <1>2 DEF Waiting
<1>4. Waiting # <<>>
  BY <1>1
<1>5. /\ Waiting = <<Head(Waiting)>> \o Tail(Waiting)
      /\ Head(Waiting) = Waiting[1]
      /\ Tail(Waiting) \in Seq(Msgs) /\ Len(Tail(Waiting)) = Len(queue')
      /\ \A i \in 1..Len(queue') : Tail(Waiting)[i] = Waiting[i + 1]
  BY <1>1, <1>2, <1>4, SplitHeadTail, HeadTailProperties
<1>6. Head(Waiting) = msg[Head(queue)]
  BY <1>1, <1>2, <1>5
<1>7. \A i \in 1..Len(queue') : Tail(Waiting)[i] = Waiting'[i]
  BY <1>1, <1>2, <1>3, <1>5
<1>8. Tail(Waiting) = Waiting'
  BY <1>3, <1>5, <1>7, SeqEqual
<1> QED BY <1>3, <1>5, <1>6, <1>8

LEMMA PendingIsSeq ==
  ASSUME Shape
  PROVE  /\ Waiting \in Seq(Msgs) /\ Pending \in Seq(Msgs)
         /\ task # "dispatch" => Pending = Waiting
         /\ task = "dispatch" => Pending = <<msg[cur]>> \o Waiting /\ msg[cur] \in Msgs
         /\ Len(Pending) <= Len(queue) + 1
<1>1. Waiting \in Seq(Msgs) /\ Len(Waiting) = Len(queue) /\ Len(queue) \in Nat
  BY WaitingIsSeq, LenProperties DEF Shape, TypeOK
<1>2. CASE task = "dispatch"
  <2>1. msg[cur] \in Msgs
    BY <1>2 DEF Shape, TypeOK, Pointers
  <2>2. <<msg[cur]>> \in Seq(Msgs) /\ Len(<<msg[cur]>>) = 1
    BY <2>1
  <2> QED BY <1>1, <1>2, <2>1, <2>2, ConcatProperties DEF Pending, InPump
<1>3. CASE task # "dispatch"
  <2>1. Pending = <<>> \o Waiting
    BY <1>3 DEF Pending, InPump
  <2>2. <<>> \o Waiting = Waiting
    BY <1>1, ConcatEmptySeq
  <2> QED BY <1>1, <1>3, <2>1, <2>2
<1> QED BY <1>2, <1>3

----------------------------------------------------------------------------
(* What a step may do to the channel.                                      *)

FatesOf(m) ==
  IF m.type = "PUBLISH" THEN {"published", "lost"} ELSE {"delivered", "ignored"}

Accepts ==
  /\ Len(Pending) < QueueCap + 1
  /\ \E m \in Msgs : Pending' = Append(Pending, m) /\ accepted' = Append(accepted, m)
  /\ UNCHANGED <<handled, fates>>

Concludes ==
  /\ Pending # <<>>
  /\ Pending' = Tail(Pending)
  /\ handled' = Append(handled, Head(Pending))
  /\ \E f \in FatesOf(Head(Pending)) : fates' = Append(fates, f)
  /\ UNCHANGED accepted

Keeps == UNCHANGED <<Pending, accepted, handled, fates>>

LEMMA KeepsWhenUntouched ==
  ASSUME UNCHANGED <<queue, msg, cur, histVars>>,
         task = "dispatch" <=> task' = "dispatch"
  PROVE  Keeps
BY DEF Keeps, Pending, InPump, Waiting, histVars

LEMMA AllocKeeps ==
  ASSUME Shape, OneOwner, NEW p \in Producers, AllocMsg(p)
  PROVE  Keeps
<1>1. PICK b \in Bufs \ live :
        msg' = [msg EXCEPT ![b] = [type |-> TypeOf(p), from |-> p, no |-> calls'[p]]]
  BY DEF AllocMsg
<1>2. UNCHANGED <<queue, task, cur, accepted, handled, fates>>
  BY DEF AllocMsg, pumpVars, histVars
<1>3. \A x \in Bufs : x # b => msg'[x] = msg[x]
  BY <1>1 DEF Shape, TypeOK
<1>4. \A i \in 1..Len(queue) : queue[i] \in Bufs /\ queue[i] # b
  BY <1>1, ElementOfSeq DEF OneOwner, InQueue, Shape, TypeOK
<1>5. Waiting' = Waiting
  BY <1>2, <1>3, <1>4 DEF Waiting
<1>6. task = "dispatch" => cur \in Bufs /\ cur # b
  BY <1>1 DEF OneOwner, Shape, TypeOK, Pointers
<1>7. InPump' = InPump
  BY <1>2, <1>3, <1>6 DEF InPump
<1> QED BY <1>2, <1>5, <1>7 DEF Keeps, Pending

LEMMA SendAccepts ==
  ASSUME Shape, NEW p \in Producers, SendSucceeds(p)
  PROVE  Accepts
<1>1. /\ hold[p] \in Bufs /\ queue \in Seq(Bufs) /\ msg \in [Bufs -> Msgs]
      /\ queue' = Append(queue, hold[p])
      /\ accepted' = Append(accepted, msg[hold[p]])
      /\ Len(queue) < QueueCap
      /\ UNCHANGED <<msg, task, cur, handled, fates>>
  BY DEF SendSucceeds, QueueHasRoom, Shape, TypeOK, Pointers, heapVars, pumpVars
<1> DEFINE m == msg[hold[p]]
<1>2. m \in Msgs
  BY <1>1
<1>3. Waiting \in Seq(Msgs) /\ Waiting' = Append(Waiting, m)
  BY <1>1, WaitingAppend, WaitingIsSeq
<1>4. InPump' = InPump
  BY <1>1 DEF InPump
<1>5. InPump \in Seq(Msgs)
  BY DEF InPump, Shape, TypeOK, Pointers
<1>6. Pending' = Append(Pending, m)
  <2>1. Append(Waiting, m) = Waiting \o <<m>>
    BY <1>2, <1>3, AppendIsConcat
  <2>2. InPump \o Waiting \in Seq(Msgs)
    BY <1>3, <1>5, ConcatProperties
  <2>3. Append(InPump \o Waiting, m) = (InPump \o Waiting) \o <<m>>
    BY <1>2, <2>2, AppendIsConcat
  <2>4. <<m>> \in Seq(Msgs)
    BY <1>2
  <2>5. (InPump \o Waiting) \o <<m>> = InPump \o (Waiting \o <<m>>)
    BY <1>3, <1>5, <2>4, ConcatAssociative
  <2> QED BY <1>3, <1>4, <2>1, <2>3, <2>5 DEF Pending
<1>7. Len(Pending) < QueueCap + 1
  BY <1>1, PendingIsSeq, LenProperties
<1> QED BY <1>1, <1>2, <1>6, <1>7 DEF Accepts

LEMMA TakeKeeps ==
  ASSUME Shape, QueueWaitTakes
  PROVE  Keeps
<1>1. /\ queue \in Seq(Bufs) /\ msg \in [Bufs -> Msgs] /\ queue # <<>>
      /\ queue' = Tail(queue) /\ cur' = Head(queue) /\ msg' = msg
      /\ task = "wait" /\ task' = "dispatch"
      /\ UNCHANGED <<accepted, handled, fates>>
  BY DEF QueueWaitTakes, Shape, TypeOK, heapVars, histVars
<1>2. Waiting = <<msg[Head(queue)]>> \o Waiting'
  BY <1>1, WaitingTail
<1>3. Pending = Waiting
  BY <1>1, PendingIsSeq
<1>4. Pending' = <<msg[Head(queue)]>> \o Waiting'
  BY <1>1 DEF Pending, InPump
<1> QED BY <1>1, <1>2, <1>3, <1>4 DEF Keeps

LEMMA DispatchConcludes ==
  ASSUME Shape, Publish \/ Deliver
  PROVE  Concludes
<1>1. /\ task = "dispatch" /\ task' # "dispatch"
      /\ UNCHANGED <<queue, msg, accepted>>
      /\ handled' = Append(handled, msg[cur])
  BY DEF Publish, Deliver, Handled, heapVars
<1>2. \E f \in FatesOf(msg[cur]) : fates' = Append(fates, f)
  BY DEF Publish, Deliver, Handled, FatesOf
<1>3. /\ Waiting \in Seq(Msgs) /\ msg[cur] \in Msgs
      /\ Pending = <<msg[cur]>> \o Waiting
  BY <1>1, PendingIsSeq
<1>4. Pending # <<>> /\ Head(Pending) = msg[cur] /\ Tail(Pending) = Waiting
  BY <1>3, ConsHeadTail
<1>5. Pending' = Waiting
  <2>1. Waiting' = Waiting
    BY <1>1 DEF Waiting
  <2>2. Pending' = <<>> \o Waiting'
    BY <1>1 DEF Pending, InPump
  <2> QED BY <1>3, <2>1, <2>2, ConcatEmptySeq
<1> QED BY <1>1, <1>2, <1>4, <1>5 DEF Concludes

LEMMA ChannelStep ==
  ASSUME Shape, OneOwner, [Next]_vars
  PROVE  Accepts \/ Concludes \/ Keeps
<1> USE DEF heapVars, prodVars, pumpVars, NotConn, histVars
<1>1. CASE IoTMain
  <2>1. task # "dispatch" /\ task' # "dispatch"
    BY <1>1 DEF IoTMain, CreateQueue, CreateTask, Shape, Pointers
  <2> QED BY <1>1, <2>1, KeepsWhenUntouched DEF IoTMain, CreateQueue, CreateTask
<1>2. CASE IoTSetMsgCallback \/ LinkDrops \/ UNCHANGED vars
  BY <1>2, KeepsWhenUntouched DEF IoTSetMsgCallback, LinkDrops, vars
<1>3. ASSUME NEW p \in Producers, Produce(p) PROVE Accepts \/ Keeps
  <2>1. CASE AllocFails(p) \/ SendFails(p)
    BY <2>1, KeepsWhenUntouched DEF AllocFails, SendFails
  <2> QED BY <1>3, <2>1, AllocKeeps, SendAccepts DEF Produce
<1>4. CASE MainEntryProcess \/ MainEntryRetries
  <2>1. task # "dispatch" /\ task' # "dispatch"
    BY <1>4 DEF MainEntryProcess, MainEntryRetries, MakeClientID, MakeUserPwd, CreateClient,
      SetCallbacks, Connect, Subscribe, IsConnected, Yield, Disconnect, Destroy,
      FreeUserPwd, FreeClientID
  <2>2. UNCHANGED <<queue, msg, cur, histVars>>
    BY <1>4 DEF MainEntryProcess, MainEntryRetries, MakeClientID, MakeUserPwd, CreateClient,
      SetCallbacks, Connect, Subscribe, IsConnected, Yield, Disconnect, Destroy,
      FreeUserPwd, FreeClientID
  <2> QED BY <2>1, <2>2, KeepsWhenUntouched
<1>5. CASE ProcessQueueMsg
  <2>1. CASE QueueWaitFails \/ CallbackReturns
    BY <2>1, KeepsWhenUntouched DEF QueueWaitFails, CallbackReturns
  <2>2. CASE Release
    <3>1. /\ UNCHANGED <<queue, msg, accepted, handled, fates>>
          /\ task # "dispatch" /\ task' # "dispatch"
      BY <2>2 DEF Release
    <3> QED BY <3>1 DEF Keeps, Pending, InPump, Waiting
  <2> QED BY <1>5, <2>1, <2>2, TakeKeeps, DispatchConcludes DEF ProcessQueueMsg
<1> QED BY <1>1, <1>2, <1>3, <1>4, <1>5 DEF Next, IotTask

LEMMA ConservationNext ==
  ASSUME Shape, Shape', Conservation, Accepts \/ Concludes \/ Keeps
  PROVE  Conservation'
<1>1. Pending \in Seq(Msgs) /\ handled \in Seq(Msgs)
  BY PendingIsSeq DEF Shape, TypeOK
<1>2. CASE Accepts
  <2>1. PICK m \in Msgs : Pending' = Append(Pending, m) /\ accepted' = Append(accepted, m)
    BY <1>2 DEF Accepts
  <2>2. Pending' = Pending \o <<m>> /\ <<m>> \in Seq(Msgs)
    BY <1>1, <2>1, AppendIsConcat
  <2>3. accepted' = (handled \o Pending) \o <<m>>
    <3>1. handled \o Pending \in Seq(Msgs)
      BY <1>1, ConcatProperties
    <3> QED BY <2>1, <3>1, AppendIsConcat DEF Conservation
  <2>4. (handled \o Pending) \o <<m>> = handled \o (Pending \o <<m>>)
    BY <1>1, <2>2, ConcatAssociative
  <2> QED BY <1>2, <2>2, <2>3, <2>4 DEF Accepts, Conservation
<1>3. CASE Concludes
  <2>1. /\ Pending # <<>> /\ Pending' = Tail(Pending)
        /\ handled' = Append(handled, Head(Pending)) /\ accepted' = accepted
    BY <1>3 DEF Concludes
  <2>2. /\ Pending = <<Head(Pending)>> \o Tail(Pending)
        /\ Head(Pending) \in Msgs /\ Tail(Pending) \in Seq(Msgs)
    BY <1>1, <2>1, SplitHeadTail
  <2>3. handled' = handled \o <<Head(Pending)>> /\ <<Head(Pending)>> \in Seq(Msgs)
    BY <1>1, <2>1, <2>2, AppendIsConcat
  <2>4. (handled \o <<Head(Pending)>>) \o Tail(Pending)
          = handled \o (<<Head(Pending)>> \o Tail(Pending))
    BY <1>1, <2>2, <2>3, ConcatAssociative
  <2> QED BY <2>1, <2>2, <2>3, <2>4 DEF Conservation
<1>4. CASE Keeps
  BY <1>4 DEF Keeps, Conservation
<1> QED BY <1>2, <1>3, <1>4

LEMMA ChannelInit == Init => Pending = <<>> /\ handled = <<>> /\ fates = <<>> /\ Conservation
<1> SUFFICES ASSUME Init
             PROVE  Pending = <<>> /\ handled = <<>> /\ fates = <<>> /\ Conservation
  OBVIOUS
<1>1. /\ queue = <<>> /\ task = "off"
      /\ accepted = <<>> /\ handled = <<>> /\ fates = <<>>
  BY DEF Init
<1>2. Pending = Waiting
  BY <1>1, ShapeInit, PendingIsSeq
<1>3. Waiting \in Seq(Msgs) /\ Len(Waiting) = 0
  BY <1>1, ShapeInit, WaitingIsSeq DEF Shape, TypeOK
<1>4. Waiting = <<>>
  BY <1>3, EmptySeq
<1> QED BY <1>1, <1>2, <1>4 DEF Conservation

IInv == Shape /\ OneOwner /\ Conservation

LEMMA IInvInit == Init => IInv
BY ShapeInit, OwnerInit, ChannelInit DEF IInv

LEMMA IInvNext == IInv /\ [Next]_vars => IInv'
BY ShapeNext, OwnerNext, ChannelStep, ConservationNext DEF IInv

\* Every queued message is dealt with once, in the order of the queue and
\* with the contents it was queued with.
THEOREM MessagesConserved == Spec => []Conservation
<1>1. IInv => Conservation
  BY DEF IInv
<1> QED BY <1>1, IInvInit, IInvNext, PTL DEF Spec

\* The pump refines the bounded lossy first-in first-out channel.
THEOREM PumpImplementsChannel == Spec => ImplementsChannel
<1>1. Init => Channel!Init
  BY ChannelInit DEF Channel!Init
<1>2. IInv /\ [Next]_vars => [Channel!Next]_(Channel!chanVars)
  <2> SUFFICES ASSUME IInv, [Next]_vars
               PROVE  [Channel!Next]_(Channel!chanVars)
    OBVIOUS
  <2>1. Accepts \/ Concludes \/ Keeps
    BY ChannelStep DEF IInv
  <2>2. Accepts => Channel!Accept
    BY DEF Accepts, Channel!Accept
  <2>3. Concludes => Channel!Conclude
    BY DEF Concludes, Channel!Conclude, FatesOf, Channel!FatesOf
  <2>4. Keeps => UNCHANGED Channel!chanVars
    BY DEF Keeps, Channel!chanVars
  <2> QED BY <2>1, <2>2, <2>3, <2>4 DEF Channel!Next
<1> QED BY <1>1, <1>2, IInvInit, IInvNext, PTL DEF Spec, ImplementsChannel, Channel!Spec

----------------------------------------------------------------------------
(* The session.  Which of the client and the two strings exist is told by  *)
(* the program point: the labels of MainEntryProcess undo, in order, what  *)
(* was done before the jump.                                               *)

WithoutID     == {"off", "clientID", "sleep"}
WithoutPwd    == WithoutID \cup {"userPwd", "freeID"}
WithoutClient == WithoutPwd \cup {"create", "freePwd"}
Created       == {"setCallbacks", "connect"}

Session ==
  /\ clientID = (task \notin WithoutID)
  /\ userPwd = (task \notin WithoutPwd)
  /\ (client = "none") = (task \in WithoutClient)
  /\ task \in Created => client = "created"
  /\ client = "created" => task \in Created \cup {"destroy"}

LEMMA SessionInit == Init => Session
BY DEF Init, Session, WithoutID, WithoutPwd, WithoutClient, Created

LEMMA SessionNext ==
  ASSUME Shape, Session, [Next]_vars
  PROVE  Session'
<1> USE DEF Session, WithoutID, WithoutPwd, WithoutClient, Created, connVars
<1>1. CASE IoTMain
  BY <1>1 DEF IoTMain, CreateQueue, CreateTask, Shape, Pointers
<1>2. CASE IoTSetMsgCallback \/ LinkDrops \/ UNCHANGED vars
  BY <1>2 DEF IoTSetMsgCallback, LinkDrops, vars
<1>3. ASSUME NEW p \in Producers, Produce(p) PROVE Session'
  BY <1>3 DEF Produce, AllocMsg, AllocFails, SendSucceeds, SendFails
<1>4. CASE MainEntryProcess
  <2>1. CASE MakeClientID
    BY <2>1 DEF MakeClientID
  <2>5. CASE MakeUserPwd
    BY <2>5 DEF MakeUserPwd
  <2>6. CASE CreateClient
    BY <2>6 DEF CreateClient
  <2>2. CASE SetCallbacks \/ Connect \/ Subscribe
    BY <2>2 DEF SetCallbacks, Connect, Subscribe
  <2>3. CASE IsConnected \/ Yield \/ Disconnect
    BY <2>3 DEF IsConnected, Yield, Disconnect
  <2>4. CASE Destroy \/ FreeUserPwd \/ FreeClientID
    BY <2>4 DEF Destroy, FreeUserPwd, FreeClientID
  <2> QED BY <1>4, <2>1, <2>2, <2>3, <2>4, <2>5, <2>6 DEF MainEntryProcess
<1>5. CASE ProcessQueueMsg
  BY <1>5 DEF ProcessQueueMsg, QueueWaitTakes, QueueWaitFails, Publish, Deliver,
              CallbackReturns, Release
<1>6. CASE MainEntryRetries
  BY <1>6 DEF MainEntryRetries
<1> QED BY <1>1, <1>2, <1>3, <1>4, <1>5, <1>6 DEF Next, IotTask

\* Reconnecting leaks no string and no client, through every exit label of
\* MainEntryProcess (iot_main.c 246-346).
THEOREM SessionsTornDown == Spec => []SessionTornDown
<1>1. Shape /\ Session => SessionTornDown
  BY DEF Shape, TypeOK, Session, SessionTornDown, WithoutID, WithoutPwd, WithoutClient, Created
<1>2. Init => Shape /\ Session
  BY ShapeInit, SessionInit
<1>3. Shape /\ Session /\ [Next]_vars => (Shape /\ Session)'
  BY ShapeNext, SessionNext
<1> QED BY <1>1, <1>2, <1>3, PTL DEF Spec

----------------------------------------------------------------------------
(* A lost connection.  ret, which the code uses for the queue wait and for *)
(* the publication in turn, ends the drain exactly after a failed one.     *)

LastFate == fates[Len(fates)]

DrainInv ==
  /\ LossEndsDrain
  /\ task = "dispatch" => ret
  /\ task \in {"callback", "release"} => fates # <<>> /\ (ret => LastFate # "lost")

LEMMA DrainInit == Init => DrainInv
BY DEF Init, DrainInv, LossEndsDrain

LEMMA DrainNext ==
  ASSUME Shape, DrainInv, [Next]_vars
  PROVE  DrainInv'
<1> USE DEF DrainInv, LossEndsDrain, LastFate, pumpVars, histVars
<1>1. CASE IoTMain
  BY <1>1 DEF IoTMain, CreateQueue, CreateTask, Shape, Pointers
<1>2. CASE IoTSetMsgCallback \/ LinkDrops \/ UNCHANGED vars
  BY <1>2 DEF IoTSetMsgCallback, LinkDrops, vars, NotConn
<1>3. ASSUME NEW p \in Producers, Produce(p) PROVE DrainInv'
  BY <1>3 DEF Produce, AllocMsg, AllocFails, SendSucceeds, SendFails
<1>4. CASE MainEntryProcess \/ MainEntryRetries
  BY <1>4 DEF MainEntryProcess, MainEntryRetries, MakeClientID, MakeUserPwd, CreateClient,
    SetCallbacks, Connect, Subscribe, IsConnected, Yield, Disconnect, Destroy,
    FreeUserPwd, FreeClientID, NotConn
<1>5. CASE QueueWaitTakes \/ QueueWaitFails \/ CallbackReturns \/ Release
  BY <1>5 DEF QueueWaitTakes, QueueWaitFails, CallbackReturns, Release
<1>6. CASE Publish \/ Deliver
  <2>1. PICK f \in Fates : fates' = Append(fates, f) /\ (ret' => f # "lost")
    BY <1>6 DEF Publish, Deliver, Handled, Fates
  <2>2. fates \in Seq(Fates)
    BY DEF Shape, TypeOK
  <2>3. /\ Len(fates') = Len(fates) + 1 /\ fates' # <<>>
        /\ fates'[Len(fates) + 1] = f
    BY <2>1, <2>2, AppendProperties
  <2>4. task' \in {"callback", "release"}
    BY <1>6 DEF Publish, Deliver
  <2> QED BY <2>1, <2>3, <2>4
<1> QED BY <1>1, <1>2, <1>3, <1>4, <1>5, <1>6 DEF Next, IotTask, ProcessQueueMsg

\* Between a failed publication and the next message taken, the library has
\* run and isConnected has been asked: a dead connection costs one message per
\* pass (iot_main.c 213-243).
THEOREM LossesEndDrains == Spec => []LossEndsDrain
<1>1. Init => Shape /\ DrainInv
  BY ShapeInit, DrainInit
<1>2. Shape /\ DrainInv /\ [Next]_vars => (Shape /\ DrainInv)'
  BY ShapeNext, DrainNext
<1>3. DrainInv => LossEndsDrain
  BY DEF DrainInv
<1> QED BY <1>1, <1>2, <1>3, PTL DEF Spec

----------------------------------------------------------------------------
(* The return code.  A call's message carries the number of the call from  *)
(* the allocation on, so that no other call can answer for it.             *)

Numbered ==
  /\ \A p \in Producers : pc[p] = "send" => msg[hold[p]].from = p /\ msg[hold[p]].no = calls[p]
  /\ \A i \in 1..Len(accepted) :
       LET p == accepted[i].from
       IN accepted[i].no <= calls[p] /\ (pc[p] = "send" => accepted[i].no # calls[p])

HonestInv == ReturnCodeHonest /\ Numbered

LEMMA HonestInit == Init => HonestInv
BY DEF Init, HonestInv, ReturnCodeHonest, Numbered

LEMMA HonestUnchanged ==
  ASSUME HonestInv, UNCHANGED <<msg, pc, hold, rc, calls, accepted>>
  PROVE  HonestInv'
BY DEF HonestInv, ReturnCodeHonest, Numbered

LEMMA HonestAlloc ==
  ASSUME Shape, OneOwner, HonestInv, NEW p \in Producers, AllocMsg(p)
  PROVE  HonestInv'
<1>1. PICK b \in Bufs \ live :
        /\ msg' = [msg EXCEPT ![b] = [type |-> TypeOf(p), from |-> p, no |-> calls'[p]]]
        /\ hold' = [hold EXCEPT ![p] = b]
  BY DEF AllocMsg
<1>2. /\ pc[p] = "idle" /\ pc' = [pc EXCEPT ![p] = "send"]
      /\ calls' = [calls EXCEPT ![p] = @ + 1]
      /\ accepted' = accepted /\ rc' = rc
  BY DEF AllocMsg, StartCall, histVars
<1>3. /\ pc \in [Producers -> {"idle", "send"}] /\ hold \in [Producers -> Bufs \cup {NoBuf}]
      /\ calls \in [Producers -> Int] /\ msg \in [Bufs -> Msgs]
      /\ \A i \in 1..Len(accepted) : accepted[i].from \in Producers /\ accepted[i].no \in Int
  <2>1. \A i \in 1..Len(accepted) : accepted[i] \in Msgs
    BY ElementOfSeq DEF Shape, TypeOK
  <2> QED BY <2>1 DEF Shape, TypeOK, Msgs
<1>4. \A q \in Producers : q # p /\ pc[q] = "send" => hold[q] \in Bufs /\ hold[q] # b
  BY <1>1, <1>3 DEF Shape, Pointers, OneOwner, InHand
<1>5. msg'[hold'[p]].from = p /\ msg'[hold'[p]].no = calls'[p]
  BY <1>1, <1>3
<1>6. \A q \in Producers : q # p /\ pc[q] = "send" => msg'[hold'[q]] = msg[hold[q]]
  BY <1>1, <1>3, <1>4
<1>7. \A q \in Producers :
        pc'[q] = "send" => msg'[hold'[q]].from = q /\ msg'[hold'[q]].no = calls'[q]
  BY <1>2, <1>3, <1>5, <1>6 DEF HonestInv, Numbered
<1>8. \A i \in 1..Len(accepted') :
        LET q == accepted'[i].from
        IN accepted'[i].no <= calls'[q] /\ (pc'[q] = "send" => accepted'[i].no # calls'[q])
  BY <1>2, <1>3 DEF HonestInv, Numbered
<1>9. ReturnCodeHonest'
  BY <1>2, <1>3 DEF HonestInv, ReturnCodeHonest
<1> QED BY <1>7, <1>8, <1>9 DEF HonestInv, Numbered

LEMMA HonestAllocFails ==
  ASSUME Shape, HonestInv, NEW p \in Producers, AllocFails(p)
  PROVE  HonestInv'
<1>1. /\ pc[p] = "idle" /\ calls' = [calls EXCEPT ![p] = @ + 1]
      /\ rc' = [rc EXCEPT ![p] = IF p = Rcv THEN 1 ELSE -1]
      /\ UNCHANGED <<msg, pc, hold, accepted>>
  BY DEF AllocFails, StartCall, Returns, heapVars, histVars
<1>2. /\ calls \in [Producers -> Int] /\ rc \in [Producers -> {-1, 0, 1}]
      /\ \A i \in 1..Len(accepted) : accepted[i].from \in Producers /\ accepted[i].no \in Int
  <2>1. \A i \in 1..Len(accepted) : accepted[i] \in Msgs
    BY ElementOfSeq DEF Shape, TypeOK
  <2> QED BY <2>1 DEF Shape, TypeOK, Msgs
<1>3. Numbered'
  BY <1>1, <1>2 DEF HonestInv, Numbered
<1>4. ASSUME NEW q \in Producers \ {Rcv}, pc'[q] = "idle", calls'[q] > 0
      PROVE  rc'[q] = 0 <=> \E i \in 1..Len(accepted') :
                              accepted'[i].from = q /\ accepted'[i].no = calls'[q]
  <2>1. CASE q = p
    BY <1>1, <1>2, <1>4, <2>1 DEF HonestInv, Numbered
  <2>2. CASE q # p
    BY <1>1, <1>2, <1>4, <2>2 DEF HonestInv, ReturnCodeHonest
  <2> QED BY <2>1, <2>2
<1> QED BY <1>3, <1>4 DEF HonestInv, ReturnCodeHonest

LEMMA HonestSends ==
  ASSUME Shape, HonestInv, NEW p \in Producers, SendSucceeds(p)
  PROVE  HonestInv'
<1> DEFINE m == msg[hold[p]]
<1>1. /\ pc[p] = "send" /\ pc' = [pc EXCEPT ![p] = "idle"]
      /\ hold' = [hold EXCEPT ![p] = NoBuf]
      /\ rc' = [rc EXCEPT ![p] = IF p = Rcv THEN 1 ELSE 0]
      /\ accepted' = Append(accepted, m)
      /\ UNCHANGED <<msg, calls>>
  BY DEF SendSucceeds, Returns, heapVars
<1>2. /\ m \in Msgs /\ m.from = p /\ m.no = calls[p]
      /\ pc \in [Producers -> {"idle", "send"}] /\ hold \in [Producers -> Bufs \cup {NoBuf}]
      /\ calls \in [Producers -> Int] /\ rc \in [Producers -> {-1, 0, 1}]
      /\ accepted \in Seq(Msgs)
  BY <1>1 DEF Shape, TypeOK, Pointers, HonestInv, Numbered
<1>3. /\ Len(accepted') = Len(accepted) + 1 /\ Len(accepted) \in Nat
      /\ accepted'[Len(accepted')] = m
      /\ \A i \in 1..Len(accepted) : accepted'[i] = accepted[i]
  BY <1>1, <1>2, AppendProperties, LenProperties
<1>4. \A i \in 1..Len(accepted') : i \in 1..Len(accepted) \/ i = Len(accepted')
  BY <1>3
<1>5. \A i \in 1..Len(accepted) : accepted[i].from \in Producers /\ accepted[i].no \in Int
  <2>1. \A i \in 1..Len(accepted) : accepted[i] \in Msgs
    BY <1>2, ElementOfSeq
  <2> QED BY <2>1 DEF Msgs
<1>6. Numbered'
  <2>1. \A q \in Producers :
          pc'[q] = "send" => msg'[hold'[q]].from = q /\ msg'[hold'[q]].no = calls'[q]
    BY <1>1, <1>2 DEF HonestInv, Numbered
  <2>2. ASSUME NEW i \in 1..Len(accepted')
        PROVE  LET q == accepted'[i].from
               IN accepted'[i].no <= calls'[q] /\ (pc'[q] = "send" => accepted'[i].no # calls'[q])
    <3>1. CASE i \in 1..Len(accepted)
      BY <1>1, <1>2, <1>3, <1>5, <3>1 DEF HonestInv, Numbered
    <3>2. CASE i = Len(accepted')
      BY <1>1, <1>2, <1>3, <3>2
    <3> QED BY <1>4, <3>1, <3>2
  <2> QED BY <2>1, <2>2 DEF Numbered
<1>7. ASSUME NEW q \in Producers \ {Rcv}, pc'[q] = "idle", calls'[q] > 0
      PROVE  rc'[q] = 0 <=> \E i \in 1..Len(accepted') :
                              accepted'[i].from = q /\ accepted'[i].no = calls'[q]
  <2>1. CASE q = p
    BY <1>1, <1>2, <1>3, <2>1
  <2>2. CASE q # p
    <3>1. (\E i \in 1..Len(accepted') : accepted'[i].from = q /\ accepted'[i].no = calls'[q])
           <=> \E i \in 1..Len(accepted) : accepted[i].from = q /\ accepted[i].no = calls[q]
      <4>1. accepted'[Len(accepted')].from # q /\ calls'[q] = calls[q]
        BY <1>1, <1>2, <1>3, <2>2
      <4>2. 1..Len(accepted) \subseteq 1..Len(accepted')
        BY <1>3
      <4> QED BY <1>3, <1>4, <4>1, <4>2
    <3>2. rc'[q] = rc[q] /\ calls'[q] = calls[q] /\ pc[q] = "idle"
      BY <1>1, <1>2, <1>7, <2>2
    <3>3. rc[q] = 0
           <=> \E i \in 1..Len(accepted) : accepted[i].from = q /\ accepted[i].no = calls[q]
      BY <1>7, <3>2 DEF HonestInv, ReturnCodeHonest
    <3> QED BY <3>1, <3>2, <3>3
  <2> QED BY <2>1, <2>2
<1> QED BY <1>6, <1>7 DEF HonestInv, ReturnCodeHonest

LEMMA HonestSendFails ==
  ASSUME Shape, HonestInv, NEW p \in Producers, SendFails(p)
  PROVE  HonestInv'
<1>1. /\ pc[p] = "send" /\ pc' = [pc EXCEPT ![p] = "idle"]
      /\ hold' = [hold EXCEPT ![p] = NoBuf]
      /\ rc' = [rc EXCEPT ![p] = IF p = Rcv THEN 1 ELSE -1]
      /\ UNCHANGED <<msg, calls, accepted>>
  BY DEF SendFails, Returns, histVars
<1>2. /\ pc \in [Producers -> {"idle", "send"}] /\ hold \in [Producers -> Bufs \cup {NoBuf}]
      /\ rc \in [Producers -> {-1, 0, 1}]
      /\ \A i \in 1..Len(accepted) : accepted[i].from \in Producers
  <2>1. \A i \in 1..Len(accepted) : accepted[i] \in Msgs
    BY ElementOfSeq DEF Shape, TypeOK
  <2> QED BY <2>1 DEF Shape, TypeOK, Msgs
<1>3. Numbered'
  BY <1>1, <1>2 DEF HonestInv, Numbered
<1>4. ASSUME NEW q \in Producers \ {Rcv}, pc'[q] = "idle", calls'[q] > 0
      PROVE  rc'[q] = 0 <=> \E i \in 1..Len(accepted') :
                              accepted'[i].from = q /\ accepted'[i].no = calls'[q]
  <2>1. CASE q = p
    BY <1>1, <1>2, <1>4, <2>1 DEF HonestInv, Numbered
  <2>2. CASE q # p
    BY <1>1, <1>2, <1>4, <2>2 DEF HonestInv, ReturnCodeHonest
  <2> QED BY <2>1, <2>2
<1> QED BY <1>3, <1>4 DEF HonestInv, ReturnCodeHonest

LEMMA HonestNext ==
  ASSUME Shape, OneOwner, HonestInv, [Next]_vars
  PROVE  HonestInv'
<1> USE DEF heapVars, prodVars, pumpVars, NotConn, histVars
<1>1. CASE IoTMain \/ IoTSetMsgCallback \/ LinkDrops \/ UNCHANGED vars
  BY <1>1, HonestUnchanged
  DEF IoTMain, CreateQueue, CreateTask, IoTSetMsgCallback, LinkDrops, vars
<1>2. ASSUME NEW p \in Producers, Produce(p) PROVE HonestInv'
  BY <1>2, HonestAlloc, HonestAllocFails, HonestSends, HonestSendFails DEF Produce
<1>3. CASE MainEntryProcess \/ MainEntryRetries
  BY <1>3, HonestUnchanged
  DEF MainEntryProcess, MainEntryRetries, MakeClientID, MakeUserPwd, CreateClient,
      SetCallbacks, Connect, Subscribe, IsConnected, Yield, Disconnect, Destroy,
      FreeUserPwd, FreeClientID
<1>4. CASE ProcessQueueMsg
  BY <1>4, HonestUnchanged
  DEF ProcessQueueMsg, QueueWaitTakes, QueueWaitFails, Publish, Deliver, Handled,
      CallbackReturns, Release
<1> QED BY <1>1, <1>2, <1>3, <1>4 DEF Next, IotTask

\* IotSendMsg tells the truth: 0 exactly for a message that went through the
\* queue, whatever the other tasks do meanwhile (iot_main.c 387-420).
THEOREM ReturnCodesHonest == Spec => []ReturnCodeHonest
<1>1. Init => Shape /\ OneOwner /\ HonestInv
  BY ShapeInit, OwnerInit, HonestInit
<1>2. Shape /\ OneOwner /\ HonestInv /\ [Next]_vars => (Shape /\ OneOwner /\ HonestInv)'
  BY ShapeNext, OwnerNext, HonestNext
<1>3. HonestInv => ReturnCodeHonest
  BY DEF HonestInv
<1> QED BY <1>1, <1>2, <1>3, PTL DEF Spec
=============================================================================
