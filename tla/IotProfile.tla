----------------------------- MODULE IotProfile -----------------------------
(***************************************************************************)
(* Building reports and command responses (app/demo/iot_demo/iot_profile.c *)
(* and cjson_init.c).                                                      *)
(*                                                                         *)
(* Several tasks build JSON trees on one heap while DemoEntry switches     *)
(* cJSON's allocator.  Every allocation may fail, and each function then   *)
(* deletes its own root and returns NULL to the next.                      *)
(*                                                                         *)
(* A function is the list of what it asks of cJSON:                        *)
(*   "root"   cJSON_CreateObject or cJSON_CreateArray, its local root      *)
(*   "item"   a node created and added under a constant key                *)
(*   "value"  a node created by FormateProflleValue                        *)
(*   "key"    cJSON_AddItemToObject, which copies the key                  *)
(*   "add"    the root is returned, and the caller adds it to its own      *)
(* A block is what one of these requests allocates; its contents are left  *)
(* out.  cJSON is external: an item whose key cannot be copied is not      *)
(* attached, and cJSON_Delete frees what is attached.                      *)
(***************************************************************************)
EXTENDS Integers, Sequences, SequencesExt

CONSTANTS
  Reporters,   \* tasks that report
  Payloads     \* what they report

Allocators == {"libc", "hi"}

VARIABLES
  cjson,       \* progress of cJsonInit: "malloc", "free", "done"
  hooks,       \* cJSON's malloc_fn and free_fn
  pc,          \* program point of each reporter
  payload,     \* what it was called with
  at,          \* position in Requests(payload)
  roots,       \* blocks under each root in progress, innermost last
  kv,          \* blocks of the local kv of MakeKvs
  text,        \* blocks of the printed message
  topic,       \* the topic is allocated
  live,        \* blocks the call has allocated and not freed
  keyless,     \* items of this call lost for want of a key
  printed,     \* blocks in the tree the message was printed from
  mixed,       \* history: a block was freed by an allocator that did not make it
  early        \* history: the call began before cJsonInit was through

heapVars == <<roots, kv, text, topic, live>>
callVars == <<keyless, printed, mixed, early>>
cjsonVars == <<cjson, hooks>>
profileVars == <<cjsonVars, pc, payload, at, heapVars, callVars>>

----------------------------------------------------------------------------
(* What the functions ask for.                                             *)

MakeKvs(kvs) ==
  <<"root">> \o FlattenSeq([i \in 1..kvs |-> <<"value", "key">>]) \o <<"add">>

MakeService(s) ==
  <<"root", "item">> \o MakeKvs(s.kvs) \o (IF s.eventTime THEN <<"item">> ELSE <<>>) \o <<"add">>

MakeServices(services) ==
  <<"root">> \o FlattenSeq([i \in 1..Len(services) |-> MakeService(services[i])]) \o <<"add">>

MakeProfilePropertyReport(p) == <<"root">> \o MakeServices(p.services)

MakeProfileCmdResp(p) ==
  <<"root", "item">> \o (IF p.respName THEN <<"item">> ELSE <<>>)
                     \o (IF p.paras > 0 THEN MakeKvs(p.paras) ELSE <<>>)

Requests(p) ==
  IF p.kind = "report" THEN MakeProfilePropertyReport(p) ELSE MakeProfileCmdResp(p)

----------------------------------------------------------------------------
(* Blocks, counted by the allocator that made them.                        *)

Blocks == [Allocators -> Nat]
None == [a \in Allocators |-> 0]
OneBlock == [None EXCEPT ![hooks.malloc] = 1]
Plus(b, c) == [a \in Allocators |-> b[a] + c[a]]
Count(b) == b["libc"] + b["hi"]
InRoots(rs) ==
  LET sum[n \in 0..Len(rs)] == IF n = 0 THEN 0 ELSE sum[n - 1] + Count(rs[n])
  IN sum[Len(rs)]

Init ==
  /\ cjson = "malloc" /\ hooks = [malloc |-> "libc", free |-> "libc"]
  /\ pc = [t \in Reporters |-> "idle"]
  /\ payload \in [Reporters -> {CHOOSE p \in Payloads : TRUE}]
  /\ at = [t \in Reporters |-> 1]
  /\ roots = [t \in Reporters |-> <<>>]
  /\ kv = [t \in Reporters |-> None] /\ text = [t \in Reporters |-> None]
  /\ topic = [t \in Reporters |-> FALSE]
  /\ live = [t \in Reporters |-> 0] /\ keyless = [t \in Reporters |-> 0]
  /\ printed = [t \in Reporters |-> 0]
  /\ mixed = [t \in Reporters |-> FALSE] /\ early = [t \in Reporters |-> FALSE]

----------------------------------------------------------------------------
(* cJsonInit, on DemoEntry's task; cJSON_InitHooks stores one pointer      *)
(* after the other.                                                        *)

SetMalloc ==
  /\ cjson = "malloc"
  /\ hooks' = [hooks EXCEPT !.malloc = "hi"]
  /\ cjson' = "free"
  /\ UNCHANGED <<pc, payload, at, heapVars, callVars>>

\* Seeded fault: the hooks' free_fn is left as it was.
SetFree_Forgotten ==
  /\ cjson = "free"
  /\ cjson' = "done"
  /\ UNCHANGED <<hooks, pc, payload, at, heapVars, callVars>>

SetFree ==
  /\ cjson = "free"
  /\ hooks' = [hooks EXCEPT !.free = "hi"]
  /\ cjson' = "done"
  /\ UNCHANGED <<pc, payload, at, heapVars, callVars>>

cJsonInit == SetMalloc \/ SetFree

----------------------------------------------------------------------------
(* One call of IoTProfilePropertyReport or IoTProfileCmdResp by task t.    *)

Go(t, here, there) ==
  /\ pc[t] = here
  /\ pc' = [pc EXCEPT ![t] = there]

\* cJSON frees blocks with the free_fn of now.
FreeBlocks(t, b) ==
  /\ live' = [live EXCEPT ![t] = @ - Count(b)]
  /\ mixed' = [mixed EXCEPT ![t] = @ \/ \E a \in Allocators : b[a] > 0 /\ a # hooks.free]

\* The arguments the repository passes are never NULL.
CallReport(t, p) ==
  /\ Go(t, "idle", "topic")
  /\ payload' = [payload EXCEPT ![t] = p]
  /\ at' = [at EXCEPT ![t] = 1]
  /\ live' = [live EXCEPT ![t] = 0] /\ keyless' = [keyless EXCEPT ![t] = 0]
  /\ printed' = [printed EXCEPT ![t] = 0]
  /\ mixed' = [mixed EXCEPT ![t] = FALSE]
  /\ early' = [early EXCEPT ![t] = cjson # "done"]
  /\ UNCHANGED <<cjsonVars, roots, kv, text, topic>>

\* iot_publish_persion_time and its like, of the application's tasks.
Publish(t) == \E p \in Payloads : p.kind = "report" /\ CallReport(t, p)

\* iot_profile.h offers it to answer commands with.  No task of this program does:
\* its one caller, DemoMsgRcvCallBack, is registered nowhere (app_demo_iot.c 134).
IoTProfileCmdResp(t) == \E p \in Payloads : p.kind = "resp" /\ CallReport(t, p)

\* A missing topic does not keep the message from being built.
MakeTopic(t) ==
  /\ Go(t, "topic", "build")
  /\ \/ topic' = [topic EXCEPT ![t] = TRUE] /\ live' = [live EXCEPT ![t] = @ + 1]
     \/ UNCHANGED <<topic, live>>
  /\ UNCHANGED <<cjsonVars, payload, at, roots, kv, text, callVars>>

Innermost(t) == Len(roots[t])

Asks(t, request) ==
  /\ pc[t] = "build" /\ at[t] <= Len(Requests(payload[t]))
  /\ Requests(payload[t])[at[t]] = request

NextRequest(t) == at' = [at EXCEPT ![t] = @ + 1]

Allocated(t) == live' = [live EXCEPT ![t] = @ + 1]

CreateRoot(t) ==
  /\ Asks(t, "root") /\ NextRequest(t) /\ Allocated(t)
  /\ roots' = [roots EXCEPT ![t] = Append(@, OneBlock)]
  /\ UNCHANGED <<cjsonVars, pc, payload, kv, text, topic, callVars>>

CreateItem(t) ==
  /\ Asks(t, "item") /\ NextRequest(t) /\ Allocated(t)
  /\ roots' = [roots EXCEPT ![t][Innermost(t)] = Plus(@, OneBlock)]
  /\ UNCHANGED <<cjsonVars, pc, payload, kv, text, topic, callVars>>

FormateProflleValue(t) ==
  /\ Asks(t, "value") /\ NextRequest(t) /\ Allocated(t)
  /\ kv' = [kv EXCEPT ![t] = OneBlock]
  /\ UNCHANGED <<cjsonVars, pc, payload, roots, text, topic, callVars>>

AddItemToObject(t) ==
  /\ Asks(t, "key") /\ NextRequest(t) /\ Allocated(t)
  /\ roots' = [roots EXCEPT ![t][Innermost(t)] = Plus(Plus(@, kv[t]), OneBlock)]
  /\ kv' = [kv EXCEPT ![t] = None]
  /\ UNCHANGED <<cjsonVars, pc, payload, text, topic, callVars>>

\* The key cannot be copied: the result is ignored, and the item is lost.
KeyNotCopied(t) ==
  /\ Asks(t, "key") /\ NextRequest(t)
  /\ keyless' = [keyless EXCEPT ![t] = @ + 1]
  /\ kv' = [kv EXCEPT ![t] = None]
  /\ UNCHANGED <<cjsonVars, pc, payload, roots, text, topic, live, printed, mixed, early>>

AddToCaller(t) ==
  /\ Asks(t, "add") /\ NextRequest(t)
  /\ LET n == Innermost(t) IN
       roots' = [roots EXCEPT ![t] =
                   Append(SubSeq(@, 1, n - 2), Plus(@[n - 1], @[n]))]
  /\ UNCHANGED <<cjsonVars, pc, payload, kv, text, topic, live, callVars>>

\* Seeded fault: a value that cannot be created is skipped.
NodeFails_Skips(t) ==
  /\ \/ \E request \in {"root", "item"} : Asks(t, request) /\ Go(t, "build", "exit")
                                           /\ UNCHANGED at
     \/ Asks(t, "value") /\ at' = [at EXCEPT ![t] = @ + 2] /\ UNCHANGED pc
  /\ UNCHANGED <<cjsonVars, payload, heapVars, callVars>>

\* No memory for a node: goto EXIT_MEM.
NodeFails(t) ==
  /\ \E request \in {"root", "item", "value"} : Asks(t, request)
  /\ Go(t, "build", "exit")
  /\ UNCHANGED <<cjsonVars, payload, at, heapVars, callVars>>

\* Seeded fault: the function returns NULL without deleting its root.
ExitMem_KeepsRoot(t) ==
  /\ roots[t] # <<>>
  /\ Go(t, "exit", IF Innermost(t) = 1 THEN "send" ELSE "exit")
  /\ roots' = [roots EXCEPT ![t] = Front(@)]
  /\ UNCHANGED <<cjsonVars, payload, at, kv, text, topic, live, callVars>>

\* EXIT_MEM of each function in turn: a function that returns NULL makes its
\* caller delete its own root and return NULL too.
ExitMem(t) ==
  /\ roots[t] # <<>>
  /\ Go(t, "exit", IF Innermost(t) = 1 THEN "send" ELSE "exit")
  /\ FreeBlocks(t, Last(roots[t]))
  /\ roots' = [roots EXCEPT ![t] = Front(@)]
  /\ UNCHANGED <<cjsonVars, payload, at, kv, text, topic, keyless, printed, early>>

\* Not even the outermost root could be created.
ExitEmpty(t) ==
  /\ roots[t] = <<>>
  /\ Go(t, "exit", "send")
  /\ UNCHANGED <<cjsonVars, payload, at, heapVars, callVars>>

PrintUnformatted(t) ==
  /\ at[t] > Len(Requests(payload[t]))
  /\ Go(t, "build", "delete")
  /\ \/ text' = [text EXCEPT ![t] = OneBlock] /\ Allocated(t)
     \/ UNCHANGED <<text, live>>
  /\ printed' = [printed EXCEPT ![t] = InRoots(roots[t])]
  /\ UNCHANGED <<cjsonVars, payload, at, roots, kv, topic, keyless, mixed, early>>

DeleteTree(t) ==
  /\ Go(t, "delete", "send")
  /\ FreeBlocks(t, roots[t][1])
  /\ roots' = [roots EXCEPT ![t] = <<>>]
  /\ UNCHANGED <<cjsonVars, payload, at, kv, text, topic, keyless, printed, early>>

\* Both strings are there: IotSendMsg, which copies them.
Sends(t) == topic[t] /\ text[t] # None

SendReport(t) ==
  /\ Go(t, "send", "hi_free")
  /\ UNCHANGED <<cjsonVars, payload, at, heapVars, callVars>>

\* hi_free, of what hi_malloc made.
FreeTopic(t) ==
  /\ Go(t, "hi_free", "cJSON_free")
  /\ live' = [live EXCEPT ![t] = IF topic[t] THEN @ - 1 ELSE @]
  /\ topic' = [topic EXCEPT ![t] = FALSE]
  /\ UNCHANGED <<cjsonVars, payload, at, roots, kv, text, callVars>>

FreeText(t) ==
  /\ Go(t, "cJSON_free", "idle")
  /\ FreeBlocks(t, text[t])
  /\ text' = [text EXCEPT ![t] = None]
  /\ UNCHANGED <<cjsonVars, payload, at, roots, kv, topic, keyless, printed, early>>

Report(t) ==
  \/ Publish(t) \/ IoTProfileCmdResp(t)
  \/ MakeTopic(t) \/ CreateRoot(t) \/ CreateItem(t) \/ FormateProflleValue(t)
  \/ AddItemToObject(t) \/ KeyNotCopied(t) \/ AddToCaller(t) \/ NodeFails(t)
  \/ ExitMem(t) \/ ExitEmpty(t) \/ PrintUnformatted(t) \/ DeleteTree(t)
  \/ SendReport(t) \/ FreeTopic(t) \/ FreeText(t)

Next == cJsonInit \/ \E t \in Reporters : Report(t)

Spec == Init /\ [][Next]_profileVars

----------------------------------------------------------------------------
ReportPoints == {"idle", "topic", "build", "exit", "delete", "send", "hi_free", "cJSON_free"}

\* Types.
TypeOK ==
  /\ cjson \in {"malloc", "free", "done"}
  /\ hooks \in [malloc : Allocators, free : Allocators]
  /\ pc \in [Reporters -> ReportPoints] /\ payload \in [Reporters -> Payloads]
  /\ at \in [Reporters -> Nat \ {0}] /\ roots \in [Reporters -> Seq(Blocks)]
  /\ kv \in [Reporters -> Blocks] /\ text \in [Reporters -> Blocks]
  /\ topic \in [Reporters -> BOOLEAN]
  /\ live \in [Reporters -> Nat] /\ keyless \in [Reporters -> Nat]
  /\ printed \in [Reporters -> Nat]
  /\ mixed \in [Reporters -> BOOLEAN] /\ early \in [Reporters -> BOOLEAN]

\* Whichever allocation fails, every block of a call stays reachable from a
\* local of the functions under way until it is freed, and the call ends with
\* none, except for the items whose key could not be copied (line 65).
BlocksReachable ==
  \A t \in Reporters :
    /\ live[t] = InRoots(roots[t]) + Count(kv[t]) + Count(text[t])
                   + (IF topic[t] THEN 1 ELSE 0) + keyless[t]
    /\ pc[t] = "idle" => live[t] = keyless[t]

\* cJSON's allocator changes under the feet of tasks that already report
\* (cjson_init.c 27); the damage is confined to calls that began before:
\* any other call frees each block with the allocator that made it.
FreedAsMade == \A t \in Reporters : mixed[t] => early[t]

\* A message that is sent was printed from a whole tree: a failed allocation
\* never yields a report in which something is missing, but for lost keys.
WholeTreeSent ==
  \A t \in Reporters :
    pc[t] = "send" /\ Sends(t) =>
      printed[t] + 2 * keyless[t] =
        Cardinality({n \in DOMAIN Requests(payload[t]) : Requests(payload[t])[n] # "add"})
=============================================================================
