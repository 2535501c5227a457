-------------------------- MODULE NetConfigProofs --------------------------
(***************************************************************************)
(* Proofs about NetConfig for every number of requests and events and      *)
(* every retry limit.                                                      *)
(***************************************************************************)
EXTENDS NetConfig, TLAPS, FiniteSetTheorems, SequenceTheorems

USE RetryAssumption, FastAssumption, RequestsAssumption, EventsAssumption

----------------------------------------------------------------------------
(* Numbering: requests and events are numbered in order, a task exists     *)
(* only for a number given out, and the request being dealt with has none. *)

Numbering ==
  /\ deal # "idle" => requests > 0 /\ cfg[requests] = "none"
  /\ \A r \in Reqs : r > requests => cfg[r] = "none"
  /\ \A e \in Evts : e > events => evt[e] = "none"
  /\ \A r \in Reqs : cfg[r] # "failed" => tries[r] < FAST_CONNECT_RETRY_NUM

\* Each increment of g_connectRetryCount is paid for by a task that is done:
\* lost updates can only make the count smaller.
Through == {e \in Evts : evt[e] = "done"}

Counting ==
  /\ g_connectRetryCount <= Cardinality(Through)
  /\ \A e \in Evts : loaded[e] <= Cardinality(Through)

\* TypeOK but for the count.
BaseOK ==
  /\ biz \in BizPoints /\ deal \in DealPoints
  /\ requests \in 0..MaxRequests /\ g_netCfg \in Config
  /\ cfg \in [Reqs -> CfgPoints] /\ seen \in [Reqs -> 0..MaxRequests]
  /\ used \in [Reqs -> Config]
  /\ tries \in [Reqs -> 0..FAST_CONNECT_RETRY_NUM]
  /\ g_connectRetryCount \in Nat /\ g_state \in States \cup {"none"}
  /\ handler \in BOOLEAN /\ g_staNetif \in BOOLEAN
  /\ evt \in [Evts -> EvtPoints] /\ loaded \in [Evts -> Nat]
  /\ events \in 0..MaxEvents /\ late \in BOOLEAN
  /\ radio \in {"idle", "joining", "up"} /\ dhcp \in BOOLEAN
  /\ results \in Seq({-1, 0})

Shape == BaseOK /\ Numbering /\ Counting

\* What the properties need of the requests, of the failures, and of the way
\* from an event to DHCP.
Newest ==
  /\ g_netCfg.ssid = requests
  /\ g_netCfg.key = IF deal = "copy" THEN requests - 1 ELSE requests
  /\ \A r \in Reqs : cfg[r] # "none" => r <= requests
  /\ NewestNetwork

Patience ==
  /\ \A e \in Evts : evt[e] \in {"failed", "stop"} => events > TEST_CONNECT_RETRY_COUNT
  /\ FailureIsPatient

\* A CfgNetTask at one of these points has found the interface.
Found == {"type", "secure", "add", "key", "connect"}
NoneFailed == \A r \in Reqs : cfg[r] # "failed"
SuccessTold == results # <<>> /\ results[Len(results)] = 0

Success ==
  /\ events > 0 => radio # "idle"
  /\ NoneFailed /\ (radio # "idle" \/ \E r \in Reqs : cfg[r] \in Found) => g_staNetif
  /\ g_state = "AVALIABLE" /\ ~late => \A e \in Evts : evt[e] \notin Deciding
  /\ g_state = "AVALIABLE" =>
       /\ events > 0
       /\ evt[events] \in {"first", "connected", "dhcp", "lost", "done"}
       /\ ~late /\ evt[events] \in {"dhcp", "done"} => SuccessTold
       /\ ~late /\ evt[events] = "done" /\ NoneFailed => dhcp

----------------------------------------------------------------------------
(* What the steps of the two kinds of task have in common.                 *)

LEMMA CfgStep ==
  ASSUME BaseOK, NEW r \in Reqs, CfgNetTask(r)
  PROVE  /\ cfg[r] \notin {"none", "failed", "done"}
         /\ \E p \in CfgPoints \ {"none"} : cfg' = [cfg EXCEPT ![r] = p]
         /\ UNCHANGED <<biz, deal, requests, evtVars, dhcp, g_connectRetryCount, g_state>>
         /\ g_netCfg' \in Config /\ g_netCfg'.ssid = g_netCfg.ssid /\ g_netCfg'.key = g_netCfg.key
<1> USE DEF GoCfg, CfgPoints, serviceVars, netVars, BaseOK
<1>1. CASE EnableWifi(r) \/ RegisterWifiEvent(r)
  BY <1>1 DEF EnableWifi, RegisterWifiEvent
<1>2. CASE IsWifiActive(r) \/ FindNetif(r)
  BY <1>2 DEF IsWifiActive, FindNetif
<1>3. CASE AddDeviceConfig(r) \/ ConnectToSucceeds(r)
  BY <1>3 DEF AddDeviceConfig, ConnectToSucceeds
<1>4. CASE ConnectToFails(r)
  BY <1>4 DEF ConnectToFails
<1>5. CASE ReadKey(r)
  BY <1>5 DEF ReadKey
<1>6. CASE StoreSecurityType(r)
  BY <1>6 DEF StoreSecurityType, Config
<1> QED BY <1>1, <1>2, <1>3, <1>4, <1>5, <1>6 DEF CfgNetTask

LEMMA EvtStep ==
  ASSUME BaseOK, NEW e \in Evts, WifiConnectTask(e)
  PROVE  /\ evt[e] \notin {"none", "done"}
         /\ \E p \in EvtPoints \ {"none", "first", "lost"} : evt' = [evt EXCEPT ![e] = p]
         /\ UNCHANGED <<serviceVars, cfgVars, events, late, g_staNetif, g_state, radio>>
<1> USE DEF GoEvt, EvtPoints, netVars, Tests
<1>1. CASE TestAvailable(e) \/ TestNotAvailable(e)
  BY <1>1 DEF TestAvailable, TestNotAvailable
<1>2. CASE TestBudget(e) \/ LoadRetryCount(e) \/ StoreRetryCount(e)
  BY <1>2 DEF TestBudget, LoadRetryCount, StoreRetryCount
<1>3. CASE ReportSuccess(e) \/ StartDhcp(e)
  BY <1>3 DEF ReportSuccess, StartDhcp
<1>4. CASE ReportFailure(e) \/ StopDhcp(e)
  BY <1>4 DEF ReportFailure, StopDhcp
<1> QED BY <1>1, <1>2, <1>3, <1>4 DEF WifiConnectTask

LEMMA RadioStep ==
  ASSUME BaseOK, Radio
  PROVE  /\ radio # "idle" /\ radio' \in {"joining", "up"}
         /\ UNCHANGED <<serviceVars, cfgVars, loaded, netVars, g_connectRetryCount, handler, results>>
         /\ \/ UNCHANGED <<events, g_state, evt, late>>
            \/ /\ events' = events + 1 /\ events' \in Evts
               /\ g_state' \in States
               /\ late' = (\E e \in Evts : evt[e] \in Deciding)
               /\ \E p \in {"first", "lost"} : evt' = [evt EXCEPT ![events'] = p]
<1>1. PICK from \in {{"joining"}, {"joining", "up"}}, to \in {"joining", "up"}, state \in States :
        RadioChanges(from, to, state)
  BY DEF Radio, States
<1>2. /\ radio # "idle" /\ radio' \in {"joining", "up"}
      /\ UNCHANGED <<serviceVars, cfgVars, loaded, netVars, g_connectRetryCount, handler, results>>
      /\ WifiConnectionChangedHandler(state)
  BY <1>1 DEF RadioChanges
<1>3. CASE handler
  <2>1. /\ events < MaxEvents /\ events' = events + 1 /\ g_state' = state
        /\ \E p \in {"first", "lost"} : evt' = [evt EXCEPT ![events'] = p]
    BY <1>2, <1>3 DEF WifiConnectionChangedHandler
  <2>2. late' = (\E e \in Evts : evt[e] \in Deciding)
    BY <1>2, <1>3, Zenon DEF WifiConnectionChangedHandler
  <2>3. events' \in Evts
    BY <2>1 DEF BaseOK, Evts
  <2> QED BY <1>2, <2>1, <2>2, <2>3, Zenon
<1>4. CASE ~handler
  BY <1>2, <1>4 DEF WifiConnectionChangedHandler
<1> QED BY <1>3, <1>4

\* The same, without what is said of late.
LEMMA RadioEvent ==
  ASSUME BaseOK, Radio
  PROVE  \/ UNCHANGED <<events, g_state, evt>>
         \/ /\ events' = events + 1 /\ events' \in Evts
            /\ g_state' \in States
            /\ \E p \in {"first", "lost"} : evt' = [evt EXCEPT ![events'] = p]
BY RadioStep, Zenon

\* Through only grows, and stays below the number of the events while a task
\* is still on its way.
LEMMA ThroughBounds ==
  ASSUME BaseOK, Numbering
  PROVE  /\ IsFiniteSet(Through) /\ Cardinality(Through) \in Nat
         /\ Cardinality(Through) <= events
         /\ \A e \in Evts : evt[e] \notin {"none", "done"} => Cardinality(Through) < events
<1>1. /\ IsFiniteSet(1..events) /\ Cardinality(1..events) = events /\ events \in Nat
  BY FS_Interval DEF BaseOK
<1>2. Through \in SUBSET (1..events)
  BY DEF Through, Numbering, BaseOK, Evts
<1>3. IsFiniteSet(Through) /\ Cardinality(Through) <= events
  BY <1>1, <1>2, FS_Subset
<1>4. ASSUME NEW e \in Evts, evt[e] \notin {"none", "done"}
      PROVE  Cardinality(Through) < events
  <2>1. e \in 1..events /\ e \notin Through
    BY <1>4 DEF Through, Numbering, BaseOK, Evts
  <2>2. Cardinality(Through) # events
    BY <1>1, <1>2, <2>1, FS_Subset
  <2> QED BY <1>1, <1>3, <2>2, FS_CardinalityType
<1> QED BY <1>3, <1>4, FS_CardinalityType

LEMMA ThroughGrows ==
  ASSUME BaseOK, Numbering, NEW e \in Evts, NEW p \in EvtPoints,
         evt[e] # "done", evt' = [evt EXCEPT ![e] = p]
  PROVE  Cardinality(Through') = IF p = "done" THEN Cardinality(Through) + 1
                                               ELSE Cardinality(Through)
<1>1. Through' = IF p = "done" THEN Through \cup {e} ELSE Through
  BY DEF Through, BaseOK
<1>2. e \notin Through
  BY DEF Through
<1>3. IsFiniteSet(Through)
  BY ThroughBounds
<1> QED BY <1>1, <1>2, <1>3, FS_AddElement

----------------------------------------------------------------------------
(* The types.                                                              *)

LEMMA ShapeInit == Init => Shape
<1> SUFFICES ASSUME Init PROVE Shape
  OBVIOUS
<1>1. BaseOK
  <2>1. results \in Seq({-1, 0})
    BY DEF Init
  <2>2. /\ cfg \in [Reqs -> CfgPoints] /\ seen \in [Reqs -> 0..MaxRequests]
        /\ used \in [Reqs -> Config] /\ g_netCfg \in Config
        /\ tries \in [Reqs -> 0..FAST_CONNECT_RETRY_NUM]
    BY DEF Init, CfgPoints, Config, NoConfig
  <2>3. evt \in [Evts -> EvtPoints] /\ loaded \in [Evts -> Nat]
    BY DEF Init, EvtPoints
  <2>4. /\ biz \in BizPoints /\ deal \in DealPoints
        /\ g_state \in States \cup {"none"} /\ radio \in {"idle", "joining", "up"}
        /\ handler \in BOOLEAN /\ g_staNetif \in BOOLEAN /\ dhcp \in BOOLEAN
        /\ late \in BOOLEAN
    BY DEF Init, BizPoints, DealPoints
  <2>5. /\ requests \in 0..MaxRequests
        /\ g_connectRetryCount \in Nat /\ events \in 0..MaxEvents
    BY DEF Init
  <2> QED BY <2>1, <2>2, <2>3, <2>4, <2>5 DEF BaseOK
<1>2. Numbering
  BY DEF Init, Numbering
<1>3. Through = {}
  BY DEF Init, Through
<1>4. Counting
  BY <1>3, FS_EmptySet DEF Init, Counting
<1> QED BY <1>1, <1>2, <1>4 DEF Shape

LEMMA ResultTyped ==
  ASSUME BaseOK, NEW result \in {-1, 0}, NetCfgResult(result)
  PROVE  /\ results' \in Seq({-1, 0}) /\ results' # <<>> /\ handler' \in BOOLEAN
         /\ Len(results') = Len(results) + 1 /\ results'[Len(results')] = result
         /\ \A i \in 1..Len(results) : results'[i] = results[i]
<1>1. results \in Seq({-1, 0}) /\ results' = Append(results, result) /\ handler' = FALSE
  BY DEF NetCfgResult, BaseOK
<1>2. /\ results' \in Seq({-1, 0}) /\ results' # <<>>
      /\ Len(results') = Len(results) + 1 /\ results'[Len(results) + 1] = result
      /\ \A i \in 1..Len(results) : results'[i] = results[i]
  BY <1>1, AppendProperties
<1> QED BY <1>1, <1>2

LEMMA BaseNext ==
  ASSUME Shape, [Next]_vars
  PROVE  BaseOK'
<1> USE DEF Shape, BaseOK
<1>1. CASE SampleBizTask
  BY <1>1 DEF SampleBizTask, BizNext, BizPoints, cfgVars, evtVars, netVars
<1>2. CASE Service
  <2>1. CASE ParseNetCfgData
    <3>1. requests' \in 0..MaxRequests
      BY <2>1 DEF ParseNetCfgData
    <3>2. g_netCfg' \in Config
      BY <2>1, <3>1 DEF ParseNetCfgData, Config
    <3> QED BY <2>1, <3>1, <3>2 DEF ParseNetCfgData, DealPoints, cfgVars, evtVars, netVars
  <2>2. CASE CopyNetCfg
    <3>1. g_netCfg' \in Config
      BY <2>2 DEF CopyNetCfg, Config
    <3> QED BY <2>2, <3>1 DEF CopyNetCfg, DealPoints, cfgVars, evtVars, netVars
  <2>3. CASE ResetRetryCount
    BY <2>3 DEF ResetRetryCount, DealPoints, cfgVars, evtVars, netVars
  <2>4. CASE CreateCfgNetTask
    BY <2>4 DEF CreateCfgNetTask, DealPoints, evtVars, netVars, CfgPoints
  <2> QED BY <1>2, <2>1, <2>2, <2>3, <2>4 DEF Service
<1>3. CASE Radio
  <2>1. events' \in 0..MaxEvents /\ g_state' \in States \cup {"none"}
    BY <1>3, RadioEvent DEF Evts
  <2>3. late' \in BOOLEAN
    <3>1. late' = late \/ late' = (\E e \in Evts : evt[e] \in Deciding)
      BY <1>3, RadioStep, Zenon
    <3>2. CASE late' = late
      BY <3>2
    <3>3. CASE late' = (\E e \in Evts : evt[e] \in Deciding)
      BY <3>3, Zenon
    <3> QED BY <3>1, <3>2, <3>3
  <2>2. evt' \in [Evts -> EvtPoints]
    BY <1>3, RadioEvent DEF EvtPoints
  <2> QED BY <1>3, <2>1, <2>2, <2>3, RadioStep DEF serviceVars, cfgVars, netVars
<1>4. ASSUME NEW r \in Reqs, CfgNetTask(r) PROVE BaseOK'
  <2>1. cfg' \in [Reqs -> CfgPoints]
    BY <1>4, CfgStep
  <2>2. /\ UNCHANGED <<biz, deal, requests, evtVars, dhcp, g_connectRetryCount, g_state>>
        /\ g_netCfg' \in Config
    BY <1>4, CfgStep
  <2>3. CASE EnableWifi(r)
    <3>1. results' \in Seq({-1, 0}) /\ handler' \in BOOLEAN
      BY <2>3, ResultTyped DEF EnableWifi
    <3> QED BY <2>1, <2>2, <2>3, <3>1 DEF EnableWifi, evtVars, netVars
  <2>4. CASE RegisterWifiEvent(r) \/ IsWifiActive(r) \/ FindNetif(r)
    BY <2>1, <2>2, <2>4 DEF RegisterWifiEvent, IsWifiActive, FindNetif, evtVars, netVars
  <2>5. CASE AddDeviceConfig(r)
    <3>1. used[r] \in Config /\ used \in [Reqs -> Config]
      BY DEF Shape, BaseOK
    <3>2. \A c \in Config, i, j \in 0..MaxRequests :
            [c EXCEPT !.ssid = i] \in Config /\ [c EXCEPT !.key = i, !.type = j] \in Config
      BY DEF Config
    <3>3. g_netCfg.ssid \in 0..MaxRequests /\ g_netCfg.key \in 0..MaxRequests
          /\ g_netCfg.type \in 0..MaxRequests
      BY DEF Shape, BaseOK, Config
    <3>4. \E c \in Config : used' = [used EXCEPT ![r] = c]
      BY <2>5, <3>1, <3>2, <3>3 DEF AddDeviceConfig
    <3>5. used' \in [Reqs -> Config]
      BY <3>1, <3>4
    <3> QED BY <2>1, <2>2, <2>5, <3>5 DEF AddDeviceConfig, evtVars, netVars
  <2>7. CASE ReadKey(r)
    <3>1. seen' \in [Reqs -> 0..MaxRequests]
      BY <2>7 DEF ReadKey, Config
    <3> QED BY <2>1, <2>2, <2>7, <3>1 DEF ReadKey, evtVars, netVars
  <2>8. CASE StoreSecurityType(r) \/ ConnectToSucceeds(r)
    BY <2>1, <2>2, <2>8 DEF StoreSecurityType, ConnectToSucceeds, evtVars, netVars
  <2>6. CASE ConnectToFails(r)
    <3>1. tries[r] < FAST_CONNECT_RETRY_NUM
      BY <2>6 DEF Numbering, ConnectToFails, GoCfg
    <3> QED BY <2>1, <2>2, <2>6, <3>1 DEF ConnectToFails, evtVars, netVars
  <2> QED BY <1>4, <2>3, <2>4, <2>5, <2>6, <2>7, <2>8 DEF CfgNetTask
<1>5. ASSUME NEW e \in Evts, WifiConnectTask(e) PROVE BaseOK'
  <2>1. evt' \in [Evts -> EvtPoints]
    BY <1>5, EvtStep
  <2>2. UNCHANGED <<serviceVars, cfgVars, events, late, g_staNetif, g_state, radio>>
    BY <1>5, EvtStep
  <2>3. CASE TestAvailable(e) \/ TestNotAvailable(e)
    BY <2>1, <2>2, <2>3 DEF TestAvailable, TestNotAvailable, Tests, serviceVars, cfgVars, netVars
  <2>4. CASE TestBudget(e) \/ LoadRetryCount(e) \/ StoreRetryCount(e)
    BY <2>1, <2>2, <2>4 DEF TestBudget, Tests, LoadRetryCount, StoreRetryCount, serviceVars, cfgVars, netVars
  <2>5. CASE ReportSuccess(e) \/ ReportFailure(e)
    <3>1. results' \in Seq({-1, 0}) /\ handler' \in BOOLEAN
      BY <2>5, ResultTyped DEF ReportSuccess, ReportFailure
    <3> QED BY <2>1, <2>2, <2>5, <3>1 DEF ReportSuccess, ReportFailure, serviceVars, cfgVars, netVars
  <2>6. CASE StartDhcp(e) \/ StopDhcp(e)
    BY <2>1, <2>2, <2>6 DEF StartDhcp, StopDhcp, serviceVars, cfgVars, netVars
  <2> QED BY <1>5, <2>3, <2>4, <2>5, <2>6 DEF WifiConnectTask
<1>6. CASE UNCHANGED vars
  BY <1>6 DEF vars, serviceVars, cfgVars, evtVars, netVars
<1> QED BY <1>1, <1>2, <1>3, <1>4, <1>5, <1>6 DEF Next

LEMMA NumberingNext ==
  ASSUME BaseOK, Numbering, [Next]_vars
  PROVE  Numbering'
<1> USE DEF Numbering, Reqs, Evts
<1>1. CASE SampleBizTask \/ UNCHANGED vars
  BY <1>1 DEF SampleBizTask, vars, serviceVars, cfgVars, evtVars
<1>2. CASE Service
  <2>1. CASE ParseNetCfgData
    BY <2>1 DEF BaseOK, ParseNetCfgData, cfgVars, evtVars
  <2>2. CASE CopyNetCfg \/ ResetRetryCount
    BY <2>2 DEF CopyNetCfg, ResetRetryCount, cfgVars, evtVars
  <2>3. CASE CreateCfgNetTask
    BY <2>3 DEF BaseOK, CreateCfgNetTask, evtVars
  <2> QED BY <1>2, <2>1, <2>2, <2>3 DEF Service
<1>3. CASE Radio
  <2>1. UNCHANGED <<serviceVars, cfgVars>>
    BY <1>3, RadioStep
  <2>2. \A e \in Evts : e > events' => evt'[e] = "none"
    BY <1>3, RadioEvent DEF BaseOK
  <2> QED BY <2>1, <2>2 DEF serviceVars, cfgVars
<1>4. ASSUME NEW r \in Reqs, CfgNetTask(r) PROVE Numbering'
  <2>1. /\ cfg[r] \notin {"none", "failed", "done"}
        /\ \A q \in Reqs : q # r => cfg'[q] = cfg[q]
        /\ UNCHANGED <<deal, requests, evtVars>>
    BY <1>4, CfgStep DEF BaseOK
  <2>2. r <= requests /\ (deal # "idle" => r # requests)
    BY <2>1 DEF BaseOK
  <2>3. ASSUME cfg'[r] # "failed" PROVE tries'[r] < FAST_CONNECT_RETRY_NUM
    <3>1. CASE ConnectToFails(r)
      BY <2>3, <3>1 DEF ConnectToFails, GoCfg, BaseOK
    <3>2. CASE ~ConnectToFails(r)
      <4>1. tries' = tries
        BY <1>4, <3>2 DEF CfgNetTask, EnableWifi, RegisterWifiEvent, IsWifiActive, FindNetif,
                          ReadKey, StoreSecurityType, AddDeviceConfig, ConnectToSucceeds
      <4> QED BY <2>1, <4>1
    <3> QED BY <3>1, <3>2
  <2>4. \A q \in Reqs : q # r => tries'[q] = tries[q]
    BY <1>4 DEF CfgNetTask, EnableWifi, RegisterWifiEvent, IsWifiActive, FindNetif,
                ReadKey, StoreSecurityType, AddDeviceConfig, ConnectToSucceeds, ConnectToFails, BaseOK
  <2>5. UNCHANGED <<deal, requests, evt, events>>
    BY <2>1 DEF evtVars
  <2>6. deal' # "idle" => requests' > 0 /\ cfg'[requests'] = "none"
    BY <2>1, <2>2, <2>5 DEF BaseOK
  <2>7. \A q \in Reqs : q > requests' => cfg'[q] = "none"
    BY <2>1, <2>2, <2>5 DEF BaseOK
  <2>8. \A q \in Reqs : cfg'[q] # "failed" => tries'[q] < FAST_CONNECT_RETRY_NUM
    BY <2>1, <2>3, <2>4
  <2> QED BY <2>5, <2>6, <2>7, <2>8
<1>5. ASSUME NEW e \in Evts, WifiConnectTask(e) PROVE Numbering'
  <2>1. /\ evt[e] # "none"
        /\ \A f \in Evts : f # e => evt'[f] = evt[f]
        /\ UNCHANGED <<serviceVars, cfgVars, events>>
    BY <1>5, EvtStep DEF BaseOK
  <2> QED BY <2>1 DEF serviceVars, cfgVars
<1> QED BY <1>1, <1>2, <1>3, <1>4, <1>5 DEF Next

LEMMA CountingNext ==
  ASSUME Shape, [Next]_vars
  PROVE  Counting'
<1> USE DEF Shape
<1>0. Cardinality(Through) \in Nat
  BY ThroughBounds
<1>1. CASE UNCHANGED <<evt, loaded>> /\ g_connectRetryCount' \in {0, g_connectRetryCount}
  <2>1. Through' = Through
    BY <1>1 DEF Through
  <2> QED BY <1>0, <1>1, <2>1 DEF Counting
<1>2. CASE SampleBizTask \/ Service \/ UNCHANGED vars
  BY <1>1, <1>2 DEF SampleBizTask, Service, ParseNetCfgData, CopyNetCfg, ResetRetryCount, CreateCfgNetTask,
                    vars, evtVars
<1>3. CASE Radio
  <2>1. UNCHANGED <<loaded, g_connectRetryCount>>
    BY <1>3, RadioStep
  <2>2. Through' = Through
    <3>1. CASE evt' = evt
      BY <3>1 DEF Through
    <3>2. CASE evt' # evt
      <4>1. PICK p \in {"first", "lost"} : evt' = [evt EXCEPT ![events'] = p]
        BY <1>3, <3>2, RadioStep
      <4>2. events' = events + 1 /\ events' \in Evts
        BY <1>3, <3>2, RadioStep
      <4>3. evt[events'] = "none"
        BY <4>2 DEF Numbering, BaseOK
      <4> QED BY <4>1, <4>2, <4>3 DEF Through, BaseOK
    <3> QED BY <3>1, <3>2
  <2> QED BY <2>1, <2>2 DEF Counting
<1>4. ASSUME NEW r \in Reqs, CfgNetTask(r) PROVE Counting'
  BY <1>1, <1>4, CfgStep DEF evtVars
<1>5. ASSUME NEW e \in Evts, WifiConnectTask(e) PROVE Counting'
  <2>1. PICK p \in EvtPoints : evt' = [evt EXCEPT ![e] = p] /\ evt[e] # "done"
    BY <1>5, EvtStep
  <2>2. Cardinality(Through') = IF p = "done" THEN Cardinality(Through) + 1
                                              ELSE Cardinality(Through)
    BY <2>1, ThroughGrows
  <2>3. Cardinality(Through) <= Cardinality(Through')
    BY <1>0, <2>2
  <2>4. CASE StoreRetryCount(e)
    <3>1. p = "done" /\ loaded' = loaded /\ g_connectRetryCount' = loaded[e] + 1
      BY <2>1, <2>4 DEF StoreRetryCount, GoEvt, BaseOK
    <3> QED BY <1>0, <2>2, <3>1 DEF Counting, BaseOK
  <2>5. CASE LoadRetryCount(e)
    <3>1. /\ g_connectRetryCount' = g_connectRetryCount
          /\ \A f \in Evts : loaded'[f] \in {loaded[f], g_connectRetryCount}
      BY <2>5 DEF LoadRetryCount, BaseOK
    <3>2. \A f \in Evts : loaded[f] <= Cardinality(Through')
      BY <1>0, <2>2, <2>3 DEF Counting, BaseOK
    <3>3. g_connectRetryCount <= Cardinality(Through')
      BY <1>0, <2>2, <2>3 DEF Counting, BaseOK
    <3> QED BY <3>1, <3>2, <3>3 DEF Counting
  <2>6. CASE ~StoreRetryCount(e) /\ ~LoadRetryCount(e)
    <3>1. UNCHANGED <<loaded, g_connectRetryCount>>
      BY <1>5, <2>6 DEF WifiConnectTask, TestAvailable, TestNotAvailable, TestBudget, Tests,
                        ReportSuccess, StartDhcp, ReportFailure, StopDhcp
    <3> QED BY <1>0, <2>2, <3>1 DEF Counting, BaseOK
  <2> QED BY <2>4, <2>5, <2>6
<1> QED BY <1>2, <1>3, <1>4, <1>5 DEF Next

LEMMA ShapeNext == Shape /\ [Next]_vars => Shape'
BY BaseNext, NumberingNext, CountingNext DEF Shape

LEMMA ShapeTyped == Shape => TypeOK
<1> SUFFICES ASSUME Shape PROVE TypeOK
  OBVIOUS
<1>1. /\ Cardinality(Through) \in Nat /\ Cardinality(Through) <= events
      /\ events <= MaxEvents /\ events \in Nat
  BY ThroughBounds DEF Shape, BaseOK
<1>2. g_connectRetryCount \in 0..MaxEvents /\ loaded \in [Evts -> 0..MaxEvents]
  BY <1>1 DEF Shape, Counting, BaseOK
<1> QED BY <1>2 DEF Shape, BaseOK, TypeOK

\* The types; in particular g_connectRetryCount never exceeds the number of
\* events although it is incremented without a lock.
THEOREM TypeCorrect == Spec => []TypeOK
BY ShapeInit, ShapeNext, ShapeTyped, PTL DEF Spec

----------------------------------------------------------------------------
(* The network a CfgNetTask joins.                                         *)

LEMMA NewestInit == Init => Newest
BY DEF Init, Newest, NewestNetwork, NoConfig, Reqs

LEMMA NewestNext ==
  ASSUME Shape, Newest, [Next]_vars
  PROVE  Newest'
<1> USE DEF Shape, Newest, NewestNetwork, Reqs
<1>1. CASE SampleBizTask \/ UNCHANGED vars
  BY <1>1 DEF SampleBizTask, vars, serviceVars, cfgVars
<1>2. CASE Service
  <2>1. CASE ParseNetCfgData
    <3>1. /\ requests' = requests + 1 /\ requests \in Nat /\ deal = "idle" /\ deal' = "copy"
          /\ UNCHANGED <<cfg, used>>
      BY <2>1 DEF BaseOK, ParseNetCfgData, cfgVars
    <3>2. g_netCfg'.ssid = requests' /\ g_netCfg'.key = g_netCfg.key
      BY <2>1 DEF BaseOK, Config, ParseNetCfgData
    <3> QED BY <3>1, <3>2
  <2>2. CASE CopyNetCfg
    BY <2>2 DEF BaseOK, Config, CopyNetCfg, cfgVars
  <2>3. CASE ResetRetryCount
    BY <2>3 DEF ResetRetryCount, cfgVars
  <2>4. CASE CreateCfgNetTask
    BY <2>4 DEF BaseOK, CreateCfgNetTask
  <2> QED BY <1>2, <2>1, <2>2, <2>3, <2>4 DEF Service
<1>3. CASE Radio
  <2>1. UNCHANGED <<serviceVars, cfgVars>>
    BY <1>3, RadioStep
  <2> QED BY <2>1 DEF serviceVars, cfgVars
<1>4. ASSUME NEW r \in Reqs, CfgNetTask(r) PROVE Newest'
  <2>1. /\ cfg[r] # "none" /\ UNCHANGED <<deal, requests>>
        /\ g_netCfg'.ssid = g_netCfg.ssid /\ g_netCfg'.key = g_netCfg.key
        /\ \A q \in Reqs : q # r => cfg'[q] = cfg[q]
    BY <1>4, CfgStep DEF BaseOK
  <2>2. /\ r <= g_netCfg.ssid /\ g_netCfg.ssid <= requests
        /\ r <= g_netCfg.key /\ g_netCfg.key <= requests
    <3>1. r <= requests /\ (deal = "copy" => r # requests)
      BY <2>1 DEF Numbering
    <3> QED BY <3>1 DEF BaseOK
  <2>3. \A q \in Reqs :
          /\ used'[q].ssid = used[q].ssid \/ (q = r /\ used'[q].ssid = g_netCfg.ssid)
          /\ used'[q].key = used[q].key \/ (q = r /\ used'[q].key = g_netCfg.key)
    <3>1. CASE AddDeviceConfig(r)
      <4>1. used \in [Reqs -> Config] /\ DOMAIN used[r] = {"ssid", "key", "type"}
        BY DEF BaseOK, Config
      <4>2. /\ \A q \in Reqs : q # r => used'[q] = used[q]
            /\ \/ used'[r] = [used[r] EXCEPT !.ssid = g_netCfg.ssid]
               \/ used'[r] = used[r]
               \/ used'[r] = [used[r] EXCEPT !.key = g_netCfg.key, !.type = g_netCfg.type]
        BY <3>1, <4>1 DEF AddDeviceConfig
      <4> QED BY <4>1, <4>2
    <3>2. CASE ~AddDeviceConfig(r)
      <4>1. used' = used
        BY <1>4, <3>2 DEF CfgNetTask, EnableWifi, RegisterWifiEvent, IsWifiActive, FindNetif,
                          ReadKey, StoreSecurityType, ConnectToSucceeds, ConnectToFails
      <4> QED BY <4>1
    <3> QED BY <3>1, <3>2
  <2>4. g_netCfg.ssid \in Int /\ g_netCfg.key \in Int /\ requests \in Int
    BY DEF BaseOK, Config
  <2>5. \A q \in Reqs : /\ used'[q].ssid # 0 => used'[q].ssid \in q..requests
                        /\ used'[q].key # 0 => used'[q].key \in q..requests
    BY <2>2, <2>3, <2>4
  <2>6. \A q \in Reqs : cfg'[q] # "none" => q <= requests
    BY <2>1
  <2> QED BY <2>1, <2>5, <2>6
<1>5. ASSUME NEW e \in Evts, WifiConnectTask(e) PROVE Newest'
  <2>1. UNCHANGED <<serviceVars, cfgVars>>
    BY <1>5, EvtStep
  <2> QED BY <2>1 DEF serviceVars, cfgVars
<1> QED BY <1>1, <1>2, <1>3, <1>4, <1>5 DEF Next

\* A second request may overtake the task of the first in the middle of the
\* copy, but no task joins a name or a key older than its request
\* (network_config_sample.c 255-256, 288, 321).
THEOREM NetworkIsNewest == Spec => []NewestNetwork
<1>1. Newest => NewestNetwork
  BY DEF Newest
<1> QED BY <1>1, ShapeInit, ShapeNext, NewestInit, NewestNext, PTL DEF Spec

----------------------------------------------------------------------------
(* What the service is told.                                               *)

\* A step tells the service at most one more result.
LEMMA TellsStep ==
  ASSUME BaseOK, [Next]_vars
  PROVE  \/ results' = results
         \/ NetCfgResult(0)
         \/ /\ NetCfgResult(-1)
            /\ \E e \in Evts : ReportFailure(e)
<1>1. CASE SampleBizTask \/ Service \/ Radio \/ UNCHANGED vars
  <2>1. CASE Radio
    BY <2>1, RadioStep
  <2> QED BY <1>1, <2>1 DEF SampleBizTask, Service, ParseNetCfgData, CopyNetCfg, ResetRetryCount,
                            CreateCfgNetTask, vars
<1>2. ASSUME NEW r \in Reqs, CfgNetTask(r) PROVE results' = results \/ NetCfgResult(0)
  BY <1>2 DEF CfgNetTask, EnableWifi, RegisterWifiEvent, IsWifiActive, FindNetif,
              ReadKey, StoreSecurityType, AddDeviceConfig, ConnectToSucceeds, ConnectToFails
<1>3. ASSUME NEW e \in Evts, WifiConnectTask(e)
      PROVE  results' = results \/ NetCfgResult(0) \/ (NetCfgResult(-1) /\ ReportFailure(e))
  BY <1>3 DEF WifiConnectTask, TestAvailable, TestNotAvailable, Tests, TestBudget,
              LoadRetryCount, StoreRetryCount, ReportSuccess, StartDhcp, ReportFailure, StopDhcp
<1> QED BY <1>1, <1>2, <1>3 DEF Next

LEMMA PatienceInit == Init => Patience
BY DEF Init, Patience, FailureIsPatient

LEMMA PatienceNext ==
  ASSUME Shape, Patience, [Next]_vars
  PROVE  Patience'
<1> USE DEF Shape
<1>1. events' >= events /\ events \in Nat /\ events' \in Nat
  <2>1. CASE SampleBizTask \/ Service \/ UNCHANGED vars
    BY <2>1 DEF SampleBizTask, Service, ParseNetCfgData, CopyNetCfg, ResetRetryCount, CreateCfgNetTask,
                vars, evtVars, BaseOK
  <2>2. CASE Radio
    BY <2>2, RadioEvent DEF BaseOK
  <2>3. events' \in Nat
    BY BaseNext DEF BaseOK
  <2> QED BY <2>1, <2>2, <2>3, CfgStep, EvtStep DEF Next, evtVars, BaseOK
<1>2. ASSUME NEW e \in Evts, evt'[e] \in {"failed", "stop"}
      PROVE  events' > TEST_CONNECT_RETRY_COUNT
  <2>1. CASE evt[e] \in {"failed", "stop"}
    BY <1>1, <2>1 DEF Patience
  <2>2. CASE evt[e] \notin {"failed", "stop"}
    <3>1. TestBudget(e) /\ g_connectRetryCount >= TEST_CONNECT_RETRY_COUNT
      <4>1. ~(SampleBizTask \/ Service \/ UNCHANGED vars)
        BY <1>2, <2>2 DEF SampleBizTask, Service, ParseNetCfgData, CopyNetCfg, ResetRetryCount,
                          CreateCfgNetTask, vars, evtVars
      <4>2. ~Radio
        BY <1>2, <2>2, RadioStep DEF BaseOK
      <4>3. \A r \in Reqs : ~CfgNetTask(r)
        BY <1>2, <2>2, CfgStep DEF evtVars
      <4>4. PICK f \in Evts : WifiConnectTask(f)
        BY <4>1, <4>2, <4>3 DEF Next
      <4>5. f = e
        BY <1>2, <2>2, <4>4, EvtStep DEF BaseOK
      <4> QED BY <1>2, <2>2, <4>4, <4>5
              DEF WifiConnectTask, GoEvt, TestAvailable, TestNotAvailable, TestBudget,
                  LoadRetryCount, StoreRetryCount, ReportSuccess, StartDhcp, ReportFailure, StopDhcp, BaseOK
    <3>2. evt[e] = "budget"
      BY <3>1 DEF TestBudget, GoEvt
    <3>3. Cardinality(Through) \in Nat /\ Cardinality(Through) < events
      BY <3>2, ThroughBounds
    <3> QED BY <1>1, <3>1, <3>3 DEF Counting, BaseOK
  <2> QED BY <2>1, <2>2
<1>3. ASSUME NEW i \in 1..Len(results'), results'[i] = -1
      PROVE  events' > TEST_CONNECT_RETRY_COUNT
  <2>1. CASE results' = results
    BY <1>1, <1>3, <2>1 DEF Patience, FailureIsPatient
  <2>2. CASE NetCfgResult(0)
    <3>1. i \in 1..Len(results) /\ results[i] = -1
      BY <1>3, <2>2, ResultTyped DEF BaseOK
    <3> QED BY <1>1, <3>1 DEF Patience, FailureIsPatient
  <2>3. ASSUME NEW e \in Evts, ReportFailure(e) PROVE events' > TEST_CONNECT_RETRY_COUNT
    BY <1>1, <2>3 DEF ReportFailure, GoEvt, Patience
  <2> QED BY <2>1, <2>2, <2>3, TellsStep
<1> QED BY <1>2, <1>3 DEF Patience, FailureIsPatient

\* The service hears of a failure only after more than
\* TEST_CONNECT_RETRY_COUNT events of the radio, whatever the tasks of the
\* events and a second request do to the count (network_config_sample.c
\* 189-190, 326).
THEOREM FailuresArePatient == Spec => []FailureIsPatient
<1>1. Patience => FailureIsPatient
  BY DEF Patience
<1> QED BY <1>1, ShapeInit, ShapeNext, PatienceInit, PatienceNext, PTL DEF Spec

----------------------------------------------------------------------------
(* From an event to DHCP.                                                  *)

LEMMA SuccessInit == Init => Success
BY DEF Init, Success, NoneFailed, Found, Deciding

LEMMA FailuresStay ==
  ASSUME Shape, [Next]_vars, NoneFailed'
  PROVE  NoneFailed
<1> USE DEF Shape
<1>1. ASSUME NEW r \in Reqs, cfg[r] = "failed" PROVE cfg'[r] = "failed"
  <2>1. CASE SampleBizTask \/ Service \/ UNCHANGED vars
    BY <1>1, <2>1 DEF SampleBizTask, Service, ParseNetCfgData, CopyNetCfg, ResetRetryCount,
                      CreateCfgNetTask, vars, cfgVars, Numbering, BaseOK
  <2>2. CASE Radio
    BY <1>1, <2>2, RadioStep DEF cfgVars
  <2>3. ASSUME NEW q \in Reqs, CfgNetTask(q) PROVE cfg'[r] = "failed"
    BY <1>1, <2>3, CfgStep DEF BaseOK
  <2>4. ASSUME NEW e \in Evts, WifiConnectTask(e) PROVE cfg'[r] = "failed"
    BY <1>1, <2>4, EvtStep DEF cfgVars
  <2> QED BY <2>1, <2>2, <2>3, <2>4 DEF Next
<1> QED BY <1>1 DEF NoneFailed

LEMMA NetifStays ==
  ASSUME Shape, Success, [Next]_vars, NoneFailed',
         radio' # "idle" \/ \E r \in Reqs : cfg'[r] \in Found
  PROVE  g_staNetif'
<1> USE DEF Shape
<1>0. NoneFailed
  BY FailuresStay
<1>1. CASE SampleBizTask \/ Service \/ UNCHANGED vars
  BY <1>0, <1>1 DEF SampleBizTask, Service, ParseNetCfgData, CopyNetCfg, ResetRetryCount,
                    CreateCfgNetTask, vars, cfgVars, netVars, Success, Found, BaseOK
<1>2. CASE Radio
  BY <1>0, <1>2, RadioStep DEF cfgVars, netVars, Success
<1>3. ASSUME NEW r \in Reqs, CfgNetTask(r) PROVE g_staNetif'
  <2>1. CASE EnableWifi(r) \/ RegisterWifiEvent(r) \/ IsWifiActive(r)
    <3>1. UNCHANGED <<radio, g_staNetif>> /\ cfg'[r] \notin Found
      BY <2>1 DEF EnableWifi, RegisterWifiEvent, IsWifiActive, GoCfg, netVars, Found, BaseOK
    <3>2. \A q \in Reqs : q # r => cfg'[q] = cfg[q]
      BY <1>3, CfgStep DEF BaseOK
    <3> QED BY <1>0, <3>1, <3>2 DEF Success
  <2>2. CASE FindNetif(r)
    BY <2>2 DEF FindNetif, GoCfg, NoneFailed, BaseOK
  <2>3. CASE ReadKey(r) \/ StoreSecurityType(r) \/ AddDeviceConfig(r)
    BY <1>0, <2>3 DEF ReadKey, StoreSecurityType, AddDeviceConfig, GoCfg, netVars, Success, Found
  <2>4. CASE ConnectToSucceeds(r) \/ ConnectToFails(r)
    BY <1>0, <2>4 DEF ConnectToSucceeds, ConnectToFails, GoCfg, netVars, Success, Found
  <2> QED BY <1>3, <2>1, <2>2, <2>3, <2>4 DEF CfgNetTask
<1>4. ASSUME NEW e \in Evts, WifiConnectTask(e) PROVE g_staNetif'
  BY <1>0, <1>4, EvtStep DEF cfgVars, Success
<1> QED BY <1>1, <1>2, <1>3, <1>4 DEF Next

\* Once the network was found with no task about to stop DHCP, a task that
\* comes to its second test of g_state finds that it need not stop anything.
LEMMA NoneDeciding ==
  ASSUME Shape, Success, [Next]_vars, g_state' = "AVALIABLE", ~late', NEW e \in Evts
  PROVE  evt'[e] \notin Deciding
<1> USE DEF Shape, Deciding
<1>1. CASE UNCHANGED <<evt, late, g_state>>
  BY <1>1 DEF Success
<1>2. CASE SampleBizTask \/ Service \/ UNCHANGED vars
  BY <1>1, <1>2 DEF SampleBizTask, Service, ParseNetCfgData, CopyNetCfg, ResetRetryCount,
                    CreateCfgNetTask, vars, evtVars
<1>3. CASE Radio
  <2>1. CASE UNCHANGED <<events, g_state, evt, late>>
    BY <1>1, <2>1
  <2>2. CASE ~UNCHANGED <<events, g_state, evt, late>>
    BY <1>3, <2>2, RadioStep DEF BaseOK
  <2> QED BY <2>1, <2>2
<1>4. ASSUME NEW r \in Reqs, CfgNetTask(r) PROVE evt'[e] \notin Deciding
  BY <1>1, <1>4, CfgStep DEF evtVars
<1>5. ASSUME NEW f \in Evts, WifiConnectTask(f) PROVE evt'[e] \notin Deciding
  <2>1. UNCHANGED <<late, g_state>> /\ \A g \in Evts : g # f => evt'[g] = evt[g]
    BY <1>5, EvtStep DEF BaseOK
  <2>2. \A g \in Evts : evt[g] \notin Deciding
    BY <2>1 DEF Success
  <2>3. evt'[f] \notin Deciding
    <3>1. CASE TestAvailable(f) \/ TestNotAvailable(f)
      BY <2>1, <3>1 DEF TestAvailable, TestNotAvailable, GoEvt, BaseOK
    <3>2. CASE ~TestAvailable(f) /\ ~TestNotAvailable(f)
      BY <1>5, <2>2, <3>2 DEF WifiConnectTask, GoEvt, TestBudget, LoadRetryCount,
           StoreRetryCount, ReportSuccess, StartDhcp, ReportFailure, StopDhcp, BaseOK
    <3> QED BY <3>1, <3>2
  <2> QED BY <2>1, <2>2, <2>3
<1> QED BY <1>2, <1>3, <1>4, <1>5 DEF Next

LEMMA ToldStays ==
  ASSUME Shape, Success, [Next]_vars, g_state = "AVALIABLE", ~late, SuccessTold
  PROVE  SuccessTold'
<1> USE DEF Shape
<1>1. \A e \in Evts : ~ReportFailure(e)
  BY DEF Success, ReportFailure, GoEvt, Deciding
<1>2. results' = results \/ NetCfgResult(0)
  BY <1>1, TellsStep
<1> QED BY <1>2, ResultTyped DEF SuccessTold

\* The way of the last event.
LastEvent ==
  /\ events > 0
  /\ evt[events] \in {"first", "connected", "dhcp", "lost", "done"}
  /\ ~late /\ evt[events] \in {"dhcp", "done"} => SuccessTold
  /\ ~late /\ evt[events] = "done" /\ NoneFailed => dhcp

LEMMA LastEventNext ==
  ASSUME Shape, Success, [Next]_vars, g_state' = "AVALIABLE"
  PROVE  LastEvent'
<1> USE DEF Shape
<1>0. g_state = "AVALIABLE" => LastEvent
  BY DEF Success, LastEvent
<1>1. CASE UNCHANGED <<events, evt, late, dhcp, g_state>>
  BY <1>0, <1>1, FailuresStay, ToldStays DEF LastEvent
<1>2. CASE SampleBizTask \/ Service \/ UNCHANGED vars
  BY <1>1, <1>2 DEF SampleBizTask, Service, ParseNetCfgData, CopyNetCfg, ResetRetryCount,
                    CreateCfgNetTask, vars, evtVars, netVars
<1>3. CASE Radio
  <2>1. CASE UNCHANGED <<events, g_state, evt, late>>
    BY <1>1, <1>3, <2>1, RadioStep DEF netVars
  <2>2. CASE ~UNCHANGED <<events, g_state, evt, late>>
    <3>1. events' \in Evts /\ \E p \in {"first", "lost"} : evt' = [evt EXCEPT ![events'] = p]
      BY <1>3, <2>2, RadioStep, Zenon
    <3>2. evt'[events'] \in {"first", "lost"} /\ events' > 0
      BY <3>1 DEF BaseOK, Evts
    <3> QED BY <3>2 DEF LastEvent
  <2> QED BY <2>1, <2>2
<1>4. ASSUME NEW r \in Reqs, CfgNetTask(r) PROVE LastEvent'
  BY <1>1, <1>4, CfgStep DEF evtVars
<1>5. ASSUME NEW e \in Evts, WifiConnectTask(e) PROVE LastEvent'
  <2>1. UNCHANGED <<cfg, events, late, g_staNetif, g_state, radio>> /\ events \in Evts
    BY <1>0, <1>5, EvtStep DEF cfgVars, LastEvent, BaseOK, Evts
  <2>2. \A f \in Evts : f # e => evt'[f] = evt[f]
    BY <1>5, EvtStep DEF BaseOK
  <2>3. LastEvent /\ g_state = "AVALIABLE"
    BY <1>0, <2>1
  <2>4. CASE e # events
    <3>1. evt'[events] = evt[events]
      BY <2>1, <2>2, <2>4
    <3>2. ~late /\ dhcp => dhcp'
      <4>1. ~late => ~StopDhcp(e)
        BY <2>3 DEF StopDhcp, GoEvt, Success, Deciding
      <4>2. CASE ~StopDhcp(e)
        BY <1>5, <4>2 DEF WifiConnectTask, TestAvailable, TestNotAvailable, Tests, TestBudget,
             LoadRetryCount, StoreRetryCount, ReportSuccess, StartDhcp, ReportFailure, netVars
      <4> QED BY <4>1, <4>2
    <3>3. ~late /\ SuccessTold => SuccessTold'
      BY <2>3, ToldStays
    <3> QED BY <2>1, <2>3, <3>1, <3>2, <3>3, FailuresStay DEF LastEvent
  <2>5. CASE e = events
    <3>1. CASE TestAvailable(e)
      BY <2>1, <2>3, <2>5, <3>1 DEF TestAvailable, GoEvt, Tests, LastEvent, BaseOK
    <3>2. CASE ReportSuccess(e)
      <4>1. SuccessTold'
        BY <3>2, ResultTyped DEF ReportSuccess, SuccessTold
      <4>2. evt'[events] = "dhcp"
        BY <2>1, <2>5, <3>2 DEF ReportSuccess, GoEvt, BaseOK
      <4> QED BY <2>1, <2>3, <4>1, <4>2 DEF LastEvent
    <3>3. CASE StartDhcp(e)
      <4>1. evt[events] = "dhcp" /\ evt'[events] = "done" /\ results' = results
        BY <2>1, <2>5, <3>3 DEF StartDhcp, GoEvt, BaseOK
      <4>2. NoneFailed => g_staNetif
        BY <2>3 DEF LastEvent, Success
      <4>3. NoneFailed' => dhcp'
        BY <3>3, <4>2, FailuresStay DEF StartDhcp
      <4> QED BY <2>1, <2>3, <4>1, <4>3 DEF LastEvent, SuccessTold
    <3>4. CASE ~TestAvailable(e) /\ ~ReportSuccess(e) /\ ~StartDhcp(e)
      BY <1>5, <2>3, <2>5, <3>4 DEF WifiConnectTask, GoEvt, TestNotAvailable, TestBudget,
        LoadRetryCount, StoreRetryCount, ReportFailure, StopDhcp, LastEvent
    <3> QED BY <3>1, <3>2, <3>3, <3>4
  <2> QED BY <2>4, <2>5
<1> QED BY <1>2, <1>3, <1>4, <1>5 DEF Next

LEMMA SuccessNext ==
  ASSUME Shape, Success, [Next]_vars
  PROVE  Success'
<1> USE DEF Shape
<1>1. events' > 0 => radio' # "idle"
  <2>1. CASE SampleBizTask \/ Service \/ UNCHANGED vars
    BY <2>1 DEF SampleBizTask, Service, ParseNetCfgData, CopyNetCfg, ResetRetryCount,
                CreateCfgNetTask, vars, evtVars, Success
  <2>2. CASE Radio
    BY <2>2, RadioStep
  <2>3. ASSUME NEW r \in Reqs, CfgNetTask(r) PROVE events' = events /\ radio' \in {radio, "joining"}
    BY <2>3 DEF CfgNetTask, EnableWifi, RegisterWifiEvent, IsWifiActive, FindNetif, evtVars,
                ReadKey, StoreSecurityType, AddDeviceConfig, ConnectToSucceeds, ConnectToFails
  <2>4. ASSUME NEW e \in Evts, WifiConnectTask(e) PROVE events' = events /\ radio' = radio
    BY <2>4, EvtStep
  <2> QED BY <2>1, <2>2, <2>3, <2>4 DEF Next, Success
<1>2. g_state' = "AVALIABLE" => LastEvent'
  BY LastEventNext
<1> QED BY <1>1, <1>2, NetifStays, NoneDeciding DEF Success, LastEvent

\* Once every task is through, a network that was found last, with no step
\* failed, has DHCP running and the success as the last thing the service was
\* told, whatever failures came before and however the tasks of older events
\* interleave with that of the last, unless one of them was past its last test
\* of g_state when the network was found (network_config_sample.c 180-215).
THEOREM SuccessLasts == Spec => []SuccessStands
<1>1. Shape /\ Success => SuccessStands
  <2> SUFFICES ASSUME Shape, Success, g_state = "AVALIABLE", evt[events] # "lost", ~late,
                      \A e \in Evts : evt[e] \in {"none", "lost", "done"}, NoneFailed
               PROVE  dhcp /\ SuccessTold
    BY DEF SuccessStands, NoneFailed, SuccessTold
  <2>1. events \in Evts
    BY DEF Shape, BaseOK, Success, Evts
  <2>2. evt[events] = "done"
    BY <2>1 DEF Success
  <2> QED BY <2>2 DEF Success
<1> QED BY <1>1, ShapeInit, ShapeNext, SuccessInit, SuccessNext, PTL DEF Spec

=============================================================================
