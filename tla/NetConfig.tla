----------------------------- MODULE NetConfig -----------------------------
(***************************************************************************)
(* Provisioning the WiFi from a phone (app/demo/src/network_config_sample.c).*)
(*                                                                         *)
(* SampleBizTask registers callbacks with the provisioning service.  Each  *)
(* request of the service copies the network to g_netCfg and creates a     *)
(* CfgNetTask, which joins it; each event of the radio stores g_state and  *)
(* creates a WifiConnectTask, which reads g_state, reports a result to the *)
(* service and starts or stops DHCP.  All these tasks have one priority    *)
(* and no lock.  The service, the radio and DHCP are external.             *)
(*                                                                         *)
(* Left out: the LED (g_ledState is LED_OFF in every behaviour, as no      *)
(* result is 1), and the raw data exchange, which keeps no state.  A field *)
(* of g_netCfg is the number of the request it comes from: its name, then  *)
(* the rest, are copied by memcpy_s and read by AddDeviceConfig, and the   *)
(* security type is also stored by line 255, in a step after the read of   *)
(* the key it follows from.  Other fields are left out.                    *)
(***************************************************************************)
EXTENDS Integers, Sequences

CONSTANTS
  TEST_CONNECT_RETRY_COUNT,
  FAST_CONNECT_RETRY_NUM,
  MaxRequests,   \* bound: calls of ParseNetCfgData
  MaxEvents      \* bound: events of the radio while the handler is registered

ASSUME RetryAssumption    == TEST_CONNECT_RETRY_COUNT \in Nat
ASSUME FastAssumption     == FAST_CONNECT_RETRY_NUM \in Nat \ {0}
ASSUME RequestsAssumption == MaxRequests \in Nat
ASSUME EventsAssumption   == MaxEvents \in Nat

Reqs == 1..MaxRequests
Evts == 1..MaxEvents

VARIABLES
  biz,          \* program point of SampleBizTask
  deal,         \* program point of DealSsidPwd, called by the service
  requests,     \* requests made so far
  g_netCfg,     \* the requests its ssid, its key and its security type are of, 0 for none
  cfg,          \* program point of the CfgNetTask of each request
  seen,         \* the key by which each CfgNetTask decides on the security type
  used,         \* what AddDeviceConfig read of g_netCfg for each CfgNetTask
  tries,        \* failed calls of ConnectTo of each CfgNetTask
  g_connectRetryCount,
  g_state,
  handler,      \* g_staEventHandler is registered
  g_staNetif,   \* is not NULL
  evt,          \* program point of the WifiConnectTask of each event
  loaded,       \* g_connectRetryCount as each WifiConnectTask loaded it to increment it
  events,       \* events the handler received
  late,         \* history: a task had yet to stop DHCP when the last event came
  radio,        \* "idle", "joining" or "up"
  dhcp,         \* the DHCP client runs
  results       \* what the service was told, in order

serviceVars == <<biz, deal, requests, g_netCfg>>
cfgVars == <<cfg, seen, used, tries>>
evtVars == <<evt, loaded, events, late>>
netVars == <<g_staNetif, dhcp>>
vars == <<serviceVars, cfgVars, evtVars, netVars, g_connectRetryCount, g_state, handler,
          radio, results>>

BizPoints == {"power", "softap", "hook", "start", "serving", "stopped"}
DealPoints == {"idle", "copy", "reset", "create"}
CfgPoints == {"none", "enable", "register", "active", "find", "type", "secure", "add", "key",
              "connect", "failed", "done"}
EvtPoints == {"none", "first", "second", "budget", "load", "store", "connected", "dhcp",
              "failed", "stop", "lost", "done"}
\* Where a WifiConnectTask may still stop DHCP, whatever g_state becomes.
Deciding == {"budget", "failed", "stop"}
Config == [ssid : 0..MaxRequests, key : 0..MaxRequests, type : 0..MaxRequests]
NoConfig == [ssid |-> 0, key |-> 0, type |-> 0]
States == {"AVALIABLE", "NOT_AVALIABLE"}

Init ==
  /\ biz = "power" /\ deal = "idle" /\ requests = 0 /\ g_netCfg = NoConfig
  /\ cfg = [r \in Reqs |-> "none"] /\ seen = [r \in Reqs |-> 0]
  /\ used = [r \in Reqs |-> NoConfig] /\ tries = [r \in Reqs |-> 0]
  /\ g_connectRetryCount = 0 /\ g_state = "none" /\ handler = FALSE /\ g_staNetif = FALSE
  /\ evt = [e \in Evts |-> "none"] /\ loaded = [e \in Evts |-> 0] /\ events = 0 /\ late = FALSE
  /\ radio = "idle" /\ dhcp = FALSE /\ results = <<>>

----------------------------------------------------------------------------
(* SampleBizTask: each failure ends the task, and with it the provisioning. *)

BizNext == [power |-> "softap", softap |-> "hook", hook |-> "start", start |-> "serving"]

SampleBizTask ==
  /\ biz \in DOMAIN BizNext
  /\ biz' \in {BizNext[biz], "stopped"}
  /\ UNCHANGED <<deal, requests, g_netCfg, cfgVars, evtVars, netVars, g_connectRetryCount,
                 g_state, handler, radio, results>>

(* ParseNetCfgData and DealSsidPwd, on the service's task.                 *)

\* Seeded fault: the name of the first network is kept.
ParseNetCfgData_KeepsFirst ==
  /\ biz = "serving" /\ deal = "idle" /\ requests < MaxRequests
  /\ requests' = requests + 1
  /\ g_netCfg' = [g_netCfg EXCEPT !.ssid = IF @ = 0 THEN requests' ELSE @]
  /\ deal' = "copy"
  /\ UNCHANGED <<biz, cfgVars, evtVars, netVars, g_connectRetryCount, g_state, handler,
                 radio, results>>

\* The call of the service, up to the first part of memcpy_s.
ParseNetCfgData ==
  /\ biz = "serving" /\ deal = "idle" /\ requests < MaxRequests
  /\ requests' = requests + 1
  /\ g_netCfg' = [g_netCfg EXCEPT !.ssid = requests']
  /\ deal' = "copy"
  /\ UNCHANGED <<biz, cfgVars, evtVars, netVars, g_connectRetryCount, g_state, handler,
                 radio, results>>

CopyNetCfg ==
  /\ deal = "copy"
  /\ g_netCfg' = [g_netCfg EXCEPT !.key = requests, !.type = requests]
  /\ deal' = "reset"
  /\ UNCHANGED <<biz, requests, cfgVars, evtVars, netVars, g_connectRetryCount, g_state,
                 handler, radio, results>>

ResetRetryCount ==
  /\ deal = "reset"
  /\ g_connectRetryCount' = 0
  /\ deal' = "create"
  /\ UNCHANGED <<biz, requests, g_netCfg, cfgVars, evtVars, netVars, g_state, handler,
                 radio, results>>

CreateCfgNetTask ==
  /\ deal = "create"
  /\ \E p \in {"enable", "failed"} : cfg' = [cfg EXCEPT ![requests] = p]
  /\ deal' = "idle"
  /\ UNCHANGED <<biz, requests, g_netCfg, seen, used, tries, evtVars, netVars,
                 g_connectRetryCount, g_state, handler, radio, results>>

----------------------------------------------------------------------------
\* NetCfgResult: the handler goes, then the service is told.
NetCfgResult(result) ==
  /\ handler' = FALSE
  /\ results' = Append(results, result)

(* CfgNetTask: StaStart, then WapStaConnect.                               *)

GoCfg(r, here, there) ==
  /\ cfg[r] = here
  /\ cfg' = [cfg EXCEPT ![r] = there]

EnableWifi(r) ==
  /\ \/ GoCfg(r, "enable", "register") /\ UNCHANGED <<handler, results>>
     \/ GoCfg(r, "enable", "register") /\ NetCfgResult(0)    \* ERROR_WIFI_BUSY
     \/ GoCfg(r, "enable", "failed") /\ UNCHANGED <<handler, results>>
  /\ UNCHANGED <<serviceVars, seen, used, tries, evtVars, netVars, g_connectRetryCount, g_state,
                 radio>>

RegisterWifiEvent(r) ==
  /\ \/ GoCfg(r, "register", "active") /\ handler' = TRUE
     \/ GoCfg(r, "register", "failed") /\ UNCHANGED handler
  /\ UNCHANGED <<serviceVars, seen, used, tries, evtVars, netVars, g_connectRetryCount, g_state,
                 radio, results>>

IsWifiActive(r) ==
  /\ \E p \in {"find", "failed"} : GoCfg(r, "active", p)
  /\ UNCHANGED <<serviceVars, seen, used, tries, evtVars, netVars, g_connectRetryCount, g_state,
                 handler, radio, results>>

FindNetif(r) ==
  /\ \/ GoCfg(r, "find", "type") /\ g_staNetif' = TRUE
     \/ GoCfg(r, "find", "failed") /\ g_staNetif' = FALSE
  /\ UNCHANGED <<serviceVars, seen, used, tries, evtVars, dhcp, g_connectRetryCount, g_state,
                 handler, radio, results>>

\* Line 255: the key is read, then the security type is stored.
ReadKey(r) ==
  /\ GoCfg(r, "type", "secure")
  /\ seen' = [seen EXCEPT ![r] = g_netCfg.key]
  /\ UNCHANGED <<serviceVars, used, tries, evtVars, netVars, g_connectRetryCount, g_state,
                 handler, radio, results>>

StoreSecurityType(r) ==
  /\ GoCfg(r, "secure", "add")
  /\ g_netCfg' = [g_netCfg EXCEPT !.type = seen[r]]
  /\ UNCHANGED <<biz, deal, requests, seen, used, tries, evtVars, netVars,
                 g_connectRetryCount, g_state, handler, radio, results>>

\* AddDeviceConfig fails, or reads the network it is given through a pointer.
AddDeviceConfig(r) ==
  /\ \/ GoCfg(r, "add", "key") /\ used' = [used EXCEPT ![r].ssid = g_netCfg.ssid]
     \/ GoCfg(r, "add", "failed") /\ UNCHANGED used
     \/ /\ GoCfg(r, "key", "connect")
        /\ used' = [used EXCEPT ![r].key = g_netCfg.key, ![r].type = g_netCfg.type]
  /\ UNCHANGED <<serviceVars, seen, tries, evtVars, netVars, g_connectRetryCount, g_state,
                 handler, radio, results>>

ConnectToSucceeds(r) ==
  /\ GoCfg(r, "connect", "done")
  /\ radio' = "joining"
  /\ UNCHANGED <<serviceVars, seen, used, tries, evtVars, netVars, g_connectRetryCount, g_state,
                 handler, results>>

\* Seeded fault: one attempt too many.
ConnectToFails_OnceMore(r) ==
  /\ tries' = [tries EXCEPT ![r] = @ + 1]
  /\ GoCfg(r, "connect", IF tries'[r] <= FAST_CONNECT_RETRY_NUM THEN "connect" ELSE "failed")
  /\ UNCHANGED <<serviceVars, seen, used, evtVars, netVars, g_connectRetryCount, g_state, handler,
                 radio, results>>

ConnectToFails(r) ==
  /\ tries' = [tries EXCEPT ![r] = @ + 1]
  /\ GoCfg(r, "connect", IF tries'[r] < FAST_CONNECT_RETRY_NUM THEN "connect" ELSE "failed")
  /\ UNCHANGED <<serviceVars, seen, used, evtVars, netVars, g_connectRetryCount, g_state, handler,
                 radio, results>>

CfgNetTask(r) ==
  \/ EnableWifi(r) \/ RegisterWifiEvent(r) \/ IsWifiActive(r) \/ FindNetif(r)
  \/ ReadKey(r) \/ StoreSecurityType(r) \/ AddDeviceConfig(r)
  \/ ConnectToSucceeds(r) \/ ConnectToFails(r)

----------------------------------------------------------------------------
(* The radio, and WifiConnectionChangedHandler on the driver's task.       *)

\* The task that is to handle the event may not be created; that is logged.
WifiConnectionChangedHandler(state) ==
  IF handler
    THEN /\ events < MaxEvents
         /\ events' = events + 1
         /\ g_state' = state
         /\ late' = \E e \in Evts : evt[e] \in Deciding
         /\ \E p \in {"first", "lost"} : evt' = [evt EXCEPT ![events'] = p]
    ELSE UNCHANGED <<events, g_state, evt, late>>

RadioChanges(from, to, state) ==
  /\ radio \in from
  /\ radio' = to
  /\ WifiConnectionChangedHandler(state)
  /\ UNCHANGED <<serviceVars, cfgVars, loaded, netVars, g_connectRetryCount, handler, results>>

\* The code only counts failed attempts, so the radio is the one to try again.
Radio ==
  \/ RadioChanges({"joining"}, "up", "AVALIABLE")
  \/ RadioChanges({"joining", "up"}, "joining", "NOT_AVALIABLE")

----------------------------------------------------------------------------
(* WifiConnectTask.                                                        *)

GoEvt(e, here, there) ==
  /\ evt[e] = here
  /\ evt' = [evt EXCEPT ![e] = there]

Tests == <<serviceVars, cfgVars, loaded, events, late, netVars, g_connectRetryCount, g_state, handler,
           radio, results>>

\* Seeded fault: success counts only when no attempt failed before.
TestAvailable_OnlyFirst(e) ==
  /\ GoEvt(e, "first", IF g_state = "AVALIABLE" /\ g_connectRetryCount = 0
                         THEN "connected" ELSE "second")
  /\ UNCHANGED Tests

TestAvailable(e) ==
  /\ GoEvt(e, "first", IF g_state = "AVALIABLE" THEN "connected" ELSE "second")
  /\ UNCHANGED Tests

\* Seeded fault: what was not available is taken for lost, with no second test.
TestNotAvailable_Untested(e) ==
  /\ GoEvt(e, "second", "budget")
  /\ UNCHANGED Tests

\* g_state is read a second time.
TestNotAvailable(e) ==
  /\ GoEvt(e, "second", IF g_state = "NOT_AVALIABLE" THEN "budget" ELSE "done")
  /\ UNCHANGED Tests

\* Seeded fault: the budget is one attempt short.
TestBudget_OneShort(e) ==
  /\ GoEvt(e, "budget", IF g_connectRetryCount + 1 < TEST_CONNECT_RETRY_COUNT
                          THEN "load" ELSE "failed")
  /\ UNCHANGED Tests

TestBudget(e) ==
  /\ GoEvt(e, "budget", IF g_connectRetryCount < TEST_CONNECT_RETRY_COUNT
                          THEN "load" ELSE "failed")
  /\ UNCHANGED Tests

\* g_connectRetryCount++, a load and a store.
LoadRetryCount(e) ==
  /\ GoEvt(e, "load", "store")
  /\ loaded' = [loaded EXCEPT ![e] = g_connectRetryCount]
  /\ UNCHANGED <<serviceVars, cfgVars, events, late, netVars, g_connectRetryCount, g_state,
                 handler, radio, results>>

StoreRetryCount(e) ==
  /\ GoEvt(e, "store", "done")
  /\ g_connectRetryCount' = loaded[e] + 1
  /\ UNCHANGED <<serviceVars, cfgVars, loaded, events, late, netVars, g_state, handler, radio, results>>

ReportSuccess(e) ==
  /\ GoEvt(e, "connected", "dhcp")
  /\ NetCfgResult(0)
  /\ UNCHANGED <<serviceVars, cfgVars, loaded, events, late, netVars, g_connectRetryCount, g_state, radio>>

\* netifapi_dhcp_start refuses a NULL interface.
StartDhcp(e) ==
  /\ GoEvt(e, "dhcp", "done")
  /\ dhcp' = (dhcp \/ g_staNetif)
  /\ UNCHANGED <<serviceVars, cfgVars, loaded, events, late, g_staNetif, g_connectRetryCount, g_state,
                 handler, radio, results>>

ReportFailure(e) ==
  /\ GoEvt(e, "failed", "stop")
  /\ NetCfgResult(-1)
  /\ UNCHANGED <<serviceVars, cfgVars, loaded, events, late, netVars, g_connectRetryCount, g_state, radio>>

\* netifapi_dhcp_stop and StaResetAddr.
StopDhcp(e) ==
  /\ GoEvt(e, "stop", "done")
  /\ dhcp' = (dhcp /\ ~g_staNetif)
  /\ UNCHANGED <<serviceVars, cfgVars, loaded, events, late, g_staNetif, g_connectRetryCount, g_state,
                 handler, radio, results>>

WifiConnectTask(e) ==
  \/ TestAvailable(e) \/ TestNotAvailable(e) \/ TestBudget(e) \/ LoadRetryCount(e)
  \/ StoreRetryCount(e) \/ ReportSuccess(e) \/ StartDhcp(e) \/ ReportFailure(e) \/ StopDhcp(e)

----------------------------------------------------------------------------
Service == ParseNetCfgData \/ CopyNetCfg \/ ResetRetryCount \/ CreateCfgNetTask

Next ==
  \/ SampleBizTask \/ Service \/ Radio
  \/ \E r \in Reqs : CfgNetTask(r)
  \/ \E e \in Evts : WifiConnectTask(e)

Spec == Init /\ [][Next]_vars

\* Tasks that were created run.  The service need not ask, nor the radio join.
FairSpec ==
  /\ Spec
  /\ \A r \in Reqs : WF_vars(CfgNetTask(r))
  /\ \A e \in Evts : WF_vars(WifiConnectTask(e))

----------------------------------------------------------------------------
\* Types; and ConnectTo is tried FAST_CONNECT_RETRY_NUM times at most.
TypeOK ==
  /\ biz \in BizPoints /\ deal \in DealPoints
  /\ requests \in 0..MaxRequests /\ g_netCfg \in Config
  /\ cfg \in [Reqs -> CfgPoints] /\ seen \in [Reqs -> 0..MaxRequests]
  /\ used \in [Reqs -> Config]
  /\ tries \in [Reqs -> 0..FAST_CONNECT_RETRY_NUM]
  /\ g_connectRetryCount \in 0..MaxEvents /\ g_state \in States \cup {"none"}
  /\ handler \in BOOLEAN /\ g_staNetif \in BOOLEAN
  /\ evt \in [Evts -> EvtPoints] /\ loaded \in [Evts -> 0..MaxEvents]
  /\ events \in 0..MaxEvents /\ late \in BOOLEAN
  /\ radio \in {"idle", "joining", "up"} /\ dhcp \in BOOLEAN
  /\ results \in Seq({-1, 0})

\* g_netCfg is overwritten by a second request while the task of the first
\* still reads it (lines 288, 321): that task may join the newer network, or
\* the name of one with the key of the other, but no task takes a name or a
\* key that is older than its request, so a task that no request overtook joins
\* the network it was asked for.  The security type is not claimed: a task held
\* up in line 255 stores the one of an older key.
NewestNetwork ==
  \A r \in Reqs :
    /\ used[r].ssid # 0 => used[r].ssid \in r..requests
    /\ used[r].key # 0 => used[r].key \in r..requests

\* The service is told of a failure only after more than
\* TEST_CONNECT_RETRY_COUNT events, although tasks test and increment the
\* count without a lock, may act on the state of a later event, and a new
\* request resets the count under them (lines 189-190, 326).
FailureIsPatient ==
  \A i \in 1..Len(results) : results[i] = -1 => events > TEST_CONNECT_RETRY_COUNT

\* When every task is through, the last event found the network and no step of
\* a CfgNetTask failed, then DHCP runs and the last thing the service was told
\* is the success, whatever failures were reported before and whichever tasks
\* of older events were still to run: those read g_state again.  The one
\* exception is a task that was past its second test of g_state when that last
\* event came, which stops DHCP however late it does so (lines 187-195).
SuccessStands ==
  /\ g_state = "AVALIABLE" /\ evt[events] # "lost" /\ ~late
  /\ \A e \in Evts : evt[e] \in {"none", "lost", "done"}
  /\ \A r \in Reqs : cfg[r] # "failed"
  => dhcp /\ results # <<>> /\ results[Len(results)] = 0

\* A single request whose network is joined in the end and stays is answered,
\* however often the radio failed before, unless a task cannot be created.
RequestAnswered ==
  /\ [](requests <= 1 /\ events < MaxEvents /\ \A e \in Evts : evt[e] # "lost")
  /\ <>[](radio = "up")
  => <>(results # <<>>)
=============================================================================
