------------------------------ MODULE WifiSta ------------------------------
(***************************************************************************)
(* Joining the access point (app/demo/iot_demo/iot_sta.c).                 *)
(*                                                                         *)
(* DemoEntry runs WifiStaReadyWait on its own task; the WiFi driver calls  *)
(* WpaEventCB on another.  They share gScanDone, gLwipNetif and the        *)
(* address of the interface; wifi_status is what the other tasks of the    *)
(* board read.  The driver, the access point and the DHCP client are       *)
(* external: the driver queues its events and delivers them in order, and  *)
(* does not join again by itself (the code sets no reconnect policy).      *)
(***************************************************************************)
EXTENDS Integers, Sequences

CONSTANTS MaxEvents    \* bound: events the driver raises in a behaviour

MaxEventsAssumption == MaxEvents \in Nat

Events == {"SCAN_DONE", "CONNECTED", "DISCONNECTED", "WPS_TIMEOUT"}

VARIABLES
  sta,          \* program point of WifiStaReadyWait / hi_wifi_start_sta
  registered,   \* WpaEventCB is registered with the driver
  netif,        \* gLwipNetif is not NULL
  gScanDone,
  wifi_status,  \* "none" until the first event
  scanning,     \* driver: a scan is running
  link,         \* driver: "down", "joining" or "up"
  events,       \* driver: events raised and not yet delivered
  raised,       \* driver: number of events raised so far
  dhcp,         \* the DHCP client runs on the interface
  ip            \* the interface has an address

driverVars == <<scanning, link, events, raised>>
staVars == <<sta, registered, netif, gScanDone, wifi_status, driverVars, dhcp, ip>>

StaPoints ==
  {"init", "start", "register", "find", "arm", "scan", "scanWait", "results",
   "connect", "dhcpWait", "ready"}

Init ==
  /\ sta = "init" /\ registered = FALSE /\ netif = FALSE
  /\ gScanDone = FALSE /\ wifi_status = "none"
  /\ scanning = FALSE /\ link = "down" /\ events = <<>> /\ raised = 0
  /\ dhcp = FALSE /\ ip = FALSE

----------------------------------------------------------------------------
(* hi_wifi_start_sta.  WifiStaReadyWait ignores its result, so every early *)
(* return -1 leads straight to the wait for an address.                    *)

Call(here, there) ==
  /\ sta = here
  /\ sta' \in {there, "dhcpWait"}

InitWifi ==
  /\ Call("init", "start")
  /\ UNCHANGED <<registered, netif, gScanDone, wifi_status, driverVars, dhcp, ip>>

StartSta ==
  /\ Call("start", "register")
  /\ UNCHANGED <<registered, netif, gScanDone, wifi_status, driverVars, dhcp, ip>>

\* A failure to register the callback is only logged.
RegisterCallback ==
  /\ sta = "register"
  /\ sta' = "find"
  /\ registered' \in BOOLEAN
  /\ UNCHANGED <<netif, gScanDone, wifi_status, driverVars, dhcp, ip>>

\* Seeded fault: the interface found is not compared with NULL.
FindNetif_Unchecked ==
  /\ Call("find", "arm")
  /\ netif' \in BOOLEAN
  /\ UNCHANGED <<registered, gScanDone, wifi_status, driverVars, dhcp, ip>>

FindNetif ==
  /\ Call("find", "arm")
  /\ netif' = (sta' = "arm")
  /\ UNCHANGED <<registered, gScanDone, wifi_status, driverVars, dhcp, ip>>

ArmScan ==
  /\ sta = "arm"
  /\ gScanDone' = FALSE
  /\ sta' = "scan"
  /\ UNCHANGED <<registered, netif, wifi_status, driverVars, dhcp, ip>>

StartScan ==
  /\ Call("scan", "scanWait")
  /\ scanning' = (sta' = "scanWait")
  /\ UNCHANGED <<registered, netif, gScanDone, wifi_status, link, events, raised, dhcp, ip>>

\* Seeded fault: every poll clears the flag, sleeps, and then tests it.
ScanWait_ClearsFlag ==
  /\ sta = "scanWait"
  /\ \/ gScanDone /\ sta' = "results" /\ UNCHANGED gScanDone
     \/ gScanDone' = FALSE /\ UNCHANGED sta
  /\ UNCHANGED <<registered, netif, wifi_status, driverVars, dhcp, ip>>

ScanWait ==
  /\ sta = "scanWait" /\ gScanDone
  /\ sta' = "results"
  /\ UNCHANGED <<registered, netif, gScanDone, wifi_status, driverVars, dhcp, ip>>

\* The allocation and the call for the results; the results are only logged.
ScanResults ==
  /\ Call("results", "connect")
  /\ UNCHANGED <<registered, netif, gScanDone, wifi_status, driverVars, dhcp, ip>>

StaStartConnect ==
  /\ sta = "connect"
  /\ sta' = "dhcpWait"
  /\ link' \in {"joining", "down"}
  /\ UNCHANGED <<registered, netif, gScanDone, wifi_status, scanning, events, raised, dhcp, ip>>

\* The poll of WifiStaReadyWait, once a second.
WifiReady ==
  /\ sta = "dhcpWait" /\ netif /\ ip
  /\ sta' = "ready"
  /\ UNCHANGED <<registered, netif, gScanDone, wifi_status, driverVars, dhcp, ip>>

WifiStaReadyWait ==
  \/ InitWifi \/ StartSta \/ RegisterCallback \/ FindNetif \/ ArmScan \/ StartScan
  \/ ScanWait \/ ScanResults \/ StaStartConnect \/ WifiReady

----------------------------------------------------------------------------
(* The driver and the network.                                             *)

Raise(e) ==
  /\ raised < MaxEvents
  /\ raised' = raised + 1
  /\ events' = IF registered THEN Append(events, e) ELSE events

ScanFinishes ==
  /\ scanning
  /\ scanning' = FALSE
  /\ Raise("SCAN_DONE")
  /\ UNCHANGED <<sta, registered, netif, gScanDone, wifi_status, link, dhcp, ip>>

Joins ==
  /\ link = "joining"
  /\ link' = "up"
  /\ Raise("CONNECTED")
  /\ UNCHANGED <<sta, registered, netif, gScanDone, wifi_status, scanning, dhcp, ip>>

\* The access point refuses the station, or is lost later.
Leaves ==
  /\ link \in {"joining", "up"}
  /\ link' = "down"
  /\ Raise("DISCONNECTED")
  /\ UNCHANGED <<sta, registered, netif, gScanDone, wifi_status, scanning, dhcp, ip>>

WpsTimesOut ==
  /\ link = "down" /\ sta \notin {"init", "start"}
  /\ Raise("WPS_TIMEOUT")
  /\ UNCHANGED <<sta, registered, netif, gScanDone, wifi_status, scanning, link, dhcp, ip>>

Lease ==
  /\ dhcp /\ link = "up" /\ ~ip
  /\ ip' = TRUE
  /\ UNCHANGED <<sta, registered, netif, gScanDone, wifi_status, driverVars, dhcp>>

----------------------------------------------------------------------------
(* WpaEventCB, on the driver's task.                                       *)

OnScanDone ==
  /\ gScanDone' = TRUE
  /\ wifi_status' = "SCAN_DONE"
  /\ UNCHANGED <<dhcp, ip>>

\* Seeded fault: the address is left to the next join.
OnConnected_NoDhcp ==
  /\ wifi_status' = "CONNECTED"
  /\ UNCHANGED <<gScanDone, dhcp, ip>>

OnConnected ==
  /\ dhcp' = netif
  /\ wifi_status' = "CONNECTED"
  /\ UNCHANGED <<gScanDone, ip>>

\* netifapi_dhcp_stop; the event is still in hand.
OnDisconnected_StopDhcp ==
  /\ dhcp /\ dhcp' = FALSE
  /\ UNCHANGED <<gScanDone, wifi_status, ip>>

\* Seeded fault: the client is stopped, the address stays.
OnDisconnected_KeepsAddr ==
  /\ ~dhcp
  /\ wifi_status' = "CONNECTED"
  /\ UNCHANGED <<gScanDone, dhcp, ip>>

\* StaResetAddr, once no client runs; and the status the code stores here is
\* CONNECTED (line 66).
OnDisconnected ==
  /\ ~dhcp
  /\ ip' = FALSE
  /\ wifi_status' = "CONNECTED"
  /\ UNCHANGED <<gScanDone, dhcp>>

OnWpsTimeout ==
  /\ wifi_status' = "WPS_TIMEOUT"
  /\ UNCHANGED <<gScanDone, dhcp, ip>>

WpaEventCB ==
  /\ events # <<>>
  /\ \/ /\ events' = Tail(events)
        /\ \/ Head(events) = "SCAN_DONE"    /\ OnScanDone
           \/ Head(events) = "CONNECTED"    /\ OnConnected
           \/ Head(events) = "DISCONNECTED" /\ OnDisconnected
           \/ Head(events) = "WPS_TIMEOUT"  /\ OnWpsTimeout
     \/ Head(events) = "DISCONNECTED" /\ OnDisconnected_StopDhcp /\ UNCHANGED events
  /\ UNCHANGED <<sta, registered, netif, scanning, link, raised>>

\* The two waits poll again when there is nothing; a caller that has its
\* address goes on elsewhere (SmartCan).
Polls ==
  /\ \/ sta = "scanWait" /\ ~gScanDone
     \/ sta = "dhcpWait" /\ ~(netif /\ ip)
     \/ sta = "ready"
  /\ UNCHANGED staVars

----------------------------------------------------------------------------
Network == ScanFinishes \/ Joins \/ Leaves \/ WpsTimesOut \/ Lease

Next == WifiStaReadyWait \/ Polls \/ Network \/ WpaEventCB

Spec == Init /\ [][Next]_staVars

\* The tasks are scheduled, a running scan finishes, the driver delivers what
\* it raised, and a DHCP client on a live link gets its lease.
FairSpec ==
  /\ Spec
  /\ WF_staVars(WifiStaReadyWait)
  /\ WF_staVars(ScanFinishes)
  /\ WF_staVars(WpaEventCB)
  /\ WF_staVars(Lease)

----------------------------------------------------------------------------
\* Types; and gLwipNetif is used only where it is not NULL (lines 137-143, 207).
TypeOK ==
  /\ sta \in StaPoints
  /\ sta \in {"arm", "scan", "scanWait", "results", "connect", "ready"} => netif
  /\ registered \in BOOLEAN /\ netif \in BOOLEAN /\ gScanDone \in BOOLEAN
  /\ wifi_status \in {"none", "SCAN_DONE", "CONNECTED", "WPS_TIMEOUT"}
  /\ scanning \in BOOLEAN /\ link \in {"down", "joining", "up"}
  /\ events \in Seq(Events) /\ raised \in 0..MaxEvents
  /\ dhcp \in BOOLEAN /\ ip \in BOOLEAN

\* The end of the scan is never missed: while the task polls gScanDone, either
\* it is set, or the scan still runs, or its event is on the way.  The flag is
\* cleared by one task (line 143) and set by another (line 54), without a lock.
ScanNotLost ==
  sta = "scanWait" /\ registered =>
    \/ gScanDone \/ scanning
    \/ \E i \in 1..Len(events) : events[i] = "SCAN_DONE"

\* An address outlives its link only until the disconnection is delivered: no
\* lease that raced with it survives, so a reader of the address never finds
\* one on a link that is known to be gone.
AddressNeedsLink ==
  ip => \/ link = "up"
        \/ \E i \in 1..Len(events) : events[i] = "DISCONNECTED"

\* If the station joins and stays, WifiStaReadyWait returns.
BecomesReady == <>[](link = "up") /\ [](raised < MaxEvents) => <>(sta = "ready")

\* What readers of wifi_status take it for ("but huawei cloud is not
\* connected" is what app_demo_gy521.c logs when it is not CONNECTED): with no
\* event on the way, CONNECTED means the link is up.
StatusTracksLink ==
  events = <<>> /\ wifi_status = "CONNECTED" => link = "up"
=============================================================================
