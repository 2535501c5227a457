--------------------------- MODULE WifiStaProofs ---------------------------
(***************************************************************************)
(* Proofs about WifiSta for every number of events the driver raises.      *)
(***************************************************************************)
EXTENDS WifiSta, TLAPS, SequenceTheorems

OnTheWay(e) == \E i \in 1..Len(events) : events[i] = e

\* The callback is registered once; without it no event waits, and so no
\* address was ever leased.
Unheard ==
  /\ sta \in {"init", "start", "register"} => ~registered
  /\ ~registered => events = <<>> /\ ~dhcp /\ ~ip

\* The station joins once, with the results of a scan that is over.
JoinsScanned ==
  /\ sta \in {"results", "connect", "ready"} => gScanDone
  /\ link # "down" \/ ip => gScanDone /\ sta \in {"dhcpWait", "ready"}

StaInv == TypeOK /\ Unheard /\ JoinsScanned /\ ScanNotLost /\ AddressNeedsLink

LEMMA StaInvInit ==
  ASSUME MaxEventsAssumption, Init
  PROVE  StaInv
<1>1. TypeOK
  <2>1. events \in Seq(Events)
    BY DEF Init
  <2>2. raised \in 0..MaxEvents
    BY DEF Init, MaxEventsAssumption
  <2> QED BY <2>1, <2>2 DEF Init, TypeOK, StaPoints
<1> QED BY <1>1 DEF Init, StaInv, Unheard, JoinsScanned, ScanNotLost, AddressNeedsLink

\* An event that is raised waits behind those that waited before.
LEMMA RaiseOnTheWay ==
  ASSUME TypeOK, MaxEventsAssumption, NEW e \in Events, Raise(e)
  PROVE  /\ events' \in Seq(Events) /\ raised' \in 0..MaxEvents
         /\ \A x : OnTheWay(x) => OnTheWay(x)'
         /\ registered => OnTheWay(e)'
         /\ ~registered => events' = events
<1>1. events \in Seq(Events) /\ raised \in 0..MaxEvents /\ MaxEvents \in Nat
  BY DEF TypeOK, MaxEventsAssumption
<1>2. raised' \in 0..MaxEvents
  BY <1>1 DEF Raise
<1>3. CASE registered
  <2>1. events' = Append(events, e)
    BY <1>3 DEF Raise
  <2>2. /\ events' \in Seq(Events) /\ Len(events') = Len(events) + 1
        /\ events'[Len(events) + 1] = e
        /\ \A i \in 1..Len(events) : events'[i] = events[i]
    BY <1>1, <2>1, AppendProperties
  <2>3. 1..Len(events) \subseteq 1..Len(events') /\ Len(events) + 1 \in 1..Len(events')
    BY <1>1, <2>2, LenProperties
  <2> QED BY <1>2, <1>3, <2>2, <2>3 DEF OnTheWay
<1>4. CASE ~registered
  BY <1>1, <1>2, <1>4 DEF Raise, OnTheWay
<1> QED BY <1>3, <1>4

\* Taking an event away leaves the others on the way.
LEMMA DeliveredOnTheWay ==
  ASSUME events \in Seq(Events), events # <<>>, events' = Tail(events)
  PROVE  /\ events # <<>> /\ Head(events) \in Events /\ events' \in Seq(Events)
         /\ \A x : OnTheWay(x) /\ x # Head(events) => OnTheWay(x)'
<1>1. events \in Seq(Events) /\ events # <<>> /\ events' = Tail(events)
  OBVIOUS
<1>2. /\ Head(events) \in Events /\ Head(events) = events[1]
      /\ events' \in Seq(Events) /\ Len(events') = Len(events) - 1
      /\ \A i \in 1..Len(events') : events'[i] = events[i + 1]
  BY <1>1, HeadTailProperties, LenProperties
<1>3. ASSUME NEW x, NEW i \in 1..Len(events), events[i] = x, x # Head(events)
      PROVE  OnTheWay(x)'
  <2>1. i - 1 \in 1..Len(events') /\ (i - 1) + 1 = i
    BY <1>1, <1>2, <1>3, LenProperties
  <2> QED BY <1>2, <1>3, <2>1 DEF OnTheWay
<1> QED BY <1>1, <1>2, <1>3 DEF OnTheWay

\* A delivery takes at most one event away, the oldest.
LEMMA DeliverOnTheWay ==
  ASSUME TypeOK, WpaEventCB
  PROVE  /\ events # <<>> /\ Head(events) \in Events /\ events' \in Seq(Events)
         /\ \A x : OnTheWay(x) /\ x # Head(events) => OnTheWay(x)'
<1>0. events \in Seq(Events) /\ events # <<>>
  BY DEF TypeOK, WpaEventCB
<1>1. CASE events' # events
  <2>1. events' = Tail(events)
    BY <1>1 DEF WpaEventCB
  <2> QED BY <1>0, <2>1, DeliveredOnTheWay
<1>2. CASE events' = events
  BY <1>0, <1>2, HeadTailProperties DEF OnTheWay
<1> QED BY <1>1, <1>2

\* What the station's own task leaves alone.
LEMMA TaskStep ==
  ASSUME WifiStaReadyWait
  PROVE  /\ UNCHANGED <<events, raised, dhcp, ip, wifi_status>>
         /\ sta # "connect" => link' = link
         /\ sta # "register" => registered' = registered
         /\ sta # "find" => netif' = netif
         /\ sta # "arm" => gScanDone' = gScanDone
         /\ sta # "scan" => scanning' = scanning
BY DEF WifiStaReadyWait, Call, InitWifi, StartSta, RegisterCallback, FindNetif, ArmScan,
       StartScan, ScanWait, ScanResults, StaStartConnect, WifiReady, driverVars

LEMMA StaInvTask ==
  ASSUME StaInv, WifiStaReadyWait
  PROVE  StaInv'
<1> USE DEF StaInv, driverVars
<1>0. UNCHANGED <<events, raised, dhcp, ip, wifi_status>>
  BY TaskStep
<1> USE <1>0 DEF Unheard, JoinsScanned, ScanNotLost, AddressNeedsLink, TypeOK
<1>1. CASE InitWifi \/ StartSta
  BY <1>1 DEF InitWifi, StartSta, Call, StaPoints
<1>2. CASE RegisterCallback
  BY <1>2 DEF RegisterCallback, StaPoints
<1>3. CASE FindNetif
  <2>1. /\ sta = "find" /\ sta' \in {"arm", "dhcpWait"} /\ netif' = (sta' = "arm")
        /\ UNCHANGED <<registered, gScanDone, scanning, link>>
    BY <1>3 DEF FindNetif, Call
  <2>2. TypeOK' /\ Unheard'
    BY <2>1 DEF StaPoints
  <2>3. JoinsScanned' /\ ScanNotLost' /\ AddressNeedsLink'
    BY <2>1
  <2> QED BY <2>2, <2>3
<1>4. CASE ArmScan
  <2>1. /\ sta = "arm" /\ sta' = "scan" /\ gScanDone' = FALSE
        /\ UNCHANGED <<registered, netif, scanning, link>>
    BY <1>4 DEF ArmScan
  <2>2. TypeOK' /\ Unheard'
    BY <2>1 DEF StaPoints
  <2>3. JoinsScanned' /\ ScanNotLost' /\ AddressNeedsLink'
    BY <2>1
  <2> QED BY <2>2, <2>3
<1>5. CASE StartScan
  BY <1>5 DEF StartScan, Call, StaPoints
<1>6. CASE ScanWait \/ ScanResults
  BY <1>6 DEF ScanWait, ScanResults, Call, StaPoints
<1>7. CASE StaStartConnect
  BY <1>7 DEF StaStartConnect, StaPoints
<1>8. CASE WifiReady
  BY <1>8 DEF WifiReady, StaPoints
<1> QED BY <1>1, <1>2, <1>3, <1>4, <1>5, <1>6, <1>7, <1>8 DEF WifiStaReadyWait

LEMMA StaInvNetwork ==
  ASSUME StaInv, MaxEventsAssumption, Network
  PROVE  StaInv'
<1> USE DEF StaInv, Unheard, JoinsScanned, TypeOK, driverVars
<1>1. ASSUME NEW e \in Events, Raise(e)
      PROVE  /\ events' \in Seq(Events) /\ raised' \in 0..MaxEvents
             /\ \A x : OnTheWay(x) => OnTheWay(x)'
             /\ registered => OnTheWay(e)'
             /\ ~registered => events' = events
  BY <1>1, RaiseOnTheWay
<1>2. ScanNotLost = (sta = "scanWait" /\ registered =>
                       gScanDone \/ scanning \/ OnTheWay("SCAN_DONE"))
  BY DEF ScanNotLost, OnTheWay
<1>3. AddressNeedsLink = (ip => link = "up" \/ OnTheWay("DISCONNECTED"))
  BY DEF AddressNeedsLink, OnTheWay
<1>4. ScanNotLost' = (sta' = "scanWait" /\ registered' =>
                        gScanDone' \/ scanning' \/ OnTheWay("SCAN_DONE")')
  BY DEF ScanNotLost, OnTheWay
<1>5. AddressNeedsLink' = (ip' => link' = "up" \/ OnTheWay("DISCONNECTED")')
  BY DEF AddressNeedsLink, OnTheWay
<1>6. CASE ScanFinishes
  BY <1>1, <1>2, <1>3, <1>4, <1>5, <1>6 DEF ScanFinishes, Events
<1>7. CASE Joins
  BY <1>1, <1>2, <1>3, <1>4, <1>5, <1>7 DEF Joins, Events
<1>8. CASE Leaves
  BY <1>1, <1>2, <1>3, <1>4, <1>5, <1>8 DEF Leaves, Events
<1>9. CASE WpsTimesOut
  BY <1>1, <1>2, <1>3, <1>4, <1>5, <1>9 DEF WpsTimesOut, Events
<1>10. CASE Lease
  BY <1>10 DEF Lease, ScanNotLost, AddressNeedsLink
<1> QED BY <1>6, <1>7, <1>8, <1>9, <1>10 DEF Network

LEMMA StaInvCallback ==
  ASSUME StaInv, WpaEventCB
  PROVE  StaInv'
<1> USE DEF StaInv, Unheard, JoinsScanned, TypeOK
<1>1. /\ events # <<>> /\ events' \in Seq(Events)
      /\ \A x : OnTheWay(x) /\ x # Head(events) => OnTheWay(x)'
      /\ UNCHANGED <<sta, registered, netif, scanning, link, raised>>
  BY DeliverOnTheWay DEF WpaEventCB
<1>2. /\ ScanNotLost = (sta = "scanWait" /\ registered =>
                          gScanDone \/ scanning \/ OnTheWay("SCAN_DONE"))
      /\ AddressNeedsLink = (ip => link = "up" \/ OnTheWay("DISCONNECTED"))
  BY DEF ScanNotLost, AddressNeedsLink, OnTheWay
<1>3. /\ ScanNotLost' = (sta' = "scanWait" /\ registered' =>
                           gScanDone' \/ scanning' \/ OnTheWay("SCAN_DONE")')
      /\ AddressNeedsLink' = (ip' => link' = "up" \/ OnTheWay("DISCONNECTED")')
  BY DEF ScanNotLost, AddressNeedsLink, OnTheWay
<1>4. CASE Head(events) = "SCAN_DONE" /\ OnScanDone
  BY <1>1, <1>2, <1>3, <1>4 DEF OnScanDone
<1>5. CASE Head(events) = "CONNECTED" /\ OnConnected
  BY <1>1, <1>2, <1>3, <1>5 DEF OnConnected
<1>6. CASE Head(events) = "DISCONNECTED" /\ OnDisconnected
  BY <1>1, <1>2, <1>3, <1>6 DEF OnDisconnected
<1>8. CASE OnDisconnected_StopDhcp /\ UNCHANGED events
  BY <1>1, <1>8 DEF OnDisconnected_StopDhcp, ScanNotLost, AddressNeedsLink
<1>7. CASE Head(events) = "WPS_TIMEOUT" /\ OnWpsTimeout
  BY <1>1, <1>2, <1>3, <1>7 DEF OnWpsTimeout
<1> QED BY <1>4, <1>5, <1>6, <1>7, <1>8 DEF WpaEventCB

LEMMA StaInvUnchanged ==
  ASSUME StaInv, UNCHANGED staVars
  PROVE  StaInv'
BY DEF StaInv, TypeOK, Unheard, JoinsScanned, ScanNotLost, AddressNeedsLink, staVars, driverVars

LEMMA StaInvNext ==
  ASSUME StaInv, MaxEventsAssumption, [Next]_staVars
  PROVE  StaInv'
BY StaInvTask, StaInvNetwork, StaInvCallback, StaInvUnchanged DEF Next, Polls

\* While the task polls gScanDone, the end of the scan is in the flag, still
\* to come, or on the way (iot_sta.c 54, 143, 155).
THEOREM ScansNotLost ==
  ASSUME MaxEventsAssumption
  PROVE  Spec => []ScanNotLost
<1>1. StaInv => ScanNotLost
  BY DEF StaInv
<1> QED BY <1>1, StaInvInit, StaInvNext, PTL DEF Spec

\* An address outlives its link only until the disconnection is delivered.
THEOREM AddressesNeedLink ==
  ASSUME MaxEventsAssumption
  PROVE  Spec => []AddressNeedsLink
<1>1. StaInv => AddressNeedsLink
  BY DEF StaInv
<1> QED BY <1>1, StaInvInit, StaInvNext, PTL DEF Spec
=============================================================================
