-------------------------------- MODULE Gps ---------------------------------
(***************************************************************************)
(* The start of the GPS receiver (app/demo/gps/app_demo_gps.c).            *)
(*                                                                         *)
(* gps_demo runs once, on the task of app_main, and is meant to create the *)
(* receiving task when the WiFi is connected.  The event it compares with  *)
(* HI_WIFI_EVT_CONNECTED is a local variable, initialised to {0}.          *)
(***************************************************************************)

VARIABLES
  gps,            \* "init", "check", or what came of it: "failed", "off", "running"
  smart_can_wifi, \* gps_demo's local smart_can_wifi_even.event
  wifi            \* the last event the WiFi driver reported

gpsVars == <<gps, smart_can_wifi, wifi>>

Init == gps = "init" /\ smart_can_wifi = "none" /\ wifi = "none"

InitUart ==
  /\ gps = "init"
  /\ gps' \in {"check", "failed"}
  /\ UNCHANGED <<smart_can_wifi, wifi>>

CreateGpsTask ==
  /\ gps = "check"
  /\ IF smart_can_wifi = "CONNECTED" THEN gps' \in {"running", "failed"} ELSE gps' = "off"
  /\ UNCHANGED <<smart_can_wifi, wifi>>

WifiEvent ==
  /\ wifi' \in {"SCAN_DONE", "CONNECTED", "DISCONNECTED"}
  /\ UNCHANGED <<gps, smart_can_wifi>>

Next == InitUart \/ CreateGpsTask \/ WifiEvent

Spec == Init /\ [][Next]_gpsVars

\* app_main runs on; WiFi events are the environment's.
FairSpec == Spec /\ WF_gpsVars(InitUart \/ CreateGpsTask)

\* "Receive the GPS data once the WiFi is connected to the access point" (the
\* comment of line 123): when the WiFi stays connected and neither the UART
\* nor the creation of the task fails, the receiving task runs in the end.
GpsReceives ==
  [](gps # "failed") /\ <>[](wifi = "CONNECTED") => <>(gps = "running")
=============================================================================
