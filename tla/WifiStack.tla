------------------------------- MODULE WifiStack -------------------------------
(***************************************************************************)
(* The calls of libraries/WiFi that the firmware makes, as operators on a  *)
(* record of the radio: which interfaces are on (the mode), what the       *)
(* station's driver is doing, the status word the library keeps of it, and *)
(* the driver's events on their way to the network_event task.             *)
(* A call is one step, although it blocks between reading the mode and     *)
(* setting it and the other task could run there.                          *)
(***************************************************************************)
EXTENDS Integers, Sequences

WlStatus == {"WL_NO_SHIELD", "WL_IDLE_STATUS", "WL_NO_SSID_AVAIL", "WL_CONNECTED",
             "WL_CONNECT_FAILED", "WL_CONNECTION_LOST", "WL_DISCONNECTED"}

(* The reasons of a SYSTEM_EVENT_STA_DISCONNECTED event, one of each kind the
   callback tells apart; HANDSHAKE_TIMEOUT is as BEACON_TIMEOUT. *)
Reason == {"AUTH_EXPIRE", "ASSOC_LEAVE", "BEACON_TIMEOUT", "NO_AP_FOUND", "AUTH_FAIL", "ASSOC_FAIL"}
NetEvent == {"STA_START", "STA_STOP", "STA_CONNECTED", "STA_GOT_IP", "STA_LOST_IP"} \cup Reason

(* link: "off" without the station interface, "idle", "trying" to connect,
   "joined" to a network, "up" with an address. *)
Radio == [sta : BOOLEAN, ap : BOOLEAN, link : {"off", "idle", "trying", "joined", "up"},
          status : WlStatus, pend : Seq(NetEvent)]

RadioOff == [sta |-> FALSE, ap |-> FALSE, link |-> "off", status |-> "WL_NO_SHIELD", pend |-> <<>>]

WIFI_MODE_NULL == 0
WIFI_MODE_AP   == 2
getMode(w) == (IF w.sta THEN 1 ELSE 0) + (IF w.ap THEN 2 ELSE 0)

Posted(e, w) == [w EXCEPT !.pend = Append(@, e)]

-----------------------------------------------------------------------------
(* The driver, as the library uses it. *)

esp_wifi_disconnect(w) ==
  IF w.link \in {"off", "idle"} THEN w
  ELSE Posted("ASSOC_LEAVE", [w EXCEPT !.link = "idle"])

esp_wifi_connect(w) == IF w.link = "idle" THEN [w EXCEPT !.link = "trying"] ELSE w

-----------------------------------------------------------------------------
(* WiFiGeneric.  mode() starts the driver with the first interface and stops it with
   the last; the driver reports a station interface that comes or goes. *)

enableSTA(on, w) ==
  IF w.sta = on THEN w
  ELSE IF on THEN Posted("STA_START", [w EXCEPT !.sta = TRUE, !.link = "idle"])
  ELSE Posted("STA_STOP", [w EXCEPT !.sta = FALSE, !.link = "off"])

enableAP(on, w) == [w EXCEPT !.ap = on]

(* WiFiSTA. *)

(* Mutant: disconnect(false), which leaves the station interface on. *)
DisconnectButStay(w) == IF w.sta THEN esp_wifi_disconnect(w) ELSE w

disconnect(w) == IF w.sta THEN enableSTA(FALSE, esp_wifi_disconnect(w)) ELSE w

(* begin(), with the configuration the driver has. *)
begin(w) ==
  LET s == enableSTA(TRUE, w)
  IN  IF s.status = "WL_CONNECTED" THEN s ELSE esp_wifi_connect(s)

(* begin(ssid, password): same tells whether the driver has that configuration. *)
beginWith(same, w) ==
  LET s == enableSTA(TRUE, w)
  IN  IF ~same THEN esp_wifi_connect(esp_wifi_disconnect(s))
      ELSE IF s.status = "WL_CONNECTED" THEN s
      ELSE esp_wifi_connect(s)

(* WiFiAP.  A stopped radio is left alone. *)

softAP(w) == enableAP(TRUE, w)
softAPdisconnect(w) == enableAP(FALSE, w)

-----------------------------------------------------------------------------
(* _eventCallback: the status an event leaves, and whether the library connects
   again by itself, with disconnect(true) and then begin(). *)

StatusAfter(e, status) ==
  CASE e = "STA_START"                  -> "WL_DISCONNECTED"
    [] e = "STA_STOP"                   -> "WL_NO_SHIELD"
    [] e \in {"STA_CONNECTED", "STA_LOST_IP"} -> "WL_IDLE_STATUS"
    [] e = "STA_GOT_IP"                 -> "WL_CONNECTED"
    [] e = "NO_AP_FOUND"                -> "WL_NO_SSID_AVAIL"
    [] e \in {"AUTH_FAIL", "ASSOC_FAIL"} -> "WL_CONNECT_FAILED"
    [] e = "BEACON_TIMEOUT"             -> "WL_CONNECTION_LOST"
    [] e = "AUTH_EXPIRE"                -> status
    [] e = "ASSOC_LEAVE"                -> "WL_DISCONNECTED"

Reconnects(e) == e \in {"AUTH_EXPIRE", "BEACON_TIMEOUT", "NO_AP_FOUND", "ASSOC_FAIL"}

Delivered(w) ==
  LET e == Head(w.pend)
      s == [w EXCEPT !.status = StatusAfter(e, @), !.pend = Tail(@)]
  IN  IF Reconnects(e) THEN disconnect(s) ELSE s

-----------------------------------------------------------------------------
(* What the driver reports next of a connection it works on, or has. *)

Reports ==
  [trying |-> {"STA_CONNECTED", "NO_AP_FOUND", "AUTH_FAIL", "ASSOC_FAIL", "AUTH_EXPIRE"},
   joined |-> {"STA_GOT_IP", "BEACON_TIMEOUT"},
   up     |-> {"STA_LOST_IP", "BEACON_TIMEOUT"}]

LinkAfter(e) ==
  CASE e \in {"STA_CONNECTED", "STA_LOST_IP"} -> "joined"
    [] e = "STA_GOT_IP" -> "up"
    [] OTHER -> "idle"

Reported(e, w) == Posted(e, [w EXCEPT !.link = LinkAfter(e)])
=============================================================================
