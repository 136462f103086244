--------------------------- MODULE MistingController ---------------------------
(***************************************************************************)
(* esp32MistingController.ino around the event queue: setup, the passes of *)
(* loop, the application timers, the handlers that generate events of      *)
(* their own, and the network they move between station and access point   *)
(* (wifi.ino) while the network_event task of libraries/WiFi reconnects on *)
(* its own between their calls.                                            *)
(***************************************************************************)
EXTENDS WifiStack, FiniteSets

CONSTANTS
  QueueSize,    (* eventFwInit's second argument                             *)
  MaxPolls,     (* connectWithAp's seconds                                   *)
  Message,      (* the events generated for a message of the app             *)
  MaxNetEvents  (* bound: driver events not yet handled                      *)

(* The four timers, in the order of their slots. *)
TimerEvents == <<"EVT_WIFI_STATUS", "EVT_SEND_DEVICE_STATUS",
                 "EVT_DEVICE_MONITOR_STATUS", "EVT_FLUSH_BUFFER">>
(* processCommand. *)
CommandEvents == {<<>>, <<"EVT_GET_AP_LIST">>, <<"EVT_AP_CONNECT", "EVT_DEVICE_REGISTRATION">>,
                  <<"EVT_CONTROL">>, <<"EVT_DEV_CONFIG_CLOUD_UPDATE">>,
                  <<"EVT_AP_DISCONNECT">>, <<"EVT_DEVICE_REGISTRATION">>}
InitServers == <<"EVT_INIT_UDP", "EVT_INIT_TCP">>
Registration == <<"EVT_DEVICE_REGISTRATION">>

ASSUME ControllerAssumption ==
  /\ QueueSize \in Nat \ {0} /\ MaxPolls \in Nat /\ MaxNetEvents \in Nat \ {0}
  /\ Message \subseteq CommandEvents

Event == {"EVT_INIT_UDP", "EVT_INIT_TCP", "EVT_PAR_UDP_MSG", "EVT_GET_AP_LIST", "EVT_AP_CONNECT",
          "EVT_CONTROL", "EVT_AP_DISCONNECT", "EVT_WIFI_STATUS", "EVT_SEND_DEVICE_STATUS",
          "EVT_DEVICE_MONITOR_STATUS", "EVT_FLUSH_BUFFER", "EVT_DEVICE_REGISTRATION",
          "EVT_DEV_CONFIG_CLOUD_UPDATE", "EVT_DEV_HANDLE_ALERT"}

VARIABLES
  pc,           (* where setup, or the pass of loop, is                      *)
  queue,        (* the event queue                                           *)
  radio,
  polls,        (* connectWithAp's timeCount                                 *)
  booting,      (* setup has not returned                                    *)
  etask,        (* the network_event task: "idle", or between disconnect and begin *)
  refused       (* history: an event found the queue full                    *)

app == <<pc, queue, polls, booting>>
vars == <<app, radio, etask, refused>>

(* The first boot of all asks for the MAC address, and leaves the station on. *)
Init ==
  /\ pc = "setup"
  /\ queue = <<>>
  /\ radio \in {RadioOff, enableSTA(TRUE, RadioOff)}
  /\ polls = 0
  /\ booting = TRUE
  /\ etask = "idle"
  /\ refused = FALSE

-----------------------------------------------------------------------------
(* eventGenerate, for several events: those that find the queue full are refused,
   and no caller looks at the answer. *)
Queued(q, evts) == SubSeq(q \o evts, 1, IF Len(q \o evts) < QueueSize THEN Len(q \o evts) ELSE QueueSize)

eventGenerate(q, evts) ==
  /\ queue' = Queued(q, evts)
  /\ refused' = (refused \/ Len(q \o evts) > QueueSize)

(* A step of the main loop. *)
Main(at, then) ==
  /\ pc = at
  /\ pc' = then
  /\ UNCHANGED etask

(* Bound, on the steps that make the driver post events: the network_event task, which
   has the higher priority on the core of the loop, is at most so far behind. *)
Room == Len(radio.pend) < MaxNetEvents

(* connectWithAp up to its loop. *)
Connecting ==
  /\ Room
  /\ \E same \in BOOLEAN : radio' = beginWith(same, softAPdisconnect(radio))
  /\ polls' = 0

-----------------------------------------------------------------------------
(* setup: initNetworkConnection and the registration event at its end. *)

SetupAp ==
  /\ Main("setup", "timers")
  /\ radio' = softAP(radio)
  /\ eventGenerate(queue, InitServers \o Registration)
  /\ booting' = FALSE
  /\ UNCHANGED polls

SetupConnect ==
  /\ Main("setup", "join")
  /\ Connecting
  /\ UNCHANGED <<queue, refused, booting>>

(* The loop of connectWithAp, for setup and for evtApConnect. *)
GivesUp == radio.status \in {"WL_NO_SSID_AVAIL", "WL_CONNECT_FAILED"} \/ polls = MaxPolls

AfterJoin == IF booting THEN "timers" ELSE "events"
AtEndOfSetup == IF booting THEN Registration ELSE <<>>

(* Mutants: the seconds are not compared with their limit, or not counted. *)
JoinPollOnAndOn ==
  /\ Main("join", "join")
  /\ radio.status # "WL_CONNECTED"
  /\ polls' = polls + 1
  /\ UNCHANGED <<queue, radio, booting, refused>>

JoinPollUncounted ==
  /\ Main("join", "join")
  /\ radio.status # "WL_CONNECTED"
  /\ ~GivesUp
  /\ UNCHANGED <<queue, radio, polls, booting, refused>>

JoinPoll ==
  /\ Main("join", "join")
  /\ radio.status # "WL_CONNECTED"
  /\ ~GivesUp
  /\ polls' = polls + 1
  /\ UNCHANGED <<queue, radio, booting, refused>>

Joined ==
  /\ Main("join", AfterJoin)
  /\ radio.status = "WL_CONNECTED"
  /\ eventGenerate(queue, InitServers \o Registration \o AtEndOfSetup)
  /\ booting' = FALSE
  /\ polls' = 0
  /\ UNCHANGED radio

JoinFailed ==
  /\ Main("join", AfterJoin)
  /\ radio.status # "WL_CONNECTED"
  /\ GivesUp
  /\ radio' = softAP(radio)
  /\ eventGenerate(queue, InitServers \o AtEndOfSetup)
  /\ booting' = FALSE
  /\ polls' = 0

-----------------------------------------------------------------------------
(* loop: timerFwProcess calls back each expired timer once, in the order of the slots. *)

Callbacks(expired) ==
  LET of(slot) == IF TimerEvents[slot] \in expired THEN <<TimerEvents[slot]>> ELSE <<>>
  IN  of(1) \o of(2) \o of(3) \o of(4)

timerFwProcess(expired) ==
  /\ Main("timers", "events")
  /\ eventGenerate(queue, Callbacks(expired))
  /\ UNCHANGED <<radio, polls, booting>>

Expired == SUBSET {TimerEvents[i] : i \in 1 .. Len(TimerEvents)}

(* eventFwProcess takes events until the queue is empty. *)
Taken(e) == queue # <<>> /\ Head(queue) = e

(* Mutant: one event in a pass. *)
OneEventDone ==
  /\ Main("events", "receive")
  /\ queue' = IF queue = <<>> THEN queue ELSE Tail(queue)
  /\ UNCHANGED <<radio, polls, booting, refused>>

EventsDone ==
  /\ Main("events", "receive")
  /\ queue = <<>>
  /\ UNCHANGED <<queue, radio, polls, booting, refused>>

(* The handlers that touch neither the queue nor the radio. *)
PlainEvent ==
  /\ Main("events", "events")
  /\ queue # <<>>
  /\ Head(queue) \notin {"EVT_AP_CONNECT", "EVT_AP_DISCONNECT", "EVT_WIFI_STATUS",
                         "EVT_DEVICE_MONITOR_STATUS", "EVT_GET_AP_LIST"}
  /\ queue' = Tail(queue)
  /\ UNCHANGED <<radio, polls, booting, refused>>

(* getDeviceMonitorData, with alerts or without. *)
evtDeviceMonitorStatus(alerts) ==
  /\ Main("events", "events")
  /\ Taken("EVT_DEVICE_MONITOR_STATUS")
  /\ eventGenerate(Tail(queue),
                   IF alerts THEN <<"EVT_DEV_HANDLE_ALERT", "EVT_SEND_DEVICE_STATUS">> ELSE <<>>)
  /\ UNCHANGED <<radio, polls, booting>>

(* A scan needs the station, and leaves it on. *)
evtGetApList ==
  /\ Main("events", "events")
  /\ Taken("EVT_GET_AP_LIST")
  /\ Room
  /\ queue' = Tail(queue)
  /\ radio' = enableSTA(TRUE, radio)
  /\ UNCHANGED <<polls, booting, refused>>

evtApConnect ==
  /\ Main("events", "join")
  /\ Taken("EVT_AP_CONNECT")
  /\ queue' = Tail(queue)
  /\ Connecting
  /\ UNCHANGED <<booting, refused>>

evtApDisconnect ==
  /\ Main("events", "forget")
  /\ Taken("EVT_AP_DISCONNECT")
  /\ Room
  /\ queue' = Tail(queue)
  /\ radio' = disconnect(radio)
  /\ UNCHANGED <<polls, booting, refused>>

ApDisconnected ==
  /\ Main("forget", "events")
  /\ radio' = softAP(radio)
  /\ eventGenerate(queue, InitServers)
  /\ UNCHANGED <<polls, booting>>

(* evtWifiStatus: nothing to do in access point mode or with the router; or let go of
   the station, and go on with the mode that leaves. *)
WifiStatusKept ==
  /\ Main("events", "events")
  /\ Taken("EVT_WIFI_STATUS")
  /\ radio.status = "WL_CONNECTED" \/ getMode(radio) = WIFI_MODE_AP
  /\ queue' = Tail(queue)
  /\ UNCHANGED <<radio, polls, booting, refused>>

evtWifiStatus ==
  /\ Main("events", "check")
  /\ Taken("EVT_WIFI_STATUS")
  /\ Room
  /\ radio.status # "WL_CONNECTED" /\ getMode(radio) # WIFI_MODE_AP
  /\ queue' = Tail(queue)
  /\ radio' = disconnect(radio)
  /\ UNCHANGED <<polls, booting, refused>>

FallBack ==
  /\ Main("check", "events")
  /\ getMode(radio) \in {WIFI_MODE_NULL, WIFI_MODE_AP}
  /\ radio' = softAP(radio)
  /\ eventGenerate(queue, InitServers)
  /\ UNCHANGED <<polls, booting>>

(* "Device Already in AP mode". *)
AlreadyInAp ==
  /\ Main("check", "events")
  /\ getMode(radio) \notin {WIFI_MODE_NULL, WIFI_MODE_AP}
  /\ UNCHANGED <<queue, radio, polls, booting, refused>>

(* The channels: at most one discovery packet and one message of the app in a pass. *)
Receive(packet, message) ==
  /\ Main("receive", "timers")
  /\ eventGenerate(queue, packet \o message)
  /\ UNCHANGED <<radio, polls, booting>>

-----------------------------------------------------------------------------
(* The network_event task and the driver behind it. *)

NetworkEvent ==
  /\ etask = "idle"
  /\ radio.pend # <<>>
  /\ radio' = Delivered(radio)
  /\ etask' = IF Reconnects(Head(radio.pend)) THEN "begin" ELSE "idle"
  /\ UNCHANGED <<app, refused>>

Reconnect ==
  /\ etask = "begin"
  /\ radio' = begin(radio)
  /\ etask' = "idle"
  /\ UNCHANGED <<app, refused>>

Driver ==
  /\ radio.link \in DOMAIN Reports
  /\ Room
  /\ \E e \in Reports[radio.link] : radio' = Reported(e, radio)
  /\ UNCHANGED <<app, etask, refused>>

-----------------------------------------------------------------------------
Events ==
  \/ EventsDone \/ PlainEvent \/ (\E alerts \in BOOLEAN : evtDeviceMonitorStatus(alerts))
  \/ evtGetApList \/ evtApConnect \/ evtApDisconnect \/ ApDisconnected
  \/ WifiStatusKept \/ evtWifiStatus \/ FallBack \/ AlreadyInAp

Loop ==
  \/ SetupAp \/ SetupConnect \/ JoinPoll \/ Joined \/ JoinFailed
  \/ \E expired \in Expired : timerFwProcess(expired)
  \/ Events
  \/ \E packet \in {<<>>, <<"EVT_PAR_UDP_MSG">>}, message \in Message \cup {<<>>} :
       Receive(packet, message)

NetworkTask == NetworkEvent \/ Reconnect

Next == Loop \/ NetworkTask \/ Driver

WifiCheck == \E expired \in Expired : "EVT_WIFI_STATUS" \in expired /\ timerFwProcess(expired)

(* The loop and the task run, the wifi timer expires again and again, and a check does
   not for ever meet a reconnection in the moment between its two calls. *)
Fairness ==
  /\ SF_vars(Loop) /\ WF_vars(NetworkTask)
  /\ SF_vars(WifiCheck) /\ SF_vars(FallBack)

Spec == Init /\ [][Next]_vars /\ Fairness

-----------------------------------------------------------------------------
(* Types; the driver's queue holds at most what a step of the loop let in last, and two
   more for every event on which the library reconnects. *)
TypeOK ==
  /\ pc \in {"setup", "timers", "events", "join", "check", "forget", "receive"}
  /\ queue \in Seq(Event) /\ Len(queue) <= QueueSize
  /\ radio \in Radio /\ Len(radio.pend) <= 3 * MaxNetEvents + 2
  /\ radio.sta = (radio.link # "off")
  /\ polls \in 0 .. MaxPolls
  /\ booting \in BOOLEAN
  /\ etask \in {"idle", "begin"}
  /\ refused \in BOOLEAN

(* The queue that setup makes for 10 events (esp32MistingController.ino:880) is long
   enough for what handlers, timers, packets and messages put into it between two
   drains: no caller of eventGenerate looks at its answer. *)
NoEventLost == ~refused

(* The loop comes round for ever: the events that handlers generate in the middle of
   a drain run out, and connectWithAp gives up in the end, so that the timer callbacks
   of the misting cycle, which wait for it, are called. *)
LoopReturns == []<>(pc = "timers")

(* The device does not stay out of reach: again and again it has its own access point
   or an address of a router, whatever the router does and whenever the library
   reconnects on its own. *)
Reachable == radio.ap \/ radio.link = "up"
BackInReach == []<>Reachable
=============================================================================
