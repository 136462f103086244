------------------------------ MODULE MistControl ------------------------------
(***************************************************************************)
(* The misting device of esp32MistingController around its state machine:  *)
(* the main loop runs timer callbacks, the device monitor and its alert    *)
(* event (deviceMonitor.ino, esp32MistingController.ino) and the commands  *)
(* of the mobile app (tcpControlServer.ino), each to its end, in any order.*)
(* Time passes in ticks between them.                                      *)
(***************************************************************************)
EXTENDS JumpStateMachine

CONSTANTS
  Command,      (* the commands the app sends                                *)
  Reading,      (* what the sensors answer: <<temperature, humidity>>        *)
  Stored,       (* the configurations the app sends                          *)
  MaxBoots      (* bound: power losses                                       *)

AllCommands == {"off", "on", "case1", "case2", "case3", "case4", "checkHv"}

ASSUME DeviceAssumption ==
  /\ Command \subseteq AllCommands
  /\ Reading \subseteq {"ok", "high", "failed"} \X {"ok", "high", "failed"}
  /\ Stored \subseteq Config /\ \A c \in Stored : c.present
  /\ MaxBoots \in Nat

VARIABLES
  dev,                (* the state machine, its actuators and its timers     *)
  cfg,                (* EEPROM: the motor configuration                     *)
  dS,                 (* EEPROM: the device state                            *)
  gManualModeOnFlag,
  alerts,             (* gDeviceAlertBitField                                *)
  alertEvt,           (* EVT_DEV_HANDLE_ALERT is in the event queue          *)
  led,
  boots,              (* power losses so far                                 *)
  alarm               (* history: an alert was handled and the app has not
                         switched the device on since                        *)

vars == <<dev, cfg, dS, gManualModeOnFlag, alerts, alertEvt, led, boots, alarm>>

NoConfig == CHOOSE c \in Config : ~c.present

Run(event) == executeStateMachine(event, cfg, dev)

(* setup, after the machine's own initialisation. *)
Booted(c, s) ==
  IF ~c.present THEN initJumpStateMachine
  ELSE executeStateMachine(IF s = "1" THEN "EVENT_INIT_BLDC" ELSE "EVENT_END_MIST",
                           c, initJumpStateMachine)

(* Powered up with whatever an earlier life has left in the EEPROM. *)
Init ==
  /\ cfg \in Stored \cup {NoConfig}
  /\ dS \in {"absent", "0"} \cup (IF cfg.present THEN {"1"} ELSE {})
  /\ dev = Booted(cfg, dS)
  /\ gManualModeOnFlag = FALSE
  /\ alerts = {}
  /\ alertEvt = FALSE
  /\ led = FALSE
  /\ boots = 0
  /\ alarm = FALSE

monitor == <<alerts, alertEvt, led>>

-----------------------------------------------------------------------------
(* The clock and the timer callbacks. *)

Tick ==
  /\ dev' = Ticked(dev)
  /\ UNCHANGED <<cfg, dS, gManualModeOnFlag, monitor, boots, alarm>>

TimerExpiry(t) ==
  /\ dev.left[t] = 0
  /\ dev' = Fired(t, dS = "1" /\ ~gManualModeOnFlag, cfg, dev)
  /\ UNCHANGED <<cfg, dS, gManualModeOnFlag, monitor, boots, alarm>>

(* getDeviceMonitorData: a failed humidity reading counts as a low one, a failed
   temperature reading leaves the alert as it was; the water sensor's result is
   overwritten, so its branch always turns the LED off.  The event queue has room for
   the alert event (MistingController, NoEventLost) and is first in, first out: the
   alert of one run of the monitor is handled before the next run. *)
Measured(temp, hum) ==
  (IF temp = "high" THEN {"HIGH_DEV_TEMP"}
   ELSE IF temp = "failed" THEN alerts \cap {"HIGH_DEV_TEMP"} ELSE {})
  \cup (IF hum = "high" THEN {"HIGH_DEV_HUM"} ELSE {})

getDeviceMonitorData(temp, hum) ==
  /\ ~alertEvt
  /\ alerts' = Measured(temp, hum)
  /\ alertEvt' = (alerts' # {})
  /\ led' = FALSE
  /\ UNCHANGED <<dev, cfg, dS, gManualModeOnFlag, boots, alarm>>

Monitor == \E r \in Reading : getDeviceMonitorData(r[1], r[2])

(* Mutants: the stored state stays on; the machine is not stopped. *)
AlertKeepsState ==
  /\ alertEvt
  /\ alertEvt' = FALSE
  /\ dev' = Run("EVENT_END_MIST")
  /\ led' = TRUE
  /\ alarm' = TRUE
  /\ UNCHANGED <<cfg, dS, gManualModeOnFlag, alerts, boots>>

AlertOnlyStored ==
  /\ alertEvt
  /\ alertEvt' = FALSE
  /\ dS' = "0"
  /\ led' = TRUE
  /\ alarm' = TRUE
  /\ UNCHANGED <<dev, cfg, gManualModeOnFlag, alerts, boots>>

evtHandleAlert ==
  /\ alertEvt
  /\ alertEvt' = FALSE
  /\ dev' = Run("EVENT_END_MIST")
  /\ dS' = "0"
  /\ led' = TRUE
  /\ alarm' = TRUE
  /\ UNCHANGED <<cfg, gManualModeOnFlag, alerts, boots>>

-----------------------------------------------------------------------------
(* The commands of the app. *)

Commands(name) ==
  /\ name \in Command
  /\ UNCHANGED <<monitor, boots>>

DeviceOff ==
  /\ dS' = "0"
  /\ dev' = Run("EVENT_END_MIST")
  /\ UNCHANGED <<cfg, gManualModeOnFlag, alarm>>
  /\ Commands("off")

Startable == cfg.present /\ alerts = {}

DeviceOn ==
  /\ Startable
  /\ dS' = "1"
  /\ dev' = Run("EVENT_INIT_BLDC")
  /\ alarm' = FALSE
  /\ UNCHANGED <<cfg, gManualModeOnFlag>>
  /\ Commands("on")

(* Store the new configuration and go on misting if the device is on: case 1 with
   the manual mode off, case 3 with the manual mode on. *)
Confirm(name, manual, c) ==
  /\ gManualModeOnFlag' = manual
  /\ cfg' = c
  /\ dev' = IF dS = "1" THEN Then("EVENT_END_MIST", "EVENT_INIT_BLDC", c, dev)
            ELSE executeStateMachine("EVENT_END_MIST", c, dev)
  /\ UNCHANGED <<dS, alarm>>
  /\ Commands(name)

(* Case 2: try a configuration in manual mode, c not stored. *)
ManualTry(c) ==
  /\ gManualModeOnFlag' = TRUE
  /\ LET d == Run("EVENT_END_MIST")
     IN  dev' = [d EXCEPT !.bldc = TRUE, !.sm = d.sm \/ c.smSpdOk]
  /\ UNCHANGED <<cfg, dS, alarm>>
  /\ Commands("case2")

(* Case 4: cancel the manual mode; nothing is stopped if dS was never stored. *)
CancelManual ==
  /\ gManualModeOnFlag' = FALSE
  /\ dev' = CASE dS = "absent" -> dev
              [] dS = "0" -> executeStateMachine("EVENT_END_MIST", cfg,
                                                 [dev EXCEPT !.bldc = FALSE, !.sm = FALSE])
              [] dS = "1" -> Then("EVENT_END_MIST", "EVENT_INIT_BLDC", cfg, dev)
  /\ UNCHANGED <<cfg, dS, alarm>>
  /\ Commands("case4")

checkHVmoduleTcp ==
  /\ dS = "1"
  /\ dev' = Then("EVENT_END_MIST", "EVENT_INIT_BLDC", cfg, dev)
  /\ UNCHANGED <<cfg, dS, gManualModeOnFlag, alarm>>
  /\ Commands("checkHv")

handleConfigUpdateJson ==
  \/ \E c \in Stored : Confirm("case1", FALSE, c) \/ ManualTry(c) \/ Confirm("case3", TRUE, c)
  \/ CancelManual

(* The whole unit loses its power; only the EEPROM is left. *)
Reboot ==
  /\ boots < MaxBoots
  /\ boots' = boots + 1
  /\ dev' = Booted(cfg, dS)
  /\ gManualModeOnFlag' = FALSE
  /\ alerts' = {} /\ alertEvt' = FALSE /\ led' = FALSE
  /\ UNCHANGED <<cfg, dS, alarm>>

-----------------------------------------------------------------------------
Next ==
  \/ Tick
  \/ \E t \in Timer : TimerExpiry(t)
  \/ Monitor
  \/ evtHandleAlert
  \/ DeviceOff \/ DeviceOn \/ handleConfigUpdateJson \/ checkHVmoduleTcp
  \/ Reboot

(* Time passes, and the main loop comes to the callback of an expired timer. *)
Fairness == WF_vars(Tick) /\ \A t \in Timer : WF_vars(TimerExpiry(t))

Spec == Init /\ [][Next]_vars /\ Fairness

-----------------------------------------------------------------------------
(* Types of the device, the EEPROM and the histories. *)
TypeOK ==
  /\ dev \in Machine
  /\ cfg \in Config
  /\ dS \in {"absent", "0", "1"}
  /\ gManualModeOnFlag \in BOOLEAN
  /\ alerts \subseteq {"HIGH_DEV_TEMP", "HIGH_DEV_HUM"}
  /\ alertEvt \in BOOLEAN
  /\ led \in BOOLEAN
  /\ boots \in 0 .. MaxBoots
  /\ alarm \in BOOLEAN

(* The high voltage is on only in the misting state proper and with the fan running,
   whatever sequence of callbacks, commands and alerts led there. *)
HvOnlyWhileMisting == dev.hv => dev.state = "STATE_HV_INIT" /\ dev.bldc

(* The timer that leads out of a state. *)
TimerOf ==
  [s \in {"STATE_BLDC_INIT", "STATE_HV_INIT", "STATE_SM_END", "STATE_MIST_OFF_TIME", "STATE_MIST_END"} |->
     CASE s = "STATE_BLDC_INIT" -> "StartSM"
       [] s = "STATE_HV_INIT" -> "StopHV"
       [] s = "STATE_SM_END" -> "StopBLDC"
       [] s = "STATE_MIST_OFF_TIME" -> "DeviceStop"
       [] s = "STATE_MIST_END" -> "MistStopDelay"]

(* Between handlers the machine is at rest in MISTING_END or in a state whose timer
   is running or has its callback pending: no refused start, ignored event or stale
   timer leaves it, with motors or high voltage on, in a state nothing leads out of. *)
NeverStuck ==
  \/ dev.state = "STATE_MISTING_END"
  \/ dev.state \in DOMAIN TimerOf /\ dev.left[TimerOf[dev.state]] >= 0

(* After an alert has been handled the machine does not start a cycle until the app
   switches the device on: not by the restart of endMist's delay, a configuration
   update, the end of the manual mode, an HV check or a reboot. *)
AlertHolds == alarm => dev.state \in {"STATE_MIST_END", "STATE_MISTING_END"}

(* The device is on only with a motor configuration in the EEPROM, whose values the
   operations read without a test. *)
OnNeedsConfig == dS = "1" \/ dev.state \notin {"STATE_MIST_END", "STATE_MISTING_END"} => cfg.present

(* Out of manual mode the motors run only in the states that run them. *)
MotorsFollowState ==
  ~gManualModeOnFlag =>
    /\ dev.bldc = (dev.state \in {"STATE_BLDC_INIT", "STATE_HV_INIT", "STATE_SM_END"})
    /\ dev.sm => dev.state = "STATE_HV_INIT"

(* The alert handler stops the device (esp32MistingController.ino:598): the event is
   taken and the LED turned on with everything off. *)
AlertStopsDevice ==
  [][alertEvt /\ ~alertEvt' /\ led' => ~dev'.bldc /\ ~dev'.sm /\ ~dev'.hv]_vars

(* The waits a configuration asks for (jumpStateMachine.ino:123, 177). *)
Promised(state, c) ==
  CASE state = "STATE_BLDC_INIT"     -> c.blBfnT
    [] state = "STATE_HV_INIT"       -> c.tOn
    [] state = "STATE_SM_END"        -> c.blAffT
    [] state = "STATE_MIST_OFF_TIME" -> c.tOff
    [] OTHER -> 0

WaitHonoured ==
  dev'.state # dev.state /\ Promised(dev'.state, cfg') >= 1
    => dev'.left[TimerOf[dev'.state]] = Promised(dev'.state, cfg')

CycleInterrupted ==
  dev.state \notin {"STATE_MIST_END", "STATE_MISTING_END"} /\ dev'.state = "STATE_MIST_END"

(* Once no cycle is interrupted any more, the timers that interrupted cycles have left
   running are used up, and from some time on every wait is honoured. *)
WaitsSettle == <>[][~CycleInterrupted]_vars => <>[][WaitHonoured]_vars

(* The high voltage never stays on for ever. *)
MistingPauses == dev.hv ~> ~dev.hv

Undisturbed == Tick \/ (\E t \in Timer : TimerExpiry(t)) \/ Monitor

(* A device that is on, and that the app and the power leave alone from some time
   on, mists again and again. *)
OnMists == <>[](dS = "1") /\ <>[][Undisturbed]_vars => []<>(dev.hv)
=============================================================================
