--------------------------- MODULE JumpStateMachine ---------------------------
(***************************************************************************)
(* The misting state machine of esp32MistingController: the jump table of  *)
(* jumpStateMachine.ino and the operations it runs on the actuators of     *)
(* hardwareControl.ino and on its single-shot timers.  The machine is a    *)
(* value d and an operation maps it to the next one; the handlers that run *)
(* it are the actions of MistControl.                                      *)
(***************************************************************************)
EXTENDS Integers

CONSTANTS
  Wait,         (* the waits a stored configuration may hold, in ticks; 0 stands
                   for any wait shorter than one tick                        *)
  FirstWait,    (* the interval the timers are created with                  *)
  StopDelay     (* the wait of endMist                                       *)

ASSUME WaitAssumption ==
  Wait \subseteq Nat /\ Wait # {} /\ FirstWait \in Nat \ {0} /\ StopDelay \in Nat \ {0}

States ==
  {"STATE_MIST_END", "STATE_BLDC_INIT", "STATE_SM_INIT", "STATE_HV_INIT", "STATE_HV_END",
   "STATE_SM_END", "STATE_BLDC_END", "STATE_MIST_OFF_TIME", "STATE_MISTING_END"}

(* The timers that are ever started. *)
Timer == {"StartSM", "StopHV", "StopBLDC", "DeviceStop", "MistStopDelay"}

(* The stored configuration; smSpdOk: the stepper speed is one smOn accepts. *)
Config == [present : BOOLEAN, smSpdOk : BOOLEAN,
           blBfnT : Wait, tOn : Wait, blAffT : Wait, tOff : Wait]

(* left: ticks a running timer has left, 0 when it has expired and its callback
   is pending, -1 otherwise. *)
Machine == [state : States, bldc : BOOLEAN, sm : BOOLEAN, hv : BOOLEAN,
            left : [Timer -> Int], interval : [Timer -> Nat \ {0}]]

initJumpStateMachine ==
  [state |-> "STATE_MISTING_END", bldc |-> FALSE, sm |-> FALSE, hv |-> FALSE,
   left |-> [t \in Timer |-> -1], interval |-> [t \in Timer |-> FirstWait]]

-----------------------------------------------------------------------------
(* timerUpdateInterval refuses a wait shorter than a tick and the timer keeps its
   interval; timer_c_Start refuses a timer that is running. *)
StartTimer(t, wait, d) ==
  LET i == IF wait >= 1 THEN wait ELSE d.interval[t]
      n == IF d.left[t] > 0 THEN d.left[t] ELSE i
  IN  [d EXCEPT !.interval = [d.interval EXCEPT ![t] = i], !.left = [d.left EXCEPT ![t] = n]]

(* Mutants of the operations: the wait of another state, an actuator or the timer
   forgotten. *)
StartBldcForTOn(c, d)   == StartTimer("StartSM", c.tOn, [d EXCEPT !.bldc = TRUE])
StartHvUntimed(c, d)    == [d EXCEPT !.hv = TRUE]
StopHvNot(d)            == d
StopSmNot(c, d)         == StartTimer("StopBLDC", c.blAffT, d)
EndMistButHv(d) ==
  StartTimer("MistStopDelay", StopDelay, [d EXCEPT !.bldc = FALSE, !.sm = FALSE])

(* The operations, named as in the code. *)
start_Bldc__Timer_Init(c, d) == StartTimer("StartSM", c.blBfnT, [d EXCEPT !.bldc = TRUE])
start_SM__Timer_Init(c, d)   == [d EXCEPT !.sm = d.sm \/ c.smSpdOk]
start_HV__Timer_Init(c, d)   == StartTimer("StopHV", c.tOn, [d EXCEPT !.hv = TRUE])
stop_HV__Timer_Init(d)       == [d EXCEPT !.hv = FALSE]
stop_SM__Timer_Init(c, d)    == StartTimer("StopBLDC", c.blAffT, [d EXCEPT !.sm = FALSE])
stop_Bldc__Timer_Init(d)     == [d EXCEPT !.bldc = FALSE]
startMistOffTimer(c, d)      == StartTimer("DeviceStop", c.tOff, d)
endMist(d) ==
  StartTimer("MistStopDelay", StopDelay, [d EXCEPT !.bldc = FALSE, !.sm = FALSE, !.hv = FALSE])
mistingEnd(d) == d

(* gJumpSm: the state an event leads to; STATE_NA where the table is empty. *)
gJumpSm(state, event) ==
  CASE event = "EVENT_END_MIST" /\ state # "STATE_MISTING_END" -> "STATE_MIST_END"
    [] event = "EVENT_INIT_BLDC" /\ state = "STATE_MISTING_END" -> "STATE_BLDC_INIT"
    [] event = "EVENT_MIST_END_DELAY" /\ state = "STATE_MIST_END" -> "STATE_MISTING_END"
    [] event = "EVENT_INIT_SM" /\ state = "STATE_BLDC_INIT" -> "STATE_SM_INIT"
    [] event = "EVENT_INIT_HV" /\ state = "STATE_SM_INIT" -> "STATE_HV_INIT"
    [] event = "EVENT_END_HV" /\ state = "STATE_HV_INIT" -> "STATE_HV_END"
    [] event = "EVENT_END_SM" /\ state = "STATE_HV_END" -> "STATE_SM_END"
    [] event = "EVENT_END_BLDC" /\ state = "STATE_SM_END" -> "STATE_BLDC_END"
    [] event = "EVENT_COM_MIST_CYCLE" /\ state = "STATE_BLDC_END" -> "STATE_MIST_OFF_TIME"
    [] event = "EVENT_START_MIST_CYCLE" /\ state = "STATE_MIST_OFF_TIME" -> "STATE_BLDC_INIT"
    [] OTHER -> "STATE_NA"

(* The operation of a jump: the table has one for each state jumped to. *)
Operate(next, c, d) ==
  CASE next = "STATE_BLDC_INIT"     -> start_Bldc__Timer_Init(c, d)
    [] next = "STATE_SM_INIT"       -> start_SM__Timer_Init(c, d)
    [] next = "STATE_HV_INIT"       -> start_HV__Timer_Init(c, d)
    [] next = "STATE_HV_END"        -> stop_HV__Timer_Init(d)
    [] next = "STATE_SM_END"        -> stop_SM__Timer_Init(c, d)
    [] next = "STATE_BLDC_END"      -> stop_Bldc__Timer_Init(d)
    [] next = "STATE_MIST_OFF_TIME" -> startMistOffTimer(c, d)
    [] next = "STATE_MIST_END"      -> endMist(d)
    [] next = "STATE_MISTING_END"   -> mistingEnd(d)

(* An event without a jump is ignored.  Every operation returns EVENT_NA, so the
   loop of the code runs once. *)
executeStateMachine(event, c, d) ==
  LET next == gJumpSm(d.state, event)
  IN  IF next = "STATE_NA" THEN d ELSE Operate(next, c, [d EXCEPT !.state = next])

Then(event, after, c, d) == executeStateMachine(after, c, executeStateMachine(event, c, d))

-----------------------------------------------------------------------------
(* The timer callbacks; on: the stored device state is on and the device is not
   in manual mode. *)
Expired(t, on, c, d) ==
  CASE t = "StartSM"       -> Then("EVENT_INIT_SM", "EVENT_INIT_HV", c, d)
    [] t = "StopHV"        -> Then("EVENT_END_HV", "EVENT_END_SM", c, d)
    [] t = "StopBLDC"      -> Then("EVENT_END_BLDC", "EVENT_COM_MIST_CYCLE", c, d)
    [] t = "DeviceStop"    -> executeStateMachine("EVENT_START_MIST_CYCLE", c, d)
    [] t = "MistStopDelay" -> IF on THEN Then("EVENT_MIST_END_DELAY", "EVENT_INIT_BLDC", c, d)
                              ELSE executeStateMachine("EVENT_MIST_END_DELAY", c, d)

(* The timer framework (TimerFw): one tick, and the call of an expired timer's
   callback. *)
Ticked(d) == [d EXCEPT !.left = [t \in Timer |-> IF d.left[t] > 0 THEN d.left[t] - 1 ELSE d.left[t]]]

(* Mutant: the delay of endMist never starts the next cycle. *)
FiredOnce(t, on, c, d) == Expired(t, FALSE, c, [d EXCEPT !.left = [d.left EXCEPT ![t] = -1]])

Fired(t, on, c, d) == Expired(t, on, c, [d EXCEPT !.left = [d.left EXCEPT ![t] = -1]])
=============================================================================
