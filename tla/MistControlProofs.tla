---------------------------- MODULE MistControlProofs ----------------------------
(***************************************************************************)
(* For every set of configurations, commands and waits: the high voltage   *)
(* is on only while misting with the fan running, no state is left without *)
(* a pending timer, and an alert holds until the device is switched on.    *)
(* Without the manual mode the motors follow the state of the machine.     *)
(***************************************************************************)
EXTENDS MCMistControl, TLAPS

USE WaitAssumption, DeviceAssumption

Off == {"STATE_MIST_END", "STATE_MISTING_END"}
AtRest == {"STATE_MISTING_END"} \cup DOMAIN TimerOf

(* A machine between two handlers. *)
Sound(d) ==
  /\ d \in Machine
  /\ d.state \in AtRest
  /\ d.hv => d.state = "STATE_HV_INIT"
  /\ d.state \in {"STATE_BLDC_INIT", "STATE_HV_INIT", "STATE_SM_END"} => d.bldc
  /\ d.state # "STATE_MISTING_END" => d.left[TimerOf[d.state]] >= 0

(* The motors are those of the state. *)
Aligned(d) ==
  /\ d.bldc <=> d.state \in {"STATE_BLDC_INIT", "STATE_HV_INIT", "STATE_SM_END"}
  /\ d.sm => d.state = "STATE_HV_INIT"

LEMMA RestStates ==
  AtRest = {"STATE_MISTING_END", "STATE_BLDC_INIT", "STATE_HV_INIT", "STATE_SM_END",
            "STATE_MIST_OFF_TIME", "STATE_MIST_END"}
  BY DEF AtRest, TimerOf

LEMMA TimersOfStates ==
  /\ TimerOf["STATE_BLDC_INIT"] = "StartSM" /\ TimerOf["STATE_HV_INIT"] = "StopHV"
  /\ TimerOf["STATE_SM_END"] = "StopBLDC" /\ TimerOf["STATE_MIST_OFF_TIME"] = "DeviceStop"
  /\ TimerOf["STATE_MIST_END"] = "MistStopDelay"
  BY DEF TimerOf

LEMMA MachineFields ==
  ASSUME NEW d \in Machine
  PROVE  /\ d.state \in States /\ d.bldc \in BOOLEAN /\ d.sm \in BOOLEAN /\ d.hv \in BOOLEAN
         /\ d.left \in [Timer -> Int] /\ d.interval \in [Timer -> Nat \ {0}]
  BY DEF Machine

(* StartTimer leaves the timer running or expired and touches nothing else. *)
LEMMA TimerStarted ==
  ASSUME NEW d \in Machine, NEW t \in Timer, NEW wait \in Nat,
         NEW r, r = StartTimer(t, wait, d)
  PROVE  /\ r \in Machine
         /\ r.state = d.state /\ r.bldc = d.bldc /\ r.sm = d.sm /\ r.hv = d.hv
         /\ r.left[t] >= 0
  <1> DEFINE i == IF wait >= 1 THEN wait ELSE d.interval[t]
             n == IF d.left[t] > 0 THEN d.left[t] ELSE i
             I == [d.interval EXCEPT ![t] = i]
             L == [d.left EXCEPT ![t] = n]
  <1>1. i \in Nat \ {0} /\ n \in Nat
    BY MachineFields
  <1>2. r = [d EXCEPT !.interval = I, !.left = L]
    BY DEF StartTimer
  <1>3. I \in [Timer -> Nat \ {0}] /\ L \in [Timer -> Int] /\ L[t] >= 0
    BY <1>1, MachineFields
  <1> HIDE DEF I, L
  <1> QED
    BY <1>2, <1>3 DEF Machine

LEMMA ConfigFields ==
  ASSUME NEW c \in Config
  PROVE  /\ c.blBfnT \in Nat /\ c.tOn \in Nat /\ c.blAffT \in Nat /\ c.tOff \in Nat
         /\ c.smSpdOk \in BOOLEAN
  BY DEF Config

(* A state whose timer has just been started is sound if its actuators are. *)
LEMMA StartedIsSound ==
  ASSUME NEW d \in Machine, d.state \in DOMAIN TimerOf, NEW wait \in Nat,
         d.hv => d.state = "STATE_HV_INIT",
         d.state \in {"STATE_BLDC_INIT", "STATE_HV_INIT", "STATE_SM_END"} => d.bldc,
         NEW r, r = StartTimer(TimerOf[d.state], wait, d)
  PROVE  Sound(r) /\ r.state = d.state /\ (Aligned(d) => Aligned(r))
  <1>1. TimerOf[d.state] \in Timer /\ d.state \in AtRest /\ d.state # "STATE_MISTING_END"
    BY RestStates, TimersOfStates DEF AtRest, TimerOf, Timer
  <1>2. /\ r \in Machine
        /\ r.state = d.state /\ r.bldc = d.bldc /\ r.sm = d.sm /\ r.hv = d.hv
        /\ r.left[TimerOf[d.state]] >= 0
    BY <1>1, TimerStarted
  <1> QED
    BY <1>1, <1>2 DEF Sound, Aligned

LEMMA EndMist ==
  ASSUME NEW d \in Machine, NEW c \in Config,
         d.state = "STATE_MISTING_END" => Sound(d),
         NEW r, r = executeStateMachine("EVENT_END_MIST", c, d)
  PROVE  /\ Sound(r)
         /\ r.state = IF d.state = "STATE_MISTING_END" THEN d.state ELSE "STATE_MIST_END"
         /\ d.state = "STATE_MISTING_END" => r = d
         /\ d.state # "STATE_MISTING_END" => Aligned(r)
  <1> DEFINE off == [d EXCEPT !.state = "STATE_MIST_END", !.bldc = FALSE, !.sm = FALSE, !.hv = FALSE]
  <1>1. CASE d.state = "STATE_MISTING_END"
    <2>1. gJumpSm(d.state, "EVENT_END_MIST") = "STATE_NA"
      BY <1>1 DEF gJumpSm
    <2> QED
      BY <1>1, <2>1 DEF executeStateMachine
  <1>2. CASE d.state # "STATE_MISTING_END"
    <2>1. gJumpSm(d.state, "EVENT_END_MIST") = "STATE_MIST_END"
      BY <1>2, MachineFields DEF gJumpSm
    <2>2. r = StartTimer("MistStopDelay", StopDelay, off)
      BY <2>1 DEF executeStateMachine, Operate, endMist
    <2>3. off \in Machine /\ off.state = "STATE_MIST_END" /\ ~off.hv /\ ~off.sm /\ ~off.bldc
      BY DEF Machine, States
    <2> HIDE DEF off
    <2>4. Aligned(off)
      BY <2>3 DEF Aligned
    <2> QED
      BY <1>2, <2>2, <2>3, <2>4, StartedIsSound, TimersOfStates, RestStates DEF AtRest
  <1> QED
    BY <1>1, <1>2

LEMMA InitBldc ==
  ASSUME NEW d, Sound(d), NEW c \in Config,
         NEW r, r = executeStateMachine("EVENT_INIT_BLDC", c, d)
  PROVE  /\ Sound(r)
         /\ d.state # "STATE_MISTING_END" => r = d
         /\ Aligned(d) => Aligned(r)
  <1> DEFINE on == [d EXCEPT !.state = "STATE_BLDC_INIT", !.bldc = TRUE]
  <1>1. CASE d.state # "STATE_MISTING_END"
    <2>1. gJumpSm(d.state, "EVENT_INIT_BLDC") = "STATE_NA"
      BY <1>1 DEF gJumpSm
    <2> QED
      BY <1>1, <2>1 DEF executeStateMachine
  <1>2. CASE d.state = "STATE_MISTING_END"
    <2>1. gJumpSm(d.state, "EVENT_INIT_BLDC") = "STATE_BLDC_INIT"
      BY <1>2 DEF gJumpSm
    <2>2. r = StartTimer("StartSM", c.blBfnT, on)
      BY <2>1 DEF executeStateMachine, Operate, start_Bldc__Timer_Init
    <2>3. /\ on \in Machine /\ on.state = "STATE_BLDC_INIT" /\ ~on.hv /\ on.bldc
          /\ Aligned(d) => Aligned(on)
      BY <1>2, MachineFields DEF Machine, States, Sound, Aligned
    <2> HIDE DEF on
    <2> QED
      BY <1>2, <2>2, <2>3, StartedIsSound, ConfigFields, TimersOfStates, RestStates DEF AtRest
  <1> QED
    BY <1>1, <1>2

(* The two transitions of a callback, through a state the machine does not rest in. *)
LEMMA Misting ==
  ASSUME NEW d \in Machine, d.state \in AtRest, NEW c \in Config,
         d.hv => d.state = "STATE_HV_INIT",
         d.state \in {"STATE_BLDC_INIT", "STATE_HV_INIT", "STATE_SM_END"} => d.bldc,
         NEW r, r = Then("EVENT_INIT_SM", "EVENT_INIT_HV", c, d)
  PROVE  /\ IF d.state = "STATE_BLDC_INIT" THEN Sound(r) /\ r.state = "STATE_HV_INIT" ELSE r = d
         /\ Aligned(d) => Aligned(r)
  <1> DEFINE sm == [d EXCEPT !.state = "STATE_SM_INIT", !.sm = d.sm \/ c.smSpdOk]
             hv == [sm EXCEPT !.state = "STATE_HV_INIT", !.hv = TRUE]
  <1>1. CASE d.state # "STATE_BLDC_INIT"
    <2>1. gJumpSm(d.state, "EVENT_INIT_SM") = "STATE_NA" /\ gJumpSm(d.state, "EVENT_INIT_HV") = "STATE_NA"
      BY <1>1, RestStates DEF gJumpSm
    <2> QED
      BY <1>1, <2>1 DEF executeStateMachine, Then
  <1>2. CASE d.state = "STATE_BLDC_INIT"
    <2>1. executeStateMachine("EVENT_INIT_SM", c, d) = sm
      BY <1>2 DEF gJumpSm, executeStateMachine, Operate, start_SM__Timer_Init
    <2>2. sm \in Machine /\ sm.state = "STATE_SM_INIT" /\ sm.bldc
      BY <1>2, ConfigFields, MachineFields DEF Machine, States
    <2> HIDE DEF sm
    <2>3. executeStateMachine("EVENT_INIT_HV", c, sm) = StartTimer("StopHV", c.tOn, hv)
      BY <2>2 DEF gJumpSm, executeStateMachine, Operate, start_HV__Timer_Init
    <2>4. hv \in Machine /\ hv.state = "STATE_HV_INIT" /\ hv.bldc /\ Aligned(hv)
      BY <2>2 DEF Machine, States, Aligned
    <2>5. r = StartTimer("StopHV", c.tOn, hv)
      BY <2>1, <2>3 DEF Then
    <2> HIDE DEF hv
    <2> QED
      BY <1>2, <2>4, <2>5, StartedIsSound, ConfigFields, TimersOfStates, RestStates DEF AtRest
  <1> QED
    BY <1>1, <1>2

LEMMA Pausing ==
  ASSUME NEW d \in Machine, d.state \in AtRest, NEW c \in Config,
         d.hv => d.state = "STATE_HV_INIT",
         d.state \in {"STATE_BLDC_INIT", "STATE_HV_INIT", "STATE_SM_END"} => d.bldc,
         NEW r, r = Then("EVENT_END_HV", "EVENT_END_SM", c, d)
  PROVE  /\ IF d.state = "STATE_HV_INIT" THEN Sound(r) /\ r.state = "STATE_SM_END" ELSE r = d
         /\ Aligned(d) => Aligned(r)
  <1> DEFINE hv == [d EXCEPT !.state = "STATE_HV_END", !.hv = FALSE]
             sm == [hv EXCEPT !.state = "STATE_SM_END", !.sm = FALSE]
  <1>1. CASE d.state # "STATE_HV_INIT"
    <2>1. gJumpSm(d.state, "EVENT_END_HV") = "STATE_NA" /\ gJumpSm(d.state, "EVENT_END_SM") = "STATE_NA"
      BY <1>1, RestStates DEF gJumpSm
    <2> QED
      BY <1>1, <2>1 DEF executeStateMachine, Then
  <1>2. CASE d.state = "STATE_HV_INIT"
    <2>1. executeStateMachine("EVENT_END_HV", c, d) = hv
      BY <1>2 DEF gJumpSm, executeStateMachine, Operate, stop_HV__Timer_Init
    <2>2. hv \in Machine /\ hv.state = "STATE_HV_END" /\ hv.bldc /\ ~hv.hv
      BY <1>2 DEF Machine, States
    <2> HIDE DEF hv
    <2>3. executeStateMachine("EVENT_END_SM", c, hv) = StartTimer("StopBLDC", c.blAffT, sm)
      BY <2>2 DEF gJumpSm, executeStateMachine, Operate, stop_SM__Timer_Init
    <2>4. sm \in Machine /\ sm.state = "STATE_SM_END" /\ sm.bldc /\ ~sm.hv /\ Aligned(sm)
      BY <2>2 DEF Machine, States, Aligned
    <2>5. r = StartTimer("StopBLDC", c.blAffT, sm)
      BY <2>1, <2>3 DEF Then
    <2> HIDE DEF sm
    <2> QED
      BY <1>2, <2>4, <2>5, StartedIsSound, ConfigFields, TimersOfStates, RestStates DEF AtRest
  <1> QED
    BY <1>1, <1>2

LEMMA Resting ==
  ASSUME NEW d \in Machine, d.state \in AtRest, NEW c \in Config,
         d.hv => d.state = "STATE_HV_INIT",
         NEW r, r = Then("EVENT_END_BLDC", "EVENT_COM_MIST_CYCLE", c, d)
  PROVE  /\ IF d.state = "STATE_SM_END" THEN Sound(r) /\ r.state = "STATE_MIST_OFF_TIME" ELSE r = d
         /\ Aligned(d) => Aligned(r)
  <1> DEFINE end == [d EXCEPT !.state = "STATE_BLDC_END", !.bldc = FALSE]
             off == [end EXCEPT !.state = "STATE_MIST_OFF_TIME"]
  <1>1. CASE d.state # "STATE_SM_END"
    <2>1. /\ gJumpSm(d.state, "EVENT_END_BLDC") = "STATE_NA"
          /\ gJumpSm(d.state, "EVENT_COM_MIST_CYCLE") = "STATE_NA"
      BY <1>1, RestStates DEF gJumpSm
    <2> QED
      BY <1>1, <2>1 DEF executeStateMachine, Then
  <1>2. CASE d.state = "STATE_SM_END"
    <2>1. executeStateMachine("EVENT_END_BLDC", c, d) = end
      BY <1>2 DEF gJumpSm, executeStateMachine, Operate, stop_Bldc__Timer_Init
    <2>2. /\ end \in Machine /\ end.state = "STATE_BLDC_END" /\ ~end.hv /\ ~end.bldc
          /\ Aligned(d) => ~end.sm
      BY <1>2 DEF Machine, States, Aligned
    <2> HIDE DEF end
    <2>3. executeStateMachine("EVENT_COM_MIST_CYCLE", c, end) = StartTimer("DeviceStop", c.tOff, off)
      BY <2>2 DEF gJumpSm, executeStateMachine, Operate, startMistOffTimer
    <2>4. /\ off \in Machine /\ off.state = "STATE_MIST_OFF_TIME" /\ ~off.hv
          /\ Aligned(d) => Aligned(off)
      BY <2>2 DEF Machine, States, Aligned
    <2>5. r = StartTimer("DeviceStop", c.tOff, off)
      BY <2>1, <2>3 DEF Then
    <2> HIDE DEF off
    <2> QED
      BY <1>2, <2>4, <2>5, StartedIsSound, ConfigFields, TimersOfStates, RestStates DEF AtRest
  <1> QED
    BY <1>1, <1>2

LEMMA Restarting ==
  ASSUME NEW d \in Machine, d.state \in AtRest, NEW c \in Config,
         d.hv => d.state = "STATE_HV_INIT",
         NEW r, r = executeStateMachine("EVENT_START_MIST_CYCLE", c, d)
  PROVE  /\ IF d.state = "STATE_MIST_OFF_TIME" THEN Sound(r) /\ r.state = "STATE_BLDC_INIT" ELSE r = d
         /\ Aligned(d) => Aligned(r)
  <1> DEFINE on == [d EXCEPT !.state = "STATE_BLDC_INIT", !.bldc = TRUE]
  <1>1. CASE d.state # "STATE_MIST_OFF_TIME"
    <2>1. gJumpSm(d.state, "EVENT_START_MIST_CYCLE") = "STATE_NA"
      BY <1>1 DEF gJumpSm
    <2> QED
      BY <1>1, <2>1 DEF executeStateMachine
  <1>2. CASE d.state = "STATE_MIST_OFF_TIME"
    <2>1. r = StartTimer("StartSM", c.blBfnT, on)
      BY <1>2 DEF gJumpSm, executeStateMachine, Operate, start_Bldc__Timer_Init
    <2>2. /\ on \in Machine /\ on.state = "STATE_BLDC_INIT" /\ on.bldc /\ ~on.hv
          /\ Aligned(d) => Aligned(on)
      BY <1>2 DEF Machine, States, Aligned
    <2> HIDE DEF on
    <2> QED
      BY <1>2, <2>1, <2>2, StartedIsSound, ConfigFields, TimersOfStates, RestStates DEF AtRest
  <1> QED
    BY <1>1, <1>2

LEMMA Ending ==
  ASSUME NEW d \in Machine, d.state \in AtRest, NEW c \in Config,
         d.hv => d.state = "STATE_HV_INIT",
         NEW r, r = executeStateMachine("EVENT_MIST_END_DELAY", c, d)
  PROVE  /\ IF d.state = "STATE_MIST_END" THEN Sound(r) /\ r.state = "STATE_MISTING_END" ELSE r = d
         /\ Aligned(d) => Aligned(r)
  <1>1. CASE d.state # "STATE_MIST_END"
    <2>1. gJumpSm(d.state, "EVENT_MIST_END_DELAY") = "STATE_NA"
      BY <1>1 DEF gJumpSm
    <2> QED
      BY <1>1, <2>1 DEF executeStateMachine
  <1>2. CASE d.state = "STATE_MIST_END"
    <2>1. r = [d EXCEPT !.state = "STATE_MISTING_END"]
      BY <1>2 DEF gJumpSm, executeStateMachine, Operate, mistingEnd
    <2>2. /\ r \in Machine /\ r.state = "STATE_MISTING_END" /\ ~r.hv
          /\ Aligned(d) => Aligned(r)
      BY <1>2, <2>1 DEF Machine, States, Aligned
    <2> QED
      BY <1>2, <2>2, RestStates DEF Sound
  <1> QED
    BY <1>1, <1>2

(* The callback of the timer that leads out of a state leads out of it, and no
   other callback disturbs the state: what a stale timer fires is ignored. *)
LEMMA FiredIsSound ==
  ASSUME NEW d, Sound(d), NEW t \in Timer, NEW on \in BOOLEAN, NEW c \in Config,
         NEW r, r = Fired(t, on, c, d)
  PROVE  /\ Sound(r)
         /\ r.state \notin Off => d.state \notin Off \/ on
         /\ Aligned(d) => Aligned(r)
  <1> DEFINE p == [d EXCEPT !.left = [d.left EXCEPT ![t] = -1]]
  <1>1. /\ p \in Machine /\ p.state = d.state /\ p.bldc = d.bldc /\ p.hv = d.hv
        /\ \A u \in Timer : u # t => p.left[u] = d.left[u]
        /\ Aligned(d) => Aligned(p)
    BY MachineFields DEF Machine, Sound, Aligned
  <1>2. r = Expired(t, on, c, p)
    BY DEF Fired
  <1> HIDE DEF p
  <1>3. /\ p.state \in AtRest /\ (p.hv => p.state = "STATE_HV_INIT")
        /\ p.state \in {"STATE_BLDC_INIT", "STATE_HV_INIT", "STATE_SM_END"} => p.bldc
    BY <1>1 DEF Sound
  <1>4. p.state # "STATE_MISTING_END" /\ TimerOf[p.state] # t => Sound(p)
    <2>1. p.state # "STATE_MISTING_END" => TimerOf[p.state] \in Timer
      BY <1>3, RestStates, TimersOfStates DEF Timer
    <2> QED
      BY <1>1, <1>3, <2>1 DEF Sound
  <1>5. p.state = "STATE_MISTING_END" => Sound(p)
    BY <1>1, <1>3 DEF Sound
  <1>6. CASE t = "StartSM"
    <2>1. r = Then("EVENT_INIT_SM", "EVENT_INIT_HV", c, p)
      BY <1>2, <1>6 DEF Expired
    <2>2. /\ IF p.state = "STATE_BLDC_INIT" THEN Sound(r) /\ r.state = "STATE_HV_INIT" ELSE r = p
          /\ Aligned(d) => Aligned(r)
      BY <1>1, <1>3, <2>1, Misting
    <2> QED
      BY <1>1, <1>3, <1>4, <1>5, <1>6, <2>2, RestStates, TimersOfStates DEF Off
  <1>7. CASE t = "StopHV"
    <2>1. r = Then("EVENT_END_HV", "EVENT_END_SM", c, p)
      BY <1>2, <1>7 DEF Expired
    <2>2. /\ IF p.state = "STATE_HV_INIT" THEN Sound(r) /\ r.state = "STATE_SM_END" ELSE r = p
          /\ Aligned(d) => Aligned(r)
      BY <1>1, <1>3, <2>1, Pausing
    <2> QED
      BY <1>1, <1>3, <1>4, <1>5, <1>7, <2>2, RestStates, TimersOfStates DEF Off
  <1>8. CASE t = "StopBLDC"
    <2>1. r = Then("EVENT_END_BLDC", "EVENT_COM_MIST_CYCLE", c, p)
      BY <1>2, <1>8 DEF Expired
    <2>2. /\ IF p.state = "STATE_SM_END" THEN Sound(r) /\ r.state = "STATE_MIST_OFF_TIME" ELSE r = p
          /\ Aligned(d) => Aligned(r)
      BY <1>1, <1>3, <2>1, Resting
    <2> QED
      BY <1>1, <1>3, <1>4, <1>5, <1>8, <2>2, RestStates, TimersOfStates DEF Off
  <1>9. CASE t = "DeviceStop"
    <2>1. r = executeStateMachine("EVENT_START_MIST_CYCLE", c, p)
      BY <1>2, <1>9 DEF Expired
    <2>2. /\ IF p.state = "STATE_MIST_OFF_TIME" THEN Sound(r) /\ r.state = "STATE_BLDC_INIT" ELSE r = p
          /\ Aligned(d) => Aligned(r)
      BY <1>1, <1>3, <2>1, Restarting
    <2> QED
      BY <1>1, <1>3, <1>4, <1>5, <1>9, <2>2, RestStates, TimersOfStates DEF Off
  <1>10. CASE t = "MistStopDelay"
    <2> DEFINE q == executeStateMachine("EVENT_MIST_END_DELAY", c, p)
    <2>1. r = IF on THEN executeStateMachine("EVENT_INIT_BLDC", c, q) ELSE q
      BY <1>2, <1>10 DEF Expired, Then
    <2>2. /\ IF p.state = "STATE_MIST_END" THEN Sound(q) /\ q.state = "STATE_MISTING_END" ELSE q = p
          /\ Aligned(d) => Aligned(q)
      BY <1>1, <1>3, Ending
    <2> HIDE DEF q
    <2>3. Sound(q) /\ (q.state \notin Off => d.state \notin Off)
      BY <1>1, <1>3, <1>4, <1>5, <1>10, <2>2, RestStates, TimersOfStates DEF Off
    <2> QED
      BY <2>1, <2>2, <2>3, InitBldc
  <1> QED
    BY <1>6, <1>7, <1>8, <1>9, <1>10 DEF Timer

-----------------------------------------------------------------------------
Types ==
  /\ cfg \in Config /\ dS \in {"absent", "0", "1"}
  /\ gManualModeOnFlag \in BOOLEAN
  /\ alerts \subseteq {"HIGH_DEV_TEMP", "HIGH_DEV_HUM"} /\ alertEvt \in BOOLEAN /\ led \in BOOLEAN
  /\ boots \in 0 .. MaxBoots /\ alarm \in BOOLEAN

(* The machine is sound, an alarm goes with a device state other than on, and a
   device that is on, or at work, has a configuration. *)
Inv ==
  /\ Types
  /\ Sound(dev)
  /\ alarm => dev.state \in Off /\ dS # "1"
  /\ dS = "1" \/ dev.state \notin Off => cfg.present

LEMMA NoConfigType == NoConfig \in Config /\ ~NoConfig.present
  <1>1. PICK w \in Wait : TRUE
    OBVIOUS
  <1> DEFINE c == [present |-> FALSE, smSpdOk |-> FALSE, blBfnT |-> w, tOn |-> w, blAffT |-> w, tOff |-> w]
  <1>2. c \in Config /\ ~c.present
    BY DEF Config
  <1> QED
    BY <1>2 DEF NoConfig

LEMMA InitialMachine ==
  /\ Sound(initJumpStateMachine) /\ initJumpStateMachine.state = "STATE_MISTING_END"
  /\ Aligned(initJumpStateMachine)
  <1>1. Sound(initJumpStateMachine) /\ initJumpStateMachine.state = "STATE_MISTING_END"
    BY RestStates DEF Sound, initJumpStateMachine, Machine, States
  <1>2. ~initJumpStateMachine.bldc /\ ~initJumpStateMachine.sm
    BY DEF initJumpStateMachine
  <1> QED
    BY <1>1, <1>2 DEF Aligned

LEMMA BootedIsSound ==
  ASSUME NEW c \in Config, NEW s
  PROVE  /\ Sound(Booted(c, s))
         /\ Booted(c, s).state \notin Off => c.present /\ s = "1"
         /\ Aligned(Booted(c, s))
  <1>1. CASE ~c.present
    BY <1>1, InitialMachine DEF Booted, Off
  <1>2. CASE c.present /\ s = "1"
    BY <1>2, InitialMachine, InitBldc DEF Booted
  <1>3. CASE c.present /\ s # "1"
    BY <1>3, InitialMachine, EndMist DEF Booted, Off, Sound
  <1> QED
    BY <1>1, <1>2, <1>3

(* A handler that stops the device, or stops it and starts it again. *)
LEMMA StopRestart ==
  ASSUME NEW d, Sound(d), NEW c \in Config
  PROVE  /\ Sound(executeStateMachine("EVENT_END_MIST", c, d))
         /\ executeStateMachine("EVENT_END_MIST", c, d).state \in Off
         /\ Sound(executeStateMachine("EVENT_INIT_BLDC", c, d))
         /\ Sound(Then("EVENT_END_MIST", "EVENT_INIT_BLDC", c, d))
         /\ Aligned(d) => /\ Aligned(executeStateMachine("EVENT_END_MIST", c, d))
                          /\ Aligned(executeStateMachine("EVENT_INIT_BLDC", c, d))
                          /\ Aligned(Then("EVENT_END_MIST", "EVENT_INIT_BLDC", c, d))
  <1> DEFINE e == executeStateMachine("EVENT_END_MIST", c, d)
  <1>1. Sound(e) /\ e.state \in Off /\ (Aligned(d) => Aligned(e))
    BY EndMist DEF Off, Sound
  <1>2. /\ Sound(executeStateMachine("EVENT_INIT_BLDC", c, d))
        /\ Aligned(d) => Aligned(executeStateMachine("EVENT_INIT_BLDC", c, d))
    BY InitBldc
  <1>3. /\ Sound(executeStateMachine("EVENT_INIT_BLDC", c, e))
        /\ Aligned(e) => Aligned(executeStateMachine("EVENT_INIT_BLDC", c, e))
    <2> HIDE DEF e
    <2> QED
      BY <1>1, InitBldc
  <1> QED
    BY <1>1, <1>2, <1>3 DEF Then

LEMMA InitInv == Init => Inv
  <1> SUFFICES ASSUME Init PROVE Inv
    OBVIOUS
  <1>1. cfg \in Config
    BY NoConfigType DEF Init
  <1>2. Types
    <2>1. dS \in {"absent", "0", "1"}
      BY DEF Init
    <2>2. gManualModeOnFlag \in BOOLEAN /\ alertEvt \in BOOLEAN /\ led \in BOOLEAN /\ alarm \in BOOLEAN
      BY DEF Init
    <2>3. boots \in 0 .. MaxBoots
      BY DeviceAssumption DEF Init
    <2>4. alerts \subseteq {"HIGH_DEV_TEMP", "HIGH_DEV_HUM"}
      BY DEF Init
    <2> QED
      BY <1>1, <2>1, <2>2, <2>3, <2>4 DEF Types
  <1>3. Sound(dev) /\ (dev.state \notin Off => cfg.present)
    <2> DEFINE b == Booted(cfg, dS)
    <2>1. Sound(b) /\ (b.state \notin Off => cfg.present)
      BY <1>1, BootedIsSound
    <2> HIDE DEF b
    <2>2. dev = b
      BY DEF Init, b
    <2> QED
      BY <2>1, <2>2
  <1>4. dS = "1" => cfg.present
    BY DEF Init
  <1>5. ~alarm
    BY DEF Init
  <1> QED
    BY <1>2, <1>3, <1>4, <1>5 DEF Inv

LEMMA TickedIsSound ==
  ASSUME NEW d, Sound(d)
  PROVE  /\ Sound(Ticked(d)) /\ Ticked(d).state = d.state
         /\ Aligned(d) => Aligned(Ticked(d))
  <1> DEFINE L == [t \in Timer |-> IF d.left[t] > 0 THEN d.left[t] - 1 ELSE d.left[t]]
  <1>1. L \in [Timer -> Int] /\ \A t \in Timer : d.left[t] >= 0 => L[t] >= 0
    BY MachineFields DEF Sound
  <1>2. Ticked(d) = [d EXCEPT !.left = L]
    BY DEF Ticked
  <1>3. d.state # "STATE_MISTING_END" => TimerOf[d.state] \in Timer
    BY RestStates, TimersOfStates DEF Timer, Sound
  <1> HIDE DEF L
  <1> QED
    BY <1>1, <1>2, <1>3 DEF Sound, Machine, Aligned

LEMMA ClockInv ==
  ASSUME Inv, Tick \/ \E t \in Timer : TimerExpiry(t)
  PROVE  Inv'
  <1>1. CASE Tick
    BY <1>1, TickedIsSound DEF Tick, Inv, Types, monitor
  <1>2. ASSUME NEW t \in Timer, TimerExpiry(t)
        PROVE  Inv'
    <2> DEFINE on == dS = "1" /\ ~gManualModeOnFlag
    <2>1. dev' = Fired(t, on, cfg, dev)
      BY <1>2 DEF TimerExpiry
    <2>2. on \in BOOLEAN /\ (on => dS = "1")
      OBVIOUS
    <2> HIDE DEF on
    <2>3. Sound(dev') /\ (dev'.state \notin Off => dev.state \notin Off \/ dS = "1")
      BY <2>1, <2>2, FiredIsSound DEF Inv, Types
    <2> QED
      BY <1>2, <2>3 DEF TimerExpiry, Inv, Types, monitor
  <1> QED
    BY <1>1, <1>2

LEMMA AlertInv ==
  ASSUME Inv, Monitor \/ evtHandleAlert
  PROVE  Inv'
  <1>1. ASSUME NEW temp, NEW hum, getDeviceMonitorData(temp, hum)
        PROVE  Inv'
    <2>1. alerts' \subseteq {"HIGH_DEV_TEMP", "HIGH_DEV_HUM"} /\ alertEvt' \in BOOLEAN /\ led' \in BOOLEAN
      BY <1>1 DEF getDeviceMonitorData, Measured
    <2> QED
      BY <1>1, <2>1 DEF getDeviceMonitorData, Inv, Types
  <1>2. CASE evtHandleAlert
    <2>1. Sound(dev') /\ dev'.state \in Off
      BY <1>2, StopRestart DEF evtHandleAlert, Run, Inv, Types
    <2>2. Types'
      BY <1>2 DEF evtHandleAlert, Inv, Types
    <2> QED
      BY <1>2, <2>1, <2>2 DEF evtHandleAlert, Inv
  <1> QED
    BY <1>1, <1>2 DEF Monitor

LEMMA CommandInv ==
  ASSUME Inv, DeviceOff \/ DeviceOn \/ handleConfigUpdateJson \/ checkHVmoduleTcp
  PROVE  Inv'
  <1> USE DEF Commands, monitor, Run
  <1>1. CASE DeviceOff
    <2>1. Sound(dev') /\ dev'.state \in Off
      BY <1>1, StopRestart DEF DeviceOff, Inv, Types
    <2> QED
      BY <1>1, <2>1 DEF DeviceOff, Inv, Types
  <1>2. CASE DeviceOn
    <2>1. Sound(dev') /\ cfg.present
      BY <1>2, StopRestart DEF DeviceOn, Startable, Inv, Types
    <2> QED
      BY <1>2, <2>1 DEF DeviceOn, Inv, Types
  <1>3. ASSUME NEW name, NEW manual \in BOOLEAN, NEW c \in Stored, Confirm(name, manual, c)
        PROVE  Inv'
    <2>1. c \in Config /\ c.present
      OBVIOUS
    <2>2. Sound(dev') /\ (dS # "1" => dev'.state \in Off)
      BY <1>3, <2>1, StopRestart DEF Confirm, Inv
    <2>3. Types'
      BY <1>3, <2>1 DEF Confirm, Inv, Types
    <2> QED
      BY <1>3, <2>1, <2>2, <2>3 DEF Confirm, Inv
  <1>4. ASSUME NEW c \in Stored, ManualTry(c)
        PROVE  Inv'
    <2> DEFINE d == executeStateMachine("EVENT_END_MIST", cfg, dev)
    <2>1. Sound(d) /\ d.state \in Off
      BY StopRestart DEF Inv, Types
    <2>2. dev' = [d EXCEPT !.bldc = TRUE, !.sm = d.sm \/ c.smSpdOk] /\ c.smSpdOk \in BOOLEAN
      BY <1>4 DEF ManualTry, Config
    <2> HIDE DEF d
    <2>3. Sound(dev') /\ dev'.state \in Off
      BY <2>1, <2>2, MachineFields DEF Sound, Machine, Off
    <2> QED
      BY <1>4, <2>3 DEF ManualTry, Inv, Types
  <1>5. CASE CancelManual
    <2>1. CASE dS = "absent"
      BY <1>5, <2>1 DEF CancelManual, Inv, Types
    <2>2. CASE dS = "0"
      <3> DEFINE d == [dev EXCEPT !.bldc = FALSE, !.sm = FALSE]
      <3>1. d \in Machine /\ d.state = dev.state /\ (d.state = "STATE_MISTING_END" => Sound(d))
        BY DEF Inv, Sound, Machine
      <3>2. dev' = executeStateMachine("EVENT_END_MIST", cfg, d)
        BY <1>5, <2>2 DEF CancelManual
      <3> HIDE DEF d
      <3>3. Sound(dev') /\ dev'.state \in Off
        BY <3>1, <3>2, EndMist DEF Inv, Types, Off
      <3> QED
        BY <1>5, <2>2, <3>3 DEF CancelManual, Inv, Types
    <2>3. CASE dS = "1"
      <3>1. Sound(dev')
        BY <1>5, <2>3, StopRestart DEF CancelManual, Inv, Types
      <3> QED
        BY <1>5, <2>3, <3>1 DEF CancelManual, Inv, Types
    <2> QED
      BY <2>1, <2>2, <2>3 DEF Inv, Types
  <1>6. CASE checkHVmoduleTcp
    <2>1. Sound(dev')
      BY <1>6, StopRestart DEF checkHVmoduleTcp, Inv, Types
    <2> QED
      BY <1>6, <2>1 DEF checkHVmoduleTcp, Inv, Types
  <1> QED
    BY <1>1, <1>2, <1>3, <1>4, <1>5, <1>6 DEF handleConfigUpdateJson

LEMMA RebootInv ==
  ASSUME Inv, Reboot
  PROVE  Inv'
  <1>1. Sound(dev') /\ (dev'.state \notin Off => cfg.present /\ dS = "1")
    <2> DEFINE b == Booted(cfg, dS)
    <2>1. Sound(b) /\ (b.state \notin Off => cfg.present /\ dS = "1")
      BY BootedIsSound DEF Inv, Types
    <2> HIDE DEF b
    <2>2. dev' = b
      BY DEF Reboot, b
    <2> QED
      BY <2>1, <2>2
  <1>2. Types'
    <2>1. cfg' \in Config /\ dS' \in {"absent", "0", "1"} /\ alarm' \in BOOLEAN
      BY DEF Reboot, Inv, Types
    <2>2. gManualModeOnFlag' \in BOOLEAN /\ alertEvt' \in BOOLEAN /\ led' \in BOOLEAN
      BY DEF Reboot
    <2>3. boots' \in 0 .. MaxBoots
      BY DeviceAssumption DEF Reboot, Inv, Types
    <2>4. alerts' \subseteq {"HIGH_DEV_TEMP", "HIGH_DEV_HUM"}
      BY DEF Reboot
    <2> QED
      BY <2>1, <2>2, <2>3, <2>4 DEF Types
  <1>3. alarm' = alarm /\ cfg' = cfg /\ dS' = dS
    BY DEF Reboot
  <1>4. (alarm => dS # "1") /\ (dS = "1" => cfg.present)
    BY DEF Inv
  <1> QED
    BY <1>1, <1>2, <1>3, <1>4 DEF Inv

LEMMA InvStep == Inv /\ [Next]_vars => Inv'
  <1> SUFFICES ASSUME Inv, [Next]_vars PROVE Inv'
    OBVIOUS
  <1>1. CASE UNCHANGED vars
    BY <1>1 DEF vars, Inv, Types, Sound
  <1> QED
    BY <1>1, ClockInv, AlertInv, CommandInv, RebootInv DEF Next

LEMMA Inductive == Spec => []Inv
  BY InitInv, InvStep, PTL DEF Spec

(* The types of the device, its EEPROM and its histories. *)
THEOREM MistTypes == Spec => []TypeOK
  <1>1. Inv => TypeOK
    BY DEF Inv, Types, Sound, TypeOK
  <1> QED
    BY <1>1, Inductive, PTL

(* Whatever configurations and commands the app sends and however stale timers fire,
   the high voltage is on only while misting, with the fan running. *)
THEOREM HighVoltageIsSafe == Spec => []HvOnlyWhileMisting
  <1>1. Inv => HvOnlyWhileMisting
    BY DEF Inv, Sound, HvOnlyWhileMisting
  <1> QED
    BY <1>1, Inductive, PTL

(* The machine never rests in a state without a pending timer that leads out of it. *)
THEOREM AlwaysAWayOut == Spec => []NeverStuck
  <1>1. Inv => NeverStuck
    BY DEF Inv, Sound, NeverStuck, AtRest
  <1> QED
    BY <1>1, Inductive, PTL

(* After an alert the device starts no cycle until the app switches it on; and it is
   on, or at work, only with a configuration. *)
THEOREM AlertsHold == Spec => []AlertHolds /\ []OnNeedsConfig
  <1>1. Inv => AlertHolds /\ OnNeedsConfig
    BY DEF Inv, AlertHolds, OnNeedsConfig, Off
  <1> QED
    BY <1>1, Inductive, PTL
-----------------------------------------------------------------------------
(* The behaviours in which the app never switches the manual mode on.  The one
   command that runs a motor without the machine is then out of reach, and every
   operation of the machine keeps the motors those of its state. *)
AutoInv == mode = "auto" => ~gManualModeOnFlag /\ Aligned(dev)

LEMMA AutoInit == MCInit => AutoInv
  <1> SUFFICES ASSUME MCInit PROVE Aligned(dev) /\ ~gManualModeOnFlag
    BY DEF AutoInv
  <1> DEFINE b == Booted(cfg, dS)
  <1>1. cfg \in Config
    BY NoConfigType DEF MCInit, Init
  <1>2. Aligned(b)
    BY <1>1, BootedIsSound
  <1>3. dev = b /\ ~gManualModeOnFlag
    BY DEF MCInit, Init
  <1> QED
    BY <1>2, <1>3

LEMMA AutoStep ==
  ASSUME Inv, Aligned(dev), ~gManualModeOnFlag, Next, ~gManualModeOnFlag'
  PROVE  Aligned(dev')
  <1>1. CASE Tick
    BY <1>1, TickedIsSound DEF Tick, Inv
  <1>2. ASSUME NEW t \in Timer, TimerExpiry(t)
        PROVE  Aligned(dev')
    <2> DEFINE on == dS = "1" /\ ~gManualModeOnFlag
    <2>1. dev' = Fired(t, on, cfg, dev)
      BY <1>2 DEF TimerExpiry
    <2>2. on \in BOOLEAN
      OBVIOUS
    <2> HIDE DEF on
    <2> QED
      BY <2>1, <2>2, FiredIsSound DEF Inv, Types
  <1>3. CASE Monitor
    BY <1>3 DEF Monitor, getDeviceMonitorData
  <1>4. CASE evtHandleAlert \/ DeviceOff
    BY <1>4, StopRestart DEF evtHandleAlert, DeviceOff, Run, Inv, Types
  <1>5. CASE DeviceOn
    BY <1>5, StopRestart DEF DeviceOn, Run, Inv, Types
  <1>6. ASSUME NEW name, NEW manual, NEW c \in Stored, Confirm(name, manual, c)
        PROVE  Aligned(dev')
    <2>1. c \in Config
      OBVIOUS
    <2> QED
      BY <1>6, <2>1, StopRestart DEF Confirm, Inv
  <1>7. ASSUME NEW c \in Stored, ManualTry(c)
        PROVE  FALSE
    BY <1>7 DEF ManualTry
  <1>8. CASE CancelManual
    <2>1. CASE dS = "absent"
      BY <1>8, <2>1 DEF CancelManual
    <2>2. CASE dS = "0"
      <3> DEFINE d == [dev EXCEPT !.bldc = FALSE, !.sm = FALSE]
      <3>1. /\ d \in Machine /\ d.state = dev.state /\ (d.state = "STATE_MISTING_END" => Sound(d))
            /\ d.state = "STATE_MISTING_END" => Aligned(d)
        BY DEF Inv, Sound, Machine, Aligned
      <3>2. dev' = executeStateMachine("EVENT_END_MIST", cfg, d)
        BY <1>8, <2>2 DEF CancelManual
      <3> HIDE DEF d
      <3> QED
        BY <3>1, <3>2, EndMist DEF Inv, Types
    <2>3. CASE dS = "1"
      BY <1>8, <2>3, StopRestart DEF CancelManual, Inv, Types
    <2> QED
      BY <2>1, <2>2, <2>3 DEF Inv, Types
  <1>9. CASE checkHVmoduleTcp
    BY <1>9, StopRestart DEF checkHVmoduleTcp, Inv, Types
  <1>10. CASE Reboot
    BY <1>10, BootedIsSound DEF Reboot, Inv, Types
  <1> QED
    BY <1>1, <1>2, <1>3, <1>4, <1>5, <1>6, <1>7, <1>8, <1>9, <1>10
       DEF Next, handleConfigUpdateJson

LEMMA AutoInductive == MCSpec => [](Inv /\ AutoInv)
  <1>1. MCInit => Inv /\ AutoInv
    BY InitInv, AutoInit DEF MCInit
  <1>2. Inv /\ AutoInv /\ [MCNext]_<<vars, mode>> => Inv' /\ AutoInv'
    <2> SUFFICES ASSUME Inv, AutoInv, [MCNext]_<<vars, mode>> PROVE Inv' /\ AutoInv'
      OBVIOUS
    <2>1. Inv'
      BY InvStep DEF MCNext
    <2>2. AutoInv'
      BY AutoStep DEF MCNext, AutoInv, vars
    <2> QED
      BY <2>1, <2>2
  <1> QED
    BY <1>1, <1>2, PTL DEF MCSpec

(* Without the manual mode the fan runs exactly in the states that run it and the
   stepper motor only while misting, whatever timers fire late and whatever the app
   and the alerts interrupt (jumpStateMachine.ino). *)
THEOREM MotorsFollowMachine == MCSpec => []AutoMotorsFollowState
  <1>1. Inv /\ AutoInv => AutoMotorsFollowState
    <2> SUFFICES ASSUME Inv, Aligned(dev) PROVE MotorsFollowState
      BY DEF AutoInv, AutoMotorsFollowState
    <2> DEFINE fan == dev.state \in {"STATE_BLDC_INIT", "STATE_HV_INIT", "STATE_SM_END"}
    <2>1. dev.bldc = TRUE \/ dev.bldc = FALSE
      BY MachineFields DEF Inv, Sound
    <2>2. (dev.bldc <=> fan) /\ (fan <=> dev.state \in {"STATE_BLDC_INIT", "STATE_HV_INIT", "STATE_SM_END"})
      BY DEF Aligned
    <2>3. dev.sm => dev.state = "STATE_HV_INIT"
      BY DEF Aligned
    <2>4. fan = TRUE \/ fan = FALSE
      OBVIOUS
    <2> HIDE DEF fan
    <2>5. dev.bldc = fan
      BY <2>1, <2>2, <2>4
    <2> USE DEF fan
    <2> QED
      BY <2>3, <2>5 DEF MotorsFollowState
  <1> QED
    BY <1>1, AutoInductive, PTL

(* Without the manual mode the handler of the alert event leaves the fan, the motor
   and the high voltage off (esp32MistingController.ino:598). *)
THEOREM AlertsStopDevice == MCSpec => AutoAlertStopsDevice
  <1> DEFINE Stops == mode = "auto" /\ alertEvt /\ ~alertEvt' /\ led'
                        => ~dev'.bldc /\ ~dev'.sm /\ ~dev'.hv
  <1>1. Inv /\ AutoInv /\ [MCNext]_<<vars, mode>> => [Stops]_vars
    <2> SUFFICES ASSUME Inv, AutoInv, [MCNext]_<<vars, mode>>,
                        mode = "auto", alertEvt, ~alertEvt', led'
                 PROVE  ~dev'.bldc /\ ~dev'.sm /\ ~dev'.hv
      OBVIOUS
    <2>1. evtHandleAlert
      BY DEF MCNext, vars, Next, Tick, TimerExpiry, Monitor, getDeviceMonitorData, DeviceOff,
             DeviceOn, handleConfigUpdateJson, Confirm, ManualTry, CancelManual,
             checkHVmoduleTcp, Reboot, Commands, monitor
    <2>2. Sound(dev') /\ dev'.state \in Off /\ Aligned(dev')
      BY <2>1, StopRestart DEF evtHandleAlert, Run, Inv, Types, AutoInv
    <2> QED
      BY <2>2 DEF Sound, Off, Aligned
  <1> QED
    BY <1>1, AutoInductive, PTL DEF MCSpec, AutoAlertStopsDevice
=============================================================================
