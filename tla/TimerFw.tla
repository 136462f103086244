-------------------------------- MODULE TimerFw --------------------------------
(***************************************************************************)
(* The timer framework of system-utilities-c/C_Libraries/timerFw.c on one  *)
(* processor: the platform tick (SIGALRM, platformTimer.c) interrupts the  *)
(* main context between two of its stores and runs pfTmrCb to its end; the *)
(* main context calls the API, directly or from a timer callback, and runs *)
(* timerFwProcess.  A store the tick can tell from its neighbours is a     *)
(* step of its own.                                                        *)
(***************************************************************************)
EXTENDS Integers, FiniteSets

CONSTANTS
  MaxTimers,    (* timerFwInit's maxTimers                                   *)
  TickMs,       (* timerFwInit's minTimerMs                                  *)
  Interval,     (* the intervals in ms callers pass                          *)
  Kind,         (* the [type, repeat] combinations callers pass              *)
  IrqPoints,    (* program points of the main context where a tick may fall  *)
  SelfDestroy,  (* a callback may call timerDestroy on its own timer         *)
  MaxExpiry,    (* abstraction: expiryCount is counted up to this value      *)
  Burst         (* bound: API calls in one callback, or between two calls of
                   timerFwProcess                                            *)

Type == {"TIMER_REALTIME", "TIMER_HIGH_PRIO", "TIMER_LOW_PRIO"}
MainPoint == {"idle", "start2", "start3", "stop2", "stop3", "pause2", "scan", "callback"}

ASSUME SizesAssumption ==
  /\ MaxTimers \in Nat \ {0} /\ TickMs \in Nat \ {0}
  /\ MaxExpiry \in Nat \ {0} /\ Burst \in Nat
ASSUME InputsAssumption ==
  /\ Interval \subseteq Nat
  /\ Kind \subseteq [type : Type, repeat : BOOLEAN] /\ Kind # {}
  /\ IrqPoints \subseteq MainPoint
  /\ SelfDestroy \in BOOLEAN

VARIABLES
  ready,        (* gTimerFwInit                                              *)
  used,         (* the slots whose gTimerCb is not NULL                      *)
  gTimerCount,
  kind,         (* type and repeat of each timer                             *)
  ticks,        (* internal expiries per interval                            *)
  remaining,    (* ticksRemaining                                            *)
  expiryCount,
  state,        (* TimerState_e                                              *)
  pc,           (* what the main context does next                           *)
  ret,          (* where its API call returns to                             *)
  tgt,          (* the timer that API call works on                          *)
  pass,         (* the type processNonRtTimers looks for                     *)
  cur,          (* its loop index                                            *)
  burst,        (* API calls since the callback or the loop began            *)
  called,       (* history: timers whose callback the last step invoked      *)
  stopped,      (* history: timers never started, or stopped since           *)
  goal,         (* history: ticks the timer was last started with            *)
  elapsed,      (* history: ticks it has seen running since that start       *)
  nullDeref     (* history: a timer block was used after its timerDestroy    *)

blocks  == <<ready, used, gTimerCount, kind, ticks>>
context == <<ret, tgt, pass, cur>>
promise == <<stopped, goal, elapsed>>
vars == <<blocks, remaining, expiryCount, state, pc, context, burst, called, promise, nullDeref>>

Slot == 0 .. MaxTimers - 1
TimerId == -1 .. MaxTimers
LeastKind == CHOOSE k \in Kind : TRUE

Init ==
  /\ ready = FALSE
  /\ used = {}
  /\ gTimerCount = 0
  /\ kind = [i \in Slot |-> LeastKind]
  /\ ticks = [i \in Slot |-> 0]
  /\ remaining = [i \in Slot |-> 0]
  /\ expiryCount = [i \in Slot |-> 0]
  /\ state = [i \in Slot |-> "NONE"]
  /\ pc = "idle"
  /\ ret = "idle"
  /\ tgt = 0
  /\ pass = "TIMER_HIGH_PRIO"
  /\ cur = 0
  /\ burst = 0
  /\ called = {}
  /\ stopped = Slot
  /\ goal = [i \in Slot |-> 0]
  /\ elapsed = [i \in Slot |-> 0]
  /\ nullDeref = FALSE

-----------------------------------------------------------------------------
(* pfTmrCb.  A realtime timer's callback runs here and touches no timer. *)

Running  == {i \in used : state[i] = "TIMER_RUNNING"}
Counting == {i \in Running : remaining[i] > 0}
Expiring == {i \in Counting : remaining[i] - 1 = 0}
Realtime == {i \in used : kind[i].type = "TIMER_REALTIME"}

CountUp(n) == IF n < MaxExpiry THEN n + 1 ELSE MaxExpiry

Tick ==
  /\ ready
  /\ pc \in IrqPoints
  /\ remaining' = [i \in Slot |->
       IF i \in Expiring /\ kind[i].repeat THEN ticks[i]
       ELSE IF i \in Counting THEN remaining[i] - 1
       ELSE remaining[i]]
  /\ expiryCount' = [i \in Slot |->
       IF i \in Expiring \cap Realtime THEN 0
       ELSE IF i \in Expiring THEN CountUp(expiryCount[i])
       ELSE expiryCount[i]]
  /\ state' = [i \in Slot |->
       IF i \in Expiring /\ ~kind[i].repeat THEN "TIMER_EXPIRED" ELSE state[i]]
  /\ called' = Expiring \cap Realtime
  /\ elapsed' = [i \in Slot |->
       IF i \in Running /\ elapsed[i] < goal[i] THEN elapsed[i] + 1 ELSE elapsed[i]]
  /\ UNCHANGED <<blocks, pc, context, burst, stopped, goal, nullDeref>>

-----------------------------------------------------------------------------
(* The API, called from the main loop or from a callback.  The operators below
   give a call's answer; a call that is refused changes nothing, and is not a
   step of the model. *)

Validate(id) ==
  IF id < 0 \/ id > (IF ready THEN MaxTimers ELSE 0) - 1 THEN "E_TMR_OUT_OF_BOUND"
  ELSE IF id \notin used THEN "E_TMR_NOT_EXIST"
  ELSE "E_SUCCESS"

Calling ==
  /\ pc \in {"idle", "callback"}
  /\ burst < Burst
  /\ burst' = burst + 1
  /\ called' = {}

Returns == UNCHANGED <<pc, context>>

(* The call goes on at another store. *)
Continues(at, id) ==
  /\ pc' = at
  /\ ret' = pc
  /\ tgt' = id
  /\ UNCHANGED <<pass, cur>>

Finishes ==
  /\ pc' = ret
  /\ ret' = "idle"
  /\ tgt' = 0
  /\ called' = {}
  /\ UNCHANGED <<pass, cur, burst>>

timerFwInit ==
  /\ ~ready
  /\ Calling
  /\ Returns
  /\ ready' = TRUE
  /\ UNCHANGED <<used, gTimerCount, kind, ticks, remaining, expiryCount, state, promise, nullDeref>>

Creatable(ms) ==
  IF gTimerCount >= (IF ready THEN MaxTimers ELSE 0) THEN "E_TMR_MAX"
  ELSE IF ms < TickMs THEN "E_TMR_TOO_SMALL"
  ELSE "E_SUCCESS"

(* The tick skips a block under construction: its state is not RUNNING. *)
timerCreate(k, ms) ==
  /\ Creatable(ms) = "E_SUCCESS"
  /\ Calling
  /\ \E i \in Slot \ used :
       /\ \A j \in Slot \ used : i <= j
       /\ used' = used \cup {i}
       /\ kind' = [kind EXCEPT ![i] = k]
       /\ ticks' = [ticks EXCEPT ![i] = ms \div TickMs]
       /\ remaining' = [remaining EXCEPT ![i] = 0]
       /\ expiryCount' = [expiryCount EXCEPT ![i] = 0]
       /\ state' = [state EXCEPT ![i] = "TIMER_INIT"]
  /\ gTimerCount' = gTimerCount + 1
  /\ Returns
  /\ UNCHANGED <<ready, promise, nullDeref>>

Startable(id) ==
  IF Validate(id) # "E_SUCCESS" THEN Validate(id)
  ELSE IF state[id] = "TIMER_RUNNING" THEN "E_TMR_RUNNING"
  ELSE IF state[id] = "TIMER_PAUSED" THEN "E_TMR_PAUSED"
  ELSE "E_SUCCESS"

timerStart(id) ==
  /\ Calling
  /\ Startable(id) = "E_SUCCESS"
  /\ remaining' = [remaining EXCEPT ![id] = ticks[id]]
  /\ Continues("start2", id)
  /\ goal' = [goal EXCEPT ![id] = ticks[id]]
  /\ UNCHANGED <<blocks, expiryCount, state, stopped, elapsed, nullDeref>>

StartRun ==
  /\ pc = "start2"
  /\ state' = [state EXCEPT ![tgt] = "TIMER_RUNNING"]
  /\ pc' = "start3"
  /\ called' = {}
  /\ stopped' = stopped \ {tgt}
  /\ elapsed' = [elapsed EXCEPT ![tgt] = 0]
  /\ UNCHANGED <<blocks, remaining, expiryCount, context, burst, goal, nullDeref>>

(* Mutant: an expiry of the last run stays pending. *)
StartRemembers ==
  /\ pc = "start3"
  /\ Finishes
  /\ UNCHANGED <<blocks, remaining, expiryCount, state, promise, nullDeref>>

StartForget ==
  /\ pc = "start3"
  /\ expiryCount' = [expiryCount EXCEPT ![tgt] = 0]
  /\ Finishes
  /\ UNCHANGED <<blocks, remaining, state, promise, nullDeref>>

(* Mutant: the timer count is not decremented. *)
DestroyUncounted(id) ==
  /\ Startable(id) = "E_SUCCESS"
  /\ SelfDestroy \/ ~(pc = "callback" /\ cur = id)
  /\ Calling
  /\ used' = used \ {id}
  /\ state' = [state EXCEPT ![id] = "NONE"]
  /\ expiryCount' = [expiryCount EXCEPT ![id] = 0]
  /\ stopped' = stopped \cup {id}
  /\ Returns
  /\ UNCHANGED <<ready, gTimerCount, kind, ticks, remaining, goal, elapsed, nullDeref>>

(* A destroyed timer is stopped for good: its slot may be given to another.
   The block's fields go with it. *)
timerDestroy(id) ==
  /\ Startable(id) = "E_SUCCESS"
  /\ SelfDestroy \/ ~(pc = "callback" /\ cur = id)
  /\ Calling
  /\ used' = used \ {id}
  /\ gTimerCount' = gTimerCount - 1
  /\ kind' = [kind EXCEPT ![id] = LeastKind]
  /\ ticks' = [ticks EXCEPT ![id] = 0]
  /\ remaining' = [remaining EXCEPT ![id] = 0]
  /\ expiryCount' = [expiryCount EXCEPT ![id] = 0]
  /\ state' = [state EXCEPT ![id] = "NONE"]
  /\ stopped' = stopped \cup {id}
  /\ goal' = [goal EXCEPT ![id] = 0]
  /\ elapsed' = [elapsed EXCEPT ![id] = 0]
  /\ Returns
  /\ UNCHANGED <<ready, nullDeref>>

timerStop(id) ==
  /\ Calling
  /\ Validate(id) = "E_SUCCESS"
  /\ remaining' = [remaining EXCEPT ![id] = 0]
  /\ Continues("stop2", id)
  /\ UNCHANGED <<blocks, expiryCount, state, promise, nullDeref>>

(* Mutant: a pending expiry survives the stop. *)
StopRemembers ==
  /\ pc = "stop2"
  /\ pc' = "stop3"
  /\ called' = {}
  /\ UNCHANGED <<blocks, remaining, expiryCount, state, context, burst, promise, nullDeref>>

StopForget ==
  /\ pc = "stop2"
  /\ expiryCount' = [expiryCount EXCEPT ![tgt] = 0]
  /\ pc' = "stop3"
  /\ called' = {}
  /\ UNCHANGED <<blocks, remaining, state, context, burst, promise, nullDeref>>

StopState ==
  /\ pc = "stop3"
  /\ state' = [state EXCEPT ![tgt] = "TIMER_INIT"]
  /\ stopped' = stopped \cup {tgt}
  /\ Finishes
  /\ UNCHANGED <<blocks, remaining, expiryCount, goal, elapsed, nullDeref>>

Pausable(id) ==
  IF Validate(id) # "E_SUCCESS" THEN Validate(id)
  ELSE IF state[id] # "TIMER_RUNNING" THEN "E_TMR_NOT_RUNNING"
  ELSE "E_SUCCESS"

timerPause(id) ==
  /\ Calling
  /\ Pausable(id) = "E_SUCCESS"
  /\ Continues("pause2", id)
  /\ UNCHANGED <<blocks, remaining, expiryCount, state, promise, nullDeref>>

PauseState ==
  /\ pc = "pause2"
  /\ state' = [state EXCEPT ![tgt] = "TIMER_PAUSED"]
  /\ Finishes
  /\ UNCHANGED <<blocks, remaining, expiryCount, promise, nullDeref>>

Resumable(id) ==
  IF Validate(id) # "E_SUCCESS" THEN Validate(id)
  ELSE IF state[id] # "TIMER_PAUSED" THEN "E_TMR_NOT_PAUSED"
  ELSE "E_SUCCESS"

timerResume(id) ==
  /\ Resumable(id) = "E_SUCCESS"
  /\ Calling
  /\ state' = [state EXCEPT ![id] = "TIMER_RUNNING"]
  /\ Returns
  /\ UNCHANGED <<blocks, remaining, expiryCount, promise, nullDeref>>

Updatable(id, ms) ==
  IF Validate(id) # "E_SUCCESS" THEN Validate(id)
  ELSE IF ms < TickMs THEN "E_TMR_TOO_SMALL"
  ELSE "E_SUCCESS"

timerUpdateInterval(id, ms) ==
  /\ Updatable(id, ms) = "E_SUCCESS"
  /\ Calling
  /\ ticks' = [ticks EXCEPT ![id] = ms \div TickMs]
  /\ Returns
  /\ UNCHANGED <<ready, used, gTimerCount, kind, remaining, expiryCount, state, promise, nullDeref>>

-----------------------------------------------------------------------------
(* timerFwProcess: processNonRtTimers for the high, then for the low priority. *)

ProcessCall ==
  /\ pc = "idle"
  /\ pc' = "scan"
  /\ pass' = "TIMER_HIGH_PRIO"
  /\ cur' = 0
  /\ called' = {}
  /\ UNCHANGED <<blocks, remaining, expiryCount, state, ret, tgt, burst, promise, nullDeref>>

Pending(i) == i \in used /\ expiryCount[i] > 0 /\ kind[i].type = pass

(* Mutant: the loop ends before the last slot. *)
NextSlotButLast ==
  IF cur + 2 < MaxTimers THEN cur' = cur + 1 /\ pc' = "scan" /\ UNCHANGED <<pass, burst>>
  ELSE /\ cur' = 0
       /\ \/ pass = "TIMER_HIGH_PRIO" /\ pass' = "TIMER_LOW_PRIO" /\ pc' = "scan" /\ UNCHANGED burst
          \/ pass = "TIMER_LOW_PRIO" /\ pass' = "TIMER_HIGH_PRIO" /\ pc' = "idle" /\ burst' = 0

NextSlot ==
  \/ cur + 1 < MaxTimers /\ cur' = cur + 1 /\ pc' = "scan" /\ UNCHANGED <<pass, burst>>
  \/ /\ cur + 1 = MaxTimers
     /\ cur' = 0
     /\ \/ pass = "TIMER_HIGH_PRIO" /\ pass' = "TIMER_LOW_PRIO" /\ pc' = "scan" /\ UNCHANGED burst
        \/ pass = "TIMER_LOW_PRIO" /\ pass' = "TIMER_HIGH_PRIO" /\ pc' = "idle" /\ burst' = 0

ScanSkip ==
  /\ pc = "scan"
  /\ ~Pending(cur)
  /\ NextSlot
  /\ called' = {}
  /\ UNCHANGED <<blocks, remaining, expiryCount, state, ret, tgt, promise, nullDeref>>

ScanInvoke ==
  /\ pc = "scan"
  /\ Pending(cur)
  /\ pc' = "callback"
  /\ called' = {cur}
  /\ burst' = 0
  /\ UNCHANGED <<blocks, remaining, expiryCount, state, context, promise, nullDeref>>

(* The callback returns and its timer is marked as processed, through a pointer
   that is NULL if the callback destroyed the timer. *)
CallbackReturn ==
  /\ pc = "callback"
  /\ expiryCount' = [expiryCount EXCEPT ![cur] = 0]
  /\ nullDeref' = (nullDeref \/ cur \notin used)
  /\ NextSlot
  /\ called' = {}
  /\ UNCHANGED <<blocks, remaining, state, ret, tgt, promise>>

timerFwProcess == ProcessCall \/ ScanSkip \/ ScanInvoke \/ CallbackReturn

-----------------------------------------------------------------------------
Stores == StartRun \/ StartForget \/ StopForget \/ StopState \/ PauseState

Api ==
  \/ timerFwInit
  \/ \E k \in Kind, ms \in Interval : timerCreate(k, ms)
  \/ \E id \in TimerId :
       \/ timerStart(id) \/ timerStop(id) \/ timerDestroy(id)
       \/ timerPause(id) \/ timerResume(id)
       \/ \E ms \in Interval : timerUpdateInterval(id, ms)
  \/ Stores

Next == Tick \/ Api \/ timerFwProcess

(* The platform timer ticks for ever, the main loop calls timerFwProcess for
   ever, every call and every callback comes to its end. *)
Fairness == SF_vars(Tick) /\ WF_vars(Stores) /\ WF_vars(timerFwProcess)

Spec == Init /\ [][Next]_vars /\ Fairness

-----------------------------------------------------------------------------
(* The getters.  TimerType_e counts from 1 and a Bool is a number: timerSingleshot,
   which compares the type and not repeat, is false of every timer. *)
TypeValue == [TIMER_REALTIME |-> 1, TIMER_HIGH_PRIO |-> 2, TIMER_LOW_PRIO |-> 3]
TIMER_SINGLESHOT == 0

Checked(id, value) == IF Validate(id) = "E_SUCCESS" THEN value ELSE Validate(id)

timerInterval(id)    == Checked(id, ticks[id] * TickMs)
timerRemainingMs(id) == Checked(id, IF id \in Running THEN remaining[id] * TickMs
                                    ELSE "E_TMR_NOT_RUNNING")
timerExpiryCount(id) == Checked(id, expiryCount[id])
timerType(id)        == Checked(id, TypeValue[kind[id].type])
timerRunning(id)     == Checked(id, state[id] = "TIMER_RUNNING")
timerSingleshot(id)  == Checked(id, TypeValue[kind[id].type] = TIMER_SINGLESHOT)

-----------------------------------------------------------------------------
States == {"NONE", "TIMER_INIT", "TIMER_RUNNING", "TIMER_PAUSED", "TIMER_EXPIRED"}

(* Types of the control blocks, of the main context and of the histories. *)
TypeOK ==
  /\ ready \in BOOLEAN
  /\ used \subseteq Slot
  /\ gTimerCount \in 0 .. MaxTimers
  /\ kind \in [Slot -> Kind]
  /\ ticks \in [Slot -> Nat]
  /\ remaining \in [Slot -> Nat]
  /\ expiryCount \in [Slot -> 0 .. MaxExpiry]
  /\ state \in [Slot -> States]
  /\ pc \in MainPoint
  /\ ret \in {"idle", "callback"}
  /\ tgt \in Slot
  /\ pass \in {"TIMER_HIGH_PRIO", "TIMER_LOW_PRIO"}
  /\ cur \in Slot
  /\ burst \in 0 .. Burst
  /\ called \subseteq Slot
  /\ stopped \subseteq Slot
  /\ goal \in [Slot -> Nat]
  /\ elapsed \in [Slot -> Nat]
  /\ nullDeref \in BOOLEAN

(* Once timerStop has returned, and until a timerStart runs the timer again, its
   callback is not invoked, wherever a tick falls (timerFw.c:236, "To avoid
   invocation of callback"). *)
NoCallbackAfterStop == called \cap stopped = {}

(* A callback is not invoked before the timer has run for the interval it was
   last started with: an expiry left over from an earlier run never counts for
   the new one. *)
NoEarlyCallback == \A i \in called : elapsed[i] >= goal[i]

(* gTimerCount tells the slots in use, so that timerCreate finds a free slot
   whenever it has passed its test and never falls through to its "return 0",
   which is the id of somebody else's timer. *)
SlotsCounted == gTimerCount = Cardinality(used)

(* A timer block that a loop has found not NULL (timerFw.c:92, "Valid Timer
   block") is still there when the loop uses it. *)
BlockStaysValid == ~nullDeref

(* A running timer comes to its callback unless the caller stops, pauses,
   destroys or restarts it (timerFw.h, "Callback function when timer expires"). *)
ExpiryDelivered ==
  \A i \in Slot :
    i \in Running ~> \/ i \in called
                     \/ i \in stopped
                     \/ state[i] = "TIMER_PAUSED"
                     \/ pc = "start2" /\ tgt = i

=============================================================================
