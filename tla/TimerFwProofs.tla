----------------------------- MODULE TimerFwProofs -----------------------------
(***************************************************************************)
(* For every number of timers, every interval and wherever the tick may    *)
(* interrupt the main context (timerFw.c, one processor): timer callbacks  *)
(* are neither invoked after timerStop nor before their interval is over.  *)
(***************************************************************************)
EXTENDS TimerFw, FiniteSetTheorems, TLAPS

USE DEF blocks, context, promise, vars

TypeInv == TypeOK /\ SlotsCounted

LEMMA KindsExist == LeastKind \in Kind
  BY InputsAssumption DEF LeastKind

LEMMA SlotFinite ==
  ASSUME NEW S \in SUBSET Slot
  PROVE  IsFiniteSet(S)
  <1>1. IsFiniteSet(Slot)
    BY SizesAssumption, FS_Interval DEF Slot
  <1> QED
    BY <1>1, FS_Subset

LEMMA CreatedCount ==
  ASSUME TypeInv, NEW i \in Slot \ used
  PROVE  Cardinality(used \cup {i}) = gTimerCount + 1
  BY SlotFinite, FS_AddElement DEF TypeInv, TypeOK, SlotsCounted

LEMMA DestroyedCount ==
  ASSUME TypeInv, NEW i \in used
  PROVE  /\ Cardinality(used \ {i}) = gTimerCount - 1
         /\ gTimerCount - 1 \in 0 .. MaxTimers
  <1>1. IsFiniteSet(used)
    BY SlotFinite DEF TypeInv, TypeOK
  <1>2. IsFiniteSet(used \ {i}) /\ Cardinality(used \ {i}) = Cardinality(used) - 1
    BY <1>1, FS_RemoveElement
  <1>3. Cardinality(used \ {i}) \in Nat
    BY <1>2, FS_CardinalityType
  <1> QED
    BY <1>2, <1>3, SizesAssumption DEF TypeInv, TypeOK, SlotsCounted

LEMMA TickCountNat ==
  ASSUME NEW ms \in Interval
  PROVE  ms \div TickMs \in Nat
  BY SizesAssumption, InputsAssumption

LEMMA TypeInit == Init => TypeInv
  <1> SUFFICES ASSUME Init PROVE TypeInv
    OBVIOUS
  <1>1. 0 \in Slot
    BY SizesAssumption DEF Slot
  <1>2. ready \in BOOLEAN /\ nullDeref \in BOOLEAN
    BY DEF Init
  <1>3. used \subseteq Slot /\ called \subseteq Slot /\ stopped \subseteq Slot
    BY DEF Init
  <1>4. SlotsCounted
    BY FS_EmptySet DEF Init, SlotsCounted
  <1>5. state \in [Slot -> States]
    BY DEF Init, States
  <1>6. /\ ticks \in [Slot -> Nat] /\ remaining \in [Slot -> Nat]
        /\ expiryCount \in [Slot -> 0 .. MaxExpiry]
        /\ goal \in [Slot -> Nat] /\ elapsed \in [Slot -> Nat]
    BY SizesAssumption DEF Init
  <1>7. kind \in [Slot -> Kind]
    BY KindsExist DEF Init
  <1>8. /\ gTimerCount \in 0 .. MaxTimers /\ tgt \in Slot /\ cur \in Slot /\ burst \in 0 .. Burst
        /\ pc \in MainPoint /\ ret \in {"idle", "callback"}
        /\ pass \in {"TIMER_HIGH_PRIO", "TIMER_LOW_PRIO"}
    BY <1>1, SizesAssumption DEF Init, MainPoint
  <1> QED
    BY <1>2, <1>3, <1>4, <1>5, <1>6, <1>7, <1>8 DEF TypeInv, TypeOK

LEMMA TickType ==
  ASSUME TypeInv, Tick
  PROVE  TypeInv'
  <1> USE DEF TypeInv, TypeOK
  <1>1. Expiring \subseteq Counting /\ Counting \subseteq Slot /\ Running \subseteq Slot
    BY DEF Expiring, Counting, Running
  <1>2. remaining' \in [Slot -> Nat]
    <2>1. \A i \in Counting : remaining[i] - 1 \in Nat
      BY <1>1 DEF Counting
    <2> QED
      BY <2>1, <1>1 DEF Tick
  <1>3. expiryCount' \in [Slot -> 0 .. MaxExpiry]
    BY SizesAssumption DEF Tick, CountUp
  <1>4. state' \in [Slot -> States]
    BY DEF Tick, States
  <1>5. elapsed' \in [Slot -> Nat]
    BY DEF Tick
  <1>6. called' \subseteq Slot
    BY <1>1 DEF Tick
  <1>8. SlotsCounted'
    BY DEF Tick, SlotsCounted
  <1> QED
    BY <1>2, <1>3, <1>4, <1>5, <1>6, <1>8 DEF Tick

LEMMA CallType ==
  ASSUME TypeInv, Calling
  PROVE  /\ pc \in {"idle", "callback"} /\ burst' \in 0 .. Burst /\ called' = {}
         /\ called' \subseteq Slot
  BY SizesAssumption DEF TypeInv, TypeOK, Calling

LEMMA NextSlotType ==
  ASSUME TypeInv, NextSlot
  PROVE  /\ cur' \in Slot /\ pc' \in MainPoint /\ burst' \in 0 .. Burst
         /\ pass' \in {"TIMER_HIGH_PRIO", "TIMER_LOW_PRIO"}
  <1>1. 0 \in Slot
    BY SizesAssumption DEF Slot
  <1>2. cur' \in Slot
    <2>1. cur \in 0 .. MaxTimers - 1
      BY DEF TypeInv, TypeOK, Slot
    <2>2. (cur + 1 < MaxTimers /\ cur' = cur + 1) \/ cur' = 0
      BY DEF NextSlot
    <2> QED
      BY <1>1, <2>1, <2>2, SizesAssumption DEF Slot
  <1>3. pc' \in MainPoint
    BY DEF NextSlot, MainPoint
  <1>4. burst' \in 0 .. Burst
    BY SizesAssumption DEF TypeInv, TypeOK, NextSlot
  <1>5. pass' \in {"TIMER_HIGH_PRIO", "TIMER_LOW_PRIO"}
    BY DEF TypeInv, TypeOK, NextSlot
  <1> QED
    BY <1>2, <1>3, <1>4, <1>5

LEMMA ValidIsUsed ==
  ASSUME TypeInv, NEW id \in TimerId,
         \/ Validate(id) = "E_SUCCESS" \/ Startable(id) = "E_SUCCESS"
         \/ Pausable(id) = "E_SUCCESS" \/ Resumable(id) = "E_SUCCESS"
         \/ \E ms \in Interval : Updatable(id, ms) = "E_SUCCESS"
  PROVE  id \in used /\ id \in Slot
  BY DEF TypeInv, TypeOK, Validate, Startable, Pausable, Resumable, Updatable

LEMMA InitType ==
  ASSUME TypeInv, timerFwInit
  PROVE  TypeInv'
  BY CallType DEF TypeInv, TypeOK, SlotsCounted, timerFwInit, Returns

LEMMA CreateType ==
  ASSUME TypeInv, NEW k \in Kind, NEW ms \in Interval, timerCreate(k, ms)
  PROVE  TypeInv'
  <1> USE DEF TypeInv, TypeOK
  <1>1. PICK i \in Slot \ used :
          /\ used' = used \cup {i}
          /\ kind' = [kind EXCEPT ![i] = k]
          /\ ticks' = [ticks EXCEPT ![i] = ms \div TickMs]
          /\ remaining' = [remaining EXCEPT ![i] = 0]
          /\ expiryCount' = [expiryCount EXCEPT ![i] = 0]
          /\ state' = [state EXCEPT ![i] = "TIMER_INIT"]
    BY DEF timerCreate
  <1>2. gTimerCount + 1 \in 0 .. MaxTimers /\ gTimerCount' = gTimerCount + 1
    BY SizesAssumption DEF timerCreate, Creatable
  <1>3. SlotsCounted'
    BY <1>1, <1>2, CreatedCount DEF SlotsCounted
  <1>4. /\ kind' \in [Slot -> Kind] /\ ticks' \in [Slot -> Nat] /\ remaining' \in [Slot -> Nat]
        /\ expiryCount' \in [Slot -> 0 .. MaxExpiry] /\ state' \in [Slot -> States]
    BY <1>1, TickCountNat, SizesAssumption DEF States
  <1> QED
    BY <1>1, <1>2, <1>3, <1>4, CallType DEF timerCreate, Returns

LEMMA DestroyType ==
  ASSUME TypeInv, NEW id \in TimerId, timerDestroy(id)
  PROVE  TypeInv'
  <1> USE DEF TypeInv, TypeOK
  <1>1. id \in used /\ id \in Slot
    BY ValidIsUsed DEF timerDestroy
  <1>2. gTimerCount' = gTimerCount - 1 /\ gTimerCount' \in 0 .. MaxTimers /\ SlotsCounted'
    BY <1>1, DestroyedCount DEF timerDestroy, SlotsCounted
  <1>3. /\ kind' \in [Slot -> Kind] /\ ticks' \in [Slot -> Nat] /\ remaining' \in [Slot -> Nat]
        /\ expiryCount' \in [Slot -> 0 .. MaxExpiry] /\ state' \in [Slot -> States]
        /\ goal' \in [Slot -> Nat] /\ elapsed' \in [Slot -> Nat]
    BY <1>1, KindsExist, SizesAssumption DEF timerDestroy, States
  <1> QED
    BY <1>1, <1>2, <1>3, CallType DEF timerDestroy, Returns

LEMMA CallsType ==
  ASSUME TypeInv, NEW id \in TimerId,
         \/ timerStart(id) \/ timerStop(id) \/ timerPause(id) \/ timerResume(id)
         \/ \E ms \in Interval : timerUpdateInterval(id, ms)
  PROVE  TypeInv'
  <1> USE DEF TypeInv, TypeOK, Returns, Continues, SlotsCounted, MainPoint, States
  <1>1. CASE timerStart(id)
    BY <1>1, ValidIsUsed, CallType DEF timerStart
  <1>2. CASE timerStop(id)
    BY <1>2, ValidIsUsed, CallType DEF timerStop
  <1>3. CASE timerPause(id)
    BY <1>3, ValidIsUsed, CallType DEF timerPause
  <1>4. CASE timerResume(id)
    BY <1>4, ValidIsUsed, CallType DEF timerResume
  <1>5. ASSUME NEW ms \in Interval, timerUpdateInterval(id, ms)
        PROVE  TypeInv'
    <2>1. id \in Slot
      BY <1>5, ValidIsUsed DEF timerUpdateInterval
    <2>2. ticks' \in [Slot -> Nat]
      BY <1>5, <2>1, TickCountNat DEF timerUpdateInterval
    <2> QED
      BY <1>5, <2>1, <2>2, CallType DEF timerUpdateInterval
  <1> QED
    BY <1>1, <1>2, <1>3, <1>4, <1>5

LEMMA StoresType ==
  ASSUME TypeInv, Stores
  PROVE  TypeInv'
  <1> USE DEF TypeInv, TypeOK, SlotsCounted, MainPoint, States, Finishes
  <1> USE SizesAssumption
  <1>1. 0 \in Slot
    BY DEF Slot
  <1>2. CASE StartRun
    BY <1>2 DEF StartRun
  <1>3. CASE StartForget
    BY <1>1, <1>3 DEF StartForget
  <1>4. CASE StopForget
    BY <1>4 DEF StopForget
  <1>5. CASE StopState
    BY <1>1, <1>5 DEF StopState
  <1>6. CASE PauseState
    BY <1>1, <1>6 DEF PauseState
  <1> QED
    BY <1>2, <1>3, <1>4, <1>5, <1>6 DEF Stores

LEMMA ProcessType ==
  ASSUME TypeInv, timerFwProcess
  PROVE  TypeInv'
  <1> USE DEF TypeInv, TypeOK, SlotsCounted
  <1>1. CASE ProcessCall
    <2>1. 0 \in Slot /\ "scan" \in MainPoint
      BY SizesAssumption DEF Slot, MainPoint
    <2> QED
      BY <1>1, <2>1 DEF ProcessCall
  <1>2. CASE ScanSkip
    BY <1>2, NextSlotType DEF ScanSkip
  <1>3. CASE ScanInvoke
    BY <1>3, SizesAssumption DEF ScanInvoke, MainPoint
  <1>4. CASE CallbackReturn
    <2>1. nullDeref' \in BOOLEAN
      BY <1>4 DEF CallbackReturn
    <2>2. expiryCount' \in [Slot -> 0 .. MaxExpiry]
      BY <1>4, SizesAssumption DEF CallbackReturn
    <2> QED
      BY <1>4, <2>1, <2>2, NextSlotType DEF CallbackReturn
  <1> QED
    BY <1>1, <1>2, <1>3, <1>4 DEF timerFwProcess

LEMMA TypeStep == TypeInv /\ [Next]_vars => TypeInv'
  <1> SUFFICES ASSUME TypeInv, [Next]_vars PROVE TypeInv'
    OBVIOUS
  <1>1. CASE UNCHANGED vars
    BY <1>1 DEF TypeInv, TypeOK, SlotsCounted
  <1> QED
    BY <1>1, TickType, InitType, CreateType, DestroyType, CallsType, StoresType, ProcessType
       DEF Next, Api

(* The type invariant of timerFw.c's control blocks, with gTimerCount the number
   of slots in use, so that timerCreate never returns another timer's id. *)
THEOREM TimerTypes == Spec => [](TypeOK /\ SlotsCounted)
  <1>1. TypeInv => TypeOK /\ SlotsCounted
    BY DEF TypeInv
  <1> QED
    BY <1>1, TypeInit, TypeStep, PTL DEF Spec

-----------------------------------------------------------------------------
(* timerStop clears the remaining ticks before the expiry count: a tick between
   the two stores finds nothing left to count down, so the count it then clears
   cannot be raised again before the state leaves TIMER_RUNNING. *)
StopInv ==
  /\ \A i \in stopped : expiryCount[i] = 0 /\ state[i] \in {"NONE", "TIMER_INIT"}
  /\ pc \in {"stop2", "stop3"} => remaining[tgt] = 0
  /\ pc = "stop3" => expiryCount[tgt] = 0
  /\ pc = "pause2" => tgt \notin stopped
  /\ NoCallbackAfterStop

Starting(i) == pc \in {"start2", "start3"} /\ tgt = i
Stopping(i) == pc \in {"stop2", "stop3"} /\ tgt = i

(* What is left to count down covers what is left of the interval, except in the
   stores of timerStart and timerStop that are about to reset one of the two. *)
EarlyInv ==
  /\ \A i \in Slot : expiryCount[i] > 0 /\ ~Starting(i) => elapsed[i] >= goal[i]
  /\ \A i \in Slot : state[i] \in {"TIMER_RUNNING", "TIMER_PAUSED"} /\ ~Stopping(i)
                       => elapsed[i] + remaining[i] >= goal[i]
  /\ \A i \in Slot : state[i] = "TIMER_EXPIRED" /\ ~(pc = "start2" /\ tgt = i)
                       => elapsed[i] >= goal[i]
  /\ pc = "start2" => /\ remaining[tgt] = goal[tgt]
                      /\ state[tgt] \notin {"TIMER_RUNNING", "TIMER_PAUSED"}
  /\ pc = "pause2" => state[tgt] \in {"TIMER_RUNNING", "TIMER_EXPIRED"}
  /\ NoEarlyCallback

(* The types the two invariants rest on. *)
LEMMA Shapes ==
  ASSUME TypeInv
  PROVE  /\ used \subseteq Slot /\ stopped \subseteq Slot /\ called \subseteq Slot
         /\ tgt \in Slot /\ cur \in Slot /\ ret \in {"idle", "callback"}
         /\ ticks \in [Slot -> Nat] /\ remaining \in [Slot -> Nat]
         /\ expiryCount \in [Slot -> 0 .. MaxExpiry] /\ state \in [Slot -> States]
         /\ goal \in [Slot -> Nat] /\ elapsed \in [Slot -> Nat]
  BY DEF TypeInv, TypeOK

LEMMA TickStop ==
  ASSUME TypeInv, StopInv, Tick
  PROVE  StopInv'
  <1> USE Shapes DEF StopInv
  <1>1. Expiring \subseteq Running /\ Counting \subseteq Running
    BY DEF Expiring, Counting
  <1>2. Running \cap stopped = {}
    BY DEF Running
  <1>3. UNCHANGED <<pc, tgt, stopped>>
    BY DEF Tick
  <1>4. \A i \in stopped' : expiryCount'[i] = 0 /\ state'[i] \in {"NONE", "TIMER_INIT"}
    BY <1>1, <1>2, <1>3 DEF Tick
  <1>5. pc \in {"stop2", "stop3"} => tgt \notin Counting
    BY DEF Counting
  <1>6. pc \in {"stop2", "stop3"} => /\ remaining'[tgt] = remaining[tgt]
                                     /\ expiryCount'[tgt] = expiryCount[tgt]
    BY <1>5 DEF Tick, Expiring
  <1>7. NoCallbackAfterStop'
    BY <1>1, <1>2, <1>3 DEF Tick, NoCallbackAfterStop
  <1> QED
    BY <1>3, <1>4, <1>6, <1>7

LEMMA ApiStop ==
  ASSUME TypeInv, StopInv, Api
  PROVE  StopInv'
  <1> USE Shapes DEF StopInv, NoCallbackAfterStop
  <1>1. CASE timerFwInit
    BY <1>1 DEF timerFwInit, Returns, Calling
  <1>2. ASSUME NEW k \in Kind, NEW ms \in Interval, timerCreate(k, ms)
        PROVE  StopInv'
    BY <1>2 DEF timerCreate, Returns, Calling
  <1>3. ASSUME NEW id \in TimerId, timerStart(id)
        PROVE  StopInv'
    BY <1>3 DEF timerStart, Continues, Calling
  <1>4. ASSUME NEW id \in TimerId, timerStop(id)
        PROVE  StopInv'
    <2>1. id \in Slot
      BY <1>4, ValidIsUsed DEF timerStop
    <2> QED
      BY <1>4, <2>1 DEF timerStop, Continues, Calling
  <1>5. ASSUME NEW id \in TimerId, timerDestroy(id)
        PROVE  StopInv'
    <2>1. id \in Slot
      BY <1>5, ValidIsUsed DEF timerDestroy
    <2> QED
      BY <1>5, <2>1 DEF timerDestroy, Returns, Calling
  <1>6. ASSUME NEW id \in TimerId, timerPause(id)
        PROVE  StopInv'
    <2>1. id \in Slot /\ state[id] = "TIMER_RUNNING"
      BY <1>6, ValidIsUsed DEF timerPause, Pausable, Validate
    <2> QED
      BY <1>6, <2>1 DEF timerPause, Continues, Calling
  <1>7. ASSUME NEW id \in TimerId, timerResume(id)
        PROVE  StopInv'
    <2>1. id \in Slot /\ state[id] = "TIMER_PAUSED"
      BY <1>7, ValidIsUsed DEF timerResume, Resumable, Validate
    <2> QED
      BY <1>7, <2>1 DEF timerResume, Returns, Calling
  <1>8. ASSUME NEW id \in TimerId, NEW ms \in Interval, timerUpdateInterval(id, ms)
        PROVE  StopInv'
    BY <1>8 DEF timerUpdateInterval, Returns, Calling
  <1>9. CASE StartRun
    BY <1>9 DEF StartRun
  <1>10. CASE StartForget
    BY <1>10 DEF StartForget, Finishes
  <1>11. CASE StopForget
    BY <1>11 DEF StopForget
  <1>12. CASE StopState
    BY <1>12 DEF StopState, Finishes
  <1>13. CASE PauseState
    BY <1>13 DEF PauseState, Finishes
  <1> QED
    BY <1>1, <1>2, <1>3, <1>4, <1>5, <1>6, <1>7, <1>8, <1>9, <1>10, <1>11, <1>12, <1>13
       DEF Api, Stores

LEMMA ProcessStop ==
  ASSUME TypeInv, StopInv, timerFwProcess
  PROVE  StopInv'
  <1> USE Shapes DEF StopInv, NoCallbackAfterStop
  <1>1. CASE ProcessCall
    BY <1>1 DEF ProcessCall
  <1>2. CASE ScanSkip
    BY <1>2 DEF ScanSkip, NextSlot
  <1>3. CASE ScanInvoke
    BY <1>3 DEF ScanInvoke, Pending
  <1>4. CASE CallbackReturn
    BY <1>4 DEF CallbackReturn, NextSlot
  <1> QED
    BY <1>1, <1>2, <1>3, <1>4 DEF timerFwProcess

(* Wherever the tick interrupts the main context, a timer that timerStop has
   returned from has its callback invoked only after the next timerStart. *)
THEOREM StopIsFinal == Spec => []NoCallbackAfterStop
  <1>1. Init => StopInv
    BY DEF Init, StopInv, NoCallbackAfterStop
  <1>2. TypeInv /\ StopInv /\ [Next]_vars => StopInv'
    <2> SUFFICES ASSUME TypeInv, StopInv, [Next]_vars PROVE StopInv'
      OBVIOUS
    <2>1. CASE UNCHANGED vars
      BY <2>1 DEF StopInv, NoCallbackAfterStop
    <2> QED
      BY <2>1, TickStop, ApiStop, ProcessStop DEF Next
  <1>3. StopInv => NoCallbackAfterStop
    BY DEF StopInv
  <1> QED
    BY <1>1, <1>2, <1>3, TypeInit, TypeStep, PTL DEF Spec

-----------------------------------------------------------------------------
LEMMA TickEarly ==
  ASSUME TypeInv, StopInv, EarlyInv, Tick
  PROVE  EarlyInv'
  <1> USE Shapes DEF EarlyInv, NoEarlyCallback, Starting, Stopping
  <1>1. Expiring \subseteq Counting /\ Counting \subseteq Running /\ Running \subseteq Slot
    BY DEF Expiring, Counting, Running
  <1>2. UNCHANGED <<pc, tgt, goal>> /\ called' \subseteq Expiring
    BY DEF Tick
  <1>3. \A i \in Running : state[i] = "TIMER_RUNNING"
    BY DEF Running
  <1>4. \A i \in Counting : ~Stopping(i) /\ remaining[i] > 0
    BY DEF Counting, StopInv
  <1>5. \A i \in Slot : elapsed'[i] \in Nat /\ elapsed'[i] >= elapsed[i]
    BY DEF Tick
  <1>6. \A i \in Expiring : elapsed'[i] >= goal[i]
    <2>1. \A i \in Expiring : remaining[i] = 1 /\ elapsed[i] + remaining[i] >= goal[i]
      BY <1>1, <1>3, <1>4 DEF Expiring
    <2> QED
      BY <1>1, <2>1 DEF Tick
  <1>7. \A i \in Slot : expiryCount'[i] > 0 /\ ~Starting(i) => elapsed'[i] >= goal[i]
    <2>1. \A i \in Slot \ Expiring : expiryCount'[i] = expiryCount[i]
      BY DEF Tick
    <2> QED
      BY <1>5, <1>6, <2>1, SizesAssumption
  <1>8. \A i \in Slot : state'[i] \in {"TIMER_RUNNING", "TIMER_PAUSED"} /\ ~Stopping(i)
                           => elapsed'[i] + remaining'[i] >= goal[i]
    <2> TAKE i \in Slot
    <2> HAVE state'[i] \in {"TIMER_RUNNING", "TIMER_PAUSED"} /\ ~Stopping(i)
    <2>1. elapsed'[i] \in Nat /\ remaining'[i] \in Nat /\ goal[i] \in Nat
      BY TickType DEF TypeInv, TypeOK
    <2>2. CASE i \in Expiring
      BY <1>6, <2>1, <2>2
    <2>3. CASE i \notin Expiring
      <3>1. state'[i] = state[i]
        BY <2>3 DEF Tick
      <3>2. elapsed[i] + remaining[i] >= goal[i]
        BY <3>1
      <3>3. CASE i \in Counting
        <4>1. remaining'[i] = remaining[i] - 1
          BY <2>3, <3>3 DEF Tick
        <4>2. elapsed[i] < goal[i] => elapsed'[i] = elapsed[i] + 1
          BY <1>1, <3>3 DEF Tick
        <4> QED
          BY <1>5, <2>1, <3>2, <4>1, <4>2
      <3>4. CASE i \notin Counting
        <4>1. remaining'[i] = remaining[i]
          BY <2>3, <3>4 DEF Tick
        <4> QED
          BY <1>5, <2>1, <3>2, <4>1
      <3> QED
        BY <3>3, <3>4
    <2> QED
      BY <2>2, <2>3
  <1>9. \A i \in Slot : state'[i] = "TIMER_EXPIRED" /\ ~(pc = "start2" /\ tgt = i)
                           => elapsed'[i] >= goal[i]
    <2>1. \A i \in Slot \ Expiring : state'[i] = state[i]
      BY DEF Tick
    <2> QED
      BY <1>5, <1>6, <2>1, SizesAssumption
  <1>10. pc = "start2" => /\ remaining'[tgt] = goal[tgt]
                          /\ state'[tgt] \notin {"TIMER_RUNNING", "TIMER_PAUSED"}
    <2>1. pc = "start2" => tgt \notin Expiring /\ tgt \notin Counting
      BY <1>1, <1>3
    <2> QED
      BY <2>1 DEF Tick
  <1>11. pc = "pause2" => state'[tgt] \in {"TIMER_RUNNING", "TIMER_EXPIRED"}
    BY DEF Tick
  <1>12. NoEarlyCallback'
    BY <1>1, <1>2, <1>6
  <1> QED
    BY <1>2, <1>7, <1>8, <1>9, <1>10, <1>11, <1>12

LEMMA ApiEarly ==
  ASSUME TypeInv, StopInv, EarlyInv, Api
  PROVE  EarlyInv'
  <1> USE Shapes DEF EarlyInv, NoEarlyCallback, Starting, Stopping
  <1>1. CASE timerFwInit
    BY <1>1 DEF timerFwInit, Returns, Calling
  <1>2. ASSUME NEW k \in Kind, NEW ms \in Interval, timerCreate(k, ms)
        PROVE  EarlyInv'
    BY <1>2 DEF timerCreate, Returns, Calling
  <1>3. ASSUME NEW id \in TimerId, timerStart(id)
        PROVE  EarlyInv'
    <2>1. id \in Slot /\ state[id] \notin {"TIMER_RUNNING", "TIMER_PAUSED"}
      BY <1>3, ValidIsUsed DEF timerStart, Startable, Validate
    <2> QED
      BY <1>3, <2>1 DEF timerStart, Continues, Calling
  <1>4. ASSUME NEW id \in TimerId, timerStop(id)
        PROVE  EarlyInv'
    <2>1. id \in Slot
      BY <1>4, ValidIsUsed DEF timerStop
    <2> QED
      BY <1>4, <2>1 DEF timerStop, Continues, Calling
  <1>5. ASSUME NEW id \in TimerId, timerDestroy(id)
        PROVE  EarlyInv'
    <2>1. id \in Slot
      BY <1>5, ValidIsUsed DEF timerDestroy
    <2> QED
      BY <1>5, <2>1 DEF timerDestroy, Returns, Calling
  <1>6. ASSUME NEW id \in TimerId, timerPause(id)
        PROVE  EarlyInv'
    <2>1. id \in Slot /\ state[id] = "TIMER_RUNNING"
      BY <1>6, ValidIsUsed DEF timerPause, Pausable, Validate
    <2> QED
      BY <1>6, <2>1 DEF timerPause, Continues, Calling
  <1>7. ASSUME NEW id \in TimerId, timerResume(id)
        PROVE  EarlyInv'
    <2>1. id \in Slot /\ state[id] = "TIMER_PAUSED"
      BY <1>7, ValidIsUsed DEF timerResume, Resumable, Validate
    <2> QED
      BY <1>7, <2>1 DEF timerResume, Returns, Calling
  <1>8. ASSUME NEW id \in TimerId, NEW ms \in Interval, timerUpdateInterval(id, ms)
        PROVE  EarlyInv'
    BY <1>8 DEF timerUpdateInterval, Returns, Calling
  <1>9. CASE StartRun
    BY <1>9 DEF StartRun
  <1>10. CASE StartForget
    BY <1>10 DEF StartForget, Finishes
  <1>11. CASE StopForget
    BY <1>11 DEF StopForget
  <1>12. CASE StopState
    BY <1>12 DEF StopState, StopInv, Finishes
  <1>13. CASE PauseState
    BY <1>13 DEF PauseState, Finishes
  <1> QED
    BY <1>1, <1>2, <1>3, <1>4, <1>5, <1>6, <1>7, <1>8, <1>9, <1>10, <1>11, <1>12, <1>13
       DEF Api, Stores

LEMMA ProcessEarly ==
  ASSUME TypeInv, EarlyInv, timerFwProcess
  PROVE  EarlyInv'
  <1> USE Shapes DEF EarlyInv, NoEarlyCallback, Starting, Stopping
  <1>1. CASE ProcessCall
    BY <1>1 DEF ProcessCall
  <1>2. CASE ScanSkip
    BY <1>2 DEF ScanSkip, NextSlot
  <1>3. CASE ScanInvoke
    BY <1>3 DEF ScanInvoke, Pending
  <1>4. CASE CallbackReturn
    BY <1>4 DEF CallbackReturn, NextSlot
  <1> QED
    BY <1>1, <1>2, <1>3, <1>4 DEF timerFwProcess

(* Wherever the tick interrupts the main context, and whatever the callbacks call,
   a callback comes only after a whole interval of the timer's last start. *)
THEOREM CallbackOnTime == Spec => []NoEarlyCallback
  <1>1. Init => StopInv /\ EarlyInv
    BY DEF Init, StopInv, NoCallbackAfterStop, EarlyInv, NoEarlyCallback
  <1>2. TypeInv /\ StopInv /\ EarlyInv /\ [Next]_vars => StopInv' /\ EarlyInv'
    <2> SUFFICES ASSUME TypeInv, StopInv, EarlyInv, [Next]_vars PROVE StopInv' /\ EarlyInv'
      OBVIOUS
    <2>1. CASE UNCHANGED vars
      BY <2>1 DEF StopInv, NoCallbackAfterStop, EarlyInv, NoEarlyCallback, Starting, Stopping
    <2> QED
      BY <2>1, TickStop, ApiStop, ProcessStop, TickEarly, ApiEarly, ProcessEarly DEF Next
  <1>3. EarlyInv => NoEarlyCallback
    BY DEF EarlyInv
  <1> QED
    BY <1>1, <1>2, <1>3, TypeInit, TypeStep, PTL DEF Spec

=============================================================================
