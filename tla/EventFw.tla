-------------------------------- MODULE EventFw --------------------------------
(***************************************************************************)
(* The event framework of system-utilities-c/C_Libraries/eventFw.c, used   *)
(* from two contexts: the main loop, which registers handlers, generates   *)
(* events and runs eventFwProcess, whose callbacks generate further        *)
(* events; and an interrupt handler, which generates events and runs to    *)
(* completion.  The main context's eventGenerate is taken apart at its     *)
(* calls (calloc, staticQueuePut, free), so an interrupt may fall between  *)
(* them.  The queue is the BoundedFifo that StaticQueue implements.        *)
(***************************************************************************)
EXTENDS Integers, Sequences, FiniteSets

CONSTANTS
  EventId,      (* the event identifiers callers use                         *)
  MaxEvents,    (* eventFwInit's maxEvents, a UInt32_t                       *)
  ByteMod,      (* 2^8: gMaxEvents is a UInt8_t                              *)
  MaxQueue,     (* eventFwInit's maxQueue                                    *)
  CountMod,     (* 2^32: the queue's drop counter                            *)
  Block,        (* addresses calloc may return for a parameter               *)
  NoBlock,      (* the NULL pointer                                          *)
  NoEvent,      (* the content of an Event_t nobody has filled               *)
  IrqPoints,    (* program points of the main context at which an interrupt
                   handler may generate an event: not between the queue and
                   the table of eventFwInit, where eventFw.c:82 would look
                   into a table that is still NULL                           *)
  Burst,        (* bound: eventGenerate calls of the main context in one
                   callback, or between two calls of eventFwProcess          *)
  MaxAccepted   (* bound: events accepted in a behaviour                     *)

MainPoint == {"idle", "initTable", "put", "undo", "get", "callback"}

ASSUME SizesAssumption ==
  /\ MaxEvents \in Nat /\ ByteMod \in Nat \ {0}
  /\ MaxQueue \in Nat \ {0} /\ CountMod \in Nat \ {0}
  /\ Burst \in Nat /\ MaxAccepted \in Nat
ASSUME ValuesAssumption ==
  /\ EventId \subseteq Nat
  /\ NoBlock \notin Block
  /\ IrqPoints \subseteq MainPoint \ {"initTable"}

VARIABLES
  open, items, drops, reply,   (* gEventQueue, as a BoundedFifo              *)
  table,        (* gEventInfoTable is allocated                              *)
  registered,   (* the events whose cb in gEventInfoTable is not NULL        *)
  gMaxEvents,
  heap,         (* the parameter blocks allocated and not freed              *)
  pc,           (* what the main context does next                           *)
  ret,          (* where the main context's eventGenerate returns to         *)
  genEvt,       (* the Event_t of the main context's eventGenerate           *)
  evt,          (* the Event_t of eventFwProcess                             *)
  burst,        (* eventGenerate calls since the callback or loop began      *)
  answer,       (* the value the main context's last call returned           *)
  accepted,     (* history: number of events put on the queue                *)
  dispatched    (* history: number of events taken off the queue             *)

queue   == <<open, items, drops, reply>>
setup   == <<table, registered, gMaxEvents>>
history == <<accepted, dispatched>>
vars    == <<queue, setup, heap, pc, ret, genEvt, evt, burst, answer, history>>

(* Event_t; tag is history: the event's number in the order of acceptance. *)
Event == [id : EventId, paramLen : {0, 1}, param : Block \cup {NoBlock}, tag : 0 .. MaxAccepted]

Q == INSTANCE BoundedFifo WITH Data <- Event, NoData <- NoEvent, Capacity <- MaxQueue

Init ==
  /\ Q!Init
  /\ table = FALSE
  /\ registered = {}
  /\ gMaxEvents = 0
  /\ heap = {}
  /\ pc = "idle"
  /\ ret = "idle"
  /\ genEvt = NoEvent
  /\ evt = NoEvent
  /\ burst = 0
  /\ answer = "E_SUCCESS"
  /\ accepted = 0
  /\ dispatched = 0

-----------------------------------------------------------------------------
(* eventFwInit, in two steps: the queue becomes visible before the table. *)

InitReady ==
  /\ pc = "idle" /\ open
  /\ answer' = "E_EVT_READY"
  /\ UNCHANGED <<queue, setup, heap, pc, ret, genEvt, evt, burst, history>>

(* No memory for the queue. *)
InitNoQueue ==
  /\ pc = "idle" /\ ~open
  /\ answer' = "E_INTERNAL"
  /\ UNCHANGED <<queue, setup, heap, pc, ret, genEvt, evt, burst, history>>

InitQueue ==
  /\ pc = "idle"
  /\ Q!Create
  /\ pc' = "initTable"
  /\ UNCHANGED <<setup, heap, ret, genEvt, evt, burst, answer, history>>

InitTable ==
  /\ pc = "initTable"
  /\ table' = TRUE
  /\ gMaxEvents' = MaxEvents % ByteMod
  /\ pc' = "idle"
  /\ answer' = "E_SUCCESS"
  /\ UNCHANGED <<queue, registered, heap, ret, genEvt, evt, burst, history>>

InitNoMemory ==
  /\ pc = "initTable"
  /\ Q!Destroy
  /\ pc' = "idle"
  /\ answer' = "E_NOMEM"
  /\ UNCHANGED <<setup, heap, ret, genEvt, evt, burst, history>>

eventFwInit == InitReady \/ InitNoQueue \/ InitQueue \/ InitTable \/ InitNoMemory

-----------------------------------------------------------------------------
(* event > gMaxEvents - 1 compares a UInt32_t with an int: when gMaxEvents is 0
   the bound becomes the largest UInt32_t. *)
OutOfBounds(e) == gMaxEvents # 0 /\ e > gMaxEvents - 1

(* cb tells whether the caller passes a callback. *)
AddVerdict(e, cb) ==
  IF ~open THEN "E_EVT_NOT_READY"
  ELSE IF OutOfBounds(e) THEN "E_EVT_OUT_OF_BOUNDS"
  ELSE IF ~cb THEN "E_NULL"
  ELSE IF e \in registered THEN "E_EVT_EXIST"
  ELSE "E_SUCCESS"

eventAddHandler(e, cb) ==
  /\ pc \in {"idle", "callback"}
  /\ registered' = IF AddVerdict(e, cb) = "E_SUCCESS" THEN registered \cup {e} ELSE registered
  /\ answer' = AddVerdict(e, cb)
  /\ UNCHANGED <<queue, table, gMaxEvents, heap, pc, ret, genEvt, evt, burst, history>>

-----------------------------------------------------------------------------
(* eventGenerate in the main context. *)

GenerateVerdict(e) ==
  IF ~open THEN "E_EVT_NOT_READY"
  ELSE IF OutOfBounds(e) THEN "E_EVT_OUT_OF_BOUNDS"
  ELSE IF e \notin registered THEN "E_EVT_NOT_EXIST"
  ELSE "E_SUCCESS"

(* What calloc may return for a parameter of this length. *)
Allocation(len) == IF len = 0 THEN {NoBlock} ELSE Block \ heap

NewEvent(e, len, p) == [id |-> e, paramLen |-> len, param |-> p, tag |-> 0]

(* Room under the bound for one more accepted event, the one the main context
   is about to put included. *)
Room == accepted + (IF pc = "put" THEN 1 ELSE 0) < MaxAccepted

Calling ==
  /\ pc \in {"idle", "callback"}
  /\ burst < Burst
  /\ burst' = burst + 1

GenerateRefused(e) ==
  /\ Calling
  /\ GenerateVerdict(e) # "E_SUCCESS"
  /\ answer' = GenerateVerdict(e)
  /\ UNCHANGED <<queue, setup, heap, pc, ret, genEvt, evt, history>>

GenerateNoMemory(e) ==
  /\ Calling
  /\ GenerateVerdict(e) = "E_SUCCESS"
  /\ answer' = "E_NOMEM"
  /\ UNCHANGED <<queue, setup, heap, pc, ret, genEvt, evt, history>>

GenerateCopy(e, len) ==
  /\ Calling
  /\ GenerateVerdict(e) = "E_SUCCESS"
  /\ Room
  /\ \E p \in Allocation(len) :
       /\ genEvt' = NewEvent(e, len, p)
       /\ heap' = (heap \cup {p}) \ {NoBlock}
  /\ pc' = "put"
  /\ ret' = pc
  /\ UNCHANGED <<queue, setup, evt, answer, history>>

Accept(event) ==
  /\ Q!Accept([event EXCEPT !.tag = accepted + 1])
  /\ accepted' = accepted + 1
  /\ UNCHANGED dispatched

GeneratePut ==
  /\ pc = "put"
  /\ \/ /\ Accept(genEvt)
        /\ pc' = ret
        /\ genEvt' = NoEvent
        /\ answer' = "E_SUCCESS"
     \/ /\ Q!Refuse
        /\ pc' = "undo"
        /\ UNCHANGED <<genEvt, answer, history>>
  /\ UNCHANGED <<setup, heap, ret, evt, burst>>

(* Mutant: the parameter of a refused event is not freed. *)
UndoWithoutFree ==
  /\ pc = "undo"
  /\ pc' = ret
  /\ genEvt' = NoEvent
  /\ answer' = "E_INTERNAL"
  /\ UNCHANGED <<queue, setup, heap, ret, evt, burst, history>>

GenerateUndo ==
  /\ pc = "undo"
  /\ heap' = heap \ {genEvt.param}
  /\ pc' = ret
  /\ genEvt' = NoEvent
  /\ answer' = "E_INTERNAL"
  /\ UNCHANGED <<queue, setup, ret, evt, burst, history>>

eventGenerate ==
  \/ \E e \in EventId :
       \/ GenerateRefused(e)
       \/ GenerateNoMemory(e)
       \/ \E len \in {0, 1} : GenerateCopy(e, len)
  \/ GeneratePut
  \/ GenerateUndo

-----------------------------------------------------------------------------
(* eventFwProcess. *)

ProcessCall ==
  /\ pc = "idle"
  /\ pc' = "get"
  /\ UNCHANGED <<queue, setup, heap, ret, genEvt, evt, burst, answer, history>>

(* The queue object is missing or empty: eventFwProcess returns its count. *)
ProcessReturn ==
  /\ pc = "get"
  /\ Q!Starve \/ (~open /\ Q!NullArgument)
  /\ pc' = "idle"
  /\ burst' = 0
  /\ answer' = "count"
  /\ UNCHANGED <<setup, heap, ret, genEvt, evt, history>>

(* Mutants: the event is left on the queue; the last event waits for another. *)
ProcessPeek ==
  /\ pc = "get" /\ items # <<>>
  /\ evt' = Head(items)
  /\ dispatched' = dispatched + 1
  /\ pc' = "callback"
  /\ burst' = 0
  /\ UNCHANGED <<queue, setup, heap, ret, genEvt, answer, accepted>>

ProcessAllButOne ==
  /\ pc = "get" /\ Len(items) > 1
  /\ Q!Deliver
  /\ evt' = Head(items)
  /\ dispatched' = dispatched + 1
  /\ pc' = "callback"
  /\ burst' = 0
  /\ UNCHANGED <<setup, heap, ret, genEvt, answer, accepted>>

ProcessGet ==
  LET event == Head(items)
      sane  == ~OutOfBounds(event.id) /\ event.id \in registered
  IN
  /\ pc = "get"
  /\ Q!Deliver
  /\ evt' = event
  /\ dispatched' = dispatched + 1
  /\ pc' = IF sane THEN "callback" ELSE "idle"
  /\ answer' = IF sane THEN answer ELSE "E_BUG"
  /\ burst' = 0
  /\ UNCHANGED <<setup, heap, ret, genEvt, accepted>>

(* The callback returns; its parameter is freed. *)
CallbackReturn ==
  LET lost == evt.paramLen # 0 /\ evt.param = NoBlock IN
  /\ pc = "callback"
  /\ heap' = heap \ {evt.param}
  /\ evt' = NoEvent
  /\ pc' = IF lost THEN "idle" ELSE "get"
  /\ answer' = IF lost THEN "0xFFFFFFFF" ELSE answer
  /\ UNCHANGED <<queue, setup, ret, genEvt, burst, history>>

eventFwProcess == ProcessCall \/ ProcessReturn \/ ProcessGet \/ CallbackReturn

-----------------------------------------------------------------------------
(* eventGenerate in an interrupt handler, to its return. *)

IsrAccepted(e, len) ==
  /\ GenerateVerdict(e) = "E_SUCCESS"
  /\ Room
  /\ \E p \in Allocation(len) :
       /\ Accept(NewEvent(e, len, p))
       /\ heap' = (heap \cup {p}) \ {NoBlock}

IsrDropped(e) ==
  /\ GenerateVerdict(e) = "E_SUCCESS"
  /\ Q!Refuse
  /\ UNCHANGED <<heap, history>>

(* A refused event leaves no trace. *)
Interrupt(e, len) ==
  /\ pc \in IrqPoints
  /\ IsrAccepted(e, len) \/ IsrDropped(e)
  /\ UNCHANGED <<setup, pc, ret, genEvt, evt, burst, answer>>

Next ==
  \/ eventFwInit
  \/ \E e \in EventId, cb \in BOOLEAN : eventAddHandler(e, cb)
  \/ eventGenerate
  \/ eventFwProcess
  \/ \E e \in EventId, len \in {0, 1} : Interrupt(e, len)

(* The main loop calls eventFwProcess for ever (esp32MistingController.ino:928)
   and every call and callback returns; interrupts promise nothing. *)
Fairness ==
  /\ WF_vars(GeneratePut)
  /\ WF_vars(GenerateUndo)
  /\ WF_vars(ProcessCall)
  /\ WF_vars(ProcessReturn)
  /\ WF_vars(ProcessGet)
  /\ WF_vars(CallbackReturn)
  /\ WF_vars(InitTable \/ InitNoMemory)

Spec == Init /\ [][Next]_vars /\ Fairness

-----------------------------------------------------------------------------
eventDropCount    == IF open THEN drops ELSE 0
eventProcessCount == IF open THEN Len(items) ELSE 0

-----------------------------------------------------------------------------
Answers == {"E_SUCCESS", "E_EVT_READY", "E_NOMEM", "E_NULL", "E_EVT_NOT_READY", "E_EVT_OUT_OF_BOUNDS",
            "E_EVT_EXIST", "E_EVT_NOT_EXIST", "E_INTERNAL", "count", "E_BUG", "0xFFFFFFFF"}

(* Every variable ranges over the values its C declaration and use allow; above all,
   no mixture of callers, the interrupt among them, puts more on the queue than it holds. *)
TypeOK ==
  /\ open \in BOOLEAN
  /\ items \in Seq(Event) /\ Len(items) <= MaxQueue
  /\ drops \in 0 .. CountMod - 1
  /\ table \in BOOLEAN
  /\ registered \subseteq EventId
  /\ gMaxEvents \in 0 .. ByteMod - 1
  /\ heap \subseteq Block
  /\ pc \in MainPoint
  /\ ret \in {"idle", "callback"}
  /\ genEvt \in Event \cup {NoEvent}
  /\ evt \in Event \cup {NoEvent}
  /\ burst \in 0 .. Burst
  /\ answer \in Answers
  /\ accepted \in 0 .. MaxAccepted
  /\ dispatched \in 0 .. MaxAccepted

(* The events that own a parameter block: those queued, the one whose callback
   runs, the one the main context is generating. *)
InCallback == pc = "callback" \/ (pc \in {"put", "undo"} /\ ret = "callback")
Owners ==
  items \o (IF InCallback THEN <<evt>> ELSE <<>>)
        \o (IF pc \in {"put", "undo"} THEN <<genEvt>> ELSE <<>>)

(* A parameter block is allocated exactly as long as one event owns it: no path
   through eventGenerate or eventFwProcess leaks one, frees one that a queued
   event still points to, or gives one to two events - with callbacks that
   generate, a full queue, and interrupts between calloc, put and free. *)
ParamsOwned ==
  /\ heap = {Owners[i].param : i \in DOMAIN Owners} \ {NoBlock}
  /\ \A i, j \in DOMAIN Owners :
       i # j /\ Owners[i].param = Owners[j].param => Owners[i].param = NoBlock

(* Every accepted event is dispatched once, in the order of acceptance, whoever
   generated it: those on the queue are the next ones due. *)
DispatchInOrder ==
  /\ accepted = dispatched + Len(items)
  /\ \A i \in DOMAIN items : items[i].tag = dispatched + i
  /\ InCallback => evt.tag = dispatched

(* eventFwProcess never finds an event without a handler (E_BUG, eventFw.c:114
   and 116) nor a parameter that has disappeared (0xFFFFFFFF, eventFw.c:124). *)
ProcessNeverBug == answer \notin {"E_BUG", "0xFFFFFFFF"}

(* An accepted event reaches its callback. *)
EventuallyDispatched ==
  \A n \in 1 .. MaxAccepted : accepted >= n ~> dispatched >= n

=============================================================================
