---------------------------- MODULE StaticQueueIsr ----------------------------
(***************************************************************************)
(* The queue shared by two contexts, as eventFw.h:5-15 describes its use:  *)
(* the main loop gets (and, from event callbacks, puts) while an interrupt *)
(* handler puts.  The interrupt runs to completion, so its put is the      *)
(* atomic one of StaticQueue; the main context's operations are taken      *)
(* apart into the memory accesses of staticQueue.c, between any two of     *)
(* which the interrupt may fire.  There is no lock and no interrupt mask   *)
(* in the code.                                                            *)
(***************************************************************************)
EXTENDS StaticQueue

CONSTANTS
  IrqPoints,    (* the program points of the main context at which an
                   interrupt handler may generate an event               *)
  MaxAccepted   (* bound: elements accepted in a behaviour               *)

MainPoint == {"idle", "getCopy", "getBump", "getRotate", "getLoad", "getStore", "getCheck",
              "putCopy", "putBump", "putRotate", "putLoad", "putStore", "putCheck"}

VARIABLES
  pc,         (* the next memory access of the main context                     *)
  buf,        (* the caller's *data: what a get copied out, what a put copies in *)
  countReg,   (* the register that holds queueMsgCount during ++ and --          *)
  before,     (* history: the object when the main context's operation began    *)
  accepted,   (* history: the elements whose put answered E_SUCCESS             *)
  received    (* history: the elements whose get answered E_SUCCESS             *)

isrVars == <<queueVars, pc, buf, countReg, before, accepted, received>>

Object == [slots |-> slots, writePtr |-> writePtr, readPtr |-> readPtr, msgCount |-> msgCount]

IsrInit ==
  /\ valid = TRUE
  /\ slots = [i \in Slot |-> NoData]
  /\ writePtr = 0
  /\ readPtr = 0
  /\ msgCount = 0
  /\ highMark = 0
  /\ dropCount = 0
  /\ reply = Answer("E_SUCCESS", NoData)
  /\ pc = "idle"
  /\ buf = NoData
  /\ countReg = 0
  /\ before = Object
  /\ accepted = <<>>
  /\ received = <<>>

Goto(from, to) == pc = from /\ pc' = to

(* The main context moves on without touching the histories. *)
Silent == UNCHANGED <<valid, highMark, dropCount, reply, before, accepted, received>>

-----------------------------------------------------------------------------
(* staticQueueGet in the main context, one memory access at a time. *)

GetTestEmpty ==
  /\ pc = "idle"
  /\ GetEmpty
  /\ UNCHANGED <<pc, buf, countReg, before, accepted, received>>

GetTest ==
  /\ Goto("idle", "getCopy")
  /\ msgCount # 0
  /\ before' = Object
  /\ UNCHANGED <<queueVars, buf, countReg, accepted, received>>

GetCopy ==
  /\ Goto("getCopy", "getBump")
  /\ buf' = slots[readPtr]
  /\ UNCHANGED <<slots, writePtr, readPtr, msgCount, countReg>> /\ Silent

GetBump ==
  /\ Goto("getBump", "getRotate")
  /\ readPtr' = readPtr + 1
  /\ UNCHANGED <<slots, writePtr, msgCount, buf, countReg>> /\ Silent

GetRotate ==
  /\ Goto("getRotate", "getLoad")
  /\ readPtr' = IF readPtr = QueueLen THEN 0 ELSE readPtr
  /\ UNCHANGED <<slots, writePtr, msgCount, buf, countReg>> /\ Silent

GetLoad ==
  /\ Goto("getLoad", "getStore")
  /\ countReg' = msgCount
  /\ UNCHANGED <<slots, writePtr, readPtr, msgCount, buf>> /\ Silent

GetStore ==
  /\ Goto("getStore", "getCheck")
  /\ msgCount' = (countReg - 1) % CountMod
  /\ UNCHANGED <<slots, writePtr, readPtr, buf, countReg>> /\ Silent

(* An answer other than E_SUCCESS ends the loop of eventFwProcess with the
   element dropped. *)
GetCheck ==
  LET sane == ~(msgCount = 0 /\ writePtr # readPtr) IN
  /\ Goto("getCheck", "idle")
  /\ reply' = Answer(IF sane THEN "E_SUCCESS" ELSE "E_BUG", buf)
  /\ received' = IF sane THEN Append(received, buf) ELSE received
  /\ UNCHANGED <<valid, slots, writePtr, readPtr, msgCount, highMark, dropCount,
                 buf, countReg, before, accepted>>

-----------------------------------------------------------------------------
(* staticQueuePut in the main context: an event callback generates an event. *)

PutTestFull ==
  /\ pc = "idle"
  /\ PutFull
  /\ UNCHANGED <<pc, buf, countReg, before, accepted, received>>

PutTest(d) ==
  /\ Goto("idle", "putCopy")
  /\ msgCount # QueueLen
  /\ Len(accepted) < MaxAccepted
  /\ buf' = d
  /\ before' = Object
  /\ UNCHANGED <<queueVars, countReg, accepted, received>>

PutCopy ==
  /\ Goto("putCopy", "putBump")
  /\ slots' = [slots EXCEPT ![writePtr] = buf]
  /\ UNCHANGED <<writePtr, readPtr, msgCount, buf, countReg>> /\ Silent

PutBump ==
  /\ Goto("putBump", "putRotate")
  /\ writePtr' = writePtr + 1
  /\ UNCHANGED <<slots, readPtr, msgCount, buf, countReg>> /\ Silent

PutRotate ==
  /\ Goto("putRotate", "putLoad")
  /\ writePtr' = IF writePtr = QueueLen THEN 0 ELSE writePtr
  /\ UNCHANGED <<slots, readPtr, msgCount, buf, countReg>> /\ Silent

PutLoad ==
  /\ Goto("putLoad", "putStore")
  /\ countReg' = msgCount
  /\ UNCHANGED <<slots, writePtr, readPtr, msgCount, buf>> /\ Silent

PutStoreCount ==
  /\ Goto("putStore", "putCheck")
  /\ msgCount' = (countReg + 1) % CountMod
  /\ UNCHANGED <<slots, writePtr, readPtr, buf, countReg>> /\ Silent

PutCheck ==
  LET sane == ~(msgCount = QueueLen /\ writePtr # readPtr) IN
  /\ Goto("putCheck", "idle")
  /\ reply' = Answer(IF sane THEN "E_SUCCESS" ELSE "E_BUG", NoData)
  /\ accepted' = IF sane THEN Append(accepted, buf) ELSE accepted
  /\ UNCHANGED <<valid, slots, writePtr, readPtr, msgCount, highMark, dropCount,
                 buf, countReg, before, received>>

-----------------------------------------------------------------------------
(* The interrupt handler generates an event: a whole put between two memory
   accesses of the main context. *)
Interrupt(d) ==
  /\ pc \in IrqPoints
  /\ Len(accepted) < MaxAccepted
  /\ staticQueuePut(d)
  /\ accepted' = IF reply'.err = "E_SUCCESS" THEN Append(accepted, d) ELSE accepted
  /\ UNCHANGED <<pc, buf, countReg, before, received>>

MainGet ==
  GetTestEmpty \/ GetTest \/ GetCopy \/ GetBump \/ GetRotate \/ GetLoad \/ GetStore \/ GetCheck

MainPut ==
  \/ PutTestFull
  \/ \E d \in Data : PutTest(d)
  \/ PutCopy \/ PutBump \/ PutRotate \/ PutLoad \/ PutStoreCount \/ PutCheck

IsrNext == MainGet \/ MainPut \/ \E d \in Data : Interrupt(d)

IsrSpec == IsrInit /\ [][IsrNext]_isrVars

-----------------------------------------------------------------------------
(* Between operations of the main context, the elements put with E_SUCCESS are
   exactly those got with E_SUCCESS, in order, followed by the queue's content:
   eventFw.h:8-10, "interrupt handler can generate an event, which can later be
   processed in the main context". *)
AcceptedDelivered == pc = "idle" => accepted = received \o Contents

(* The object as callers see it: an operation in progress has not happened. *)
Seen == IF pc = "idle" THEN Object ELSE before

Atomic == INSTANCE StaticQueue
            WITH slots <- Seen.slots, writePtr <- Seen.writePtr,
                 readPtr <- Seen.readPtr, msgCount <- Seen.msgCount

(* The memory accesses of staticQueue.c:77-138, run without a preemption, add
   up to the operations of StaticQueue: what lets the other modules treat a put
   or a get as one step. *)
AtomicOperations == [][Atomic!Next]_(Atomic!queueVars)

=============================================================================
