------------------------------ MODULE StaticQueue ------------------------------
(***************************************************************************)
(* The ring buffer of system-utilities-c/C_Libraries/staticQueue.c, one    *)
(* action per function.  An operation runs to its return: this module is   *)
(* the queue of one context; StaticQueueIsr takes the operations apart.    *)
(***************************************************************************)
EXTENDS Integers, Sequences

CONSTANTS
  Data,       (* the elements a caller may enqueue                       *)
  NoData,     (* the content of a slot calloc has just cleared           *)
  QueueLen,   (* the queueLen given to staticQueueCreate                 *)
  CountMod    (* 2^32: the counters of the object are UInt32_t           *)

ASSUME QueueLenAssumption == QueueLen \in Nat \ {0}
ASSUME CountModAssumption == CountMod \in Nat /\ CountMod > QueueLen
ASSUME NoDataAssumption   == NoData \notin Data

VARIABLES
  valid,      (* the caller's pointer is not NULL and validMark is set *)
  slots,      (* queueData      *)
  writePtr,   (* queueWritePtr  *)
  readPtr,    (* queueReadPtr   *)
  msgCount,   (* queueMsgCount  *)
  highMark,   (* queueHighMark  *)
  dropCount,  (* queueDropCount *)
  reply       (* error code of the last call, and what it copied to *data *)

queueVars == <<valid, slots, writePtr, readPtr, msgCount, highMark, dropCount, reply>>

Slot == 0 .. QueueLen - 1

Answer(err, d) == [err |-> err, data |-> d]

(* The increment followed by the rotation of an index that reached the end. *)
Advance(ptr) == IF ptr + 1 = QueueLen THEN 0 ELSE ptr + 1

(* Operators whose comment begins with "Mutant" are the code with a bug that the
   properties must detect; no other definition uses them.

   Mutant: calloc replaced by malloc, the read index is left as it was. *)
ClearedButRead ==
  /\ slots' = [i \in Slot |-> NoData]
  /\ writePtr' = 0
  /\ msgCount' = 0
  /\ highMark' = 0
  /\ dropCount' = 0
  /\ UNCHANGED readPtr

Cleared ==
  /\ slots' = [i \in Slot |-> NoData]
  /\ writePtr' = 0
  /\ readPtr' = 0
  /\ msgCount' = 0
  /\ highMark' = 0
  /\ dropCount' = 0

Init ==
  /\ valid = FALSE
  /\ slots = [i \in Slot |-> NoData]
  /\ writePtr = 0
  /\ readPtr = 0
  /\ msgCount = 0
  /\ highMark = 0
  /\ dropCount = 0
  /\ reply = Answer("E_SUCCESS", NoData)

staticQueueCreate ==
  /\ ~valid
  /\ valid' = TRUE
  /\ Cleared
  /\ reply' = Answer("E_SUCCESS", NoData)

(* The object is freed; its caller (eventFw.c:51) forgets the pointer. *)
staticQueueDestroy ==
  /\ valid
  /\ valid' = FALSE
  /\ Cleared
  /\ reply' = Answer("E_SUCCESS", NoData)

(* An operation on a NULL object, or a put or a get with NULL data, returns at once;
   a staticQueueCreate that finds no memory leaves its caller with a NULL object. *)
NullArgument ==
  /\ reply' = Answer("E_NULL", NoData)
  /\ UNCHANGED <<valid, slots, writePtr, readPtr, msgCount, highMark, dropCount>>

PutFull ==
  /\ valid
  /\ msgCount = QueueLen
  /\ dropCount' = (dropCount + 1) % CountMod
  /\ reply' = Answer("E_QUEUE_FULL", NoData)
  /\ UNCHANGED <<valid, slots, writePtr, readPtr, msgCount, highMark>>

(* Mutant: the test for a full queue allows one element more. *)
PutOneMore(d) ==
  /\ valid
  /\ msgCount <= QueueLen
  /\ slots' = [slots EXCEPT ![writePtr] = d]
  /\ writePtr' = Advance(writePtr)
  /\ msgCount' = (msgCount + 1) % CountMod
  /\ reply' = Answer("E_SUCCESS", NoData)
  /\ UNCHANGED <<valid, readPtr, highMark, dropCount>>

PutStore(d) ==
  /\ valid
  /\ msgCount # QueueLen
  /\ slots' = [slots EXCEPT ![writePtr] = d]
  /\ writePtr' = Advance(writePtr)
  /\ msgCount' = (msgCount + 1) % CountMod
  /\ reply' = Answer(IF msgCount' = QueueLen /\ writePtr' # readPtr
                     THEN "E_BUG" ELSE "E_SUCCESS", NoData)
  /\ UNCHANGED <<valid, readPtr, highMark, dropCount>>

staticQueuePut(d) == PutFull \/ PutStore(d)

GetEmpty ==
  /\ valid
  /\ msgCount = 0
  /\ reply' = Answer("E_QUEUE_EMPTY", NoData)
  /\ UNCHANGED <<valid, slots, writePtr, readPtr, msgCount, highMark, dropCount>>

GetFetch ==
  /\ valid
  /\ msgCount # 0
  /\ readPtr' = Advance(readPtr)
  /\ msgCount' = msgCount - 1
  /\ reply' = Answer(IF msgCount' = 0 /\ writePtr # readPtr'
                     THEN "E_BUG" ELSE "E_SUCCESS", slots[readPtr])
  /\ UNCHANGED <<valid, slots, writePtr, highMark, dropCount>>

staticQueueGet == GetEmpty \/ GetFetch

Next ==
  \/ staticQueueCreate
  \/ staticQueueDestroy
  \/ NullArgument
  \/ \E d \in Data : staticQueuePut(d)
  \/ staticQueueGet

Spec == Init /\ [][Next]_queueVars

-----------------------------------------------------------------------------
(* The getters.  An error code leaves them as a UInt32_t.  staticQueuePut never
   raises highMark: the high mark is what staticQueueCreate stored. *)
AsUInt32(n) == n % CountMod
E_NULL == -4998
Getter(field) == IF valid THEN field ELSE AsUInt32(E_NULL)

staticQueueMaxLen    == Getter(QueueLen)
staticQueueMsgCount  == Getter(msgCount)
staticQueueHighMark  == Getter(highMark)
staticQueueDropCount == Getter(dropCount)

-----------------------------------------------------------------------------
ErrorCode == {"E_SUCCESS", "E_NULL", "E_QUEUE_FULL", "E_QUEUE_EMPTY", "E_BUG"}

(* Every index names a slot, every counter fits its UInt32_t, and a call
   answers with one of the error codes of errorTypes.h. *)
TypeOK ==
  /\ valid \in BOOLEAN
  /\ slots \in [Slot -> Data \cup {NoData}]
  /\ writePtr \in Slot
  /\ readPtr \in Slot
  /\ msgCount \in 0 .. QueueLen
  /\ highMark \in 0 .. CountMod - 1
  /\ dropCount \in 0 .. CountMod - 1
  /\ reply \in [err : ErrorCode, data : Data \cup {NoData}]

(* The slot that holds the i-th oldest element, for i from 0. *)
Wrapped(n) == IF n < QueueLen THEN n ELSE n - QueueLen
Position(i) == Wrapped(readPtr + i)

(* The two indices and the counter never disagree: the write index is always
   msgCount slots ahead of the read index, which is what the two "sanity"
   tests of staticQueuePut and staticQueueGet look at in two special cases. *)
IndicesAgree == writePtr = Position(msgCount)

(* An occupied slot holds an element some caller stored, never the cleared
   content of a fresh slot. *)
OccupiedSlotsFilled == \A i \in 0 .. msgCount - 1 : slots[Position(i)] \in Data

RingInv == IndicesAgree /\ OccupiedSlotsFilled

(* staticQueuePut and staticQueueGet never give the answer that says the queue
   is corrupt (staticQueue.c:103, 134). *)
NeverBug == reply.err # "E_BUG"

(* The elements in the order in which they will be delivered. *)
Contents == [i \in 1 .. msgCount |-> slots[Position(i - 1)]]

Fifo == INSTANCE BoundedFifo
          WITH Capacity <- QueueLen, open <- valid, items <- Contents, drops <- dropCount

(* The ring buffer, whatever its indices do, is a bounded FIFO: elements come
   out in the order they went in, none is lost, duplicated or overwritten, and
   exactly the refused ones are counted. *)
ImplementsFifo == Fifo!Spec

=============================================================================
