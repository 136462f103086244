--------------------------- MODULE StaticQueueProofs ---------------------------
(***************************************************************************)
(* For every queue length and every set of elements: the ring invariant of *)
(* staticQueue.c is inductive, the corruption tests never succeed, and the *)
(* ring buffer implements the bounded FIFO.  Shared with an interrupt      *)
(* handler, it loses nothing as long as the interrupt stays out of the     *)
(* program points where it does harm.                                      *)
(***************************************************************************)
EXTENDS StaticQueueIsr, SequenceTheorems, TLAPS

(* An index that reaches the end is rotated back into the buffer. *)
LEMMA AdvanceInRange ==
  ASSUME NEW p \in Slot
  PROVE  /\ Advance(p) \in Slot
         /\ Advance(p) = Wrapped(p + 1)
  BY QueueLenAssumption DEF Slot, Advance, Wrapped

(* The counters of a queue that respects its length do not wrap. *)
LEMMA SmallCount ==
  ASSUME NEW n \in 0 .. QueueLen - 1
  PROVE  (n + 1) % CountMod = n + 1
  BY QueueLenAssumption, CountModAssumption

LEMMA CounterStaysUInt32 ==
  ASSUME NEW n \in Nat
  PROVE  n % CountMod \in 0 .. CountMod - 1
  BY QueueLenAssumption, CountModAssumption

(* Moving the read index past the oldest element renumbers the others. *)
LEMMA PositionAfterAdvance ==
  ASSUME NEW p \in Slot, NEW i \in 0 .. QueueLen - 1
  PROVE  Wrapped(Advance(p) + i) = Wrapped(p + (i + 1))
  BY QueueLenAssumption DEF Slot, Advance, Wrapped

LEMMA PositionDistinct ==
  ASSUME NEW p \in Slot, NEW i \in 0 .. QueueLen - 1, NEW j \in 0 .. QueueLen - 1, i # j
  PROVE  /\ Wrapped(p + i) \in Slot
         /\ Wrapped(p + i) # Wrapped(p + j)
  BY QueueLenAssumption DEF Slot, Wrapped

-----------------------------------------------------------------------------
(* Types alone are not inductive: msgCount stays below its bound only because a
   put tests it first, and "E_BUG" is avoided only because the indices agree. *)
Inv == TypeOK /\ RingInv /\ NeverBug

USE DEF queueVars, ErrorCode, Answer

LEMMA InvInit == Init => Inv
  <1> SUFFICES ASSUME Init PROVE Inv
    OBVIOUS
  <1>1. TypeOK
    <2>1. valid \in BOOLEAN
      BY DEF Init
    <2>2. 0 \in Slot /\ 0 \in 0 .. QueueLen /\ 0 \in 0 .. CountMod - 1
      BY QueueLenAssumption, CountModAssumption DEF Slot
    <2>3. reply \in [err : ErrorCode, data : Data \cup {NoData}]
      BY DEF Init
    <2>4. slots \in [Slot -> Data \cup {NoData}]
      BY DEF Init
    <2> QED
      BY <2>1, <2>2, <2>3, <2>4 DEF TypeOK, Init
  <1>2. RingInv
    BY QueueLenAssumption
       DEF Init, RingInv, IndicesAgree, OccupiedSlotsFilled, Position, Wrapped, Slot
  <1>3. NeverBug
    BY DEF Init, NeverBug
  <1> QED
    BY <1>1, <1>2, <1>3 DEF Inv

(* staticQueueCreate and staticQueueDestroy leave an empty ring. *)
LEMMA ClearedInv ==
  ASSUME Inv, Cleared, valid' \in BOOLEAN, reply' = Answer("E_SUCCESS", NoData)
  PROVE  Inv'
  <1>1. TypeOK'
    BY QueueLenAssumption, CountModAssumption DEF Inv, Cleared, TypeOK, Slot
  <1>2. RingInv'
    BY QueueLenAssumption
       DEF Cleared, RingInv, IndicesAgree, OccupiedSlotsFilled, Position, Wrapped, Slot
  <1>3. NeverBug'
    BY DEF NeverBug
  <1> QED
    BY <1>1, <1>2, <1>3 DEF Inv

(* An operation that only answers, or only counts a drop. *)
LEMMA RefusedInv ==
  ASSUME Inv, UNCHANGED <<valid, slots, writePtr, readPtr, msgCount, highMark>>,
         dropCount' \in 0 .. CountMod - 1,
         NEW e \in ErrorCode \ {"E_BUG"}, reply' = Answer(e, NoData)
  PROVE  Inv'
  <1>1. TypeOK'
    BY DEF Inv, TypeOK
  <1>2. RingInv'
    BY DEF Inv, RingInv, IndicesAgree, OccupiedSlotsFilled, Position
  <1>3. NeverBug'
    BY DEF NeverBug
  <1> QED
    BY <1>1, <1>2, <1>3 DEF Inv

LEMMA PutStoreInv ==
  ASSUME Inv, NEW d \in Data, PutStore(d)
  PROVE  Inv'
  <1> USE QueueLenAssumption DEF Inv, TypeOK, RingInv
  <1>1. msgCount \in 0 .. QueueLen - 1 /\ msgCount' = msgCount + 1
    BY SmallCount DEF PutStore
  <1>2. writePtr' \in Slot /\ writePtr' = Wrapped(writePtr + 1)
    BY AdvanceInRange DEF PutStore
  <1>3. IndicesAgree'
    BY <1>1, <1>2 DEF PutStore, IndicesAgree, Position, Wrapped, Slot
  <1>4. OccupiedSlotsFilled'
    <2> SUFFICES ASSUME NEW i \in 0 .. msgCount
                 PROVE  slots'[Wrapped(readPtr + i)] \in Data
      BY <1>1 DEF PutStore, OccupiedSlotsFilled, Position
    <2>1. CASE i = msgCount
      BY <2>1, PositionDistinct DEF PutStore, IndicesAgree, Position
    <2>2. CASE i # msgCount
      <3>1. /\ i \in 0 .. msgCount - 1
            /\ Wrapped(readPtr + i) \in Slot
            /\ Wrapped(readPtr + i) # writePtr
        BY <2>2, <1>1, PositionDistinct DEF IndicesAgree, Position
      <3>2. slots'[Wrapped(readPtr + i)] = slots[Wrapped(readPtr + i)]
        BY <3>1 DEF PutStore
      <3> QED
        BY <3>1, <3>2 DEF OccupiedSlotsFilled, Position
    <2> QED
      BY <2>1, <2>2
  <1>5. reply'.err = "E_SUCCESS" /\ reply'.data = NoData
    <2>1. msgCount' = QueueLen => writePtr' = readPtr
      BY <1>1, <1>3 DEF PutStore, IndicesAgree, Position, Wrapped, Slot
    <2> QED
      BY <2>1 DEF PutStore
  <1>6. TypeOK'
    <2>1. reply' = [err |-> "E_SUCCESS", data |-> NoData]
      BY <1>5 DEF PutStore
    <2> QED
      BY <1>1, <1>2, <2>1 DEF PutStore
  <1> QED
    BY <1>3, <1>4, <1>5, <1>6 DEF NeverBug

LEMMA GetFetchInv ==
  ASSUME Inv, GetFetch
  PROVE  Inv'
  <1> USE QueueLenAssumption DEF Inv, TypeOK, RingInv
  <1>1. msgCount \in 1 .. QueueLen /\ msgCount' = msgCount - 1 /\ msgCount' \in 0 .. QueueLen - 1
    BY DEF GetFetch
  <1>2. readPtr' \in Slot /\ readPtr' = Advance(readPtr)
    BY AdvanceInRange DEF GetFetch
  <1>3. \A i \in 0 .. QueueLen - 1 : Position(i)' = Position(i + 1)
    BY <1>2, PositionAfterAdvance DEF Position
  <1>4. IndicesAgree'
    BY <1>1, <1>3 DEF GetFetch, IndicesAgree
  <1>5. OccupiedSlotsFilled'
    <2> SUFFICES ASSUME NEW i \in 0 .. msgCount - 2
                 PROVE  slots[Position(i)'] \in Data
      BY <1>1 DEF GetFetch, OccupiedSlotsFilled
    <2>1. i + 1 \in 0 .. msgCount - 1 /\ i \in 0 .. QueueLen - 1
      BY <1>1
    <2> QED
      BY <2>1, <1>3 DEF OccupiedSlotsFilled
  <1>6. reply' = [err |-> "E_SUCCESS", data |-> slots[readPtr]]
    <2>1. msgCount' = 0 => writePtr' = readPtr'
      BY <1>2, <1>4 DEF IndicesAgree, Position, Wrapped, Slot
    <2> QED
      BY <2>1 DEF GetFetch
  <1>7. TypeOK'
    BY <1>1, <1>2, <1>6 DEF GetFetch
  <1> QED
    BY <1>4, <1>5, <1>6, <1>7 DEF NeverBug

LEMMA InvStep == Inv /\ [Next]_queueVars => Inv'
  <1> SUFFICES ASSUME Inv, [Next]_queueVars PROVE Inv'
    OBVIOUS
  <1>1. CASE staticQueueCreate
    BY <1>1, ClearedInv DEF staticQueueCreate
  <1>2. CASE staticQueueDestroy
    BY <1>2, ClearedInv DEF staticQueueDestroy
  <1>3. CASE NullArgument
    BY <1>3, RefusedInv DEF NullArgument, Inv, TypeOK
  <1>4. CASE PutFull
    <2>1. dropCount' \in 0 .. CountMod - 1
      BY <1>4, CounterStaysUInt32 DEF PutFull, Inv, TypeOK
    <2> QED
      BY <1>4, <2>1, RefusedInv DEF PutFull
  <1>5. ASSUME NEW d \in Data, PutStore(d) PROVE Inv'
    BY <1>5, PutStoreInv
  <1>6. CASE GetEmpty
    BY <1>6, RefusedInv DEF GetEmpty, Inv, TypeOK
  <1>7. CASE GetFetch
    BY <1>7, GetFetchInv
  <1>8. CASE UNCHANGED queueVars
    BY <1>8 DEF Inv, TypeOK, RingInv, IndicesAgree, OccupiedSlotsFilled, Position, NeverBug
  <1> QED
    BY <1>1, <1>2, <1>3, <1>4, <1>5, <1>6, <1>7, <1>8
       DEF Next, staticQueuePut, staticQueueGet

(* The ring invariant and the type invariant hold in every reachable state of
   every queue: no sequence of puts and gets separates the two indices from the
   message counter (staticQueue.c:77-138). *)
THEOREM RingInvariant == Spec => [](TypeOK /\ RingInv)
  <1>1. Inv => TypeOK /\ RingInv
    BY DEF Inv
  <1> QED
    BY <1>1, InvInit, InvStep, PTL DEF Spec

(* The corruption tests of staticQueue.c:102 and 133 never succeed when one
   context at a time uses the queue. *)
THEOREM BugUnreachable == Spec => []NeverBug
  <1>1. Inv => NeverBug
    BY DEF Inv
  <1> QED
    BY <1>1, InvInit, InvStep, PTL DEF Spec

-----------------------------------------------------------------------------
(* Refinement.  The mapping reads the occupied slots in delivery order. *)

ContentsFacts ==
  /\ Contents \in Seq(Data)
  /\ Len(Contents) = msgCount
  /\ \A i \in 1 .. msgCount : Contents[i] = slots[Position(i - 1)]

LEMMA ContentsSeq == Inv => ContentsFacts
  <1> SUFFICES ASSUME Inv PROVE ContentsFacts
    OBVIOUS
  <1>1. msgCount \in Nat
    BY QueueLenAssumption DEF Inv, TypeOK
  <1>2. \A i \in 1 .. msgCount : slots[Position(i - 1)] \in Data
    BY <1>1 DEF Inv, RingInv, OccupiedSlotsFilled
  <1> QED
    BY <1>1, <1>2 DEF Contents, ContentsFacts

LEMMA NextContentsSeq == Inv' => ContentsFacts'
  BY ContentsSeq, PTL

LEMMA PutStoreAccepts ==
  ASSUME Inv, NEW d \in Data, PutStore(d)
  PROVE  Fifo!Accept(d)
  <1> USE QueueLenAssumption
  <1>1. msgCount \in 0 .. QueueLen - 1 /\ msgCount' = msgCount + 1
    BY SmallCount DEF PutStore, Inv, TypeOK
  <1>2. Inv'
    BY PutStoreInv
  <1>3. /\ Contents' \in Seq(Data)
        /\ Len(Contents') = msgCount + 1
        /\ \A i \in 1 .. msgCount + 1 : Contents'[i] = slots'[Position(i - 1)']
    BY <1>1, <1>2, NextContentsSeq DEF ContentsFacts
  <1>4. \A i \in 1 .. msgCount : Contents'[i] = Contents[i]
    <2> SUFFICES ASSUME NEW i \in 1 .. msgCount
                 PROVE  slots'[Position(i - 1)] = slots[Position(i - 1)]
      BY <1>1, <1>3, ContentsSeq DEF PutStore, Position, ContentsFacts
    <2>1. i - 1 \in 0 .. QueueLen - 1 /\ i - 1 # msgCount
      BY <1>1
    <2>2. Position(i - 1) # writePtr
      BY <1>1, <2>1, PositionDistinct DEF Inv, TypeOK, RingInv, IndicesAgree, Position
    <2>3. Position(i - 1) \in Slot
      BY <1>1, <2>1, PositionDistinct DEF Inv, TypeOK, Position
    <2> QED
      BY <2>2, <2>3 DEF PutStore, Inv, TypeOK
  <1>5. Contents'[msgCount + 1] = d
    BY <1>1, <1>3 DEF PutStore, Inv, TypeOK, RingInv, IndicesAgree, Position
  <1>6. Contents' = Append(Contents, d)
    BY <1>1, <1>3, <1>4, <1>5, ContentsSeq DEF ContentsFacts
  <1>7. reply' = [err |-> "E_SUCCESS", data |-> NoData]
    BY <1>2 DEF PutStore, Inv, NeverBug
  <1> QED
    BY <1>1, <1>6, <1>7, ContentsSeq DEF ContentsFacts, PutStore, Fifo!Accept, Fifo!Answer

LEMMA GetFetchDelivers ==
  ASSUME Inv, GetFetch
  PROVE  Fifo!Deliver
  <1> USE QueueLenAssumption
  <1>1. msgCount \in 1 .. QueueLen /\ msgCount' = msgCount - 1
    BY DEF GetFetch, Inv, TypeOK
  <1>2. Inv'
    BY GetFetchInv
  <1>3. /\ Contents' \in Seq(Data)
        /\ Len(Contents') = msgCount - 1
        /\ \A i \in 1 .. msgCount - 1 : Contents'[i] = slots'[Position(i - 1)']
    BY <1>1, <1>2, NextContentsSeq DEF ContentsFacts
  <1>4. \A i \in 1 .. msgCount - 1 : Contents'[i] = Contents[i + 1]
    <2> SUFFICES ASSUME NEW i \in 1 .. msgCount - 1
                 PROVE  Position(i - 1)' = Position(i)
      BY <1>1, <1>3, ContentsSeq DEF GetFetch, ContentsFacts
    <2>1. i - 1 \in 0 .. QueueLen - 1 /\ (i - 1) + 1 = i
      BY <1>1
    <2> QED
      BY <2>1, PositionAfterAdvance DEF GetFetch, Inv, TypeOK, Position
  <1>5. Contents # <<>> /\ Contents' = Tail(Contents)
    BY <1>1, <1>3, <1>4, ContentsSeq DEF ContentsFacts
  <1>6. Head(Contents) = slots[readPtr]
    BY <1>1, ContentsSeq DEF ContentsFacts, Inv, TypeOK, Slot, Position, Wrapped
  <1>7. reply' = [err |-> "E_SUCCESS", data |-> slots[readPtr]]
    BY <1>2 DEF GetFetch, Inv, NeverBug
  <1> QED
    BY <1>5, <1>6, <1>7 DEF GetFetch, Fifo!Deliver, Fifo!Answer

LEMMA EmptyContents == msgCount = 0 => Contents = <<>>
  BY DEF Contents

LEMMA NextEmptyContents == msgCount' = 0 => Contents' = <<>>
  BY DEF Contents

LEMMA SameContents ==
  ASSUME UNCHANGED <<msgCount, slots, readPtr>>
  PROVE  UNCHANGED Contents
  BY DEF Contents, Position

LEMMA StepRefines == Inv /\ [Next]_queueVars => [Fifo!Next]_(Fifo!fifoVars)
  <1> SUFFICES ASSUME Inv, [Next]_queueVars PROVE [Fifo!Next]_(Fifo!fifoVars)
    OBVIOUS
  <1>1. Inv'
    BY InvStep
  <1>2. msgCount' = 0 => Contents' = <<>>
    BY NextEmptyContents
  <1>3. CASE staticQueueCreate
    BY <1>2, <1>3 DEF staticQueueCreate, Cleared, Fifo!Next, Fifo!Create, Fifo!Answer
  <1>4. CASE staticQueueDestroy
    BY <1>2, <1>4 DEF staticQueueDestroy, Cleared, Fifo!Next, Fifo!Destroy, Fifo!Answer
  <1>5. CASE NullArgument
    BY <1>5, SameContents DEF NullArgument, Fifo!Next, Fifo!NullArgument, Fifo!Answer
  <1>6. CASE PutFull
    BY <1>6, SameContents, ContentsSeq DEF ContentsFacts, PutFull, Fifo!Next, Fifo!Refuse, Fifo!Answer
  <1>7. ASSUME NEW d \in Data, PutStore(d) PROVE Fifo!Next
    BY <1>7, PutStoreAccepts DEF Fifo!Next
  <1>8. CASE GetEmpty
    BY <1>8, EmptyContents, SameContents DEF GetEmpty, Fifo!Next, Fifo!Starve, Fifo!Answer
  <1>9. CASE GetFetch
    BY <1>9, GetFetchDelivers DEF Fifo!Next
  <1>10. CASE UNCHANGED queueVars
    BY <1>10, SameContents DEF Fifo!fifoVars
  <1> QED
    BY <1>3, <1>4, <1>5, <1>6, <1>7, <1>8, <1>9, <1>10
       DEF Next, staticQueuePut, staticQueueGet

(* The ring buffer implements the bounded FIFO of BoundedFifo: elements are
   delivered once, in order and unaltered, for every length of the queue. *)
THEOREM QueueRefinesFifo == Spec => ImplementsFifo
  <1>1. Init => Fifo!Init
    BY InvInit, EmptyContents DEF Init, Fifo!Init, Fifo!Answer
  <1> QED
    BY <1>1, InvInit, InvStep, StepRefines, PTL DEF Spec, ImplementsFifo, Fifo!Spec

-----------------------------------------------------------------------------
(* The queue shared with an interrupt handler.  An operation in progress is
   read through the object it has not yet changed: the program points at which
   the interrupt may fire without harm are those where that object and the
   memory agree on what a put looks at. *)

SafePoint == {"idle", "getCopy", "getBump", "getCheck"}
GetPoint  == {"getCopy", "getBump", "getRotate", "getLoad", "getStore"}
PutPoint  == {"putCopy", "putBump", "putRotate", "putLoad", "putStore"}

(* The object without the index the operation in progress has moved. *)
Undone ==
  [slots    |-> slots,
   writePtr |-> IF pc \in {"putRotate", "putLoad", "putStore"} THEN before.writePtr ELSE writePtr,
   readPtr  |-> IF pc \in {"getRotate", "getLoad", "getStore"} THEN before.readPtr ELSE readPtr,
   msgCount |-> msgCount]

Objects == [slots : [Slot -> Data \cup {NoData}], writePtr : Slot, readPtr : Slot,
            msgCount : 0 .. QueueLen]

At(o, i) == Wrapped(o.readPtr + i)
Items(o) == [i \in 1 .. o.msgCount |-> o.slots[At(o, i - 1)]]

SoundObject(o) ==
  /\ o \in Objects
  /\ o.writePtr = At(o, o.msgCount)
  /\ \A i \in 0 .. o.msgCount - 1 : o.slots[At(o, i)] \in Data

Enqueued(o, d) ==
  [slots |-> [o.slots EXCEPT ![o.writePtr] = d], writePtr |-> Advance(o.writePtr),
   readPtr |-> o.readPtr, msgCount |-> o.msgCount + 1]

Dequeued(o) ==
  [slots |-> o.slots, writePtr |-> o.writePtr, readPtr |-> Advance(o.readPtr),
   msgCount |-> o.msgCount - 1]

GetUnderway ==
  /\ pc \in GetPoint => msgCount # 0
  /\ pc \in {"getCopy", "getBump"} => readPtr = before.readPtr
  /\ pc \in GetPoint \ {"getCopy"} => buf = slots[before.readPtr]
  /\ pc = "getRotate" => readPtr = before.readPtr + 1
  /\ pc \in {"getLoad", "getStore"} => readPtr = Advance(before.readPtr)
  /\ pc = "getStore" => countReg = msgCount
  /\ pc = "getCheck" => buf \in Data

PutUnderway ==
  /\ pc \in PutPoint => msgCount # QueueLen
  /\ pc \in PutPoint \cup {"putCheck"} => buf \in Data
  /\ pc \in {"putCopy", "putBump"} => writePtr = before.writePtr
  /\ pc \in PutPoint \ {"putCopy"} => slots[before.writePtr] = buf
  /\ pc = "putRotate" => writePtr = before.writePtr + 1
  /\ pc \in {"putLoad", "putStore"} => writePtr = Advance(before.writePtr)
  /\ pc = "putStore" => countReg = msgCount

(* An element counts as put, or as got, once the counter has been stored. *)
Put == IF pc = "putCheck" THEN Append(accepted, buf) ELSE accepted
Got == IF pc = "getCheck" THEN Append(received, buf) ELSE received

IsrInv ==
  /\ pc \in MainPoint /\ valid
  /\ accepted \in Seq(Data) /\ received \in Seq(Data)
  /\ SoundObject(Undone)
  /\ GetUnderway /\ PutUnderway
  /\ Put = Got \o Items(Undone)

LEMMA ItemsSeq ==
  ASSUME NEW o, SoundObject(o)
  PROVE  /\ Items(o) \in Seq(Data)
         /\ Len(Items(o)) = o.msgCount
         /\ \A i \in 1 .. o.msgCount : Items(o)[i] = o.slots[At(o, i - 1)]
  <1>1. o.msgCount \in Nat /\ \A i \in 1 .. o.msgCount : o.slots[At(o, i - 1)] \in Data
    BY QueueLenAssumption DEF SoundObject, Objects
  <1> QED
    BY <1>1 DEF Items

(* The slot of the write index is not an occupied one unless the queue is full. *)
LEMMA FreeSlot ==
  ASSUME NEW o, SoundObject(o), o.msgCount # QueueLen, NEW i \in 0 .. o.msgCount - 1
  PROVE  At(o, i) \in Slot /\ At(o, i) # o.writePtr
  BY QueueLenAssumption, PositionDistinct DEF SoundObject, Objects, At

LEMMA EnqueuedAppends ==
  ASSUME NEW o, SoundObject(o), o.msgCount # QueueLen, NEW d \in Data
  PROVE  /\ SoundObject(Enqueued(o, d))
         /\ Items(Enqueued(o, d)) = Append(Items(o), d)
  <1> DEFINE n == Enqueued(o, d)
  <1>1. /\ o.slots \in [Slot -> Data \cup {NoData}] /\ o.writePtr \in Slot /\ o.readPtr \in Slot
        /\ o.msgCount \in 0 .. QueueLen - 1
    BY QueueLenAssumption DEF SoundObject, Objects
  <1>2. /\ n.slots = [o.slots EXCEPT ![o.writePtr] = d] /\ n.writePtr = Advance(o.writePtr)
        /\ n.readPtr = o.readPtr /\ n.msgCount = o.msgCount + 1
    BY DEF Enqueued
  <1>3. n \in Objects
    <2>1. n.slots \in [Slot -> Data \cup {NoData}] /\ n.writePtr \in Slot
      BY <1>1, <1>2, AdvanceInRange
    <2>2. n.msgCount \in 0 .. QueueLen
      BY <1>1, <1>2, QueueLenAssumption
    <2> QED
      BY <1>1, <1>2, <2>1, <2>2 DEF Objects, Enqueued
  <1>4. n.writePtr = At(n, n.msgCount)
    <2>1. n.writePtr = Wrapped(o.writePtr + 1) /\ o.writePtr = Wrapped(o.readPtr + o.msgCount)
      BY <1>1, <1>2, AdvanceInRange DEF SoundObject, At
    <2>2. At(n, n.msgCount) = Wrapped(o.readPtr + (o.msgCount + 1))
      BY <1>2 DEF At
    <2> QED
      BY <1>1, <2>1, <2>2, QueueLenAssumption DEF Wrapped, Slot
  <1>5. \A i \in 0 .. o.msgCount - 1 : n.slots[At(n, i)] = o.slots[At(o, i)]
    BY <1>1, <1>2, FreeSlot DEF At
  <1>6. n.slots[At(n, o.msgCount)] = d
    BY <1>1, <1>2 DEF SoundObject, At
  <1> HIDE DEF n
  <1>7. SoundObject(n)
    <2> SUFFICES ASSUME NEW i \in 0 .. o.msgCount PROVE n.slots[At(n, i)] \in Data
      BY <1>1, <1>2, <1>3, <1>4 DEF SoundObject
    <2>1. CASE i = o.msgCount
      BY <2>1, <1>6
    <2>2. CASE i # o.msgCount
      BY <2>2, <1>1, <1>5 DEF SoundObject
    <2> QED
      BY <2>1, <2>2
  <1>8. Items(n) = Append(Items(o), d)
    <2>1. /\ Items(n) \in Seq(Data) /\ Len(Items(n)) = o.msgCount + 1
          /\ \A i \in 1 .. o.msgCount + 1 : Items(n)[i] = n.slots[At(n, i - 1)]
      BY <1>2, <1>7, ItemsSeq
    <2>2. \A i \in 1 .. o.msgCount : Items(n)[i] = Items(o)[i]
      BY <2>1, <1>1, <1>5, ItemsSeq
    <2>3. Items(n)[o.msgCount + 1] = d
      BY <2>1, <1>1, <1>6
    <2> QED
      BY <2>1, <2>2, <2>3, <1>1, ItemsSeq
  <1> QED
    BY <1>7, <1>8 DEF n

LEMMA DequeuedTakesHead ==
  ASSUME NEW o, SoundObject(o), o.msgCount # 0
  PROVE  /\ SoundObject(Dequeued(o))
         /\ o.slots[o.readPtr] \in Data
         /\ Items(o) = <<o.slots[o.readPtr]>> \o Items(Dequeued(o))
  <1> DEFINE n == Dequeued(o)
  <1>1. /\ o.slots \in [Slot -> Data \cup {NoData}] /\ o.writePtr \in Slot /\ o.readPtr \in Slot
        /\ o.msgCount \in 1 .. QueueLen
    BY QueueLenAssumption DEF SoundObject, Objects
  <1>2. /\ n.slots = o.slots /\ n.writePtr = o.writePtr
        /\ n.readPtr = Advance(o.readPtr) /\ n.msgCount = o.msgCount - 1
    BY DEF Dequeued
  <1>3. n \in Objects
    <2>1. n.readPtr \in Slot
      BY <1>1, <1>2, AdvanceInRange
    <2>2. n.msgCount \in 0 .. QueueLen
      BY <1>1, <1>2, QueueLenAssumption
    <2> QED
      BY <1>1, <1>2, <2>1, <2>2 DEF Objects, Dequeued
  <1>4. \A i \in 0 .. QueueLen - 1 : At(n, i) = At(o, i + 1)
    BY <1>1, <1>2, PositionAfterAdvance DEF At
  <1>5. At(o, 0) = o.readPtr
    BY <1>1, QueueLenAssumption DEF At, Wrapped, Slot
  <1> HIDE DEF n
  <1>6. SoundObject(n)
    <2>1. n.writePtr = At(n, n.msgCount)
      BY <1>1, <1>2, <1>4, QueueLenAssumption DEF SoundObject
    <2>2. ASSUME NEW i \in 0 .. o.msgCount - 2 PROVE n.slots[At(n, i)] \in Data
      <3>1. i + 1 \in 0 .. o.msgCount - 1 /\ i \in 0 .. QueueLen - 1
        BY <1>1, QueueLenAssumption
      <3> QED
        BY <3>1, <1>2, <1>4 DEF SoundObject
    <2> QED
      BY <1>1, <1>2, <1>3, <2>1, <2>2 DEF SoundObject
  <1>7. o.slots[o.readPtr] \in Data
    BY <1>1, <1>5 DEF SoundObject
  <1>8. Items(o) = <<o.slots[o.readPtr]>> \o Items(n)
    <2>1. /\ Items(n) \in Seq(Data) /\ Len(Items(n)) = o.msgCount - 1
          /\ \A i \in 1 .. o.msgCount - 1 : Items(n)[i] = n.slots[At(n, i - 1)]
      BY <1>2, <1>6, ItemsSeq
    <2>2. \A i \in 1 .. o.msgCount - 1 : Items(n)[i] = Items(o)[i + 1]
      <3> SUFFICES ASSUME NEW i \in 1 .. o.msgCount - 1
                   PROVE  n.slots[At(n, i - 1)] = o.slots[At(o, i)]
        BY <2>1, <1>1, ItemsSeq
      <3>1. i - 1 \in 0 .. QueueLen - 1 /\ (i - 1) + 1 = i
        BY <1>1, QueueLenAssumption
      <3> QED
        BY <3>1, <1>2, <1>4
    <2>3. Items(o)[1] = o.slots[o.readPtr]
      BY <1>1, <1>5, ItemsSeq
    <2> QED
      BY <2>1, <2>2, <2>3, <1>1, <1>7, ItemsSeq
  <1> QED
    BY <1>6, <1>7, <1>8 DEF n

(* What is written to a free slot is not among the items. *)
LEMMA FreeSlotWritten ==
  ASSUME NEW o, SoundObject(o), o.msgCount # QueueLen, NEW d \in Data,
         NEW n, n = [o EXCEPT !.slots = [o.slots EXCEPT ![o.writePtr] = d]]
  PROVE  SoundObject(n) /\ Items(n) = Items(o)
  <1>1. /\ o.slots \in [Slot -> Data \cup {NoData}] /\ o.writePtr \in Slot
        /\ o.msgCount \in 0 .. QueueLen - 1 /\ o \in Objects
    BY QueueLenAssumption DEF SoundObject, Objects
  <1>2. /\ n.slots = [o.slots EXCEPT ![o.writePtr] = d] /\ n.writePtr = o.writePtr
        /\ n.readPtr = o.readPtr /\ n.msgCount = o.msgCount /\ n \in Objects
    BY <1>1 DEF Objects
  <1>3. \A i \in 0 .. o.msgCount - 1 : n.slots[At(n, i)] = o.slots[At(o, i)]
    BY <1>1, <1>2, FreeSlot DEF At
  <1>4. SoundObject(n)
    BY <1>1, <1>2, <1>3 DEF SoundObject, At
  <1>5. \A i \in 1 .. o.msgCount : n.slots[At(n, i - 1)] = o.slots[At(o, i - 1)]
    <2> SUFFICES ASSUME NEW i \in 1 .. o.msgCount
                 PROVE  n.slots[At(n, i - 1)] = o.slots[At(o, i - 1)]
      OBVIOUS
    <2>1. i - 1 \in 0 .. o.msgCount - 1
      BY <1>1
    <2> QED
      BY <2>1, <1>3
  <1> QED
    BY <1>2, <1>4, <1>5 DEF Items

LEMMA AppendToConcat ==
  ASSUME NEW s \in Seq(Data), NEW t \in Seq(Data), NEW d \in Data
  PROVE  /\ Append(s \o t, d) = s \o Append(t, d)
         /\ s \o (<<d>> \o t) = Append(s, d) \o t
  <1>1. <<d>> \in Seq(Data) /\ s \o t \in Seq(Data)
    BY ConcatProperties
  <1>2. /\ Append(s \o t, d) = (s \o t) \o <<d>> /\ Append(t, d) = t \o <<d>>
        /\ Append(s, d) = s \o <<d>>
    BY <1>1, AppendIsConcat
  <1>3. \A one \in Seq(Data) : (s \o t) \o one = s \o (t \o one)
    OBVIOUS
  <1>4. \A one \in Seq(Data) : (s \o one) \o t = s \o (one \o t)
    OBVIOUS
  <1> QED
    BY <1>1, <1>2, <1>3, <1>4, Zenon

(* The memory itself, where nothing is undone. *)
LEMMA ObjectUndone ==
  ASSUME IsrInv, pc \notin {"getRotate", "getLoad", "getStore", "putRotate", "putLoad", "putStore"}
  PROVE  /\ Undone = Object /\ SoundObject(Object)
         /\ slots \in [Slot -> Data \cup {NoData}] /\ writePtr \in Slot /\ readPtr \in Slot
         /\ msgCount \in 0 .. QueueLen
         /\ msgCount \in {0, QueueLen} => writePtr = readPtr
  <1>1. Undone = Object /\ SoundObject(Object)
    BY DEF Undone, Object, IsrInv
  <1>2. /\ slots \in [Slot -> Data \cup {NoData}] /\ writePtr \in Slot /\ readPtr \in Slot
        /\ msgCount \in 0 .. QueueLen
        /\ writePtr = Wrapped(readPtr + msgCount)
    BY <1>1 DEF SoundObject, Objects, Object, At
  <1> QED
    BY <1>1, <1>2, QueueLenAssumption DEF Wrapped, Slot

LEMMA IsrInitial == IsrInit => IsrInv
  <1> SUFFICES ASSUME IsrInit PROVE IsrInv
    OBVIOUS
  <1>1. SoundObject(Undone)
    BY QueueLenAssumption DEF IsrInit, Undone, SoundObject, Objects, At, Wrapped, Slot
  <1>2. Items(Undone) = <<>>
    BY DEF IsrInit, Undone, Items
  <1> QED
    BY <1>1, <1>2 DEF IsrInit, IsrInv, MainPoint, GetUnderway, PutUnderway, GetPoint, PutPoint, Put, Got

(* A step that changes neither the undone object nor the books. *)
LEMMA NothingCounted ==
  ASSUME IsrInv, Undone' = Undone, UNCHANGED <<valid, Put, Got, accepted, received>>,
         pc' \in MainPoint, GetUnderway', PutUnderway'
  PROVE  IsrInv'
  BY DEF IsrInv

USE DEF Goto, Silent, GetPoint, PutPoint

LEMMA GetTestInv == IsrInv /\ GetTest => IsrInv'
  <1> SUFFICES ASSUME IsrInv, GetTest PROVE IsrInv'
    OBVIOUS
  <1>1. Undone' = Undone /\ UNCHANGED <<Put, Got>>
    BY DEF GetTest, Undone, queueVars, Put, Got
  <1>2. GetUnderway' /\ PutUnderway'
    BY DEF GetTest, GetUnderway, PutUnderway, Object, queueVars
  <1> QED
    BY <1>1, <1>2, NothingCounted DEF GetTest, queueVars, MainPoint

LEMMA GetCopyInv == IsrInv /\ GetCopy => IsrInv'
  <1> SUFFICES ASSUME IsrInv, GetCopy PROVE IsrInv'
    OBVIOUS
  <1>1. Undone' = Undone /\ UNCHANGED <<Put, Got>>
    BY DEF GetCopy, Undone, Put, Got
  <1>2. GetUnderway' /\ PutUnderway'
    BY DEF GetCopy, GetUnderway, PutUnderway, IsrInv
  <1> QED
    BY <1>1, <1>2, NothingCounted DEF GetCopy, MainPoint

LEMMA GetBumpInv == IsrInv /\ GetBump => IsrInv'
  <1> SUFFICES ASSUME IsrInv, GetBump PROVE IsrInv'
    OBVIOUS
  <1>1. Undone' = Undone /\ UNCHANGED <<Put, Got>>
    BY DEF GetBump, Undone, Put, Got, IsrInv, GetUnderway
  <1>2. GetUnderway' /\ PutUnderway'
    BY DEF GetBump, GetUnderway, PutUnderway, IsrInv
  <1> QED
    BY <1>1, <1>2, NothingCounted DEF GetBump, MainPoint

LEMMA GetRotateInv == IsrInv /\ GetRotate => IsrInv'
  <1> SUFFICES ASSUME IsrInv, GetRotate PROVE IsrInv'
    OBVIOUS
  <1>1. Undone' = Undone /\ UNCHANGED <<Put, Got>>
    BY DEF GetRotate, Undone, Put, Got
  <1>2. GetUnderway' /\ PutUnderway'
    BY DEF GetRotate, GetUnderway, PutUnderway, IsrInv, Advance
  <1> QED
    BY <1>1, <1>2, NothingCounted DEF GetRotate, MainPoint

LEMMA GetLoadInv == IsrInv /\ GetLoad => IsrInv'
  <1> SUFFICES ASSUME IsrInv, GetLoad PROVE IsrInv'
    OBVIOUS
  <1>1. Undone' = Undone /\ UNCHANGED <<Put, Got>>
    BY DEF GetLoad, Undone, Put, Got
  <1>2. GetUnderway' /\ PutUnderway'
    BY DEF GetLoad, GetUnderway, PutUnderway, IsrInv
  <1> QED
    BY <1>1, <1>2, NothingCounted DEF GetLoad, MainPoint

(* Storing the counter is the step that takes the element out. *)
LEMMA GetStoreDequeues ==
  ASSUME IsrInv, GetStore
  PROVE  /\ Undone' = Dequeued(Undone) /\ Undone.msgCount # 0
         /\ buf' = Undone.slots[Undone.readPtr] /\ Undone.slots = slots
         /\ msgCount' = msgCount - 1
  <1>1. /\ msgCount # 0 /\ countReg = msgCount /\ buf = slots[before.readPtr]
        /\ readPtr = Advance(before.readPtr) /\ msgCount \in 0 .. QueueLen
    BY DEF IsrInv, GetStore, GetUnderway, SoundObject, Objects, Undone
  <1>2. msgCount' = msgCount - 1
    BY <1>1, QueueLenAssumption, CountModAssumption DEF GetStore
  <1> QED
    BY <1>1, <1>2 DEF GetStore, Undone, Dequeued

LEMMA GetStoreInv == IsrInv /\ GetStore => IsrInv'
  <1> SUFFICES ASSUME IsrInv, GetStore PROVE IsrInv'
    OBVIOUS
  <1>1. /\ SoundObject(Undone') /\ buf' \in Data
        /\ Items(Undone) = <<buf'>> \o Items(Undone') /\ Items(Undone') \in Seq(Data)
    BY GetStoreDequeues, DequeuedTakesHead, ItemsSeq DEF IsrInv
  <1>2. Got' = Append(Got, buf') /\ Put' = Put /\ Got \in Seq(Data)
    BY DEF GetStore, Got, Put, IsrInv
  <1>3. Put' = Got' \o Items(Undone')
    <2>1. Got \o (<<buf'>> \o Items(Undone')) = Append(Got, buf') \o Items(Undone')
      BY <1>1, <1>2, AppendToConcat
    <2> QED
      BY <2>1, <1>1, <1>2 DEF IsrInv
  <1>4. GetUnderway' /\ PutUnderway'
    BY <1>1 DEF GetStore, GetUnderway, PutUnderway
  <1> QED
    BY <1>1, <1>3, <1>4 DEF IsrInv, GetStore, MainPoint

LEMMA GetCheckInv == IsrInv /\ GetCheck => IsrInv'
  <1> SUFFICES ASSUME IsrInv, GetCheck PROVE IsrInv'
    OBVIOUS
  <1>1. msgCount = 0 => writePtr = readPtr
    BY ObjectUndone DEF GetCheck
  <1>2. received' = Append(received, buf) /\ buf \in Data
    BY <1>1 DEF GetCheck, IsrInv, GetUnderway
  <1>3. Undone' = Undone /\ UNCHANGED <<Put, Got>> /\ received' \in Seq(Data)
    BY <1>2 DEF GetCheck, Undone, Put, Got, IsrInv
  <1>4. GetUnderway' /\ PutUnderway'
    BY DEF GetCheck, GetUnderway, PutUnderway
  <1> QED
    BY <1>3, <1>4 DEF IsrInv, GetCheck, MainPoint

LEMMA PutTestInv == ASSUME NEW d \in Data PROVE IsrInv /\ PutTest(d) => IsrInv'
  <1> SUFFICES ASSUME IsrInv, PutTest(d) PROVE IsrInv'
    OBVIOUS
  <1>1. Undone' = Undone /\ UNCHANGED <<Put, Got>>
    BY DEF PutTest, Undone, queueVars, Put, Got
  <1>2. GetUnderway' /\ PutUnderway'
    BY DEF PutTest, GetUnderway, PutUnderway, Object, queueVars
  <1> QED
    BY <1>1, <1>2, NothingCounted DEF PutTest, queueVars, MainPoint

LEMMA PutCopyInv == IsrInv /\ PutCopy => IsrInv'
  <1> SUFFICES ASSUME IsrInv, PutCopy PROVE IsrInv'
    OBVIOUS
  <1>1. /\ msgCount # QueueLen /\ buf \in Data /\ writePtr = before.writePtr
        /\ slots \in [Slot -> Data \cup {NoData}] /\ writePtr \in Slot
    BY ObjectUndone DEF IsrInv, PutCopy, PutUnderway
  <1>2. /\ Undone' = [Undone EXCEPT !.slots = [Undone.slots EXCEPT ![Undone.writePtr] = buf]]
        /\ Undone.msgCount # QueueLen
    BY <1>1 DEF PutCopy, Undone
  <1>3. SoundObject(Undone') /\ Items(Undone') = Items(Undone)
    BY <1>1, <1>2, FreeSlotWritten DEF IsrInv
  <1>4. UNCHANGED <<Put, Got>>
    BY DEF PutCopy, Put, Got
  <1>5. GetUnderway' /\ PutUnderway'
    BY <1>1 DEF PutCopy, GetUnderway, PutUnderway, IsrInv
  <1> QED
    BY <1>3, <1>4, <1>5 DEF IsrInv, PutCopy, MainPoint

LEMMA PutBumpInv == IsrInv /\ PutBump => IsrInv'
  <1> SUFFICES ASSUME IsrInv, PutBump PROVE IsrInv'
    OBVIOUS
  <1>1. Undone' = Undone /\ UNCHANGED <<Put, Got>>
    BY DEF PutBump, Undone, Put, Got, IsrInv, PutUnderway
  <1>2. GetUnderway' /\ PutUnderway'
    BY DEF PutBump, GetUnderway, PutUnderway, IsrInv
  <1> QED
    BY <1>1, <1>2, NothingCounted DEF PutBump, MainPoint

LEMMA PutRotateInv == IsrInv /\ PutRotate => IsrInv'
  <1> SUFFICES ASSUME IsrInv, PutRotate PROVE IsrInv'
    OBVIOUS
  <1>1. Undone' = Undone /\ UNCHANGED <<Put, Got>>
    BY DEF PutRotate, Undone, Put, Got
  <1>2. GetUnderway' /\ PutUnderway'
    BY DEF PutRotate, GetUnderway, PutUnderway, IsrInv, Advance
  <1> QED
    BY <1>1, <1>2, NothingCounted DEF PutRotate, MainPoint

LEMMA PutLoadInv == IsrInv /\ PutLoad => IsrInv'
  <1> SUFFICES ASSUME IsrInv, PutLoad PROVE IsrInv'
    OBVIOUS
  <1>1. Undone' = Undone /\ UNCHANGED <<Put, Got>>
    BY DEF PutLoad, Undone, Put, Got
  <1>2. GetUnderway' /\ PutUnderway'
    BY DEF PutLoad, GetUnderway, PutUnderway, IsrInv
  <1> QED
    BY <1>1, <1>2, NothingCounted DEF PutLoad, MainPoint

(* Storing the counter is the step that puts the element in. *)
LEMMA PutStoreCountEnqueues ==
  ASSUME IsrInv, PutStoreCount
  PROVE  /\ Undone' = Enqueued(Undone, buf) /\ Undone.msgCount # QueueLen /\ buf \in Data
         /\ msgCount' = msgCount + 1 /\ Undone.slots = slots
  <1>1. /\ msgCount # QueueLen /\ countReg = msgCount /\ slots[before.writePtr] = buf /\ buf \in Data
        /\ writePtr = Advance(before.writePtr) /\ msgCount \in 0 .. QueueLen
        /\ slots \in [Slot -> Data \cup {NoData}]
    BY DEF IsrInv, PutStoreCount, PutUnderway, SoundObject, Objects, Undone
  <1>2. msgCount' = msgCount + 1
    BY <1>1, QueueLenAssumption, SmallCount DEF PutStoreCount
  <1>3. slots = [slots EXCEPT ![before.writePtr] = buf]
    BY <1>1
  <1> QED
    BY <1>1, <1>2, <1>3 DEF PutStoreCount, Undone, Enqueued

LEMMA PutStoreCountInv == IsrInv /\ PutStoreCount => IsrInv'
  <1> SUFFICES ASSUME IsrInv, PutStoreCount PROVE IsrInv'
    OBVIOUS
  <1>1. /\ SoundObject(Undone') /\ Items(Undone') = Append(Items(Undone), buf) /\ buf \in Data
        /\ Items(Undone) \in Seq(Data)
    BY PutStoreCountEnqueues, EnqueuedAppends, ItemsSeq DEF IsrInv
  <1>2. Put' = Append(Put, buf) /\ Got' = Got /\ Got \in Seq(Data)
    BY DEF PutStoreCount, Got, Put, IsrInv
  <1>3. Put' = Got' \o Items(Undone')
    <2>1. Append(Got \o Items(Undone), buf) = Got \o Append(Items(Undone), buf)
      BY <1>1, <1>2, AppendToConcat
    <2> QED
      BY <2>1, <1>1, <1>2 DEF IsrInv
  <1>4. GetUnderway' /\ PutUnderway'
    BY <1>1 DEF PutStoreCount, GetUnderway, PutUnderway
  <1> QED
    BY <1>1, <1>3, <1>4 DEF IsrInv, PutStoreCount, MainPoint

LEMMA PutCheckInv == IsrInv /\ PutCheck => IsrInv'
  <1> SUFFICES ASSUME IsrInv, PutCheck PROVE IsrInv'
    OBVIOUS
  <1>1. msgCount = QueueLen => writePtr = readPtr
    BY ObjectUndone DEF PutCheck
  <1>2. accepted' = Append(accepted, buf) /\ buf \in Data
    BY <1>1 DEF PutCheck, IsrInv, PutUnderway
  <1>3. Undone' = Undone /\ UNCHANGED <<Put, Got>> /\ accepted' \in Seq(Data)
    BY <1>2 DEF PutCheck, Undone, Put, Got, IsrInv
  <1>4. GetUnderway' /\ PutUnderway'
    BY DEF PutCheck, GetUnderway, PutUnderway
  <1> QED
    BY <1>3, <1>4 DEF IsrInv, PutCheck, MainPoint

(* The whole put of an interrupt at a point where the memory is the undone object. *)
LEMMA InterruptInv ==
  ASSUME IrqPoints \subseteq SafePoint, NEW d \in Data
  PROVE  IsrInv /\ Interrupt(d) => IsrInv'
  <1> SUFFICES ASSUME IsrInv, Interrupt(d) PROVE IsrInv'
    OBVIOUS
  <1>1. pc \in SafePoint /\ pc' = pc /\ UNCHANGED <<buf, countReg, before, received>>
    BY DEF Interrupt
  <1>2. /\ Undone = Object /\ Undone' = Object' /\ SoundObject(Object)
        /\ slots \in [Slot -> Data \cup {NoData}] /\ writePtr \in Slot /\ readPtr \in Slot
        /\ msgCount \in 0 .. QueueLen
    BY <1>1, ObjectUndone DEF SafePoint, Undone, Object
  <1>3. CASE PutFull
    <2>1. Undone' = Undone /\ UNCHANGED <<Put, Got, accepted>>
      BY <1>1, <1>2, <1>3 DEF PutFull, Interrupt, Object, Put, Got
    <2>2. GetUnderway' /\ PutUnderway'
      BY <1>1, <1>3 DEF PutFull, GetUnderway, PutUnderway, IsrInv, SafePoint
    <2> QED
      BY <1>1, <1>3, <2>1, <2>2, NothingCounted DEF IsrInv, PutFull
  <1>4. CASE PutStore(d)
    <2>1. msgCount \in 0 .. QueueLen - 1 /\ msgCount' = msgCount + 1
      BY <1>2, <1>4, QueueLenAssumption, SmallCount DEF PutStore
    <2>2. Object' = Enqueued(Object, d) /\ Object.msgCount # QueueLen
      BY <1>4, <2>1 DEF PutStore, Object, Enqueued
    <2>3. /\ SoundObject(Object') /\ Items(Object') = Append(Items(Object), d)
          /\ Items(Object) \in Seq(Data)
      BY <1>2, <2>2, EnqueuedAppends, ItemsSeq
    <2>4. accepted' = Append(accepted, d)
      <3>1. Object'.writePtr = Wrapped(Object'.readPtr + Object'.msgCount)
        BY <2>3 DEF SoundObject, At
      <3>2. writePtr' = Wrapped(readPtr + msgCount') /\ readPtr' = readPtr
        BY <3>1, <1>4 DEF Object, PutStore
      <3>3. msgCount' = QueueLen => writePtr' = readPtr'
        BY <3>2, <1>2, QueueLenAssumption DEF Wrapped, Slot
      <3> QED
        BY <1>4, <3>3 DEF PutStore, Interrupt
    <2>5. Put' = Append(Put, d) /\ Got' = Got /\ Got \in Seq(Data)
      BY <1>1, <2>4 DEF SafePoint, Put, Got, IsrInv, GetUnderway
    <2>6. Put' = Got' \o Items(Undone')
      <3>1. Append(Got \o Items(Object), d) = Got \o Append(Items(Object), d)
        BY <2>3, <2>5, AppendToConcat
      <3> QED
        BY <3>1, <1>2, <2>3, <2>5 DEF IsrInv
    <2>7. GetUnderway'
      <3>1. pc = "getBump" => slots'[before.readPtr] = slots[before.readPtr]
        <4> SUFFICES ASSUME pc = "getBump" PROVE slots'[readPtr] = slots[readPtr]
          BY DEF IsrInv, GetUnderway
        <4>1. msgCount # 0 /\ At(Object, 0) # writePtr
          <5>1. 0 \in 0 .. Object.msgCount - 1 /\ Object.writePtr = writePtr /\ msgCount # 0
            BY <1>2 DEF IsrInv, GetUnderway, Object
          <5> QED
            BY <5>1, <1>2, <2>2, FreeSlot
        <4>2. At(Object, 0) = readPtr
          BY <1>2, QueueLenAssumption DEF At, Object, Wrapped, Slot
        <4> QED
          BY <1>2, <1>4, <4>1, <4>2 DEF PutStore
      <3> QED
        BY <1>1, <1>4, <2>1, <3>1 DEF PutStore, IsrInv, GetUnderway, SafePoint
    <2>8. PutUnderway' /\ accepted' \in Seq(Data)
      BY <1>1, <2>4 DEF PutUnderway, SafePoint, IsrInv
    <2> QED
      BY <1>1, <1>2, <1>4, <2>3, <2>6, <2>7, <2>8 DEF IsrInv, PutStore
  <1> QED
    BY <1>3, <1>4 DEF Interrupt, staticQueuePut

LEMMA RefusalInv == IsrInv /\ (GetTestEmpty \/ PutTestFull) => IsrInv'
  <1> SUFFICES ASSUME IsrInv, GetTestEmpty \/ PutTestFull PROVE IsrInv'
    OBVIOUS
  <1>1. UNCHANGED <<valid, slots, writePtr, readPtr, msgCount, pc, buf, countReg, before,
                    accepted, received>>
    BY DEF GetTestEmpty, PutTestFull, GetEmpty, PutFull
  <1>2. Undone' = Undone /\ UNCHANGED <<Put, Got>>
    BY <1>1 DEF Undone, Put, Got
  <1>3. GetUnderway' /\ PutUnderway'
    BY <1>1 DEF IsrInv, GetUnderway, PutUnderway
  <1> QED
    BY <1>1, <1>2, <1>3 DEF IsrInv

LEMMA IsrStep ==
  ASSUME IrqPoints \subseteq SafePoint
  PROVE  IsrInv /\ [IsrNext]_isrVars => IsrInv'
  <1> SUFFICES ASSUME IsrInv, [IsrNext]_isrVars PROVE IsrInv'
    OBVIOUS
  <1>1. CASE MainGet
    BY <1>1, RefusalInv, GetTestInv, GetCopyInv, GetBumpInv, GetRotateInv, GetLoadInv,
       GetStoreInv, GetCheckInv DEF MainGet
  <1>2. CASE MainPut
    BY <1>2, RefusalInv, PutTestInv, PutCopyInv, PutBumpInv, PutRotateInv, PutLoadInv,
       PutStoreCountInv, PutCheckInv DEF MainPut
  <1>3. ASSUME NEW d \in Data, Interrupt(d) PROVE IsrInv'
    BY <1>3, InterruptInv
  <1>4. CASE UNCHANGED isrVars
    <2>1. Undone' = Undone /\ UNCHANGED <<Put, Got>>
      BY <1>4 DEF isrVars, Undone, Put, Got
    <2>2. GetUnderway' /\ PutUnderway'
      BY <1>4 DEF IsrInv, GetUnderway, PutUnderway, isrVars
    <2> QED
      BY <1>4, <2>1, <2>2 DEF IsrInv, isrVars
  <1> QED
    BY <1>1, <1>2, <1>3, <1>4 DEF IsrNext

(* An interrupt handler may put an element between two operations of the main
   context, before a get has moved the read index, and between its last store and
   its corruption test: nothing is lost, altered or delivered out of order
   (staticQueue.c:77-138, eventFw.h:8-10).  At every other point of a put or a get
   it may not: StaticQueueIsrPreempted.cfg. *)
THEOREM SafeInterruptsDeliver ==
  ASSUME IrqPoints \subseteq SafePoint
  PROVE  IsrSpec => []AcceptedDelivered
  <1>1. IsrInv => AcceptedDelivered
    BY DEF IsrInv, AcceptedDelivered, Put, Got, Undone, Items, At, Contents, Position
  <1>2. IsrInv /\ [IsrNext]_isrVars => IsrInv'
    BY IsrStep
  <1> QED
    BY <1>1, <1>2, IsrInitial, PTL DEF IsrSpec

-----------------------------------------------------------------------------
(* With the interrupt masked during an operation, the memory accesses of the main
   context add up to the atomic operations: "before" is the undone object until the
   counter is stored, and the operation has been applied to it afterwards. *)
BeforeInv ==
  /\ pc \in GetPoint => before = Undone
  /\ pc = "getCheck" => /\ Undone = Dequeued(before) /\ before.msgCount # 0
                        /\ buf = before.slots[before.readPtr]
  /\ pc = "putCopy" => before = Undone
  /\ pc \in PutPoint \ {"putCopy"} =>
       /\ before = [Undone EXCEPT !.slots = before.slots]
       /\ slots = [before.slots EXCEPT ![before.writePtr] = buf]
  /\ pc = "putCheck" => Undone = Enqueued(before, buf) /\ before.msgCount # QueueLen

LEMMA BeforeGet ==
  ASSUME IsrInv, BeforeInv, MainGet
  PROVE  BeforeInv'
  <1>1. CASE GetTestEmpty
    BY <1>1 DEF GetTestEmpty, GetEmpty, BeforeInv
  <1>2. CASE GetTest
    BY <1>2 DEF GetTest, BeforeInv, Undone, Object, queueVars
  <1>3. CASE GetCopy
    BY <1>3 DEF GetCopy, BeforeInv, Undone
  <1>4. CASE GetBump
    BY <1>4 DEF GetBump, BeforeInv, Undone
  <1>5. CASE GetRotate
    BY <1>5 DEF GetRotate, BeforeInv, Undone
  <1>6. CASE GetLoad
    BY <1>6 DEF GetLoad, BeforeInv, Undone
  <1>7. CASE GetStore
    BY <1>7, GetStoreDequeues DEF GetStore, BeforeInv
  <1>8. CASE GetCheck
    BY <1>8 DEF GetCheck, BeforeInv
  <1> QED
    BY <1>1, <1>2, <1>3, <1>4, <1>5, <1>6, <1>7, <1>8 DEF MainGet

LEMMA BeforePut ==
  ASSUME IsrInv, BeforeInv, MainPut
  PROVE  BeforeInv'
  <1>1. CASE PutTestFull
    BY <1>1 DEF PutTestFull, PutFull, BeforeInv
  <1>2. ASSUME NEW d \in Data, PutTest(d) PROVE BeforeInv'
    BY <1>2 DEF PutTest, BeforeInv, Undone, Object, queueVars
  <1>3. CASE PutCopy
    <2>1. before = [slots |-> slots, writePtr |-> writePtr, readPtr |-> readPtr, msgCount |-> msgCount]
      BY <1>3 DEF PutCopy, BeforeInv, Undone
    <2>2. Undone' = [slots |-> slots', writePtr |-> writePtr, readPtr |-> readPtr, msgCount |-> msgCount]
      BY <1>3 DEF PutCopy, Undone
    <2>3. before' = [Undone' EXCEPT !.slots = before'.slots]
      BY <1>3, <2>1, <2>2 DEF PutCopy
    <2>4. slots' = [before'.slots EXCEPT ![before'.writePtr] = buf']
      BY <1>3, <2>1 DEF PutCopy
    <2> QED
      BY <1>3, <2>3, <2>4 DEF PutCopy, BeforeInv
  <1>4. CASE PutBump
    BY <1>4 DEF PutBump, BeforeInv, Undone
  <1>5. CASE PutRotate
    BY <1>5 DEF PutRotate, BeforeInv, Undone
  <1>6. CASE PutLoad
    BY <1>6 DEF PutLoad, BeforeInv, Undone
  <1>7. CASE PutStoreCount
    BY <1>7, PutStoreCountEnqueues DEF PutStoreCount, BeforeInv, Undone, Enqueued
  <1>8. CASE PutCheck
    BY <1>8 DEF PutCheck, BeforeInv
  <1> QED
    BY <1>1, <1>2, <1>3, <1>4, <1>5, <1>6, <1>7, <1>8 DEF MainPut

LEMMA BeforeStep ==
  ASSUME IrqPoints \subseteq {"idle"}, IsrInv, BeforeInv, [IsrNext]_isrVars
  PROVE  BeforeInv'
  <1>1. CASE MainGet
    BY <1>1, BeforeGet
  <1>2. CASE MainPut
    BY <1>2, BeforePut
  <1>3. ASSUME NEW d \in Data, Interrupt(d) PROVE BeforeInv'
    BY <1>3 DEF Interrupt, BeforeInv
  <1>4. CASE UNCHANGED isrVars
    BY <1>4 DEF isrVars, queueVars, BeforeInv, Undone
  <1> QED
    BY <1>1, <1>2, <1>3, <1>4 DEF IsrNext

(* A step of an operation that callers do not see. *)
LEMMA Unseen ==
  ASSUME UNCHANGED <<valid, highMark, dropCount, reply>>, Seen' = Seen
  PROVE  UNCHANGED Atomic!queueVars
  BY DEF Atomic!queueVars

LEMMA SeenObject ==
  ASSUME pc = "idle"
  PROVE  /\ Seen = Object
         /\ Seen.slots = slots /\ Seen.writePtr = writePtr /\ Seen.readPtr = readPtr
         /\ Seen.msgCount = msgCount
  BY DEF Seen, Object

LEMMA NextSeenObject ==
  ASSUME pc' = "idle"
  PROVE  /\ Seen' = Object'
         /\ Seen.slots' = slots' /\ Seen.writePtr' = writePtr' /\ Seen.readPtr' = readPtr'
         /\ Seen.msgCount' = msgCount'
  BY DEF Seen, Object

LEMMA GetEmptySeen ==
  ASSUME GetEmpty, pc = "idle", pc' = "idle"
  PROVE  Atomic!Next
  <1>1. Atomic!GetEmpty
    BY SeenObject, NextSeenObject DEF GetEmpty, Atomic!GetEmpty, Atomic!Answer
  <1> QED
    BY <1>1 DEF Atomic!Next, Atomic!staticQueueGet

LEMMA PutFullSeen ==
  ASSUME PutFull, pc = "idle", pc' = "idle", Data # {}
  PROVE  Atomic!Next
  <1>1. Atomic!PutFull
    BY SeenObject, NextSeenObject DEF PutFull, Atomic!PutFull, Atomic!Answer
  <1> QED
    BY <1>1 DEF Atomic!Next, Atomic!staticQueuePut

LEMMA GetFetchSeen ==
  ASSUME IsrInv, BeforeInv, GetCheck
  PROVE  Atomic!Next
  <1>1. /\ pc = "getCheck" /\ pc' = "idle" /\ Undone = Object /\ valid
        /\ Object = Dequeued(before) /\ before.msgCount # 0 /\ buf = before.slots[before.readPtr]
    BY ObjectUndone DEF GetCheck, BeforeInv, IsrInv
  <1>2. /\ Seen.slots = before.slots /\ Seen.writePtr = before.writePtr
        /\ Seen.readPtr = before.readPtr /\ Seen.msgCount = before.msgCount
    BY <1>1 DEF Seen
  <1>3. /\ slots = before.slots /\ writePtr = before.writePtr
        /\ readPtr = Advance(before.readPtr) /\ msgCount = before.msgCount - 1
    BY <1>1 DEF Object, Dequeued
  <1>4. /\ Seen.slots' = slots /\ Seen.writePtr' = writePtr
        /\ Seen.readPtr' = readPtr /\ Seen.msgCount' = msgCount
    BY <1>1, NextSeenObject DEF GetCheck
  <1>5. Atomic!GetFetch
    BY <1>1, <1>2, <1>3, <1>4 DEF GetCheck, Atomic!GetFetch, Atomic!Answer, Atomic!Advance, Advance
  <1> QED
    BY <1>5 DEF Atomic!Next, Atomic!staticQueueGet

LEMMA PutStoreSeen ==
  ASSUME IsrInv, BeforeInv, PutCheck
  PROVE  Atomic!Next
  <1>1. /\ pc = "putCheck" /\ pc' = "idle" /\ Undone = Object /\ valid /\ buf \in Data
        /\ Object = Enqueued(before, buf) /\ before.msgCount # QueueLen
    BY ObjectUndone DEF PutCheck, BeforeInv, IsrInv, PutUnderway
  <1>2. /\ Seen.slots = before.slots /\ Seen.writePtr = before.writePtr
        /\ Seen.readPtr = before.readPtr /\ Seen.msgCount = before.msgCount
    BY <1>1 DEF Seen
  <1>3. /\ slots = [before.slots EXCEPT ![before.writePtr] = buf]
        /\ writePtr = Advance(before.writePtr)
        /\ readPtr = before.readPtr /\ msgCount = before.msgCount + 1
    BY <1>1 DEF Object, Enqueued
  <1>4. /\ Seen.slots' = slots /\ Seen.writePtr' = writePtr
        /\ Seen.readPtr' = readPtr /\ Seen.msgCount' = msgCount
    BY <1>1, NextSeenObject DEF PutCheck
  <1>5. msgCount = (before.msgCount + 1) % CountMod
    BY <1>1, <1>3, ObjectUndone, CountModAssumption, QueueLenAssumption, SmallCount
  <1>6. Atomic!PutStore(buf)
    BY <1>1, <1>2, <1>3, <1>4, <1>5 DEF PutCheck, Atomic!PutStore, Atomic!Answer, Atomic!Advance, Advance
  <1> QED
    BY <1>1, <1>6 DEF Atomic!Next, Atomic!staticQueuePut

LEMMA InterruptSeen ==
  ASSUME NEW d \in Data, Interrupt(d), pc = "idle"
  PROVE  Atomic!Next
  <1>1. pc' = "idle"
    BY DEF Interrupt
  <1>2. CASE PutFull
    BY <1>1, <1>2, PutFullSeen
  <1>3. CASE PutStore(d)
    <2>1. Atomic!PutStore(d)
      BY <1>1, <1>3, SeenObject, NextSeenObject
         DEF PutStore, Atomic!PutStore, Atomic!Answer, Atomic!Advance, Advance
    <2> QED
      BY <2>1 DEF Atomic!Next, Atomic!staticQueuePut
  <1> QED
    BY <1>2, <1>3 DEF Interrupt, staticQueuePut

LEMMA AtomicStep ==
  ASSUME IrqPoints \subseteq {"idle"}, IsrInv, BeforeInv, [IsrNext]_isrVars
  PROVE  [Atomic!Next]_(Atomic!queueVars)
  <1>1. CASE GetTestEmpty
    BY <1>1, GetEmptySeen DEF GetTestEmpty
  <1>2. CASE GetTest
    <2>1. Seen' = Seen
      BY <1>2 DEF GetTest, Seen, Object
    <2> QED
      BY <1>2, <2>1, Unseen DEF GetTest, queueVars
  <1>3. CASE GetCopy \/ GetBump \/ GetRotate \/ GetLoad \/ GetStore
    <2>1. Seen' = Seen
      BY <1>3 DEF GetCopy, GetBump, GetRotate, GetLoad, GetStore, Seen
    <2> QED
      BY <1>3, <2>1, Unseen DEF GetCopy, GetBump, GetRotate, GetLoad, GetStore
  <1>4. CASE GetCheck
    BY <1>4, GetFetchSeen
  <1>5. CASE PutTestFull
    <2>1. Data # {}
      <3>1. Undone.msgCount = QueueLen /\ SoundObject(Undone)
        BY <1>5 DEF PutTestFull, PutFull, Undone, IsrInv
      <3>2. Undone.slots[At(Undone, 0)] \in Data
        BY <3>1, QueueLenAssumption DEF SoundObject
      <3> QED
        BY <3>2
    <2> QED
      BY <1>5, <2>1, PutFullSeen DEF PutTestFull
  <1>6. ASSUME NEW d \in Data, PutTest(d) PROVE UNCHANGED Atomic!queueVars
    <2>1. Seen' = Seen
      BY <1>6 DEF PutTest, Seen, Object
    <2> QED
      BY <1>6, <2>1, Unseen DEF PutTest, queueVars
  <1>7. CASE PutCopy \/ PutBump \/ PutRotate \/ PutLoad \/ PutStoreCount
    <2>1. Seen' = Seen
      BY <1>7 DEF PutCopy, PutBump, PutRotate, PutLoad, PutStoreCount, Seen
    <2> QED
      BY <1>7, <2>1, Unseen DEF PutCopy, PutBump, PutRotate, PutLoad, PutStoreCount
  <1>8. CASE PutCheck
    BY <1>8, PutStoreSeen
  <1>9. ASSUME NEW d \in Data, Interrupt(d) PROVE Atomic!Next
    BY <1>9, InterruptSeen DEF Interrupt
  <1>10. CASE UNCHANGED isrVars
    <2>1. Seen' = Seen
      BY <1>10 DEF isrVars, queueVars, Seen, Object
    <2> QED
      BY <1>10, <2>1, Unseen DEF isrVars, queueVars
  <1> QED
    BY <1>1, <1>2, <1>3, <1>4, <1>5, <1>6, <1>7, <1>8, <1>9, <1>10 DEF IsrNext, MainGet, MainPut

(* With the interrupt masked while the main context is in the queue, its memory
   accesses add up to the atomic operations of StaticQueue, for every length of the
   queue: what lets the other modules treat a put or a get as one step
   (staticQueue.c:77-138). *)
THEOREM MaskedOperationsAreAtomic ==
  ASSUME IrqPoints \subseteq {"idle"}
  PROVE  IsrSpec => AtomicOperations
  <1>1. IrqPoints \subseteq SafePoint
    BY DEF SafePoint
  <1>2. IsrInit => IsrInv /\ BeforeInv
    BY IsrInitial DEF IsrInit, BeforeInv
  <1>3. IsrInv /\ BeforeInv /\ [IsrNext]_isrVars => IsrInv' /\ BeforeInv'
    BY <1>1, IsrStep, BeforeStep
  <1>4. IsrInv /\ BeforeInv /\ [IsrNext]_isrVars => [Atomic!Next]_(Atomic!queueVars)
    BY AtomicStep
  <1> QED
    BY <1>2, <1>3, <1>4, PTL DEF IsrSpec, AtomicOperations

=============================================================================
