------------------------------ MODULE BoundedFifo ------------------------------
(***************************************************************************)
(* What system-utilities-c/C_Libraries/staticQueue.h promises to a caller: *)
(* a queue object that, while it exists, is a bounded first-in first-out   *)
(* list.  A put on a full queue is refused and counted, a get on an empty  *)
(* queue is refused, and nothing else can happen.                          *)
(***************************************************************************)
EXTENDS Naturals, Sequences

CONSTANTS
  Data,       (* the elements a caller may enqueue                           *)
  NoData,     (* what a call that hands nothing back leaves with the caller  *)
  Capacity,   (* the queueLen given to staticQueueCreate                     *)
  CountMod    (* the drop counter is a UInt32_t: it wraps at this value      *)

VARIABLES
  open,       (* the caller holds a queue object                *)
  items,      (* the stored elements, oldest first              *)
  drops,      (* elements refused because the queue was full    *)
  reply       (* error code and data handed back by the last call *)

fifoVars == <<open, items, drops, reply>>

Answer(err, d) == [err |-> err, data |-> d]

Init ==
  /\ open = FALSE
  /\ items = <<>>
  /\ drops = 0
  /\ reply = Answer("E_SUCCESS", NoData)

Create ==
  /\ ~open
  /\ open' = TRUE
  /\ items' = <<>>
  /\ drops' = 0
  /\ reply' = Answer("E_SUCCESS", NoData)

Destroy ==
  /\ open
  /\ open' = FALSE
  /\ items' = <<>>
  /\ drops' = 0
  /\ reply' = Answer("E_SUCCESS", NoData)

(* Mutant: a put does not look whether the queue is full. *)
AcceptEvenFull(d) ==
  /\ open
  /\ items' = Append(items, d)
  /\ reply' = Answer("E_SUCCESS", NoData)
  /\ UNCHANGED <<open, drops>>

Accept(d) ==
  /\ open
  /\ Len(items) < Capacity
  /\ items' = Append(items, d)
  /\ reply' = Answer("E_SUCCESS", NoData)
  /\ UNCHANGED <<open, drops>>

Refuse ==
  /\ open
  /\ Len(items) = Capacity
  /\ drops' = (drops + 1) % CountMod
  /\ reply' = Answer("E_QUEUE_FULL", NoData)
  /\ UNCHANGED <<open, items>>

Deliver ==
  /\ open
  /\ items # <<>>
  /\ items' = Tail(items)
  /\ reply' = Answer("E_SUCCESS", Head(items))
  /\ UNCHANGED <<open, drops>>

Starve ==
  /\ open
  /\ items = <<>>
  /\ reply' = Answer("E_QUEUE_EMPTY", NoData)
  /\ UNCHANGED <<open, items, drops>>

(* a call without a queue object, or without a place for the element *)
NullArgument ==
  /\ reply' = Answer("E_NULL", NoData)
  /\ UNCHANGED <<open, items, drops>>

Next ==
  \/ Create \/ Destroy
  \/ \E d \in Data : Accept(d)
  \/ Refuse \/ Deliver \/ Starve \/ NullArgument

Spec == Init /\ [][Next]_fifoVars

=============================================================================
