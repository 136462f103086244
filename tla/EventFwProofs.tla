------------------------------ MODULE EventFwProofs ------------------------------
(***************************************************************************)
(* For any events, queue length, table size and heap, and interrupts at    *)
(* any program points but within eventFwInit: the queue never holds more   *)
(* than its length, parameters are owned by one event each,                *)
(* events are dispatched once and in order, and no corruption is answered. *)
(***************************************************************************)
EXTENDS EventFw, SequenceTheorems, TLAPS

USE DEF queue, setup, history

Generating == pc \in {"put", "undo"}
Held == {items[i].param : i \in DOMAIN items}

(* Beside the types: where the main context has an event in its hands, and that there
   is nothing to dispatch before the table exists. *)
Shape ==
  /\ TypeOK
  /\ pc = "put" => accepted < MaxAccepted
  /\ Generating => genEvt \in Event
  /\ InCallback => evt \in Event
  /\ ~table => registered = {} /\ items = <<>>
  /\ pc = "initTable" => ~table /\ open
  /\ table => open
  /\ open /\ pc # "initTable" => table

(* Every event on its way has a handler, and its parameter if it has one. *)
Complete(e) == e.id \in registered /\ (e.paramLen # 0 => e.param # NoBlock)

Handled ==
  /\ \A e \in registered : ~OutOfBounds(e)
  /\ \A i \in DOMAIN items : Complete(items[i])
  /\ Generating => Complete(genEvt)
  /\ InCallback => Complete(evt)

(* ParamsOwned by owner instead of by index. *)
Ownership ==
  /\ heap = (Held \cup (IF InCallback THEN {evt.param} ELSE {})
                  \cup (IF Generating THEN {genEvt.param} ELSE {})) \ {NoBlock}
  /\ \A i, k \in DOMAIN items : i # k /\ items[i].param = items[k].param => items[i].param = NoBlock
  /\ InCallback /\ evt.param \in Held => evt.param = NoBlock
  /\ Generating /\ genEvt.param \in Held => genEvt.param = NoBlock
  /\ InCallback /\ Generating /\ evt.param = genEvt.param => evt.param = NoBlock

Inv == Shape /\ Handled /\ Ownership /\ DispatchInOrder /\ ProcessNeverBug

-----------------------------------------------------------------------------
(* The queue as a sequence of events. *)
LEMMA Indices ==
  ASSUME TypeOK
  PROVE  DOMAIN items = 1 .. Len(items) /\ Len(items) \in Nat
  BY DEF TypeOK

LEMMA Appended ==
  ASSUME TypeOK, NEW e \in Event, items' = Append(items, e)
  PROVE  /\ items' \in Seq(Event)
         /\ Len(items') = Len(items) + 1
         /\ DOMAIN items' = 1 .. Len(items) + 1
         /\ \A i \in 1 .. Len(items) : items'[i] = items[i]
         /\ items'[Len(items) + 1] = e
         /\ Held' = Held \cup {e.param}
  <1>1. items \in Seq(Event)
    BY DEF TypeOK
  <1>2. /\ items' \in Seq(Event) /\ Len(items') = Len(items) + 1
        /\ \A i \in 1 .. Len(items) : items'[i] = items[i]
        /\ items'[Len(items) + 1] = e
        /\ DOMAIN items' = 1 .. Len(items) + 1 /\ DOMAIN items = 1 .. Len(items) /\ Len(items) \in Nat
    BY <1>1, AppendProperties, LenProperties
  <1>3. Held' = Held \cup {e.param}
    BY <1>2 DEF Held
  <1> QED
    BY <1>2, <1>3

LEMMA Taken ==
  ASSUME TypeOK, items # <<>>, items' = Tail(items)
  PROVE  /\ items' \in Seq(Event) /\ Head(items) \in Event
         /\ Len(items') = Len(items) - 1 /\ Len(items) >= 1
         /\ DOMAIN items' = 1 .. Len(items) - 1
         /\ \A i \in DOMAIN items' : items'[i] = items[i + 1] /\ i + 1 \in DOMAIN items
         /\ Head(items) = items[1] /\ 1 \in DOMAIN items
         /\ Held = Held' \cup {Head(items).param}
  <1>1. items \in Seq(Event)
    BY DEF TypeOK
  <1>2. /\ items' \in Seq(Event) /\ Head(items) \in Event /\ Len(items') = Len(items) - 1
        /\ Len(items) \in Nat /\ Len(items) >= 1
        /\ DOMAIN items' = 1 .. Len(items) - 1 /\ DOMAIN items = 1 .. Len(items)
        /\ \A i \in 1 .. Len(items) - 1 : items'[i] = items[i + 1]
        /\ Head(items) = items[1]
    BY <1>1, HeadTailProperties, LenProperties, EmptySeq
  <1>3. \A i \in DOMAIN items : i = 1 \/ (i - 1 \in DOMAIN items' /\ items'[i - 1] = items[i])
    BY <1>2
  <1>4. Held = Held' \cup {Head(items).param}
    <2>1. \A p \in Held' : p \in Held
      BY <1>2 DEF Held
    <2>2. Head(items).param \in Held
      BY <1>2 DEF Held
    <2>3. \A p \in Held : p \in Held' \cup {Head(items).param}
      <3> SUFFICES ASSUME NEW i \in DOMAIN items
                   PROVE  items[i].param \in Held' \cup {Head(items).param}
        BY DEF Held
      <3>1. CASE i = 1
        BY <1>2, <3>1
      <3>2. CASE i # 1
        <4>1. i - 1 \in DOMAIN items' /\ items'[i - 1] = items[i]
          BY <1>3, <3>2
        <4>2. items'[i - 1].param \in Held'
          BY <4>1 DEF Held
        <4> QED
          BY <4>1, <4>2
      <3> QED
        BY <3>1, <3>2
    <2> QED
      BY <2>1, <2>2, <2>3
  <1> QED
    BY <1>2, <1>4

LEMMA Joined ==
  ASSUME NEW S, NEW a \in Seq(S), NEW b \in Seq(S)
  PROVE  /\ a \o b \in Seq(S) /\ Len(a \o b) = Len(a) + Len(b)
         /\ \A i \in 1 .. Len(a) + Len(b) : (a \o b)[i] = IF i <= Len(a) THEN a[i] ELSE b[i - Len(a)]
  BY ConcatProperties

(* Ownership says what ParamsOwned says. *)
LEMMA OwnersAre ==
  ASSUME TypeOK
  PROVE  LET n == Len(items)
             c == IF InCallback THEN 1 ELSE 0
             g == IF Generating THEN 1 ELSE 0
         IN  /\ DOMAIN Owners = 1 .. n + c + g
             /\ \A i \in 1 .. n : Owners[i] = items[i]
             /\ InCallback => Owners[n + 1] = evt
             /\ Generating => Owners[n + c + 1] = genEvt
  <1>1. items \in Seq(Event)
    BY DEF TypeOK
  <1>2. items \in Seq(Event \cup {evt, genEvt})
    BY <1>1, SeqMonotonic
  <1> DEFINE S == Event \cup {evt, genEvt}
             x == IF InCallback THEN <<evt>> ELSE <<>>
             y == IF Generating THEN <<genEvt>> ELSE <<>>
  <1>3. /\ x \in Seq(S) /\ y \in Seq(S)
        /\ Len(x) = (IF InCallback THEN 1 ELSE 0) /\ Len(y) = (IF Generating THEN 1 ELSE 0)
        /\ InCallback => x[1] = evt
        /\ Generating => y[1] = genEvt
    <2>1. /\ <<>> \in Seq(S) /\ Len(<<>>) = 0
          /\ <<evt>> \in Seq(S) /\ <<genEvt>> \in Seq(S)
          /\ Len(<<evt>>) = 1 /\ Len(<<genEvt>>) = 1
          /\ <<evt>>[1] = evt /\ <<genEvt>>[1] = genEvt
      <3>1. evt \in S /\ genEvt \in S
        OBVIOUS
      <3> HIDE DEF S
      <3> QED BY <3>1
    <2> HIDE DEF S
    <2>2. CASE InCallback /\ Generating
      BY <2>1, <2>2
    <2>3. CASE InCallback /\ ~Generating
      BY <2>1, <2>3
    <2>4. CASE ~InCallback /\ Generating
      BY <2>1, <2>4
    <2>5. CASE ~InCallback /\ ~Generating
      BY <2>1, <2>5
    <2> QED
      BY <2>2, <2>3, <2>4, <2>5
  <1>4. Owners = (items \o x) \o y
    BY DEF Owners, Generating
  <1> HIDE DEF S, x, y
  <1>5. items \in Seq(S)
    BY <1>2 DEF S
  <1>6. /\ items \o x \in Seq(S) /\ Len(items \o x) = Len(items) + Len(x)
        /\ \A i \in 1 .. Len(items) + Len(x) :
             (items \o x)[i] = IF i <= Len(items) THEN items[i] ELSE x[i - Len(items)]
    BY <1>3, <1>5, ConcatProperties
  <1>7. /\ Owners \in Seq(S) /\ Len(Owners) = Len(items) + Len(x) + Len(y)
        /\ \A i \in 1 .. Len(items) + Len(x) + Len(y) :
             Owners[i] = IF i <= Len(items) + Len(x) THEN (items \o x)[i]
                                                     ELSE y[i - (Len(items) + Len(x))]
    <2> DEFINE z == items \o x
    <2>1. z \in Seq(S) /\ Len(z) = Len(items) + Len(x) /\ Owners = z \o y
      BY <1>4, <1>6
    <2>3. z \in Seq(S) /\ y \in Seq(S)
      BY <1>3, <2>1
    <2> HIDE DEF z
    <2>2. /\ z \o y \in Seq(S) /\ Len(z \o y) = Len(z) + Len(y)
          /\ \A i \in 1 .. Len(z) + Len(y) : (z \o y)[i] = IF i <= Len(z) THEN z[i] ELSE y[i - Len(z)]
      BY <2>3, Joined
    <2> QED
      BY <2>1, <2>2 DEF z
  <1>8. DOMAIN Owners = 1 .. Len(items) + Len(x) + Len(y) /\ Len(items) \in Nat
    BY <1>1, <1>7, LenProperties
  <1> DEFINE n == Len(items)
             c == Len(x)
  <1>9. \A i \in 1 .. n : Owners[i] = items[i]
    <2> SUFFICES ASSUME NEW i \in 1 .. n PROVE Owners[i] = items[i]
      OBVIOUS
    <2>1. n \in Nat /\ Len(x) \in {0, 1} /\ Len(y) \in {0, 1}
      BY <1>3, <1>8
    <2>2. i \in 1 .. Len(items) + Len(x) /\ i \in 1 .. Len(items) + Len(x) + Len(y)
          /\ i <= Len(items) /\ i <= Len(items) + Len(x)
      BY <2>1
    <2>3. (items \o x)[i] = items[i]
      BY <1>6, <2>2
    <2>4. Owners[i] = (items \o x)[i]
      BY <1>7, <2>2
    <2> QED
      BY <2>3, <2>4
  <1>10. InCallback => Owners[n + 1] = evt
    <2> SUFFICES ASSUME InCallback PROVE Owners[n + 1] = evt
      OBVIOUS
    <2>1. c = 1 /\ x[1] = evt /\ Len(y) \in {0, 1} /\ n \in Nat
      BY <1>3, <1>8
    <2>2. (items \o x)[n + 1] = x[1]
      BY <1>6, <2>1
    <2> QED
      <3>1. n + 1 \in 1 .. Len(items) + Len(x) + Len(y) /\ n + 1 <= Len(items) + Len(x)
        BY <2>1
      <3> QED
        BY <1>7, <2>1, <2>2, <3>1
  <1>11. Generating => Owners[n + c + 1] = genEvt
    <2> SUFFICES ASSUME Generating PROVE Owners[n + c + 1] = genEvt
      OBVIOUS
    <2>1. Len(y) = 1 /\ y[1] = genEvt /\ c \in {0, 1} /\ n \in Nat
      BY <1>3, <1>8
    <2> QED
      BY <1>7, <2>1
  <1> QED
    BY <1>3, <1>8, <1>9, <1>10, <1>11

LEMMA OwnershipIsParamsOwned ==
  ASSUME TypeOK, Ownership
  PROVE  ParamsOwned
  <1> DEFINE n == Len(items)
             c == IF InCallback THEN 1 ELSE 0
             g == IF Generating THEN 1 ELSE 0
  <1>1. /\ DOMAIN items = 1 .. n /\ n \in Nat /\ c \in {0, 1} /\ g \in {0, 1}
        /\ DOMAIN Owners = 1 .. n + c + g
        /\ \A i \in 1 .. n : Owners[i] = items[i]
        /\ InCallback => Owners[n + 1] = evt
        /\ Generating => Owners[n + c + 1] = genEvt
    BY Indices, OwnersAre
  <1>2. \A i \in DOMAIN Owners :
          \/ i \in DOMAIN items /\ Owners[i] = items[i]
          \/ InCallback /\ i = n + 1 /\ Owners[i] = evt
          \/ Generating /\ i = n + c + 1 /\ Owners[i] = genEvt
    <2> SUFFICES ASSUME NEW i \in DOMAIN Owners
                 PROVE  \/ i \in DOMAIN items /\ Owners[i] = items[i]
                        \/ InCallback /\ i = n + 1 /\ Owners[i] = evt
                        \/ Generating /\ i = n + c + 1 /\ Owners[i] = genEvt
      OBVIOUS
    <2> HIDE DEF n
    <2>1. i \in 1 .. n \/ (c = 1 /\ i = n + 1) \/ (g = 1 /\ i = n + c + 1)
      BY <1>1
    <2> QED
      BY <1>1, <2>1
  <1>3. heap = {Owners[i].param : i \in DOMAIN Owners} \ {NoBlock}
    <2> DEFINE P == {Owners[i].param : i \in DOMAIN Owners}
               R == Held \cup (IF InCallback THEN {evt.param} ELSE {})
                         \cup (IF Generating THEN {genEvt.param} ELSE {})
    <2>1. \A p \in P : p \in R
      BY <1>2 DEF Held
    <2>2. \A p \in Held : p \in P
      <3> SUFFICES ASSUME NEW i \in DOMAIN items PROVE items[i].param \in P
        BY DEF Held
      <3> HIDE DEF n, c, g
      <3>1. i \in 1 .. n + c + g /\ Owners[i] = items[i]
        BY <1>1
      <3> QED
        BY <1>1, <3>1
    <2>3. InCallback => evt.param \in P
      <3> SUFFICES ASSUME InCallback PROVE evt.param \in P
        OBVIOUS
      <3>1. n + 1 \in 1 .. n + c + g /\ Owners[n + 1] = evt
        BY <1>1
      <3> QED
        BY <1>1, <3>1
    <2>4. Generating => genEvt.param \in P
      <3> SUFFICES ASSUME Generating PROVE genEvt.param \in P
        OBVIOUS
      <3>1. n + c + 1 \in 1 .. n + c + g /\ Owners[n + c + 1] = genEvt
        BY <1>1
      <3> QED
        BY <1>1, <3>1
    <2> HIDE DEF P
    <2>5. P = R
      BY <2>1, <2>2, <2>3, <2>4
    <2> QED
      BY <2>5 DEF Ownership, P
  <1>4. \A i, j \in DOMAIN Owners :
          i # j /\ Owners[i].param = Owners[j].param => Owners[i].param = NoBlock
    <2> SUFFICES ASSUME NEW i \in DOMAIN Owners, NEW j \in DOMAIN Owners,
                        i # j, Owners[i].param = Owners[j].param
                 PROVE  Owners[i].param = NoBlock
      OBVIOUS
    <2> HIDE DEF n, c
    <2>1. \A k \in DOMAIN items : items[k].param \in Held
      BY DEF Held
    <2>2. CASE i \in DOMAIN items /\ Owners[i] = items[i]
      BY <1>2, <2>1, <2>2 DEF Ownership
    <2>3. CASE InCallback /\ i = n + 1 /\ Owners[i] = evt
      BY <1>2, <2>1, <2>3 DEF Ownership
    <2>4. CASE Generating /\ i = n + c + 1 /\ Owners[i] = genEvt
      BY <1>2, <2>1, <2>4 DEF Ownership
    <2> QED
      BY <1>2, <2>2, <2>3, <2>4
  <1> QED
    BY <1>3, <1>4 DEF ParamsOwned

-----------------------------------------------------------------------------
(* Events. *)
LEMMA EventFields ==
  ASSUME NEW e \in Event
  PROVE  e.id \in EventId /\ e.paramLen \in {0, 1} /\ e.param \in Block \cup {NoBlock}
  BY DEF Event

LEMMA NewEventFields ==
  ASSUME NEW e \in EventId, NEW len \in {0, 1}, NEW p \in Block \cup {NoBlock}
  PROVE  /\ NewEvent(e, len, p) \in Event
         /\ NewEvent(e, len, p).id = e
         /\ NewEvent(e, len, p).paramLen = len
         /\ NewEvent(e, len, p).param = p
  BY SizesAssumption DEF NewEvent, Event

LEMMA Tagged ==
  ASSUME NEW e \in Event, NEW t \in 0 .. MaxAccepted
  PROVE  LET f == [e EXCEPT !.tag = t] IN
         f \in Event /\ f.id = e.id /\ f.paramLen = e.paramLen /\ f.param = e.param /\ f.tag = t
  BY DEF Event

-----------------------------------------------------------------------------
LEMMA InitInv == Init => Inv
  <1> SUFFICES ASSUME Init PROVE Inv
    OBVIOUS
  <1> USE DEF Init, Q!Init, Q!Answer
  <1>1. Shape
    <2>1. <<>> \in Seq(Event) /\ Len(<<>>) <= MaxQueue /\ 0 \in 0 .. CountMod - 1 /\ 0 \in 0 .. ByteMod - 1
          /\ 0 \in 0 .. Burst /\ 0 \in 0 .. MaxAccepted
      BY SizesAssumption
    <2>2. TypeOK
      BY <2>1 DEF TypeOK, MainPoint, Answers
    <2>3. ~InCallback /\ ~Generating
      BY DEF InCallback, Generating
    <2> QED
      BY <2>2, <2>3 DEF Shape
  <1>2. Handled /\ Ownership /\ DispatchInOrder
    BY SizesAssumption DEF Handled, Ownership, DispatchInOrder, Generating, InCallback, Held
  <1>3. ProcessNeverBug
    BY DEF ProcessNeverBug
  <1> QED
    BY <1>1, <1>2, <1>3 DEF Inv

(* A step that leaves the events, their blocks and their handlers alone. *)
LEMMA Untouched ==
  ASSUME Inv, TypeOK', ProcessNeverBug',
         UNCHANGED <<items, heap, genEvt, evt, table, registered, gMaxEvents, accepted, dispatched>>,
         open' = open, InCallback' = InCallback, Generating' = Generating,
         pc' = "put" => pc = "put", pc' = "initTable" <=> pc = "initTable"
  PROVE  Inv'
  <1> USE DEF Inv
  <1>1. Shape'
    BY DEF Shape
  <1>2. Handled'
    BY DEF Handled, Complete, OutOfBounds
  <1>3. Ownership'
    BY DEF Ownership, Held
  <1>4. DispatchInOrder'
    BY DEF DispatchInOrder
  <1> QED
    BY <1>1, <1>2, <1>3, <1>4

-----------------------------------------------------------------------------
LEMMA InitStep ==
  ASSUME Inv, eventFwInit
  PROVE  Inv'
  <1> USE DEF Inv, Shape
  <1>1. CASE InitReady
    <2> USE <1>1 DEF InitReady
    <2>1. TypeOK' /\ ProcessNeverBug'
      BY DEF TypeOK, Answers, ProcessNeverBug
    <2>2. InCallback' = InCallback /\ Generating' = Generating
      BY DEF InCallback, Generating
    <2> QED
      BY <2>1, <2>2, Untouched
  <1>2. CASE InitNoQueue
    <2> USE <1>2 DEF InitNoQueue
    <2>1. TypeOK' /\ ProcessNeverBug'
      BY DEF TypeOK, Answers, ProcessNeverBug
    <2>2. InCallback' = InCallback /\ Generating' = Generating
      BY DEF InCallback, Generating
    <2> QED
      BY <2>1, <2>2, Untouched
  <1>3. CASE InitQueue
    <2> USE <1>3 DEF InitQueue, Q!Create
    <2>1. ~table /\ items = <<>> /\ items' = items
      OBVIOUS
    <2>2. TypeOK' /\ ProcessNeverBug'
      BY <2>1, SizesAssumption DEF TypeOK, MainPoint, ProcessNeverBug
    <2>3. ~InCallback /\ ~InCallback' /\ ~Generating /\ ~Generating'
      BY DEF InCallback, Generating
    <2>4. Shape'
      BY <2>1, <2>2, <2>3
    <2>5. Handled' /\ Ownership' /\ DispatchInOrder'
      BY <2>1, <2>3 DEF Handled, Ownership, DispatchInOrder, Held, Complete, OutOfBounds
    <2> QED
      BY <2>2, <2>4, <2>5
  <1>4. CASE InitTable
    <2> USE <1>4 DEF InitTable
    <2>1. ~table /\ items = <<>> /\ registered = {} /\ items' = items /\ registered' = {}
      OBVIOUS
    <2>2. MaxEvents % ByteMod \in 0 .. ByteMod - 1
      BY SizesAssumption
    <2>3. TypeOK' /\ ProcessNeverBug'
      BY <2>1, <2>2 DEF TypeOK, MainPoint, Answers, ProcessNeverBug
    <2>4. ~InCallback /\ ~InCallback' /\ ~Generating /\ ~Generating'
      BY DEF InCallback, Generating
    <2>5. open' /\ table' /\ pc' = "idle"
      BY DEF TypeOK, MainPoint
    <2>6. Shape'
      BY <2>1, <2>3, <2>4, <2>5
    <2>7. Handled' /\ Ownership' /\ DispatchInOrder'
      BY <2>1, <2>4 DEF Handled, Ownership, DispatchInOrder, Held, Complete
    <2> QED
      BY <2>3, <2>6, <2>7
  <1>5. CASE InitNoMemory
    <2> USE <1>5 DEF InitNoMemory, Q!Destroy
    <2>1. ~table /\ items = <<>> /\ registered = {} /\ items' = items
      OBVIOUS
    <2>2. TypeOK' /\ ProcessNeverBug'
      <3>1. 0 \in 0 .. CountMod - 1
        BY SizesAssumption
      <3>2. open' \in BOOLEAN
        OBVIOUS
      <3>3. pc' \in MainPoint /\ answer' \in Answers /\ items' \in Seq(Event)
        BY <2>1 DEF MainPoint, Answers, TypeOK
      <3> QED
        BY <3>1, <3>2, <3>3 DEF TypeOK, ProcessNeverBug
    <2>3. ~InCallback /\ ~InCallback' /\ ~Generating /\ ~Generating'
      BY DEF InCallback, Generating
    <2>4. Shape'
      BY <2>1, <2>2, <2>3
    <2>5. Handled' /\ Ownership' /\ DispatchInOrder'
      BY <2>1, <2>3 DEF Handled, Ownership, DispatchInOrder, Held, Complete, OutOfBounds
    <2> QED
      BY <2>2, <2>4, <2>5
  <1> QED
    BY <1>1, <1>2, <1>3, <1>4, <1>5 DEF eventFwInit

LEMMA AddStep ==
  ASSUME Inv, NEW e \in EventId, NEW cb \in BOOLEAN, eventAddHandler(e, cb)
  PROVE  Inv'
  <1> USE DEF Inv, Shape, eventAddHandler
  <1>1. AddVerdict(e, cb) = "E_SUCCESS" => open /\ ~OutOfBounds(e)
    BY DEF AddVerdict
  <1>2. AddVerdict(e, cb) \in Answers \ {"E_BUG", "0xFFFFFFFF"}
    BY DEF AddVerdict, Answers
  <1>3. registered' = registered \/ (registered' = registered \cup {e} /\ open /\ ~OutOfBounds(e))
    BY <1>1
  <1>4. registered \subseteq registered'
    BY <1>3
  <1>5. TypeOK' /\ ProcessNeverBug'
    BY <1>2, <1>3 DEF TypeOK, ProcessNeverBug
  <1>6. InCallback' = InCallback /\ Generating' = Generating
    BY DEF InCallback, Generating
  <1>7. Shape'
    BY <1>3, <1>5, <1>6
  <1>8. Handled'
    BY <1>3, <1>4, <1>6 DEF Handled, Complete, OutOfBounds
  <1>9. Ownership' /\ DispatchInOrder'
    BY <1>6 DEF Ownership, DispatchInOrder, Held
  <1> QED
    BY <1>5, <1>7, <1>8, <1>9

-----------------------------------------------------------------------------
(* eventGenerate. *)
LEMMA VerdictIs ==
  ASSUME NEW e \in EventId
  PROVE  /\ GenerateVerdict(e) \in Answers \ {"E_BUG", "0xFFFFFFFF"}
         /\ GenerateVerdict(e) = "E_SUCCESS" => open /\ e \in registered
  BY DEF GenerateVerdict, Answers

(* calloc hands out a block nobody owns. *)
LEMMA FreshBlock ==
  ASSUME Inv, NEW len \in {0, 1}, NEW p \in Allocation(len)
  PROVE  /\ p \in Block \cup {NoBlock} /\ (len # 0 => p # NoBlock)
         /\ p # NoBlock => p \notin heap
  BY ValuesAssumption DEF Allocation, Inv, Shape, TypeOK

(* What is owned is allocated. *)
LEMMA OwnedIsAllocated ==
  ASSUME Inv
  PROVE  /\ \A p \in Held : p # NoBlock => p \in heap
         /\ InCallback /\ evt.param # NoBlock => evt.param \in heap
         /\ Generating /\ genEvt.param # NoBlock => genEvt.param \in heap
  BY DEF Inv, Ownership

LEMMA RefusedStep ==
  ASSUME Inv, NEW e \in EventId, GenerateRefused(e) \/ GenerateNoMemory(e)
  PROVE  Inv'
  <1> USE DEF Inv, Shape, Calling, GenerateRefused, GenerateNoMemory
  <1>1. answer' \in Answers \ {"E_BUG", "0xFFFFFFFF"}
    BY VerdictIs DEF Answers
  <1>2. burst' \in 0 .. Burst
    BY SizesAssumption DEF TypeOK
  <1>3. TypeOK' /\ ProcessNeverBug'
    BY <1>1, <1>2 DEF TypeOK, ProcessNeverBug
  <1>4. InCallback' = InCallback /\ Generating' = Generating
    BY DEF InCallback, Generating
  <1> QED
    BY <1>3, <1>4, Untouched

LEMMA CopyStep ==
  ASSUME Inv, NEW e \in EventId, NEW len \in {0, 1}, GenerateCopy(e, len)
  PROVE  Inv'
  <1> USE DEF Inv, Shape, Calling
  <1>1. PICK p \in Allocation(len) :
          genEvt' = NewEvent(e, len, p) /\ heap' = (heap \cup {p}) \ {NoBlock}
    BY DEF GenerateCopy
  <1>2. /\ pc \in {"idle", "callback"} /\ pc' = "put" /\ ret' = pc /\ burst < Burst /\ burst' = burst + 1
        /\ GenerateVerdict(e) = "E_SUCCESS" /\ accepted < MaxAccepted
        /\ UNCHANGED <<open, items, drops, reply, table, registered, gMaxEvents, evt, answer, accepted, dispatched>>
    BY SizesAssumption DEF GenerateCopy, Room, TypeOK
  <1>3. /\ genEvt' \in Event /\ genEvt'.id = e /\ genEvt'.paramLen = len /\ genEvt'.param = p
        /\ p \in Block \cup {NoBlock} /\ (len # 0 => p # NoBlock) /\ (p # NoBlock => p \notin heap)
    BY <1>1, FreshBlock, NewEventFields
  <1>4. e \in registered /\ open
    BY <1>2, VerdictIs
  <1>5. InCallback' = InCallback /\ Generating' /\ ~Generating
    BY <1>2 DEF InCallback, Generating
  <1>6. TypeOK' /\ ProcessNeverBug'
    <2>1. burst' \in 0 .. Burst
      BY <1>2, SizesAssumption DEF TypeOK
    <2>2. heap' \subseteq Block
      BY <1>1, <1>3 DEF TypeOK
    <2>3. pc' \in MainPoint /\ ret' \in {"idle", "callback"} /\ genEvt' \in Event \cup {NoEvent}
      BY <1>2, <1>3 DEF MainPoint
    <2> QED
      BY <1>2, <2>1, <2>2, <2>3 DEF TypeOK, ProcessNeverBug
  <1>7. Shape'
    BY <1>2, <1>3, <1>4, <1>5, <1>6
  <1>8. Handled'
    BY <1>2, <1>3, <1>4, <1>5 DEF Handled, Complete, OutOfBounds
  <1>9. Ownership'
    <2>1. Held' = Held
      BY <1>2 DEF Held
    <2>2. heap' = (Held' \cup (IF InCallback' THEN {evt'.param} ELSE {}) \cup {genEvt'.param}) \ {NoBlock}
      BY <1>1, <1>2, <1>3, <1>5, <2>1 DEF Ownership
    <2>3. genEvt'.param \in Held' => genEvt'.param = NoBlock
      BY <1>3, <2>1, OwnedIsAllocated
    <2>4. InCallback' /\ evt'.param = genEvt'.param => evt'.param = NoBlock
      BY <1>2, <1>3, <1>5, OwnedIsAllocated
    <2> QED
      BY <1>2, <1>5, <2>1, <2>2, <2>3, <2>4 DEF Ownership
  <1>10. DispatchInOrder'
    BY <1>2, <1>5 DEF DispatchInOrder
  <1> QED
    BY <1>6, <1>7, <1>8, <1>9, <1>10

(* An event of the main context or of an interrupt is put on the queue. *)
LEMMA AcceptedStep ==
  ASSUME Inv, NEW e \in Event, Accept(e), accepted < MaxAccepted
  PROVE  /\ items' \in Seq(Event) /\ Len(items') = Len(items) + 1 /\ Len(items') <= MaxQueue
         /\ DOMAIN items' = 1 .. Len(items) + 1 /\ DOMAIN items = 1 .. Len(items) /\ Len(items) \in Nat
         /\ \A i \in 1 .. Len(items) : items'[i] = items[i]
         /\ items'[Len(items) + 1].id = e.id
         /\ items'[Len(items) + 1].paramLen = e.paramLen
         /\ items'[Len(items) + 1].param = e.param
         /\ items'[Len(items) + 1].tag = accepted + 1
         /\ Held' = Held \cup {e.param}
         /\ accepted' = accepted + 1 /\ dispatched' = dispatched /\ accepted' \in 0 .. MaxAccepted
         /\ open /\ open' /\ drops' = drops
  <1> USE DEF Inv, Shape
  <1> DEFINE f == [e EXCEPT !.tag = accepted + 1]
  <1>1. accepted \in Nat /\ accepted + 1 \in 0 .. MaxAccepted
    BY SizesAssumption DEF TypeOK
  <1>2. f \in Event /\ f.id = e.id /\ f.paramLen = e.paramLen /\ f.param = e.param /\ f.tag = accepted + 1
    BY <1>1, Tagged
  <1>3. /\ items' = Append(items, f) /\ accepted' = accepted + 1 /\ dispatched' = dispatched
        /\ open /\ open' = open /\ drops' = drops /\ Len(items) < MaxQueue
    BY DEF Accept, Q!Accept
  <1> HIDE DEF f
  <1>4. /\ items' \in Seq(Event) /\ Len(items') = Len(items) + 1
        /\ DOMAIN items' = 1 .. Len(items) + 1
        /\ \A i \in 1 .. Len(items) : items'[i] = items[i]
        /\ items'[Len(items) + 1] = f
        /\ Held' = Held \cup {f.param}
    BY <1>2, <1>3, Appended
  <1>5. Len(items) + 1 <= MaxQueue
    BY <1>3, Indices, SizesAssumption
  <1> QED
    BY <1>1, <1>2, <1>3, <1>4, <1>5, Indices

LEMMA AcceptedOrder ==
  ASSUME Inv, NEW e \in Event, Accept(e), accepted < MaxAccepted,
         InCallback' => InCallback /\ evt' = evt
  PROVE  DispatchInOrder'
  <1> USE DEF Inv
  <1>1. /\ DOMAIN items' = 1 .. Len(items) + 1 /\ DOMAIN items = 1 .. Len(items) /\ Len(items) \in Nat
        /\ \A i \in 1 .. Len(items) : items'[i] = items[i]
        /\ items'[Len(items) + 1].tag = accepted + 1
        /\ accepted' = accepted + 1 /\ dispatched' = dispatched /\ Len(items') = Len(items) + 1
    BY AcceptedStep
  <1>2. accepted \in Nat /\ dispatched \in Nat
    BY SizesAssumption DEF Shape, TypeOK
  <1>3. \A i \in DOMAIN items' : items'[i].tag = dispatched' + i
    <2> SUFFICES ASSUME NEW i \in DOMAIN items' PROVE items'[i].tag = dispatched' + i
      OBVIOUS
    <2>1. CASE i \in 1 .. Len(items)
      BY <1>1, <2>1 DEF DispatchInOrder
    <2>2. CASE i = Len(items) + 1
      BY <1>1, <1>2, <2>2 DEF DispatchInOrder
    <2> QED
      BY <1>1, <2>1, <2>2
  <1> QED
    BY <1>1, <1>2, <1>3 DEF DispatchInOrder

LEMMA AcceptedOnce ==
  ASSUME Inv, NEW e \in Event, Accept(e), accepted < MaxAccepted, e.param \in Held => e.param = NoBlock
  PROVE  \A i, k \in DOMAIN items' :
           i # k /\ items'[i].param = items'[k].param => items'[i].param = NoBlock
  <1>1. /\ DOMAIN items' = 1 .. Len(items) + 1 /\ DOMAIN items = 1 .. Len(items) /\ Len(items) \in Nat
        /\ \A i \in 1 .. Len(items) : items'[i] = items[i]
        /\ items'[Len(items) + 1].param = e.param
    BY AcceptedStep
  <1>2. \A i \in DOMAIN items : items[i].param \in Held
    BY DEF Held
  <1>3. \A i \in DOMAIN items' :
          \/ i \in DOMAIN items /\ items'[i] = items[i]
          \/ i = Len(items) + 1 /\ items'[i].param = e.param
    BY <1>1
  <1> QED
    BY <1>1, <1>2, <1>3 DEF Inv, Ownership

LEMMA PutStep ==
  ASSUME Inv, GeneratePut
  PROVE  Inv'
  <1> USE DEF Inv, Shape
  <1>1. /\ pc = "put" /\ Generating /\ genEvt \in Event /\ accepted < MaxAccepted
        /\ UNCHANGED <<table, registered, gMaxEvents, heap, ret, evt, burst>>
    BY DEF GeneratePut, Generating
  <1>2. CASE Accept(genEvt) /\ pc' = ret /\ genEvt' = NoEvent /\ answer' = "E_SUCCESS"
    <2>1. genEvt.param \in Held => genEvt.param = NoBlock
      BY <1>1 DEF Ownership
    <2>2. /\ items' \in Seq(Event) /\ Len(items') <= MaxQueue
          /\ DOMAIN items' = 1 .. Len(items) + 1 /\ DOMAIN items = 1 .. Len(items) /\ Len(items) \in Nat
          /\ \A i \in 1 .. Len(items) : items'[i] = items[i]
          /\ items'[Len(items) + 1].id = genEvt.id
          /\ items'[Len(items) + 1].paramLen = genEvt.paramLen
          /\ items'[Len(items) + 1].param = genEvt.param
          /\ Held' = Held \cup {genEvt.param}
          /\ dispatched' = dispatched /\ accepted' \in 0 .. MaxAccepted
          /\ open /\ open' /\ drops' = drops
      BY <1>1, <1>2, AcceptedStep
    <2>3. InCallback' = InCallback /\ ~Generating'
      BY <1>1, <1>2 DEF InCallback, Generating, TypeOK
    <2>4. TypeOK' /\ ProcessNeverBug'
      <3>1. open' \in BOOLEAN /\ pc' \in MainPoint /\ answer' \in Answers /\ genEvt' \in Event \cup {NoEvent}
        BY <1>2, <2>2 DEF TypeOK, MainPoint, Answers
      <3> QED
        BY <1>1, <1>2, <2>2, <3>1 DEF TypeOK, ProcessNeverBug
    <2>5. Shape'
      BY <1>1, <1>2, <2>2, <2>3, <2>4 DEF TypeOK, Generating
    <2>6. Handled'
      <3>1. \A i \in DOMAIN items' : Complete(items'[i])
        BY <1>1, <2>2 DEF Handled, Complete
      <3> QED
        BY <1>1, <2>3, <3>1 DEF Handled, Complete, OutOfBounds
    <2>7. Ownership'
      <3>1. \A i, k \in DOMAIN items' :
              i # k /\ items'[i].param = items'[k].param => items'[i].param = NoBlock
        BY <1>1, <1>2, <2>1, AcceptedOnce
      <3> QED
        BY <1>1, <2>2, <2>3, <3>1 DEF Ownership
    <2>8. DispatchInOrder'
      BY <1>1, <1>2, <2>3, AcceptedOrder
    <2> QED
      BY <2>4, <2>5, <2>6, <2>7, <2>8
  <1>3. CASE Q!Refuse /\ pc' = "undo" /\ UNCHANGED <<genEvt, answer, accepted, dispatched>>
    <2>1. InCallback' = InCallback /\ Generating' = Generating
      BY <1>1, <1>3 DEF InCallback, Generating
    <2>2. drops' \in 0 .. CountMod - 1 /\ open' = open /\ items' = items
      BY <1>3, SizesAssumption DEF TypeOK, Q!Refuse
    <2>3. TypeOK' /\ ProcessNeverBug'
      BY <1>1, <1>3, <2>2 DEF TypeOK, MainPoint, ProcessNeverBug
    <2> QED
      BY <1>1, <1>3, <2>1, <2>2, <2>3, Untouched
  <1> QED
    BY <1>2, <1>3 DEF GeneratePut

LEMMA UndoStep ==
  ASSUME Inv, GenerateUndo
  PROVE  Inv'
  <1> USE DEF Inv, Shape
  <1>1. /\ pc = "undo" /\ Generating /\ genEvt \in Event /\ pc' = ret /\ genEvt' = NoEvent
        /\ heap' = heap \ {genEvt.param} /\ answer' = "E_INTERNAL"
        /\ UNCHANGED <<open, items, drops, table, registered, gMaxEvents, ret, evt, burst, accepted, dispatched>>
    BY DEF GenerateUndo, Generating
  <1>2. InCallback' = InCallback /\ ~Generating' /\ Held' = Held
    BY <1>1 DEF InCallback, Generating, TypeOK, Held
  <1>3. TypeOK' /\ ProcessNeverBug'
    <2>1. pc' \in MainPoint /\ answer' \in Answers /\ genEvt' \in Event \cup {NoEvent}
      BY <1>1 DEF TypeOK, MainPoint, Answers
    <2> QED
      BY <1>1, <2>1 DEF TypeOK, ProcessNeverBug
  <1>4. Shape'
    BY <1>1, <1>2, <1>3 DEF TypeOK
  <1>5. Handled'
    BY <1>1, <1>2 DEF Handled, Complete, OutOfBounds
  <1>6. Ownership'
    BY <1>1, <1>2 DEF Ownership
  <1>7. DispatchInOrder'
    BY <1>1, <1>2 DEF DispatchInOrder
  <1> QED
    BY <1>3, <1>4, <1>5, <1>6, <1>7

-----------------------------------------------------------------------------
(* eventFwProcess. *)
LEMMA CallStep ==
  ASSUME Inv, ProcessCall \/ ProcessReturn
  PROVE  Inv'
  <1> USE DEF Inv, Shape, ProcessCall, ProcessReturn, Q!Starve, Q!NullArgument
  <1>1. InCallback' = InCallback /\ Generating' = Generating
    BY DEF InCallback, Generating
  <1>2. burst' \in 0 .. Burst /\ pc' \in MainPoint /\ answer' \in Answers /\ answer' \notin {"E_BUG", "0xFFFFFFFF"}
    BY SizesAssumption DEF TypeOK, MainPoint, Answers, ProcessNeverBug
  <1>3. UNCHANGED <<open, items, drops, heap, genEvt, evt, table, registered, gMaxEvents, ret, accepted, dispatched>>
    OBVIOUS
  <1>4. TypeOK' /\ ProcessNeverBug'
    BY <1>2, <1>3 DEF TypeOK, ProcessNeverBug
  <1>5. pc' # "put" /\ pc' # "initTable" /\ pc # "initTable"
    OBVIOUS
  <1> QED
    BY <1>1, <1>3, <1>4, <1>5, Untouched

LEMMA GetStep ==
  ASSUME Inv, ProcessGet
  PROVE  Inv'
  <1> USE DEF Inv, Shape
  <1>1. /\ pc = "get" /\ open /\ items # <<>> /\ items' = Tail(items) /\ evt' = Head(items)
        /\ dispatched' = dispatched + 1 /\ burst' = 0
        /\ UNCHANGED <<open, drops, table, registered, gMaxEvents, heap, ret, genEvt, accepted>>
    BY DEF ProcessGet, Q!Deliver
  <1>2. /\ items' \in Seq(Event) /\ Head(items) \in Event
        /\ Len(items') = Len(items) - 1 /\ Len(items) >= 1
        /\ DOMAIN items' = 1 .. Len(items) - 1
        /\ \A i \in DOMAIN items' : items'[i] = items[i + 1] /\ i + 1 \in DOMAIN items
        /\ Head(items) = items[1] /\ 1 \in DOMAIN items
        /\ Held = Held' \cup {Head(items).param}
    BY <1>1, Taken
  <1>3. Complete(Head(items)) /\ ~OutOfBounds(Head(items).id)
    BY <1>2 DEF Handled, Complete
  <1>4. pc' = "callback" /\ answer' = answer
    BY <1>3 DEF ProcessGet, Complete
  <1>5. ~InCallback /\ ~Generating /\ InCallback' /\ ~Generating'
    BY <1>1, <1>4 DEF InCallback, Generating
  <1>6. Len(items) \in Nat /\ DOMAIN items = 1 .. Len(items)
    BY Indices
  <1>7. dispatched' \in 0 .. MaxAccepted
    BY <1>1, <1>2, <1>6, SizesAssumption DEF TypeOK, DispatchInOrder
  <1>8. TypeOK' /\ ProcessNeverBug'
    <2>1. burst' \in 0 .. Burst /\ pc' \in MainPoint
      BY <1>1, <1>4, SizesAssumption DEF MainPoint
    <2>2. Len(items') <= MaxQueue
      BY <1>2, <1>6, SizesAssumption DEF TypeOK
    <2> QED
      BY <1>1, <1>2, <1>4, <1>7, <2>1, <2>2 DEF TypeOK, ProcessNeverBug
  <1>9. Shape'
    BY <1>1, <1>2, <1>4, <1>5, <1>8
  <1>10. Handled'
    BY <1>1, <1>2, <1>3, <1>5 DEF Handled, Complete, OutOfBounds
  <1>11. Ownership'
    <2>1. \A i, k \in DOMAIN items' :
            i # k /\ items'[i].param = items'[k].param => items'[i].param = NoBlock
      <3> SUFFICES ASSUME NEW i \in DOMAIN items', NEW k \in DOMAIN items',
                          i # k, items'[i].param = items'[k].param
                   PROVE  items'[i].param = NoBlock
        OBVIOUS
      <3>1. /\ i + 1 \in DOMAIN items /\ k + 1 \in DOMAIN items /\ i + 1 # k + 1
            /\ items'[i] = items[i + 1] /\ items'[k] = items[k + 1]
        BY <1>2, <1>6
      <3> QED
        BY <3>1 DEF Ownership
    <2>2. evt'.param \in Held' => evt'.param = NoBlock
      <3> SUFFICES ASSUME NEW i \in DOMAIN items', items'[i].param = items[1].param
                   PROVE  items[1].param = NoBlock
        BY <1>1, <1>2 DEF Held
      <3>1. i + 1 \in DOMAIN items /\ i + 1 # 1 /\ items[i + 1].param = items[1].param /\ 1 \in DOMAIN items
        BY <1>2, <1>6
      <3> QED
        BY <3>1 DEF Ownership
    <2>3. heap' = (Held' \cup {evt'.param}) \ {NoBlock}
      BY <1>1, <1>2, <1>5 DEF Ownership
    <2> QED
      BY <1>5, <2>1, <2>2, <2>3 DEF Ownership
  <1>12. DispatchInOrder'
    <2>1. dispatched \in Nat /\ accepted \in Nat
      BY SizesAssumption DEF TypeOK
    <2>2. \A i \in DOMAIN items' : items'[i].tag = dispatched' + i
      BY <1>1, <1>2, <1>6, <2>1 DEF DispatchInOrder
    <2>3. evt'.tag = dispatched'
      BY <1>1, <1>2, <1>6, <2>1 DEF DispatchInOrder
    <2> QED
      BY <1>1, <1>2, <1>6, <2>1, <2>2, <2>3 DEF DispatchInOrder
  <1> QED
    BY <1>8, <1>9, <1>10, <1>11, <1>12

LEMMA ReturnStep ==
  ASSUME Inv, CallbackReturn
  PROVE  Inv'
  <1> USE DEF Inv, Shape
  <1>1. pc = "callback" /\ InCallback /\ ~Generating /\ evt \in Event /\ Complete(evt)
    BY DEF CallbackReturn, InCallback, Generating, Handled
  <1>2. /\ heap' = heap \ {evt.param} /\ evt' = NoEvent /\ pc' = "get" /\ answer' = answer
        /\ UNCHANGED <<open, items, drops, table, registered, gMaxEvents, ret, genEvt, burst, accepted, dispatched>>
    BY <1>1 DEF CallbackReturn, Complete
  <1>3. ~InCallback' /\ ~Generating' /\ Held' = Held
    BY <1>2 DEF InCallback, Generating, Held
  <1>4. TypeOK' /\ ProcessNeverBug'
    <2>1. pc' \in MainPoint
      BY <1>2 DEF MainPoint
    <2> QED
      BY <1>2, <2>1 DEF TypeOK, ProcessNeverBug
  <1>5. Shape'
    BY <1>1, <1>2, <1>3, <1>4
  <1>6. Handled'
    BY <1>2, <1>3 DEF Handled, Complete, OutOfBounds
  <1>7. Ownership'
    BY <1>1, <1>2, <1>3 DEF Ownership
  <1>8. DispatchInOrder'
    BY <1>2, <1>3 DEF DispatchInOrder
  <1> QED
    BY <1>4, <1>5, <1>6, <1>7, <1>8

-----------------------------------------------------------------------------
(* An interrupt puts an event of its own behind whatever the main context is doing. *)
LEMMA InterruptStep ==
  ASSUME Inv, NEW e \in EventId, NEW len \in {0, 1}, Interrupt(e, len)
  PROVE  Inv'
  <1> USE DEF Inv, Shape
  <1>1. UNCHANGED <<table, registered, gMaxEvents, pc, ret, genEvt, evt, burst, answer>>
    BY DEF Interrupt
  <1>2. InCallback' = InCallback /\ Generating' = Generating
    BY <1>1 DEF InCallback, Generating
  <1>3. CASE IsrDropped(e)
    <2>1. drops' \in 0 .. CountMod - 1 /\ UNCHANGED <<open, items, heap, accepted, dispatched>>
      BY <1>3, SizesAssumption DEF IsrDropped, Q!Refuse, TypeOK
    <2>2. TypeOK' /\ ProcessNeverBug'
      BY <1>1, <2>1 DEF TypeOK, ProcessNeverBug
    <2> QED
      BY <1>1, <1>2, <2>1, <2>2, Untouched
  <1>4. CASE IsrAccepted(e, len)
    <2>1. PICK p \in Allocation(len) :
            Accept(NewEvent(e, len, p)) /\ heap' = (heap \cup {p}) \ {NoBlock}
      BY <1>4 DEF IsrAccepted
    <2> DEFINE f == NewEvent(e, len, p)
    <2>2. /\ f \in Event /\ f.id = e /\ f.paramLen = len /\ f.param = p
          /\ p \in Block \cup {NoBlock} /\ (len # 0 => p # NoBlock) /\ (p # NoBlock => p \notin heap)
      BY FreshBlock, NewEventFields
    <2>3. Accept(f)
      BY <2>1
    <2> HIDE DEF f
    <2>4. e \in registered /\ accepted < MaxAccepted /\ (pc = "put" => accepted + 1 < MaxAccepted)
      BY <1>4, VerdictIs, SizesAssumption DEF IsrAccepted, Room, TypeOK
    <2>5. /\ items' \in Seq(Event) /\ Len(items') <= MaxQueue
          /\ DOMAIN items' = 1 .. Len(items) + 1 /\ DOMAIN items = 1 .. Len(items) /\ Len(items) \in Nat
          /\ \A i \in 1 .. Len(items) : items'[i] = items[i]
          /\ items'[Len(items) + 1].id = e
          /\ items'[Len(items) + 1].paramLen = len
          /\ items'[Len(items) + 1].param = p
          /\ Held' = Held \cup {p}
          /\ accepted' = accepted + 1 /\ dispatched' = dispatched /\ accepted' \in 0 .. MaxAccepted
          /\ open /\ open' /\ drops' = drops
      BY <2>2, <2>3, <2>4, AcceptedStep
    <2>6. TypeOK' /\ ProcessNeverBug'
      <3>1. heap' \subseteq Block /\ open' \in BOOLEAN
        BY <2>1, <2>2, <2>5 DEF TypeOK
      <3> QED
        BY <1>1, <2>5, <3>1 DEF TypeOK, ProcessNeverBug
    <2>7. Shape'
      BY <1>1, <1>2, <2>4, <2>5, <2>6
    <2>8. Handled'
      <3>1. \A i \in DOMAIN items' : Complete(items'[i])
        BY <1>1, <2>2, <2>4, <2>5 DEF Handled, Complete
      <3> QED
        BY <1>1, <1>2, <3>1 DEF Handled, Complete, OutOfBounds
    <2>9. Ownership'
      <3>1. p # NoBlock => /\ p \notin Held
                           /\ InCallback => evt.param # p
                           /\ Generating => genEvt.param # p
        BY <2>2, OwnedIsAllocated
      <3>2. \A i, k \in DOMAIN items' :
              i # k /\ items'[i].param = items'[k].param => items'[i].param = NoBlock
        BY <2>2, <2>3, <2>4, <3>1, AcceptedOnce
      <3>3. heap' = (Held' \cup (IF InCallback' THEN {evt'.param} ELSE {})
                           \cup (IF Generating' THEN {genEvt'.param} ELSE {})) \ {NoBlock}
        BY <1>1, <1>2, <2>1, <2>5 DEF Ownership
      <3> QED
        BY <1>1, <1>2, <2>5, <3>1, <3>2, <3>3 DEF Ownership
    <2>10. DispatchInOrder'
      BY <1>1, <1>2, <2>2, <2>3, <2>4, AcceptedOrder
    <2> QED
      BY <2>6, <2>7, <2>8, <2>9, <2>10
  <1> QED
    BY <1>3, <1>4 DEF Interrupt

LEMMA NextInv == Inv /\ [Next]_vars => Inv'
  <1> SUFFICES ASSUME Inv, [Next]_vars PROVE Inv'
    OBVIOUS
  <1>1. CASE UNCHANGED vars
    <2>1. TypeOK' /\ ProcessNeverBug' /\ InCallback' = InCallback /\ Generating' = Generating
      BY <1>1 DEF vars, Inv, Shape, TypeOK, ProcessNeverBug, InCallback, Generating
    <2> QED
      BY <1>1, <2>1, Untouched DEF vars
  <1>2. CASE eventFwInit
    BY <1>2, InitStep
  <1>3. CASE \E e \in EventId, cb \in BOOLEAN : eventAddHandler(e, cb)
    BY <1>3, AddStep
  <1>4. CASE eventGenerate
    BY <1>4, RefusedStep, CopyStep, PutStep, UndoStep DEF eventGenerate
  <1>5. CASE eventFwProcess
    BY <1>5, CallStep, GetStep, ReturnStep DEF eventFwProcess
  <1>6. CASE \E e \in EventId, len \in {0, 1} : Interrupt(e, len)
    BY <1>6, InterruptStep
  <1> QED
    BY <1>1, <1>2, <1>3, <1>4, <1>5, <1>6 DEF Next

LEMMA InvAlways == Spec => []Inv
  BY InitInv, NextInv, PTL DEF Spec

(* Every variable stays in the range of its C declaration and use. *)
THEOREM EventTypes == Spec => []TypeOK
  <1>1. Inv => TypeOK
    BY DEF Inv, Shape
  <1> QED
    BY <1>1, InvAlways, PTL

(* A parameter block has one owner, or is free: eventGenerate and eventFwProcess leak
   none and free none twice, wherever the interrupt falls. *)
THEOREM ParametersHaveOneOwner == Spec => []ParamsOwned
  <1>1. Inv => ParamsOwned
    BY OwnershipIsParamsOwned DEF Inv, Shape
  <1> QED
    BY <1>1, InvAlways, PTL

(* Events reach their callbacks once and in the order of acceptance. *)
THEOREM DispatchedInOrder == Spec => []DispatchInOrder
  <1>1. Inv => DispatchInOrder
    BY DEF Inv
  <1> QED
    BY <1>1, InvAlways, PTL

(* eventFwProcess never answers E_BUG (eventFw.c:114, 116) or 0xFFFFFFFF (:124). *)
THEOREM NoBugAnswered == Spec => []ProcessNeverBug
  <1>1. Inv => ProcessNeverBug
    BY DEF Inv
  <1> QED
    BY <1>1, InvAlways, PTL

=============================================================================
