------------------------------ MODULE GenericList ------------------------------
(***************************************************************************)
(* The singly linked list of genericLinkList/genericLL.c on its heap: the  *)
(* blocks in use, their data and next pointers, and the handle's counters. *)
(* A loop of the code along the next pointers is a recursive function.     *)
(***************************************************************************)
EXTENDS Integers, Sequences, FiniteSets

CONSTANTS
  Block,        (* heap blocks                                               *)
  Value,        (* the elements, which the comparator orders                 *)
  MaxAdds       (* bound: elements added to a list between two resets        *)

NULL == "NULL"
Pointer == Block \cup {NULL}

ASSUME ListAssumption ==
  /\ NULL \notin Block /\ IsFiniteSet(Block)
  /\ Value \subseteq Int /\ Value # {}
  /\ MaxAdds \in Nat

VARIABLES
  list,         (* the handle exists                                         *)
  live,         (* blocks that are allocated                                 *)
  data, next,   (* of every block: a freed one keeps what it held            *)
  head, listCount, listHighMark, addCount, delCount

heap == <<live, data, next>>
handle == <<list, head, listCount, listHighMark, addCount, delCount>>
listVars == <<heap, handle>>

ListInit ==
  /\ list = FALSE
  /\ live = {}
  /\ data \in [Block -> {CHOOSE v \in Value : TRUE}]
  /\ next \in [Block -> {NULL}]
  /\ head = NULL
  /\ listCount = 0 /\ listHighMark = 0 /\ addCount = 0 /\ delCount = 0

(* The blocks from head on, at most as many as there are: a walk that is longer has met
   one of them twice. *)
Walk ==
  LET node[i \in 1 .. Cardinality(Block)] ==
        IF i = 1 THEN head ELSE IF node[i - 1] = NULL THEN NULL ELSE next[node[i - 1]]
  IN  [i \in {i \in 1 .. Cardinality(Block) : node[i] # NULL} |-> node[i]]

Twins(v) == \E i \in 1 .. Len(Walk) - 1 : data[Walk[i]] = v /\ data[Walk[i + 1]] = v

(* The pointers that link the blocks of s, and leave the others alone. *)
Linked(s) ==
  [b \in Block |->
     IF \E i \in DOMAIN s : s[i] = b
     THEN LET i == CHOOSE i \in DOMAIN s : s[i] = b IN IF i < Len(s) THEN s[i + 1] ELSE NULL
     ELSE next[b]]
HeadOf(s) == IF s = <<>> THEN NULL ELSE s[1]

-----------------------------------------------------------------------------
sListNew ==
  /\ ~list
  /\ list' = TRUE
  /\ head' = NULL
  /\ listCount' = 0 /\ listHighMark' = 0 /\ addCount' = 0 /\ delCount' = 0
  /\ UNCHANGED heap

(* The first block of a list gets no next pointer: it is what malloc found there, zeros
   or what the block held before it was freed. *)
sListItemAdd(v) ==
  /\ list
  /\ addCount < MaxAdds
  /\ \E b \in Block \ live :
       /\ live' = live \cup {b}
       /\ data' = [data EXCEPT ![b] = v]
       /\ \/ head = NULL /\ \E junk \in Pointer : next' = [next EXCEPT ![b] = junk]
          \/ head # NULL /\ next' = [next EXCEPT ![b] = head]
       /\ head' = b
  /\ listCount' = listCount + 1
  /\ addCount' = addCount + 1
  /\ listHighMark' = IF listCount' > listHighMark THEN listHighMark + 1 ELSE listHighMark
  /\ UNCHANGED <<list, delCount>>

(* sListItemDel of an element at the head deletes that one block ... *)
DelHead(v) ==
  /\ list /\ head # NULL /\ data[head] = v
  /\ head' = next[head]
  /\ live' = live \ {head}
  /\ listCount' = listCount - 1
  /\ delCount' = delCount + 1
  /\ UNCHANGED <<list, data, next, listHighMark, addCount>>

(* ... and otherwise all that match.  The loop reads the next pointer of a block it has
   just freed, and takes that block for the previous one.  The pointer is still there
   where free writes to the first word of a block only (newlib, glibc before 2.29). *)
(* Mutant: the block before is not linked to the one after. *)
DelStepUnlinked(v, s) ==
  IF s.node = NULL THEN s
  ELSE IF data[s.node] # v THEN [s EXCEPT !.prev = s.node, !.node = s.next[s.node]]
  ELSE [s EXCEPT !.freed = @ \cup {s.node}, !.prev = s.node, !.node = s.next[s.node]]

DelStep(v, s) ==
  IF s.node = NULL THEN s
  ELSE IF data[s.node] # v THEN [s EXCEPT !.prev = s.node, !.node = s.next[s.node]]
  ELSE [s EXCEPT !.next[s.prev] = s.next[s.node], !.freed = @ \cup {s.node},
                 !.prev = s.node, !.node = s.next[s.node]]

DelWalk(v) ==
  LET walk[i \in 0 .. Cardinality(Block)] ==
        IF i = 0 THEN [node |-> head, prev |-> NULL, next |-> next, freed |-> {}]
        ELSE DelStep(v, walk[i - 1])
  IN  walk[Cardinality(Block)]

DelRest(v) ==
  /\ list /\ head # NULL /\ data[head] # v
  /\ LET s == DelWalk(v)
     IN  /\ next' = s.next
         /\ live' = live \ s.freed
         /\ listCount' = listCount - Cardinality(s.freed)
         /\ delCount' = delCount + Cardinality(s.freed)
  /\ UNCHANGED <<list, data, head, listHighMark, addCount>>

sListItemDel(v) == DelHead(v) \/ DelRest(v)

(* The high mark survives. *)
Emptied ==
  /\ list
  /\ head' = NULL
  /\ live' = live \ {Walk[i] : i \in DOMAIN Walk}
  /\ listCount' = 0 /\ addCount' = 0 /\ delCount' = 0
  /\ UNCHANGED <<data, next, listHighMark>>

sListReset == Emptied /\ UNCHANGED list
sListDestroy == Emptied /\ list' = FALSE

-----------------------------------------------------------------------------
(* sListSort: sNodeSplit, two sorts, sortMerge.  The comparator answers -1, 0 or 1;
   of equals the block of the second half comes first. *)

comparatorFn(left, right) ==
  IF data[left] < data[right] THEN -1 ELSE IF data[left] = data[right] THEN 0 ELSE 1

sNodeSplit(s) == LET middle == (Len(s) + 1) \div 2
                 IN  <<SubSeq(s, 1, middle), SubSeq(s, middle + 1, Len(s))>>

(* Mutant: the order of the arguments is taken for the order of the halves. *)
SortMergeSwapped(first, second) ==
  LET merge[half \in Seq(Block) \X Seq(Block)] ==
        LET p == half[1]
            q == half[2]
        IN  IF p = <<>> THEN q ELSE IF q = <<>> THEN p
            ELSE IF comparatorFn(Head(p), Head(q)) = -1 THEN <<Head(q)>> \o merge[<<p, Tail(q)>>]
            ELSE <<Head(p)>> \o merge[<<Tail(p), q>>]
  IN  merge[<<first, second>>]

sortMerge(first, second) ==
  LET merge[half \in Seq(Block) \X Seq(Block)] ==
        LET p == half[1]
            q == half[2]
        IN  IF p = <<>> THEN q ELSE IF q = <<>> THEN p
            ELSE IF comparatorFn(Head(p), Head(q)) = -1 THEN <<Head(p)>> \o merge[<<Tail(p), q>>]
            ELSE <<Head(q)>> \o merge[<<p, Tail(q)>>]
  IN  merge[<<first, second>>]

Sorted ==
  LET sort[s \in Seq(Block)] ==
        IF Len(s) <= 1 THEN s
        ELSE LET half == sNodeSplit(s) IN sortMerge(sort[half[1]], sort[half[2]])
  IN  sort[Walk]

Relinked(s) ==
  /\ list
  /\ head' = HeadOf(s)
  /\ next' = Linked(s)
  /\ UNCHANGED <<live, data, list, listCount, listHighMark, addCount, delCount>>

sListSort == Relinked(Sorted)
sListReverse == Relinked([i \in DOMAIN Walk |-> Walk[Len(Walk) + 1 - i]])

(* Every block in use, and no freed one, is in the list once, the list ends, and the
   counters tell its length (genericLL.h:30 "Delete all Nodes ... and free up memory",
   :86 "Get the Current number of Nodes", :94 "the Maximum number of Nodes"). *)
ListIntact ==
  /\ {Walk[i] : i \in DOMAIN Walk} = live
  /\ Walk # <<>> => next[Walk[Len(Walk)]] = NULL
  /\ listCount = Len(Walk) /\ listCount = Cardinality(live)
  /\ listCount = addCount - delCount
  /\ listHighMark >= listCount

(* A list that is broken is not followed any further: what its walks read is no list. *)
ListNext ==
  /\ ListIntact
  /\ \/ sListNew \/ sListReset \/ sListDestroy \/ sListSort \/ sListReverse
     \/ \E v \in Value : sListItemAdd(v) \/ sListItemDel(v)

ListSpec == ListInit /\ [][ListNext]_listVars

-----------------------------------------------------------------------------
(* What sListItemGet finds: the first block that matches, or NULL. *)
sListItemGet(v) ==
  LET hits == {i \in DOMAIN Walk : data[Walk[i]] = v}
  IN  IF hits = {} THEN NULL ELSE Walk[CHOOSE i \in hits : \A j \in hits : i <= j]

(* The two ways to break a list: its first block points somewhere (genericLL.c:66), and
   an element is deleted that two neighbours behind the head hold (genericLL.c:151). *)
FirstUnwritten == head = NULL /\ head' # NULL /\ next'[head'] # NULL
TwinsDeleted == \E v \in Value : DelRest(v) /\ Twins(v)

(* A list stays intact over every order of calls unless one of the two happens, and then
   it does not: its walks go on into blocks that are not in use. *)
BreaksOnlyThere == [][ListIntact' <=> ~(FirstUnwritten \/ TwinsDeleted)]_listVars

(* Sorting an intact list, and the operations can build every order of its elements,
   gives its blocks in the order of the comparator, none lost and none twice. *)
SortSorts ==
  ListIntact =>
  /\ {Sorted[i] : i \in DOMAIN Sorted} = {Walk[i] : i \in DOMAIN Walk}
  /\ Len(Sorted) = Len(Walk)
  /\ \A i \in 1 .. Len(Sorted) - 1 : data[Sorted[i]] <= data[Sorted[i + 1]]
=============================================================================
