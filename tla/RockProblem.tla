------------------------------ MODULE RockProblem ------------------------------
(***************************************************************************)
(* linkList/rockProblem/rock.c: how many letters do the names of n rocks   *)
(* share?  printstr reads the names letter by letter and keeps a node with *)
(* a count for each letter it has met; the nodes' order plays no part.     *)
(* The head node, whose letter nobody writes, is taken to hold none, as on *)
(* a heap from which nothing has been freed.                               *)
(***************************************************************************)
EXTENDS Integers, FiniteSets

CONSTANTS
  Letter,
  Rocks         (* bound: n, the number of names                             *)

ASSUME RocksAssumption == Rocks \in Nat \ {0} /\ IsFiniteSet(Letter)

VARIABLES
  j,            (* the name that is read                                     *)
  count,        (* of each letter: its node's count, 0 if it has no node     *)
  named         (* history: the names that hold each letter                  *)

rocks == <<j, count, named>>

RockInit ==
  /\ j = 0
  /\ count = [c \in Letter |-> 0]
  /\ named = [c \in Letter |-> {}]

(* Mutant: j for j + 1. *)
CountedOver(c) == IF count[c] = 0 THEN 1 ELSE IF count[c] < j THEN count[c] + 1 ELSE count[c]

(* getEle, and then addEle, inCnt or nothing. *)
Counted(c) == IF count[c] = 0 THEN 1 ELSE IF count[c] < j + 1 THEN count[c] + 1 ELSE count[c]

ReadLetter(c) ==
  /\ j < Rocks
  /\ count' = [count EXCEPT ![c] = Counted(c)]
  /\ named' = [named EXCEPT ![c] = @ \cup {j}]
  /\ UNCHANGED j

NextName ==
  /\ j < Rocks
  /\ j' = j + 1
  /\ UNCHANGED <<count, named>>

RockNext == NextName \/ \E c \in Letter : ReadLetter(c)

RockSpec == RockInit /\ [][RockNext]_rocks

cntNode(cntCh) == Cardinality({c \in Letter : count[c] = cntCh})

(* A letter's count is at least the number of names read so far that hold it, and at
   most the number of names begun: after the last name no letter that all names share
   is missed by cntNode(n).  It may count others, which a name holds twice. *)
NoLetterMissed ==
  \A c \in Letter : Cardinality(named[c]) <= count[c] /\ count[c] <= j + 1
=============================================================================
