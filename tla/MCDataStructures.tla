---------------------------- MODULE MCDataStructures ----------------------------
(* The sequential data structures of the C libraries and their programs, one of them in
   a behaviour.  A queue of three slots with two distinguishable elements, counters that
   wrap at 5; a list of up to four elements out of two, so that neighbours may be equal;
   three names. *)
EXTENDS StaticQueue, GenericList, RockProblem

VARIABLE program

MCInit == Init /\ ListInit /\ RockInit /\ program \in {"queue", "list", "rock"}
MCNext ==
  /\ UNCHANGED program
  /\ \/ program = "queue" /\ Next /\ UNCHANGED <<listVars, rocks>>
     \/ program = "list" /\ ListNext /\ UNCHANGED <<queueVars, rocks>>
     \/ program = "rock" /\ RockNext /\ UNCHANGED <<queueVars, listVars>>

MCSpec == MCInit /\ [][MCNext]_<<queueVars, listVars, rocks, program>>
=============================================================================
