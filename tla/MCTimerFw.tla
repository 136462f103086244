------------------------------- MODULE MCTimerFw -------------------------------
(* Two slots.  The behaviours are of two classes, told apart by the constant variable
   ticking: "fine", where a tick falls between any two stores of the main context and
   a callback runs in the tick or in the low pass, and "coarse", where it falls
   between calls and between two slots of the loop and a callback runs in the high
   or the low pass. *)
EXTENDS TimerFw

LowOnce == [type |-> "TIMER_LOW_PRIO", repeat |-> FALSE]
HighRepeated == [type |-> "TIMER_HIGH_PRIO", repeat |-> TRUE]
RealtimeOnce == [type |-> "TIMER_REALTIME", repeat |-> FALSE]
MCKind == {LowOnce, HighRepeated, RealtimeOnce}
MCLowPrio == {LowOnce, [LowOnce EXCEPT !.repeat = TRUE]}

VARIABLE ticking

Unused == IF ticking = "fine" THEN HighRepeated ELSE RealtimeOnce

MCInit == Init /\ ticking \in {"fine", "coarse"}
MCNext ==
  /\ UNCHANGED ticking
  /\ \/ Tick /\ (ticking = "coarse" => pc \in {"idle", "scan"})
     \/ Api \/ timerFwProcess
  /\ \A i \in used' : kind'[i] # Unused

MCSpec == MCInit /\ [][MCNext]_<<vars, ticking>> /\ Fairness

-----------------------------------------------------------------------------
(* A tick that falls between two calls or two slots of the loop loses no expiry
   (timerFw.h:50, "Callback function when timer expires"). *)
CoarseExpiryDelivered ==
  \A i \in Slot :
    ticking = "coarse" /\ i \in Running
      ~> \/ i \in called
         \/ i \in stopped
         \/ state[i] = "TIMER_PAUSED"
         \/ pc = "start2" /\ tgt = i
=============================================================================
