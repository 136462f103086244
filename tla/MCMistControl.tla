----------------------------- MODULE MCMistControl -----------------------------
(* Waits around the delay of endMist: shorter than a tick, as long, and longer.
   In half of the behaviours the app never switches the manual mode on. *)
EXTENDS MistControl

Waits(bf, on, af, off, ok) ==
  [present |-> TRUE, smSpdOk |-> ok, blBfnT |-> bf, tOn |-> on, blAffT |-> af, tOff |-> off]

MCStored == {Waits(2, 1, 0, 1, TRUE), Waits(1, 2, 1, 0, TRUE)}
MCReading == {<<"ok", "ok">>, <<"high", "failed">>, <<"failed", "ok">>, <<"ok", "high">>}
VARIABLE mode   (* "auto": the app never switches the manual mode on *)

MCInit == Init /\ mode \in {"manual", "auto"}
MCNext == Next /\ UNCHANGED mode /\ (mode = "auto" => ~gManualModeOnFlag')

MCSpec == MCInit /\ [][MCNext]_<<vars, mode>> /\ Fairness

-----------------------------------------------------------------------------
(* Without the manual mode the motors run only in the states that run them
   (jumpStateMachine.ino's entry actions are the only code that switches them). *)
AutoMotorsFollowState == mode = "auto" => MotorsFollowState

(* Without the manual mode the alert handler leaves everything off
   (esp32MistingController.ino:598). *)
AutoAlertStopsDevice ==
  [][mode = "auto" /\ alertEvt /\ ~alertEvt' /\ led' => ~dev'.bldc /\ ~dev'.sm /\ ~dev'.hv]_vars

(* Without the manual mode a device that is on and left alone mists again and again
   (the cycle of jumpStateMachine.ino). *)
AutoOnMists == mode = "auto" => OnMists
=============================================================================
