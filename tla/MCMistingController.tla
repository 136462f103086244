-------------------------- MODULE MCMistingController --------------------------
(* The three messages whose handlers touch the radio; the first is also the longest
   burst of events.  Every pass may be without a message. *)
EXTENDS MistingController

MCMessage == {<<"EVT_AP_CONNECT", "EVT_DEVICE_REGISTRATION">>, <<"EVT_AP_DISCONNECT">>,
              <<"EVT_GET_AP_LIST">>}
=============================================================================
