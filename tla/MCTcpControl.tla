------------------------------ MODULE MCTcpControl ------------------------------
(* What goes on at a time: the app's connections, discovery beside one of them, or the
   cloud.  The channels share the loop and the mutex, but no buffer. *)
EXTENDS TcpControl

VARIABLE scene

MCInit == Init /\ scene \in {"app", "discovery", "cloud"}

MCNext ==
  /\ Next
  /\ scene # "cloud" => ~cloudUp'
  /\ scene # "discovery" => packets' = 0
  /\ scene = "cloud" => backlog' = <<>>
  /\ scene = "discovery" => Len(sent') <= 1 /\ \E c \in Client : \A d \in Client \ {c} : peer'[d] = "new"
  /\ UNCHANGED scene

MCSpec == MCInit /\ [][MCNext]_<<vars, scene>> /\ Fairness
=============================================================================
