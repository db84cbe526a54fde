---------------------------- MODULE PondPromise ----------------------------
(***************************************************************************)
(* What the control plane promises about a pond, without saying how nodes, *)
(* handlers and storage bring it about.  A pond is placed, then            *)
(* provisioned, and may be removed at any time; once it is ready it stays  *)
(* ready until it is removed, and a removed pond never comes back.  A      *)
(* create is answered at most once: "created" only for a pond that was     *)
(* provisioned, "failed" only for one whose placement was given back, and  *)
(* "orphaned" when the control plane could not give it back.               *)
(***************************************************************************)
CONSTANT Ponds

VARIABLES state,  \* what there is of each pond
          told    \* what the creating caller was told

pvars == <<state, told>>

Init ==
  /\ state = [p \in Ponds |-> "absent"]
  /\ told = [p \in Ponds |-> "nothing"]

Place(p) ==
  /\ state[p] = "absent"
  /\ state' = [state EXCEPT ![p] = "placed"]
  /\ UNCHANGED told

Provision(p) ==
  /\ state[p] = "placed"
  /\ state' = [state EXCEPT ![p] = "ready"]
  /\ UNCHANGED told

Remove(p) ==
  /\ state[p] \in {"placed", "ready"}
  /\ state' = [state EXCEPT ![p] = "removed"]
  /\ UNCHANGED told

AnswerCreated(p) ==
  /\ told[p] = "nothing"
  /\ state[p] \in {"ready", "removed"}
  /\ told' = [told EXCEPT ![p] = "created"]
  /\ UNCHANGED state

Withdraw(p) ==
  /\ told[p] = "nothing"
  /\ state[p] \in {"placed", "ready"}
  /\ state' = [state EXCEPT ![p] = "removed"]
  /\ told' = [told EXCEPT ![p] = "failed"]

AnswerOrphaned(p) ==
  /\ told[p] = "nothing"
  /\ state[p] # "absent"
  /\ told' = [told EXCEPT ![p] = "orphaned"]
  /\ UNCHANGED state

Next == \E p \in Ponds : \/ Place(p) \/ Provision(p) \/ Remove(p)
                         \/ AnswerCreated(p) \/ Withdraw(p) \/ AnswerOrphaned(p)

Spec == Init /\ [][Next]_pvars
=============================================================================
