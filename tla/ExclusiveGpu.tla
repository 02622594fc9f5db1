---------------------------- MODULE ExclusiveGpu ----------------------------
(***************************************************************************)
(* What the GPU lease and the two model runtimes promise together: the GPU *)
(* is taken only while no model is loaded on it and nobody has quarantined *)
(* it; only its owner loads a model, and one at a time; an owner gives it  *)
(* up only after its model is gone.  An owner may die: then its model may  *)
(* stay behind, and the GPU is not taken again until that model is gone.   *)
(***************************************************************************)

CONSTANTS Users, Nobody

VARIABLES
  owner,        \* who may load a model
  loaded,       \* whose models are on the GPU
  quarantined   \* whether an operator has to look first

gpu == <<owner, loaded, quarantined>>

Init == owner = Nobody /\ loaded = {} /\ quarantined = FALSE

Take(u) ==
  /\ owner = Nobody /\ loaded = {} /\ ~quarantined
  /\ owner' = u /\ UNCHANGED <<loaded, quarantined>>

Load(u) ==
  /\ owner = u /\ loaded = {}
  /\ loaded' = {u} /\ UNCHANGED <<owner, quarantined>>

Unload(u) ==
  /\ u \in loaded
  /\ loaded' = loaded \ {u} /\ UNCHANGED <<owner, quarantined>>

Give(u) ==
  /\ owner = u /\ u \notin loaded
  /\ owner' = Nobody /\ UNCHANGED <<loaded, quarantined>>

\* The owner cannot prove that its model is gone
Quarantine(u) ==
  /\ owner = u
  /\ quarantined' = TRUE /\ UNCHANGED <<owner, loaded>>

\* The operator has looked
Clear ==
  /\ loaded = {}
  /\ quarantined' = FALSE /\ UNCHANGED <<owner, loaded>>

\* The owner's process dies
Die(u) ==
  /\ owner = u
  /\ owner' = Nobody /\ UNCHANGED <<loaded, quarantined>>

Next ==
  \/ Clear
  \/ \E u \in Users :
       Take(u) \/ Load(u) \/ Unload(u) \/ Give(u) \/ Quarantine(u) \/ Die(u)

Spec == Init /\ [][Next]_gpu
=============================================================================
