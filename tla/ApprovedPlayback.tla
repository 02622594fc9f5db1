-------------------------- MODULE ApprovedPlayback --------------------------
(***************************************************************************)
(* What CompletedOutputAuthority promises a listener and a reviewer: audio *)
(* starts to play only if every unresolved speaker in it is approved and   *)
(* the files hold exactly what the live approvals authorize; no decision   *)
(* takes effect between that check and the start; and audio that already   *)
(* plays may finish.                                                       *)
(***************************************************************************)
EXTENDS Naturals

CONSTANTS Segments, Fallback, Readers

VARIABLES
  approvals,    \* the decision that stands for each segment, 0 if none does
  playing       \* what each reader is opening or streaming

Silent == [phase |-> "silent", takes |-> [s \in Segments |-> 0]]

Init ==
  /\ approvals = [s \in Segments |-> 0]
  /\ playing = [d \in Readers |-> Silent]

Decide ==
  /\ \A d \in Readers : playing[d].phase # "opening"
  /\ DOMAIN approvals' = Segments
  /\ UNCHANGED playing

Open(d) ==
  /\ playing[d].phase = "silent"
  /\ \A s \in Fallback : approvals[s] # 0
  /\ playing' = [playing EXCEPT ![d] = [phase |-> "opening", takes |-> approvals]]
  /\ UNCHANGED approvals

Stream(d) ==
  /\ playing[d].phase = "opening"
  /\ playing' = [playing EXCEPT ![d].phase = "streaming"]
  /\ UNCHANGED approvals

Stop(d) ==
  /\ playing' = [playing EXCEPT ![d] = Silent]
  /\ UNCHANGED approvals

\* The process dies, and every stream with it
Halt == playing' = [d \in Readers |-> Silent] /\ UNCHANGED approvals

Next == Decide \/ Halt \/ \E d \in Readers : Open(d) \/ Stream(d) \/ Stop(d)

Spec == Init /\ [][Next]_<<approvals, playing>>
=============================================================================
