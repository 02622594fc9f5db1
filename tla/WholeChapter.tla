----------------------------- MODULE WholeChapter -----------------------------
(***************************************************************************)
(* What a director promises whoever asks it for a chapter: one answer,     *)
(* either every passage directed, in order, or an error; never a part.     *)
(***************************************************************************)
EXTENDS Naturals

CONSTANT MaxPassages

VARIABLES passages, directed, answer

vars == <<passages, directed, answer>>

Init == passages \in 1..MaxPassages /\ directed = 0 /\ answer = "none"

Direct ==
  /\ answer = "none"
  /\ directed' \in (directed + 1)..passages
  /\ UNCHANGED <<passages, answer>>

Answer ==
  /\ answer = "none"
  /\ answer' \in {"failed"} \cup (IF directed = passages THEN {"chapter"} ELSE {})
  /\ UNCHANGED <<passages, directed>>

Next == Direct \/ Answer

Spec == Init /\ [][Next]_vars
=============================================================================
