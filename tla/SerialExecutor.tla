--------------------------- MODULE SerialExecutor ---------------------------
(***************************************************************************)
(* What GenerationRunner promises to the web API: one operation at a time, *)
(* in the order they were accepted, one per job, and none after a stop.    *)
(***************************************************************************)
EXTENDS Sequences, FiniteSets

CONSTANTS Jobs, NoJob

VARIABLES
  waiting,      \* accepted jobs, in order
  current,      \* the job that is executed, or NoJob
  open          \* work is still taken

vars == <<waiting, current, open>>

\* The process runs, or is yet to be started
Init == waiting = <<>> /\ current = NoJob /\ open \in BOOLEAN

Busy == {waiting[i] : i \in DOMAIN waiting} \cup {current}

Accept(j) ==
  /\ open /\ j \notin Busy
  /\ waiting' = Append(waiting, j)
  /\ UNCHANGED <<current, open>>

Begin ==
  /\ open /\ waiting # <<>> /\ current = NoJob
  /\ current' = Head(waiting) /\ waiting' = Tail(waiting)
  /\ UNCHANGED open

Finish ==
  /\ current # NoJob /\ current' = NoJob
  /\ UNCHANGED <<waiting, open>>

\* The current operation goes on to its rest; those that wait are dropped
Close ==
  /\ open /\ open' = FALSE /\ waiting' = <<>>
  /\ UNCHANGED current

\* The process ends, orderly or not
End == waiting' = <<>> /\ current' = NoJob /\ open' = FALSE

\* and is started again
Renew == ~open /\ waiting' = <<>> /\ current' = NoJob /\ open' = TRUE

Next == (\E j \in Jobs : Accept(j)) \/ Begin \/ Finish \/ Close \/ End \/ Renew

Spec == Init /\ [][Next]_vars
=============================================================================
