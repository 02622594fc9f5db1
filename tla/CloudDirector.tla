---------------------------- MODULE CloudDirector ----------------------------
(***************************************************************************)
(* One call of OpenAiCloudDirectorModel.directChapter: the same windows as *)
(* the local director's, fixed beforehand, each asked for a few times; the *)
(* progress sink is awaited between the steps, and may fail.               *)
(***************************************************************************)
EXTENDS DirectionWindows

CONSTANTS
  MaxPassages, Sizes,  \* the chapters
  Chunking,            \* the budgets the adapter is configured with
  MaxAttempts          \* MAX_WINDOW_ATTEMPTS

VARIABLES
  size,      \* of each passage
  window, attempt,
  sent,      \* the windows accepted
  requests,  \* ghost: how many requests were sent
  told,      \* the ends of the call the sink accepted
  late,      \* the chapter's deadline has passed
  aborted,   \* by the caller, or by release()
  pc,
  answer

call == <<size, window, attempt, sent, requests>>

vars == <<call, told, late, aborted, pc, answer>>

Env == <<late, aborted>>

Total == Len(size)

Done == IF sent = <<>> THEN 0 ELSE sent[Len(sent)].end

Init ==
  /\ size \in UNION {[1..n -> Sizes] : n \in 1..MaxPassages}
  /\ window = [start |-> 0, end |-> 0] /\ attempt = 0 /\ sent = <<>> /\ requests = 0
  /\ told = <<>> /\ late = FALSE /\ aborted = FALSE /\ pc = "opening" /\ answer = "none"

Goes(to) == pc' = to /\ UNCHANGED <<told, answer>>

\* The catch around the loop: an abort is told as the cause of anything but unfaithful text
Fails(unfaithful) ==
  /\ pc' = "settled" /\ answer' = "failed"
  /\ told' \in {told, Append(told, IF aborted /\ ~unfaithful THEN "cancelled" ELSE "failed")}

\* emit('started') is outside it
Open ==
  /\ pc = "opening"
  /\ Goes("loading") \/ (pc' = "settled" /\ answer' = "failed" /\ UNCHANGED told)
  /\ UNCHANGED <<call, Env>>

\* The context, raced against the deadline and an abort
Load ==
  /\ pc = "loading"
  /\ Fails(FALSE) \/ (~late /\ ~aborted /\ Goes("planning"))
  /\ UNCHANGED <<call, Env>>

\* A window of one passage may be over the response budget
Plan ==
  /\ pc = "planning" /\ Done < Total
  /\ window' = PlanWindow(size, Done, Chunking)
  /\ IF OutputFits(size, window') THEN Goes("telling") /\ attempt' = 1
     ELSE Fails(FALSE) /\ UNCHANGED attempt
  /\ UNCHANGED <<size, sent, requests, Env>>

\* emit('requesting'); the time left is looked at after it
Tell ==
  /\ pc = "telling"
  /\ Fails(FALSE) \/ Goes("sending")
  /\ UNCHANGED <<call, Env>>

\* An aborted request fails at once
Send ==
  /\ pc = "sending"
  /\ IF late \/ aborted THEN Fails(FALSE) /\ UNCHANGED requests
     ELSE requests' = requests + 1 /\ Goes("streaming")
  /\ UNCHANGED <<size, window, attempt, sent, Env>>

\* The deadline or an abort cuts the response off, or the sink does, or the provider fails
ReplyBroken ==
  /\ pc = "streaming"
  /\ Fails(FALSE)
  /\ UNCHANGED <<call, Env>>

CutOff == (late \/ aborted) /\ ReplyBroken

\* isRetryableWindowFailure: malformed output, or a fidelity finding
Retry(unfaithful) ==
  IF attempt < MaxAttempts /\ ~aborted
  THEN attempt' = attempt + 1 /\ Goes("telling")
  ELSE Fails(unfaithful) /\ UNCHANGED attempt

ReplyRejected ==
  /\ pc = "streaming" /\ ~late
  /\ \E unfaithful \in BOOLEAN : (aborted => unfaithful) /\ Retry(unfaithful)
  /\ UNCHANGED <<size, window, sent, requests, Env>>

ReplyWhole ==
  /\ pc = "streaming" /\ ~late /\ ~aborted
  /\ Goes("validating")
  /\ UNCHANGED <<call, Env>>

\* emit('validating') comes first; its failure is not retried
Accept ==
  /\ pc = "validating"
  /\ \/ Fails(FALSE) /\ UNCHANGED sent
     \/ sent' = Append(sent, window) /\ Goes("planning")
  /\ UNCHANGED <<size, window, attempt, requests, Env>>

Complete ==
  /\ pc = "planning" /\ Done = Total
  /\ \/ Fails(FALSE)
     \/ told' = Append(told, "completed") /\ pc' = "settled" /\ answer' = "chapter"
  /\ UNCHANGED <<call, Env>>

Expire == ~late /\ pc # "settled" /\ late' = TRUE /\ UNCHANGED <<call, told, aborted, pc, answer>>

Abort == ~aborted /\ pc # "settled" /\ aborted' = TRUE /\ UNCHANGED <<call, told, late, pc, answer>>

Own == Open \/ Load \/ Plan \/ Tell \/ Send \/ CutOff \/ Accept \/ Complete

Next == Own \/ ReplyBroken \/ ReplyRejected \/ ReplyWhole \/ Expire \/ Abort

\* The provider need not answer: the deadline passes
Fairness == WF_vars(Own) /\ WF_vars(Expire)

Spec == Init /\ [][Next]_vars /\ Fairness

-----------------------------------------------------------------------------

(* What is returned covers the chapter, each passage once, in order.       *)
Whole == INSTANCE WholeChapter WITH passages <- Total, directed <- Done

ImplementsWholeChapter == Whole!Spec

(* Each window is asked for MaxAttempts times at most, whatever the mix of *)
(* failures.                                                               *)
RequestsBounded == requests <= MaxAttempts * (Len(sent) + 1)

(* The sink hears of one end at most; "completed" is what was returned, and*)
(* "cancelled" only of a call that was aborted.                            *)
ToldTruthful ==
  /\ Len(told) <= 1
  /\ answer = "chapter" <=> told = <<"completed">>
  /\ told = <<"cancelled">> => aborted

(* The call settles, though the provider never answers.                    *)
Settles == <>(answer # "none")
=============================================================================
