----------------------------- MODULE LocalDirector -----------------------------
(***************************************************************************)
(* One call of GemmaDirectorModel.directChapter: the chapter goes to the   *)
(* local model window by window.  An answer that is not faithful to the    *)
(* text is asked for again with other sampling; a window the model cannot  *)
(* manage is cut smaller, and so are those after it.  The model, the       *)
(* deadline and whoever cancels do what they like in between.              *)
(***************************************************************************)
EXTENDS DirectionWindows

CONSTANTS
  MaxPassages, Sizes,  \* the chapters
  Chunking,            \* the budgets the adapter is configured with
  MaxShrinks,          \* maxWindowShrinks
  MaxAttempts          \* 1 + maxRerequests

VARIABLES
  size,      \* of each passage
  budget,    \* settings
  shrinks,
  window,    \* planned from the first passage not directed
  index,     \* windowIndex, which names the request
  attempt,   \* the sampling profile in use
  sent,      \* sentWindows: those accepted, with the request that directed them
  requests,  \* ghost: how many requests the model was sent
  ledger,    \* the progress store, without the events of single requests
  late,      \* the chapter's deadline has passed
  aborted,   \* by the caller, or by release()
  pc,
  answer

call == <<size, budget, shrinks, window, index, attempt, sent, requests>>

vars == <<call, ledger, late, aborted, pc, answer>>

Total == Len(size)

NextIndex == IF sent = <<>> THEN 0 ELSE sent[Len(sent)].end

Init ==
  /\ size \in UNION {[1..n -> Sizes] : n \in 1..MaxPassages}
  /\ budget = Chunking /\ shrinks = 0 /\ window = [start |-> 0, end |-> 0]
  /\ index = 0 /\ attempt = 0 /\ sent = <<>> /\ requests = 0
  /\ ledger = <<>> /\ late = FALSE /\ aborted = FALSE
  /\ pc = "starting" /\ answer = "none"

Env == <<late, aborted>>

Goes(to) == pc' = to /\ UNCHANGED answer

\* The call rejects; a store that accepts it is told so, unless "started" has not been said
Fails(why) ==
  /\ pc' = "settled" /\ answer' = "failed"
  /\ ledger' \in {ledger, Append(ledger, why)}

Rejects == pc' = "settled" /\ answer' = "failed" /\ UNCHANGED ledger

Timeout == late /\ Fails("failed")

\* An error of the window's own, which no smaller window would cure
Breaks == Fails("failed")

-----------------------------------------------------------------------------

\* The lease, the runtime and the context, each raced against the deadline
Start ==
  /\ pc = "starting"
  /\ \/ Rejects
     \/ ~late /\ Goes("opening") /\ UNCHANGED ledger
  /\ UNCHANGED <<call, Env>>

\* emit('started'); a store that fails here makes the call reject
Open ==
  /\ pc = "opening"
  /\ \/ Rejects
     \/ ledger' = Append(ledger, "started") /\ (Goes("planning") \/ (pc' = "settled" /\ answer' = "failed"))
  /\ UNCHANGED <<call, Env>>

\* The head of the loop
Plan ==
  /\ pc = "planning" /\ NextIndex < Total
  /\ \/ Timeout /\ UNCHANGED call
     \/ /\ ~late /\ Goes("fitting") /\ UNCHANGED ledger
        /\ window' = PlanWindow(size, NextIndex, budget)
        /\ index' = index + 1
        /\ UNCHANGED <<size, budget, shrinks, attempt, sent, requests>>
  /\ UNCHANGED Env

\* Before anything is sent: a window over the prompt budget is cut, a passage over either is refused
Fit ==
  /\ pc = "fitting"
  /\ \/ /\ PromptFits(size, window) /\ OutputFits(size, window)
        /\ Goes("requesting") /\ attempt' = 1
        /\ UNCHANGED <<size, budget, shrinks, window, index, sent, requests, ledger>>
     \/ PromptFits(size, window) /\ ~OutputFits(size, window) /\ Breaks /\ UNCHANGED call
     \/ /\ ~PromptFits(size, window) /\ (Count(window) <= 1 \/ shrinks >= MaxShrinks)
        /\ Breaks /\ UNCHANGED call
     \/ /\ ~PromptFits(size, window) /\ Count(window) > 1 /\ shrinks < MaxShrinks
        /\ shrinks' = shrinks + 1
        /\ budget' = Shrunk(size, budget, window)
        /\ window' = PlanWindow(size, NextIndex, budget')
        /\ UNCHANGED <<size, index, attempt, sent, requests, ledger, pc, answer>>
  /\ UNCHANGED Env

\* emit('requesting'), then the request, unless the time is up or the call was aborted
Request ==
  /\ pc = "requesting"
  /\ \/ Timeout /\ UNCHANGED call
     \/ aborted /\ Fails("cancelled") /\ UNCHANGED call
     \/ Breaks /\ UNCHANGED call
     \/ /\ ~late /\ ~aborted /\ Goes("streaming") /\ requests' = requests + 1
        /\ UNCHANGED <<size, budget, shrinks, window, index, attempt, sent, ledger>>
  /\ UNCHANGED Env

\* Mutant: the response stream is not raced against the deadline
CutOffByCaller ==
  /\ pc = "streaming"
  /\ aborted /\ Fails("cancelled")
  /\ UNCHANGED <<call, Env>>

\* The deadline or the caller cuts the response off
CutOff ==
  /\ pc = "streaming"
  /\ Timeout \/ (aborted /\ Fails("cancelled"))
  /\ UNCHANGED <<call, Env>>

\* A transport, schema or progress error, or the request's own timeout
ReplyBroken ==
  /\ pc = "streaming" /\ ~late /\ ~aborted
  /\ Breaks
  /\ UNCHANGED <<call, Env>>

\* The whole response is there; emit('validating') is awaited
ReplyWhole ==
  /\ pc = "streaming" /\ ~late /\ ~aborted
  /\ Goes("validating")
  /\ UNCHANGED <<call, ledger, Env>>

\* Mutant: the window that was cut keeps its number
RecoversUnnumbered ==
  /\ Count(window) > 1 /\ shrinks < MaxShrinks
  /\ shrinks' = shrinks + 1
  /\ budget' = Shrunk(size, budget, window)
  /\ Goes("planning")
  /\ UNCHANGED <<size, window, index, attempt, sent, requests, ledger>>

\* The same passages again, from the budgets as they are now: the loop continues
Recovers ==
  /\ Count(window) > 1 /\ shrinks < MaxShrinks
  /\ shrinks' = shrinks + 1
  /\ budget' = Shrunk(size, budget, window)
  /\ index' = index - 1
  /\ Goes("planning")
  /\ UNCHANGED <<size, window, attempt, sent, requests, ledger>>

TooLarge == Recovers \/ ((Count(window) <= 1 \/ shrinks >= MaxShrinks) /\ Breaks /\ UNCHANGED call)

\* A truncated response, or a prompt the server finds too long
ReplyTruncated ==
  /\ pc = "streaming" /\ ~late /\ ~aborted
  /\ TooLarge
  /\ UNCHANGED Env

Unfaithful ==
  /\ pc = "validating"
  /\ IF attempt < MaxAttempts
     THEN /\ attempt' = attempt + 1 /\ Goes("requesting")
          /\ UNCHANGED <<size, budget, shrinks, window, index, sent, requests, ledger>>
     ELSE TooLarge
  /\ UNCHANGED Env

Accept ==
  /\ pc = "validating"
  /\ sent' = Append(sent, [start |-> window.start, end |-> window.end, request |-> index])
  /\ Goes("planning")
  /\ UNCHANGED <<size, budget, shrinks, window, index, attempt, requests, ledger, Env>>

\* Mutant: nothing checks that the windows cover the chapter
StitchUnchecked ==
  /\ pc = "planning" /\ NextIndex > 0
  /\ ledger' = Append(ledger, "completed") /\ pc' = "settled" /\ answer' = "chapter"
  /\ UNCHANGED <<call, Env>>

\* The windows must tile; emit('completed') is awaited, and its failure rejects the call
Stitch ==
  /\ pc = "planning" /\ NextIndex = Total
  /\ IF ~Tiles(sent, Total) THEN Rejects
     ELSE \/ Rejects
          \/ /\ ledger' = Append(ledger, "completed") /\ pc' = "settled"
             /\ answer' \in {"chapter", "failed"}
  /\ UNCHANGED <<call, Env>>

Expire == ~late /\ pc # "settled" /\ late' = TRUE /\ UNCHANGED <<call, ledger, aborted, pc, answer>>

Abort == ~aborted /\ pc # "settled" /\ aborted' = TRUE /\ UNCHANGED <<call, ledger, late, pc, answer>>

Replies == ReplyBroken \/ ReplyWhole \/ ReplyTruncated

Own == Start \/ Open \/ Plan \/ Fit \/ Request \/ CutOff \/ Unfaithful \/ Accept \/ Stitch

Next == Own \/ Replies \/ Expire \/ Abort

\* The model server need not answer: the deadline passes
Fairness == WF_vars(Own) /\ WF_vars(Expire)

Spec == Init /\ [][Next]_vars /\ Fairness

-----------------------------------------------------------------------------

TypeOK ==
  /\ size \in UNION {[1..n -> Sizes] : n \in 1..MaxPassages}
  /\ shrinks \in 0..MaxShrinks /\ attempt \in 0..MaxAttempts
  /\ window.start \in 0..Total /\ window.end \in 0..Total
  /\ answer \in {"none", "chapter", "failed"} /\ (answer = "none" <=> pc # "settled")

(* Whoever asks for a chapter gets all of it, in order, or an error.       *)
Whole == INSTANCE WholeChapter WITH passages <- Total, directed <- NextIndex

ImplementsWholeChapter == Whole!Spec

(* The windows accepted are named in order, without a gap: a window that   *)
(* was cut and asked for again takes no second name.                       *)
RequestsNamed == \A k \in 1..Len(sent) : sent[k].request = k

(* However the model fails, a chapter costs a bounded number of requests.  *)
RequestsBounded == requests <= MaxAttempts * (Total + MaxShrinks)

(* A shrink is never for nothing: the next window is shorter.              *)
ShrinksCut ==
  [][shrinks' > shrinks => PlanWindow(size, NextIndex, budget').end < window.end]_vars

(* The store says how a call ended once at most, and "completed" only of   *)
(* a chapter that is whole, "cancelled" only of a call that was aborted.   *)
LedgerTruthful ==
  LET ends == {k \in DOMAIN ledger : ledger[k] # "started"}
  IN /\ \A k, m \in ends : k = m
     /\ \A k \in ends :
          /\ ledger[k] = "completed" => Tiles(sent, Total)
          /\ ledger[k] = "cancelled" => aborted
     /\ answer = "chapter" => \E k \in ends : ledger[k] = "completed"

(* The call settles within the chapter's deadline, though the model server *)
(* never answers.                                                          *)
Settles == <>(answer # "none")
=============================================================================
