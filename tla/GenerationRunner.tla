-------------------------- MODULE GenerationRunner --------------------------
(***************************************************************************)
(* The web process as the owner of work: GenerationRunner's one promise    *)
(* chain for the directions and renders of several jobs, the requests of   *)
(* AudiobookWebApi that feed it, and the ShutdownController that drains    *)
(* it, releases the models, closes the database and exits.                 *)
(*                                                                         *)
(* An operation is seen from outside: it reads its row, refuses or claims  *)
(* it, works, and saves a row at rest.  (Direction and RenderReview have   *)
(* the inside.)  A step runs up to the next await.                         *)
(***************************************************************************)
EXTENDS Naturals, Sequences, FiniteSets

CONSTANTS
  Jobs,
  NoJob,        \* none of them
  Clients,      \* web requests under way at a time
  MaxFaults     \* bound on crashes, lost saves and failed releases

Kinds == {"direction", "rendering"}

VARIABLES
  rows,         \* the jobs table: state and stage
  chain,        \* what hangs on the tail promise, dropped entries included
  status,       \* the statuses map
  running,      \* the operation at the end of the chain: job, kind, how far
  request,      \* the web requests
  stop,         \* how far prepare() and the exit have come
  models,       \* releaseOwnedResources
  faults,
  lost          \* ghost: jobs with a running row because of a fault

vars == <<rows, chain, status, running, request, stop, models, faults, lost>>

States == {"none", "pending", "running", "failed", "abandoned", "review", "completed"}

Quiet == [job |-> NoJob, kind |-> "direction", recover |-> FALSE, pc |-> "idle"]

NoRequest == [pc |-> "idle", job |-> NoJob, kind |-> "direction", recover |-> FALSE]

\* Before anything was asked for
Untouched ==
  /\ rows = [j \in Jobs |-> [state |-> "none", stage |-> "direction"]]
  /\ chain = <<>> /\ status = [j \in Jobs |-> "idle"] /\ running = Quiet
  /\ request = [c \in Clients |-> NoRequest]
  /\ models = "owned" /\ faults = 0 /\ lost = {}

Init == Untouched /\ stop = "no"

Stopping == stop # "no"

Up == stop # "exited"

DatabaseOpen == stop \in {"no", "draining"}

Fault == faults < MaxFaults /\ faults' = faults + 1

Queue == <<chain, status, running>>

Process == <<stop, models>>

-----------------------------------------------------------------------------
(* Web requests                                                            *)

Ends(c) == request' = [request EXCEPT ![c] = NoRequest]

Asked(c, j, kind, recover, pc) ==
  request' = [request EXCEPT ![c] = [pc |-> pc, job |-> j, kind |-> kind, recover |-> recover]]

\* startGeneration, to the read of the row
StartGeneration(c, j) ==
  /\ Up /\ DatabaseOpen /\ request[c].pc = "idle" /\ status[j] = "idle"
  /\ \/ /\ rows[j].state \in {"none", "pending", "review", "completed"}
        /\ Asked(c, j, "direction", FALSE, "start")
     \/ rows[j].state = "running" /\ Asked(c, j, "direction", TRUE, "start")
  /\ UNCHANGED <<rows, Queue, Process, faults, lost>>

\* resumeGeneration, to the list of uploads
ResumeGeneration(c, j) ==
  /\ Up /\ DatabaseOpen /\ request[c].pc = "idle" /\ status[j] = "idle"
  /\ rows[j].state \in {"failed", "abandoned"}
  /\ Asked(c, j, rows[j].stage, TRUE, "start")
  /\ UNCHANGED <<rows, Queue, Process, faults, lost>>

\* renderApprovedScript, to the confirmation
RenderApprovedScript(c, j) ==
  /\ Up /\ DatabaseOpen /\ request[c].pc = "idle" /\ status[j] = "idle"
  /\ rows[j].state = "review"
  /\ Asked(c, j, "rendering", FALSE, "start")
  /\ UNCHANGED <<rows, Queue, Process, faults, lost>>

\* start: refused while stopping and for an active job
Enqueue(c) ==
  /\ request[c].pc = "start" /\ Up
  /\ LET r == request[c]
     IN IF Stopping \/ status[r.job] # "idle" THEN UNCHANGED <<chain, status>>
        ELSE /\ chain' = Append(chain, [job |-> r.job, kind |-> r.kind, recover |-> r.recover])
             /\ status' = [status EXCEPT ![r.job] = "queued"]
  /\ Ends(c)
  /\ UNCHANGED <<rows, running, Process, faults, lost>>

-----------------------------------------------------------------------------
(* The chain                                                               *)

\* Mutant: an entry that was dropped runs
BeginDropped ==
  /\ Up /\ chain # <<>> /\ running = Quiet
  /\ LET e == Head(chain)
     IN /\ status' = [status EXCEPT ![e.job] = "running"]
        /\ running' = [job |-> e.job, kind |-> e.kind, recover |-> e.recover, pc |-> "gate"]
  /\ chain' = Tail(chain)
  /\ UNCHANGED <<rows, request, Process, faults, lost>>

\* The next entry of the chain, or nothing for one that beginShutdown dropped
Begin ==
  /\ Up /\ chain # <<>> /\ running = Quiet
  /\ LET e == Head(chain)
     IN IF Stopping /\ status[e.job] = "idle" THEN UNCHANGED <<status, running>>
        ELSE /\ status' = [status EXCEPT ![e.job] = "running"]
             /\ running' = [job |-> e.job, kind |-> e.kind, recover |-> e.recover, pc |-> "gate"]
  /\ chain' = Tail(chain)
  /\ UNCHANGED <<rows, request, Process, faults, lost>>

RunningAt(pc) == Up /\ running.pc = pc

\* The finally of a run, after the catch that keeps the message of a failure
Finishes ==
  /\ running' = Quiet
  /\ status' = [status EXCEPT ![running.job] = "idle"]

Unowned(j, state) == lost' = IF state = "running" THEN lost ELSE lost \ {j}

Saves(state, stage) ==
  /\ rows' = [rows EXCEPT ![running.job] = [state |-> state, stage |-> stage]]
  /\ Unowned(running.job, state)

\* DirectAudiobook's and RenderAudiobook's reading of the row
Claimable ==
  LET row == rows[running.job]
  IN \/ running.kind = "direction" /\ row.state \in {"none", "pending"}
     \/ running.kind = "rendering" /\ row.state = "review"
     \/ /\ row.stage = running.kind
        /\ \/ row.state = "failed"
           \/ row.state = "abandoned" /\ running.recover

\* An ownerless row is first put to rest, then claimed like any other
Recovers == rows[running.job].state = "running" /\ running.recover

Gate ==
  /\ RunningAt("gate")
  /\ \/ /\ Claimable
        /\ Saves("running", running.kind)
        /\ running' = [running EXCEPT !.pc = "work"] /\ UNCHANGED status
     \/ /\ Recovers
        /\ Saves("abandoned", rows[running.job].stage)
        /\ UNCHANGED <<running, status>>
     \/ ~Claimable /\ ~Recovers /\ Finishes /\ UNCHANGED <<rows, lost>>
  /\ UNCHANGED <<chain, request, Process, faults>>

\* Work ends well, fails, or is aborted; the row it leaves is at rest
Work ==
  /\ RunningAt("work")
  /\ \/ Saves(IF running.kind = "direction" THEN "review" ELSE "completed", running.kind)
     \/ ~Stopping /\ Saves("failed", running.kind)
     \/ Stopping /\ Saves("abandoned", running.kind)
  /\ running' = [running EXCEPT !.pc = "over"]
  /\ UNCHANGED <<chain, status, request, Process, faults>>

\* A save is given up: a claim leaves the row as it was, an outcome leaves it running
SaveLost ==
  /\ running.pc \in {"gate", "work"} /\ Up /\ Fault
  /\ lost' = IF RunningAt("work") THEN lost \cup {running.job} ELSE lost
  /\ running' = [running EXCEPT !.pc = "over"]
  /\ UNCHANGED <<rows, chain, status, request, Process>>

Finish ==
  /\ RunningAt("over") /\ Finishes
  /\ UNCHANGED <<rows, chain, request, Process, faults, lost>>

-----------------------------------------------------------------------------
(* Stopping the process                                                    *)

\* prepareOnce: beginShutdown drops what is queued, then the signal is aborted
Prepare ==
  /\ Up /\ stop = "no" /\ stop' = "draining"
  /\ status' = [j \in Jobs |-> IF status[j] = "queued" THEN "idle" ELSE status[j]]
  /\ UNCHANGED <<rows, chain, running, request, models, faults, lost>>

ReleaseModels ==
  /\ stop = "draining" /\ models = "owned"
  /\ \/ models' = "released" /\ UNCHANGED faults
     \/ models' = "stuck" /\ Fault
  /\ UNCHANGED <<rows, Queue, request, stop, lost>>

Idle == chain = <<>> /\ running = Quiet

\* Mutant: only the models are awaited
CloseEarly ==
  /\ stop = "draining" /\ models # "owned"
  /\ stop' = "closed"
  /\ UNCHANGED <<rows, Queue, request, models, faults, lost>>

\* Both settled, whatever came of them: closeResources
CloseDatabase ==
  /\ stop = "draining" /\ models # "owned" /\ Idle
  /\ stop' = "closed"
  /\ UNCHANGED <<rows, Queue, request, models, faults, lost>>

\* stopAppResponse: an exit after the acknowledgement, or a refusal that stands for good
Respond ==
  /\ stop = "closed"
  /\ stop' = IF models = "released" THEN "exited" ELSE "refused"
  /\ UNCHANGED <<rows, Queue, request, models, faults, lost>>

Fresh ==
  /\ chain' = <<>> /\ status' = [j \in Jobs |-> "idle"] /\ running' = Quiet
  /\ request' = [c \in Clients |-> NoRequest]
  /\ models' = "owned"

\* The user starts the program again
Restart ==
  /\ stop = "exited" /\ stop' = "no" /\ Fresh
  /\ UNCHANGED <<rows, faults, lost>>

Crash ==
  /\ Up /\ Fault /\ stop' = "exited" /\ Fresh
  /\ lost' = lost \cup {j \in Jobs : rows[j].state = "running"}
  /\ UNCHANGED rows

Serve(c) ==
  \/ \E j \in Jobs : StartGeneration(c, j) \/ ResumeGeneration(c, j) \/ RenderApprovedScript(c, j)
  \/ Enqueue(c)

Drain == ReleaseModels \/ CloseDatabase \/ Respond

\* One of these at a time: what the chain does next
Execute == Begin \/ Gate \/ Work \/ Finish

Next ==
  \/ \E c \in Clients : Serve(c)
  \/ Execute \/ SaveLost
  \/ Prepare \/ Drain \/ Restart \/ Crash

Spec == Init /\ [][Next]_vars

\* Promises are continued, every operation ends or answers its signal, releases end
Fairness == WF_vars(Execute) /\ WF_vars(Drain)

FairSpec == Spec /\ Fairness

-----------------------------------------------------------------------------
(* Properties                                                              *)

TypeOK ==
  /\ rows \in [Jobs -> [state : States, stage : Kinds]]
  /\ status \in [Jobs -> {"idle", "queued", "running"}]
  /\ chain \in Seq([job : Jobs, kind : Kinds, recover : BOOLEAN])
  /\ running.job \in Jobs \cup {NoJob} /\ running.pc \in {"idle", "gate", "work", "over"}
  /\ stop \in {"no", "draining", "closed", "refused", "exited"}
  /\ models \in {"owned", "released", "stuck"}
  /\ faults \in 0..MaxFaults /\ lost \subseteq Jobs
  /\ Len(chain) <= Cardinality(Jobs)

\* isActive tells the truth: a job is idle exactly when no entry of the chain that will run and
\* no operation is its own.  Reviews and starts are refused on its word alone.
ActiveIsTruthful ==
  \A j \in Jobs :
    status[j] = (IF running.job = j THEN "running"
                 ELSE IF ~Stopping /\ \E i \in DOMAIN chain : chain[i].job = j THEN "queued"
                 ELSE "idle")

\* A running row belongs to the operation under way; a job that waits, was dropped by a stop, or
\* ended in any way rests in a state it can be continued from, unless its save was lost.
RowsRest == \A j \in Jobs : rows[j].state = "running" => running.job = j \/ j \in lost

\* When the database is closed nothing is under way that would still save to it, and no row of
\* this process is left running.
ClosedAtRest == ~DatabaseOpen => Idle /\ \A j \in Jobs \ lost : rows[j].state # "running"

\* What isActive and the rows say of the work is true at any time, and when the database closes.
RestIsTruthful == TypeOK /\ ActiveIsTruthful /\ RowsRest /\ ClosedAtRest

\* What makes these inductive: requests and the operation are about jobs,
Asking ==
  /\ request \in [Clients -> [pc : {"idle", "start"}, job : Jobs \cup {NoJob}, kind : Kinds,
                              recover : BOOLEAN]]
  /\ \A c \in Clients : request[c].pc = "start" => request[c].job \in Jobs

Operating ==
  /\ running \in [job : Jobs \cup {NoJob}, kind : Kinds, recover : BOOLEAN,
                  pc : {"idle", "gate", "work", "over"}]
  /\ running.job = NoJob <=> running.pc = "idle"

\* a job is in the chain once, and not while it runs,
OncePerJob ==
  \A i \in DOMAIN chain :
    /\ chain[i].job # running.job
    /\ \A k \in DOMAIN chain : chain[i].job = chain[k].job => i = k

\* and only an operation that was let in owns a running row.
RowsOwned ==
  \A j \in Jobs :
    rows[j].state = "running" => (running.job = j /\ running.pc = "work") \/ j \in lost

RunnerInv == RestIsTruthful /\ Asking /\ Operating /\ OncePerJob /\ RowsOwned

\* The jobs that wait, in order
JobsOf(entries) == [i \in DOMAIN entries |-> entries[i].job]

Waiting == IF Stopping THEN <<>> ELSE JobsOf(chain)

\* One operation at a time, in the order accepted, one per job, and none begun after a stop.
Executor ==
  INSTANCE SerialExecutor WITH waiting <- Waiting, current <- running.job, open <- ~Stopping

Serial == Executor!Spec

\* A stop that was requested ends: the process exits, or reports that a model is not released.
StopEnds == stop = "draining" ~> stop \in {"exited", "refused"}

\* What was accepted is over some day: it has run, or the process was stopped.
Accepted(j) == status[j] = "queued" ~> status[j] = "idle" \/ running.job = j

AcceptedRuns == \A j \in Jobs : Accepted(j)

\* Neither an operation that fails or is dropped nor a model that is stuck holds up the rest.
RunsSettle == StopEnds /\ AcceptedRuns
=============================================================================
