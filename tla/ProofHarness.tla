----------------------------- MODULE ProofHarness -----------------------------
(***************************************************************************)
(* The acceptance harness proof-m1: it drives one job of a web process     *)
(* through the requests a browser makes, stops a render in the middle,     *)
(* resumes it, and writes evidence that what was rendered before the stop  *)
(* was used again.  In fake mode the stop is a directory in the place of a *)
(* segment's file; in real mode the server is killed and started anew.     *)
(*                                                                         *)
(* The process is GenerationRunner's, with the inside of its renders: the  *)
(* segments' files and how often each was rendered.                        *)
(***************************************************************************)
EXTENDS GenerationRunner

CONSTANTS
  Segments,          \* numbered in script order
  Harness, Job,      \* the harness's requests, one of Clients; the job, one of Jobs
  Interrupts         \* whether SIGINT may come

VARIABLES
  mode, sabotage,   \* the arguments
  fresh,            \* the workspace given has nothing in it
  audio, renders,   \* the segment files, and how often each was written
  blocked,          \* segments with a directory in the place of their file
  outputs,          \* the numbered M4B files in the workspace
  harness,          \* where main is, what follows a call, and what it ended with
  stopped,          \* the segments that had their audio at the forced stop
  evidence,
  handler, spawned  \* the server SIGINT's handler stops, 0 for none; the servers started so far

workspace == <<audio, renders, blocked, outputs>>

arguments == <<mode, sabotage, fresh>>

proof == <<harness, stopped, evidence>>

signals == <<handler, spawned>>

proofVars == <<vars, arguments, workspace, proof, signals>>

Unstarted == [pc |-> "preflight", next |-> "over", verdict |-> "none"]

NoEvidence == [reused |-> {}, rendered |-> {}, written |-> FALSE]

HarnessInit ==
  /\ Untouched /\ stop = "exited"
  /\ mode \in {"fake", "real"} /\ fresh \in BOOLEAN
  /\ sabotage \in {"none", "truncate-segment", "delete-output"}
  /\ audio = [s \in Segments |-> "none"] /\ renders = [s \in Segments |-> 0]
  /\ blocked = {} /\ outputs = 0
  /\ harness = Unstarted /\ stopped = {} /\ evidence = NoEvidence
  /\ handler = 0 /\ spawned = 0

-----------------------------------------------------------------------------
(* The work of the process, from inside                                    *)

Whole == {s \in Segments : audio[s] = "whole"}

Missing == Segments \ Whole

Untold == UNCHANGED <<arguments, proof, signals>>

Renders(s) ==
  /\ audio' = [audio EXCEPT ![s] = "whole"] /\ renders' = [renders EXCEPT ![s] = @ + 1]

Over(state) == Saves(state, running.kind) /\ running' = [running EXCEPT !.pc = "over"]

\* A direction leads to review; a render ends with its output, or fails at a blocked segment
Operation ==
  /\ RunningAt("work")
  /\ \/ running.kind = "direction" /\ Over("review") /\ UNCHANGED workspace
     \/ /\ running.kind = "rendering"
        /\ \E s \in Missing :
             /\ \A m \in Missing : s <= m
             /\ IF s \in blocked THEN Over("failed") /\ UNCHANGED workspace
                ELSE Renders(s) /\ UNCHANGED <<rows, running, lost, blocked, outputs>>
     \/ /\ running.kind = "rendering" /\ Missing = {}
        /\ Over("completed") /\ outputs' = outputs + 1
        /\ UNCHANGED <<audio, renders, blocked>>
  /\ UNCHANGED <<chain, status, request, Process, faults>> /\ Untold

OperationFails ==
  /\ RunningAt("work") /\ Fault /\ Over("failed")
  /\ UNCHANGED <<chain, status, request, Process, workspace>> /\ Untold

Runs ==
  /\ Begin \/ Gate \/ Finish
  /\ UNCHANGED workspace /\ Untold

-----------------------------------------------------------------------------
(* main, step by step                                                      *)

At(pc) == harness.pc = pc

Goes(pc) == harness' = [harness EXCEPT !.pc = pc]

\* An error leads through the finally block, once there is a server to stop
Reds ==
  harness' = [harness EXCEPT !.pc = IF spawned = 0 THEN "over" ELSE "cleanup", !.verdict = "red"]

Unserved == UNCHANGED <<vars, workspace, arguments, signals>>

\* resolveSafeWorkspace, runPreflight
Preflight ==
  /\ At("preflight") /\ (IF fresh THEN Goes("spawn") ELSE Reds)
  /\ Unserved /\ UNCHANGED <<stopped, evidence>>

\* Something the run needs is missing, the server does not come up, or a call has no answer
Fails ==
  /\ At("preflight") \/ At("calling") \/ (At("verify") /\ Up)
  /\ Fault /\ Reds
  /\ UNCHANGED <<rows, Queue, request, Process, lost, workspace, arguments, signals, stopped,
                 evidence>>

\* startDevServer, waitForHttp: before the upload, and after the kill
Spawn ==
  /\ At("spawn") /\ Restart /\ spawned' = spawned + 1
  /\ Goes(IF stopped = {} THEN "start" ELSE "recover")
  /\ UNCHANGED <<workspace, arguments, stopped, evidence, handler>>

\* A call: the server takes the request up, and answers when it is queued
Call(from, next, Serves) ==
  /\ At(from) /\ Serves /\ harness' = [harness EXCEPT !.pc = "calling", !.next = next]
  /\ UNCHANGED <<workspace, arguments, stopped, evidence, signals>>

\* startGenerationFn: the first time, and with recoverAbandoned
CallStart ==
  \/ Call("start", "directing", StartGeneration(Harness, Job))
  \/ Call("recover", "boundary", StartGeneration(Harness, Job))

CallResume == Call("resume", "resumed", ResumeGeneration(Harness, Job))

CallRender ==
  Call("render",
       IF stopped # {} THEN "resumed" ELSE IF mode = "fake" THEN "blocked" ELSE "watch",
       RenderApprovedScript(Harness, Job))

CallAnswered ==
  /\ At("calling") /\ Enqueue(Harness) /\ Goes(harness.next)
  /\ UNCHANGED <<workspace, arguments, stopped, evidence, signals>>

\* What getJobStateFn says the job is
State ==
  IF status[Job] # "idle" /\ rows[Job].state # "running" THEN "pending" ELSE rows[Job].state

\* No server answers a call or a poll: SIGINT's handler stopped it
Unanswered ==
  /\ ~Up /\ ~At("preflight") /\ ~At("spawn") /\ ~At("kill") /\ ~At("inspect")
  /\ ~At("cleanup") /\ ~At("over") /\ ~At("evidence") /\ ~At("snapshot")
  /\ Reds /\ Unserved /\ UNCHANGED <<stopped, evidence>>

\* pollJobUntil.  A bound: the deadline is met only by a job that nothing will change any more
Poll(from, Reached, next) ==
  /\ At(from) /\ Up
  /\ \/ Reached /\ Goes(next)
     \/ ~Reached /\ status[Job] = "idle" /\ Reds
  /\ Unserved /\ UNCHANGED <<stopped, evidence>>

PollReview ==
  \/ Poll("directing", State = "review", "review")
  \/ Poll("boundary", State = "review", "render")

PollBlocked == Poll("blocked", State = "failed", "snapshot")

PollCompleted == Poll("resumed", State = "completed", "compare")

MidRender == Whole # {} /\ Missing # {}

PollRender == Poll("watch", rows[Job].stage = "rendering" /\ MidRender, "kill")

\* approveAllFallbacksFn, then the fault is armed before a render that is too fast to interrupt
Review ==
  /\ At("review") /\ Up /\ Goes("render")
  /\ blocked' \in IF mode = "fake" THEN {{s} : s \in Segments} ELSE {{}}
  /\ UNCHANGED <<vars, arguments, audio, renders, outputs, stopped, evidence, signals>>

\* The server's process group is signalled until it is gone
ServerDies ==
  /\ stop' = "exited" /\ Fresh
  /\ lost' = IF rows[Job].state = "running" THEN {Job} ELSE lost
  /\ UNCHANGED <<rows, faults>>

\* killDevServer
Kill ==
  /\ At("kill") /\ ServerDies /\ Goes("inspect")
  /\ UNCHANGED <<workspace, arguments, stopped, evidence, signals>>

\* assertMidRenderStop on what the workspace holds.  Fake: the files, of which sabotage may
\* truncate one; the fault is removed.  Real: a database that still has the job running
Inspect ==
  \/ /\ At("snapshot") /\ stopped' = Whole
     /\ IF MidRender THEN Goes("resume") /\ blocked' = {} ELSE Reds /\ UNCHANGED blocked
     /\ IF MidRender /\ sabotage = "truncate-segment"
        THEN \E s \in Whole : audio' = [audio EXCEPT ![s] = "short"]
        ELSE UNCHANGED audio
     /\ UNCHANGED <<vars, arguments, renders, outputs, evidence, signals>>
  \/ /\ At("inspect") /\ stopped' = Whole
     /\ IF rows[Job].state = "running" /\ MidRender THEN Goes("spawn") ELSE Reds
     /\ Unserved /\ UNCHANGED evidence

\* Mutant: the bytes alone are compared
SameBytes(s) == audio[s] = "whole"

\* artifactSnapshotUnchanged: a segment rendered again has another time of writing
Kept(s) == audio[s] = "whole" /\ renders[s] = 1

Compare ==
  /\ At("compare")
  /\ IF (\A s \in stopped : Kept(s)) /\ Missing = {}
     THEN /\ Goes("verify")
          /\ evidence' = [evidence EXCEPT !.reused = stopped, !.rendered = Whole \ stopped]
     ELSE Reds /\ UNCHANGED evidence
  /\ Unserved /\ UNCHANGED stopped

\* verifyOutput: what the listing names is there, and is the one output of the workspace
Verify ==
  /\ At("verify") /\ Up
  /\ outputs' = IF sabotage = "delete-output" THEN 0 ELSE outputs
  /\ IF State = "completed" /\ outputs' = 1 THEN Goes("evidence") ELSE Reds
  /\ UNCHANGED <<vars, arguments, audio, renders, blocked, stopped, evidence, signals>>

WriteEvidence ==
  /\ At("evidence") /\ Goes("cleanup")
  /\ evidence' = [evidence EXCEPT !.written = TRUE]
  /\ Unserved /\ UNCHANGED stopped

\* stopDevServer in the finally block; only then is the proof green
Cleanup ==
  /\ At("cleanup") /\ ServerDies
  /\ harness' = [harness EXCEPT !.pc = "over",
                                !.verdict = IF @ = "none" THEN "green" ELSE @]
  /\ UNCHANGED <<workspace, arguments, stopped, evidence, signals>>

-----------------------------------------------------------------------------
(* SIGINT: its handler runs beside main                                    *)

Interrupt ==
  /\ Interrupts /\ handler = 0 /\ spawned > 0 /\ ~At("over") /\ handler' = spawned
  /\ UNCHANGED <<vars, workspace, arguments, proof, spawned>>

Held == Up /\ handler = spawned

HandlerStops ==
  /\ handler # 0 /\ Held /\ ServerDies
  /\ UNCHANGED <<workspace, arguments, proof, signals>>

\* process.exit, once the server it knew is gone
HandlerExits ==
  /\ handler # 0 /\ ~Held /\ ~At("over")
  /\ harness' = [harness EXCEPT !.pc = "over", !.verdict = "interrupted"]
  /\ Unserved /\ UNCHANGED <<stopped, evidence>>

Serves == Operation \/ Runs

Main ==
  \/ Preflight \/ Spawn \/ CallStart \/ CallResume \/ CallRender \/ CallAnswered \/ Unanswered
  \/ PollReview \/ PollBlocked \/ PollCompleted \/ PollRender
  \/ Review \/ Kill \/ Inspect \/ Compare \/ Verify \/ WriteEvidence \/ Cleanup

HarnessNext ==
  \/ Main \/ Fails \/ Serves \/ OperationFails
  \/ Interrupt \/ HandlerStops \/ HandlerExits

HarnessSpec ==
  /\ HarnessInit /\ [][HarnessNext]_proofVars
  /\ WF_proofVars(Main) /\ WF_proofVars(Serves)

-----------------------------------------------------------------------------
(* Properties                                                              *)

\* A green proof is not vacuous: the render was stopped in its middle, nothing that was rendered
\* before was rendered again, everything else was rendered once, and there is one output.  No
\* sabotage passes, and no workspace that was used before.
EvidenceEarned ==
  harness.verdict = "green" =>
    /\ fresh /\ sabotage = "none" /\ evidence.written
    /\ evidence.reused # {} /\ evidence.rendered # {}
    /\ evidence.reused \cup evidence.rendered = Segments
    /\ \A s \in Segments : renders[s] = 1
    /\ outputs = 1

\* However the harness ends its server is gone, but for one case: an interrupt that comes while
\* the server is being replaced stops the old one, and leaves the new one running.
ServerReaped == At("over") /\ Up => harness.verdict = "interrupted" /\ handler < spawned

\* A green proof of the resume was not vacuous, and whatever its verdict the harness leaves no
\* server behind, but for one late interrupt.
ProofEarned == EvidenceEarned /\ ServerReaped

\* The harness ends, whatever becomes of the job.
HarnessEnds == <>At("over")

\* The render that was killed is recovered and completed (docs/runbook-m1-proof.md).
KilledRenderRecovers == At("boundary") ~> rows[Job].state = "completed"
=============================================================================
