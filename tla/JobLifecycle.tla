---------------------------- MODULE JobLifecycle ----------------------------
(***************************************************************************)
(* One AudiobookJob under its commands, in the order the application       *)
(* issues them: a reviewed script goes straight from resumeApprovedRender  *)
(* to beginRendering, in one synchronous block of RenderAudiobook.  Issued *)
(* on their own, as the public methods allow, they would let a job render  *)
(* an incompletely directed script, or grow a reviewed warning set.        *)
(***************************************************************************)
EXTENDS AudiobookJob

CONSTANT Counts         \* chapter, passage, segment and revision numbers given to the commands

ASSUME CountsAssumption == Counts \subseteq Nat

VARIABLES
  job,
  reviewed              \* ghost: {} or the one warning set the job was last put to review with

vars == <<job, reviewed>>

-----------------------------------------------------------------------------

Init == job = NewJob /\ reviewed = {}

Becomes(j) == job' = j /\ UNCHANGED reviewed

\* Commands after which the script, and so the set to decide on, is derived again
Rederives(j) == job' = j /\ reviewed' = {}

DoBindCommand == \E c \in Digests : CanBindCommand(job, c) /\ Becomes(BindCommand(job, c))

DoBindRenderContract ==
  \E c \in Digests : CanBindRenderContract(job, c) /\ Becomes(BindRenderContract(job, c))

DoStart == CanStart(job) /\ Becomes(Start(job))

DoMarkAbandoned == CanMarkAbandoned(job) /\ Becomes(MarkAbandoned(job))

DoFail == CanFail(job) /\ Becomes(Fail(job))

DoRecover == CanRecover(job) /\ Rederives(Recover(job))

DoResumeExtracting == CanResumeExtracting(job) /\ Rederives(ResumeExtracting(job))

DoResumeDirecting ==
  \E chapters, ofChapters, passages, ofPassages \in Counts :
    LET d == [chapters |-> chapters, ofChapters |-> ofChapters,
              passages |-> passages, ofPassages |-> ofPassages]
    IN CanResumeDirecting(job, d) /\ Rederives(ResumeDirecting(job, d))

DoResumeSegments ==
  \E done, total \in Counts :
    CanResumeSegments(job, done, total) /\ Becomes(ResumeSegments(job, done, total))

DoAttachBook == \E b \in Books : CanAttachBook(job, b) /\ Becomes(AttachBook(job, b))

DoBeginDirection ==
  \E ofChapters, ofPassages \in Counts :
    /\ CanBeginDirection(job, ofChapters, ofPassages)
    /\ Becomes(BeginDirection(job, ofChapters, ofPassages))

DoRecordDirectionProgress ==
  \E chapters, passages \in Counts :
    /\ CanRecordDirectionProgress(job, chapters, passages)
    /\ Becomes(RecordDirectionProgress(job, chapters, passages))

DoAddFallbackWarning ==
  \E s \in Warned : CanAddFallbackWarning(job) /\ Becomes(AddFallbackWarning(job, s))

DoAwaitReview ==
  CanAwaitReview(job) /\ job' = AwaitReview(job) /\ reviewed' = {job.warnings}

DoReopenForReview == CanReopenForReview(job) /\ Becomes(ReopenForReview(job))

\* RenderAudiobook's claim, and its planning failure before the claim
ClaimReviewedScript ==
  \E done, total \in Counts, c \in Digests :
    LET running == ResumeApprovedRender(job)
        rendering == BeginRendering(running, done, total)
    IN /\ CanResumeApprovedRender(job)
       /\ CanBeginRendering(running, done, total)
       /\ CanBindRenderContract(rendering, c)
       /\ Becomes(BindRenderContract(rendering, c))

DoReportChapter == CanReportChapter(job) /\ Becomes(ReportChapter(job))

DoRecordSegmentCompleted ==
  CanRecordSegmentCompleted(job) /\ Becomes(RecordSegmentCompleted(job))

DoBeginAssembly == CanBeginAssembly(job) /\ Becomes(BeginAssembly(job))

DoComplete == \E r \in Counts : CanComplete(job) /\ Becomes(Complete(job, r))

Command ==
  \/ DoBindCommand \/ DoBindRenderContract \/ DoStart
  \/ DoMarkAbandoned \/ DoFail \/ DoRecover
  \/ DoResumeExtracting \/ DoResumeDirecting \/ DoResumeSegments
  \/ DoAttachBook \/ DoBeginDirection \/ DoRecordDirectionProgress
  \/ DoAddFallbackWarning \/ DoAwaitReview \/ DoReopenForReview
  \/ DoReportChapter \/ DoRecordSegmentCompleted \/ DoBeginAssembly \/ DoComplete

Next == Command \/ ClaimReviewedScript

Spec == Init /\ [][Next]_vars

-----------------------------------------------------------------------------

TypeOK ==
  /\ job \in Jobs
  /\ reviewed \in SUBSET SUBSET Warned

(* Whatever order of commands brought it there, a saved job can be opened  *)
(* again: findJob passes every row through validateSnapshot, and a row it  *)
(* rejects is lost with all the work it stands for.                        *)
SnapshotReadable == SnapshotAccepted(job)

(* Audio is only ever made from a completely directed script: the segment  *)
(* totals of a rendering, assembling or completed job count a whole book.  *)
RenderedScriptIsDirected ==
  job.stage \in {"rendering", "assembling", "completed"} =>
    job.direction # NoDirection /\ Directed(job.direction)

(* The set of fallback warnings a job is put to review with is complete    *)
(* and never grows later, until the script itself is derived again.        *)
ReviewedWarningsStand == reviewed \subseteq {job.warnings}

\* What makes the three of them inductive: only a job at or past review has a
\* reviewed set, and a job at review has been directed.
ReviewSettled ==
  /\ reviewed # {} => \/ job.state = "awaiting_review"
                      \/ job.stage \in {"rendering", "assembling", "completed"}
  /\ job.state = "awaiting_review" => job.direction # NoDirection

LifecycleInv ==
  TypeOK /\ SnapshotReadable /\ RenderedScriptIsDirected /\ ReviewedWarningsStand /\ ReviewSettled

FollowsTables ==
  /\ job'.state # job.state => CanTransition(job.state, job'.state)
  /\ job'.stage # job.stage =>
       \/ CanAdvanceStage(job.stage, job'.stage)
       \/ Interrupted(job) /\ job'.stage = "extracting"
       \/ job.state = "completed" /\ job'.state = "awaiting_review"

(* The methods, each with its own guard, agree with the transition tables; *)
(* the stage leaves the table only for a recovery, back to extraction, or  *)
(* for a reopened review, back to direction.                               *)
TransitionsFollowTables == [][FollowsTables]_vars

KeepsBindings ==
  /\ job.command # NoDigest => job'.command = job.command
  /\ job.contract # NoDigest => job'.contract = job.contract
  /\ job.book # NoBook => job'.book = job.book

(* No failure, abandonment, recovery or reopening lets a job continue      *)
(* under another command, another render contract or another book than it  *)
(* was bound to.                                                           *)
BoundInputsStand == [][KeepsBindings]_vars
=============================================================================
