------------------------- MODULE AudiobookJobProofs -------------------------
(***************************************************************************)
(* Lemmas about the commands of the AudiobookJob aggregate, for the proofs *)
(* about everything that keeps and saves jobs.                             *)
(***************************************************************************)
EXTENDS AudiobookJob, TLAPS

-----------------------------------------------------------------------------
(* Every command leaves a job record behind                                *)

(* The constructor leaves a job record behind.                             *)
LEMMA ConstructorTyped == NewJob \in Jobs
  BY DEF NewJob, Jobs, States, Stages, Messages, Directions, NoDirection

(* The commands without arguments leave a job record behind.               *)
LEMMA CommandsTyped ==
  ASSUME NEW j \in Jobs
  PROVE  /\ Start(j) \in Jobs
         /\ MarkAbandoned(j) \in Jobs
         /\ Fail(j) \in Jobs
         /\ Recover(j) \in Jobs
         /\ ResumeExtracting(j) \in Jobs
         /\ AwaitReview(j) \in Jobs
         /\ ResumeApprovedRender(j) \in Jobs
         /\ ReopenForReview(j) \in Jobs
         /\ ReportChapter(j) \in Jobs
         /\ RecordSegmentCompleted(j) \in Jobs
         /\ BeginAssembly(j) \in Jobs
<1> USE DEF Jobs, States, Stages, Messages
<1>1. Start(j) \in Jobs
  BY DEF Start, Reported
<1>2. MarkAbandoned(j) \in Jobs
  BY DEF MarkAbandoned
<1>3. Fail(j) \in Jobs
  BY DEF Fail
<1>4. Recover(j) \in Jobs
  BY DEF Recover, Directions, NoDirection
<1>5. ResumeExtracting(j) \in Jobs
  BY DEF ResumeExtracting, Retaken, Directions, NoDirection
<1>6. AwaitReview(j) \in Jobs
  BY DEF AwaitReview
<1>7. ResumeApprovedRender(j) \in Jobs
  BY DEF ResumeApprovedRender, Reported
<1>8. ReopenForReview(j) \in Jobs
  BY DEF ReopenForReview
<1>9. ReportChapter(j) \in Jobs
  BY DEF ReportChapter
<1>10. RecordSegmentCompleted(j) \in Jobs
  <2>1. j.done + 1 \in Nat
    OBVIOUS
  <2> QED
    BY <2>1 DEF RecordSegmentCompleted
<1>11. BeginAssembly(j) \in Jobs
  BY DEF BeginAssembly, AdvanceTo, Reported
<1> QED
  BY <1>1, <1>2, <1>3, <1>4, <1>5, <1>6, <1>7, <1>8, <1>9, <1>10, <1>11

(* Binding a digest leaves a job record behind.                            *)
LEMMA BindingsTyped ==
  ASSUME NEW j \in Jobs, NEW c \in Digests
  PROVE  /\ BindCommand(j, c) \in Jobs
         /\ BindRenderContract(j, c) \in Jobs
<1> USE DEF Jobs, States, Stages, Messages
<1>1. BindCommand(j, c) \in Jobs
  BY DEF BindCommand
<1>2. BindRenderContract(j, c) \in Jobs
  BY DEF BindRenderContract
<1> QED
  BY <1>1, <1>2

(* So does attaching a book ...                                            *)
LEMMA AttachBookTyped ==
  ASSUME NEW j \in Jobs, NEW b \in Books
  PROVE  AttachBook(j, b) \in Jobs
  BY DEF Jobs, States, Stages, Messages, AttachBook

(* ... adding a warning ...                                                *)
LEMMA AddFallbackWarningTyped ==
  ASSUME NEW j \in Jobs, NEW s \in Warned
  PROVE  AddFallbackWarning(j, s) \in Jobs
  BY DEF Jobs, States, Stages, Messages, AddFallbackWarning

(* ... resuming from a direction checkpoint ...                            *)
LEMMA ResumeDirectingTyped ==
  ASSUME NEW j \in Jobs, NEW d \in Directions
  PROVE  ResumeDirecting(j, d) \in Jobs
  BY DEF Jobs, States, Stages, Messages, ResumeDirecting, Retaken

(* ... completing at a catalog revision ...                                *)
LEMMA CompleteTyped ==
  ASSUME NEW j \in Jobs, NEW n \in Nat
  PROVE  Complete(j, n) \in Jobs
  BY DEF Jobs, States, Stages, Messages, Complete

(* ... and every command that takes two numbers.                           *)
LEMMA NumbersTyped ==
  ASSUME NEW j \in Jobs, NEW m \in Nat, NEW n \in Nat
  PROVE  /\ ResumeSegments(j, m, n) \in Jobs
         /\ BeginDirection(j, m, n) \in Jobs
         /\ BeginRendering(j, m, n) \in Jobs
         /\ RecordDirectionProgress(j, m, n) \in Jobs
<1> USE DEF Jobs, States, Stages, Messages
<1>1. ResumeSegments(j, m, n) \in Jobs
  BY DEF ResumeSegments, Retaken
<1>2. BeginDirection(j, m, n) \in Jobs
  BY DEF BeginDirection, AdvanceTo, Reported, Directions
<1>3. BeginRendering(j, m, n) \in Jobs
  BY DEF BeginRendering, AdvanceTo, Reported
<1>4. RecordDirectionProgress(j, m, n) \in Jobs
  <2>1. [j.direction EXCEPT !.chapters = m, !.passages = n] \in Directions
    BY DEF Directions
  <2>2. RecordDirectionProgress(j, m, n)
          = [j EXCEPT !.onChapter = TRUE, !.msg = "progress",
                      !.direction = [j.direction EXCEPT !.chapters = m, !.passages = n]]
    BY DEF RecordDirectionProgress, Directions
  <2> QED
    BY <2>1, <2>2
<1> QED
  BY <1>1, <1>2, <1>3, <1>4
-----------------------------------------------------------------------------
(* What a snapshot must be                                                 *)

(* The lifecycle part of a snapshot's validation, state by state.          *)
LEMMA LifecycleByState ==
  ASSUME NEW j
  PROVE  LifecycleAccepted(j) <=>
           /\ j.state = "pending" => PendingAccepted(j)
           /\ j.state = "awaiting_review" => AwaitingReviewAccepted(j)
           /\ j.state \notin {"pending", "awaiting_review"} =>
                /\ j.state = "failed" => j.msg = "error"
                /\ j.state = "abandoned" => j.msg = "abandoned"
                /\ StageAccepted(j)
<1>1. CASE j.state = "pending"
  BY <1>1 DEF LifecycleAccepted
<1>2. CASE j.state = "awaiting_review"
  BY <1>2 DEF LifecycleAccepted
<1>3. CASE j.state \notin {"pending", "awaiting_review"}
  BY <1>3 DEF LifecycleAccepted
<1> QED
  BY <1>1, <1>2, <1>3

-----------------------------------------------------------------------------
(* What the commands after direction leave in each field                   *)

\* What no command after direction touches
Kept(j, k) ==
  /\ k.command = j.command /\ k.contract = j.contract /\ k.book = j.book
  /\ k.direction = j.direction /\ k.warnings = j.warnings

(* Reopening forgets the segments and the revision.                        *)
LEMMA ReopenedFields ==
  ASSUME NEW j \in Jobs
  PROVE  /\ Kept(j, ReopenForReview(j))
         /\ ReopenForReview(j).state = "awaiting_review"
         /\ ReopenForReview(j).stage = "directing"
         /\ ReopenForReview(j).error = FALSE /\ ReopenForReview(j).msg = "review"
         /\ ReopenForReview(j).revision = NoRevision
         /\ ReopenForReview(j).onChapter = FALSE /\ ReopenForReview(j).done = 0
         /\ ReopenForReview(j).total = 0
  BY DEF ReopenForReview, Jobs, Kept

(* Failing and abandoning leave stage, count and chapter alone.            *)
LEMMA StoppedFields ==
  ASSUME NEW j \in Jobs
  PROVE  /\ Kept(j, Fail(j))
         /\ Fail(j).state = "failed" /\ Fail(j).stage = j.stage
         /\ Fail(j).error = TRUE /\ Fail(j).msg = "error"
         /\ Fail(j).revision = j.revision /\ Fail(j).onChapter = j.onChapter
         /\ Fail(j).done = j.done /\ Fail(j).total = j.total
         /\ Kept(j, MarkAbandoned(j))
         /\ MarkAbandoned(j).state = "abandoned" /\ MarkAbandoned(j).stage = j.stage
         /\ MarkAbandoned(j).error = j.error /\ MarkAbandoned(j).msg = "abandoned"
         /\ MarkAbandoned(j).revision = j.revision
         /\ MarkAbandoned(j).onChapter = j.onChapter
         /\ MarkAbandoned(j).done = j.done /\ MarkAbandoned(j).total = j.total
<1>1. /\ Kept(j, Fail(j))
      /\ Fail(j).state = "failed" /\ Fail(j).stage = j.stage
      /\ Fail(j).error = TRUE /\ Fail(j).msg = "error"
      /\ Fail(j).revision = j.revision /\ Fail(j).onChapter = j.onChapter
      /\ Fail(j).done = j.done /\ Fail(j).total = j.total
  BY DEF Fail, Jobs, Kept
<1>2. /\ Kept(j, MarkAbandoned(j))
      /\ MarkAbandoned(j).state = "abandoned" /\ MarkAbandoned(j).stage = j.stage
      /\ MarkAbandoned(j).error = j.error /\ MarkAbandoned(j).msg = "abandoned"
      /\ MarkAbandoned(j).revision = j.revision
      /\ MarkAbandoned(j).onChapter = j.onChapter
      /\ MarkAbandoned(j).done = j.done /\ MarkAbandoned(j).total = j.total
  BY DEF MarkAbandoned, Jobs, Kept
<1> QED
  BY <1>1, <1>2

(* The approval itself only takes the job.                                 *)
LEMMA ApprovedFields ==
  ASSUME NEW j \in Jobs
  PROVE  /\ Kept(j, ResumeApprovedRender(j))
         /\ ResumeApprovedRender(j).state = "running"
         /\ ResumeApprovedRender(j).stage = j.stage
         /\ ResumeApprovedRender(j).error = j.error
         /\ ResumeApprovedRender(j).msg = "progress"
         /\ ResumeApprovedRender(j).revision = j.revision
         /\ ResumeApprovedRender(j).onChapter = FALSE
  BY DEF ResumeApprovedRender, Reported, Jobs, Kept

(* What a run in the rendering stage does to its job.                      *)
LEMMA RenderingFields ==
  ASSUME NEW j \in Jobs
  PROVE  /\ Kept(j, ReportChapter(j))
         /\ ReportChapter(j).state = j.state /\ ReportChapter(j).stage = j.stage
         /\ ReportChapter(j).error = j.error /\ ReportChapter(j).msg = "progress"
         /\ ReportChapter(j).revision = j.revision /\ ReportChapter(j).done = j.done
         /\ ReportChapter(j).total = j.total
         /\ Kept(j, RecordSegmentCompleted(j))
         /\ RecordSegmentCompleted(j).state = j.state
         /\ RecordSegmentCompleted(j).stage = j.stage
         /\ RecordSegmentCompleted(j).error = j.error
         /\ RecordSegmentCompleted(j).msg = "progress"
         /\ RecordSegmentCompleted(j).revision = j.revision
         /\ RecordSegmentCompleted(j).done = j.done + 1
         /\ RecordSegmentCompleted(j).total = j.total
         /\ Kept(j, BeginAssembly(j))
         /\ BeginAssembly(j).state = j.state /\ BeginAssembly(j).stage = "assembling"
         /\ BeginAssembly(j).error = j.error /\ BeginAssembly(j).msg = "progress"
         /\ BeginAssembly(j).revision = j.revision
         /\ BeginAssembly(j).onChapter = FALSE /\ BeginAssembly(j).done = j.done
         /\ BeginAssembly(j).total = j.total
<1>1. /\ Kept(j, ReportChapter(j))
      /\ ReportChapter(j).state = j.state /\ ReportChapter(j).stage = j.stage
      /\ ReportChapter(j).error = j.error /\ ReportChapter(j).msg = "progress"
      /\ ReportChapter(j).revision = j.revision /\ ReportChapter(j).done = j.done
      /\ ReportChapter(j).total = j.total
  BY DEF ReportChapter, Jobs, Kept
<1>2. /\ Kept(j, RecordSegmentCompleted(j))
      /\ RecordSegmentCompleted(j).state = j.state
      /\ RecordSegmentCompleted(j).stage = j.stage
      /\ RecordSegmentCompleted(j).error = j.error
      /\ RecordSegmentCompleted(j).msg = "progress"
      /\ RecordSegmentCompleted(j).revision = j.revision
      /\ RecordSegmentCompleted(j).done = j.done + 1
      /\ RecordSegmentCompleted(j).total = j.total
  BY DEF RecordSegmentCompleted, Jobs, Kept
<1>3. /\ Kept(j, BeginAssembly(j))
      /\ BeginAssembly(j).state = j.state /\ BeginAssembly(j).stage = "assembling"
      /\ BeginAssembly(j).error = j.error /\ BeginAssembly(j).msg = "progress"
      /\ BeginAssembly(j).revision = j.revision
      /\ BeginAssembly(j).onChapter = FALSE /\ BeginAssembly(j).done = j.done
      /\ BeginAssembly(j).total = j.total
  BY DEF BeginAssembly, AdvanceTo, Reported, Jobs, Kept
<1> QED
  BY <1>1, <1>2, <1>3

(* Completing records the revision the output was attested at.             *)
LEMMA CompletedFields ==
  ASSUME NEW j \in Jobs, NEW n \in Nat
  PROVE  /\ Kept(j, Complete(j, n))
         /\ Complete(j, n).state = "completed" /\ Complete(j, n).stage = "completed"
         /\ Complete(j, n).error = j.error /\ Complete(j, n).msg = "completed"
         /\ Complete(j, n).revision = n /\ Complete(j, n).onChapter = FALSE
         /\ Complete(j, n).done = j.done /\ Complete(j, n).total = j.total
  BY DEF Complete, Jobs, Kept
=============================================================================
