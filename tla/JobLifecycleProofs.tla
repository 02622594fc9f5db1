------------------------- MODULE JobLifecycleProofs -------------------------
(***************************************************************************)
(* Proofs about JobLifecycle, for any sets of books, digests and warned    *)
(* segments and any numbers.                                               *)
(***************************************************************************)
EXTENDS JobLifecycle, AudiobookJobProofs

-----------------------------------------------------------------------------
(* TypeOK holds in every reachable state, whatever the constants are.      *)
THEOREM TypeCorrect == Spec => []TypeOK
<1>1. Init => TypeOK
  BY ConstructorTyped DEF Init, TypeOK
<1>2. ASSUME TypeOK, [Next]_vars PROVE TypeOK'
  <2>1. job \in Jobs /\ reviewed \in SUBSET SUBSET Warned
    BY <1>2 DEF TypeOK
  <2>2. job.warnings \in SUBSET Warned
    BY <2>1 DEF Jobs
  <2> SUFFICES job' \in Jobs /\ reviewed' \in SUBSET SUBSET Warned
    BY DEF TypeOK
  <2> USE <2>1, CountsAssumption DEF Becomes, Rederives
  <2>3. CASE DoBindCommand
    BY <2>3, BindingsTyped DEF DoBindCommand
  <2>4. CASE DoBindRenderContract
    BY <2>4, BindingsTyped DEF DoBindRenderContract
  <2>5. CASE DoStart
    BY <2>5, CommandsTyped DEF DoStart
  <2>6. CASE DoMarkAbandoned
    BY <2>6, CommandsTyped DEF DoMarkAbandoned
  <2>7. CASE DoFail
    BY <2>7, CommandsTyped DEF DoFail
  <2>8. CASE DoRecover
    BY <2>8, CommandsTyped DEF DoRecover
  <2>9. CASE DoResumeExtracting
    BY <2>9, CommandsTyped DEF DoResumeExtracting
  <2>10. CASE DoResumeDirecting
    <3>1. \E d \in Directions : Rederives(ResumeDirecting(job, d))
      BY <2>10 DEF DoResumeDirecting, Directions
    <3> QED
      BY <3>1, ResumeDirectingTyped
  <2>11. CASE DoResumeSegments
    BY <2>11, NumbersTyped DEF DoResumeSegments
  <2>12. CASE DoAttachBook
    BY <2>12, AttachBookTyped DEF DoAttachBook
  <2>13. CASE DoBeginDirection
    BY <2>13, NumbersTyped DEF DoBeginDirection
  <2>14. CASE DoRecordDirectionProgress
    BY <2>14, NumbersTyped DEF DoRecordDirectionProgress
  <2>15. CASE DoAddFallbackWarning
    BY <2>15, AddFallbackWarningTyped DEF DoAddFallbackWarning
  <2>16. CASE DoAwaitReview
    BY <2>16, CommandsTyped, <2>2 DEF DoAwaitReview
  <2>17. CASE DoReopenForReview
    BY <2>17, CommandsTyped DEF DoReopenForReview
  <2>18. CASE DoReportChapter
    BY <2>18, CommandsTyped DEF DoReportChapter
  <2>19. CASE DoRecordSegmentCompleted
    BY <2>19, CommandsTyped DEF DoRecordSegmentCompleted
  <2>20. CASE DoBeginAssembly
    BY <2>20, CommandsTyped DEF DoBeginAssembly
  <2>21. CASE DoComplete
    BY <2>21, CompleteTyped DEF DoComplete
  <2>22. CASE ClaimReviewedScript
    <3>1. PICK done \in Counts, total \in Counts, c \in Digests :
            Becomes(BindRenderContract(BeginRendering(ResumeApprovedRender(job), done, total), c))
      BY <2>22 DEF ClaimReviewedScript
    <3>2. ResumeApprovedRender(job) \in Jobs
      BY CommandsTyped
    <3>3. BeginRendering(ResumeApprovedRender(job), done, total) \in Jobs
      BY <3>2, NumbersTyped
    <3> QED
      BY <3>1, <3>3, BindingsTyped
  <2>23. CASE UNCHANGED vars
    BY <2>23 DEF vars
  <2> QED
    BY <1>2, <2>3, <2>4, <2>5, <2>6, <2>7, <2>8, <2>9, <2>10, <2>11, <2>12, <2>13,
       <2>14, <2>15, <2>16, <2>17, <2>18, <2>19, <2>20, <2>21, <2>22, <2>23
    DEF Next, Command
<1> QED
  BY <1>1, <1>2, PTL DEF Spec

-----------------------------------------------------------------------------
(* In the order the application issues them, no sequence of commands makes *)
(* a job that could not be opened again, renders a script that is not      *)
(* completely directed, or adds a warning to a reviewed set.               *)
THEOREM LifecycleSafe == Spec => [](SnapshotReadable /\ RenderedScriptIsDirected /\ ReviewedWarningsStand)
<1>1. Init => LifecycleInv
  BY ConstructorTyped
  DEF Init, LifecycleInv, TypeOK, SnapshotReadable, RenderedScriptIsDirected,
      ReviewedWarningsStand, ReviewSettled, NewJob, NoDirection, SnapshotAccepted,
      HeaderAccepted, WarningsAccepted, LifecycleAccepted, PendingAccepted
<1>2. ASSUME LifecycleInv, TypeOK', [Next]_vars PROVE LifecycleInv'
  <2>1. job \in Jobs /\ job' \in Jobs
    BY <1>2 DEF TypeOK, LifecycleInv
  <2> SUFFICES (SnapshotReadable /\ RenderedScriptIsDirected /\ ReviewedWarningsStand /\ ReviewSettled)'
    BY <1>2 DEF LifecycleInv
  <2>2. SnapshotReadable /\ RenderedScriptIsDirected /\ ReviewedWarningsStand /\ ReviewSettled
    BY <1>2 DEF LifecycleInv
  <2> USE <2>1, <2>2, CountsAssumption, NullsAssumption
     
      DEF Jobs, Directions, NoDirection, NoRevision, Becomes, Rederives, SnapshotReadable,
          RenderedScriptIsDirected,
          ReviewedWarningsStand, ReviewSettled, SnapshotAccepted, HeaderAccepted,
          WarningsAccepted, LifecycleAccepted, PendingAccepted, AwaitingReviewAccepted,
          StageAccepted, ValidDirection, ValidTotals, Directed
  <2>3. CASE DoBindCommand
    BY <2>3 DEF DoBindCommand, CanBindCommand, BindCommand
  <2>4. CASE DoBindRenderContract
    BY <2>4 DEF DoBindRenderContract, CanBindRenderContract, BindRenderContract
  <2>5. CASE DoStart
    BY <2>5 DEF DoStart, CanStart, Start, Reported
  <2>6. CASE DoMarkAbandoned
    BY <2>6 DEF DoMarkAbandoned, CanMarkAbandoned, MarkAbandoned
  <2>7. CASE DoFail
    BY <2>7 DEF DoFail, CanFail, Fail
  <2>8. CASE DoRecover
    <3>1. job' = Recover(job) /\ reviewed' = {} /\ Interrupted(job)
      BY <2>8 DEF DoRecover, CanRecover
    <3>2. /\ job'.state = "running" /\ job'.stage = "extracting" /\ job'.revision = NoRevision
          /\ job'.direction = NoDirection /\ job'.done = 0 /\ job'.total = 0
          /\ job'.warnings = {} /\ job'.error = FALSE /\ job'.onChapter = FALSE
          /\ job'.command = job.command
      BY <3>1 DEF Recover
    <3> QED
      BY <3>1, <3>2 DEF Interrupted
  <2>9. CASE DoResumeExtracting
    <3>1. job' = ResumeExtracting(job) /\ reviewed' = {} /\ Interrupted(job) /\ job.stage = "extracting"
      BY <2>9 DEF DoResumeExtracting, CanResumeExtracting
    <3>2. /\ job'.state = "running" /\ job'.stage = "extracting" /\ job'.revision = NoRevision
          /\ job'.direction = NoDirection /\ job'.done = 0 /\ job'.total = 0
          /\ job'.warnings = {} /\ job'.error = FALSE /\ job'.onChapter = FALSE
          /\ job'.command = job.command
      BY <3>1 DEF ResumeExtracting, Retaken
    <3> QED
      BY <3>1, <3>2 DEF Interrupted
  <2>10. CASE DoResumeDirecting
    <3>1. \E d \in Directions : CanResumeDirecting(job, d) /\ Rederives(ResumeDirecting(job, d))
      BY <2>10 DEF DoResumeDirecting
    <3>2. PICK d \in Directions : CanResumeDirecting(job, d) /\ Rederives(ResumeDirecting(job, d))
      BY <3>1
    <3>3. /\ job'.state = "running" /\ job'.stage = "directing" /\ job'.revision = NoRevision
          /\ job'.direction = d /\ job'.done = 0 /\ job'.total = 0 /\ job'.book = job.book
          /\ job'.warnings = {} /\ job'.error = FALSE
          /\ job'.command = job.command
      BY <3>2 DEF ResumeDirecting, Retaken, CanResumeDirecting
    <3> QED
      BY <3>2, <3>3 DEF CanResumeDirecting, Interrupted
  <2>11. CASE DoResumeSegments
    BY <2>11 DEF DoResumeSegments, CanResumeSegments, Interrupted, ResumeSegments, Retaken
  <2>12. CASE DoAttachBook
    BY <2>12 DEF DoAttachBook, CanAttachBook, AttachBook
  <2>13. CASE DoBeginDirection
    BY <2>13 DEF DoBeginDirection, CanBeginDirection, BeginDirection, AdvanceTo, Reported
  <2>14. CASE DoRecordDirectionProgress
    <3>1. PICK chapters \in Counts, passages \in Counts :
            /\ CanRecordDirectionProgress(job, chapters, passages)
            /\ Becomes(RecordDirectionProgress(job, chapters, passages))
      BY <2>14 DEF DoRecordDirectionProgress
    <3>2. /\ job'.direction.chapters = chapters /\ job'.direction.passages = passages
          /\ job'.direction.ofChapters = job.direction.ofChapters
          /\ job'.direction.ofPassages = job.direction.ofPassages
          /\ job'.state = job.state /\ job'.stage = job.stage /\ job'.revision = job.revision
          /\ job'.done = job.done /\ job'.total = job.total /\ job'.book = job.book
          /\ job'.warnings = job.warnings /\ job'.error = job.error
          /\ job'.command = job.command
      BY <3>1 DEF RecordDirectionProgress
    <3> QED
      BY <3>1, <3>2 DEF CanRecordDirectionProgress
  <2>15. CASE DoAddFallbackWarning
    BY <2>15 DEF DoAddFallbackWarning, CanAddFallbackWarning, AddFallbackWarning
  <2>16. CASE DoAwaitReview
    BY <2>16 DEF DoAwaitReview, CanAwaitReview, AwaitReview
  <2>17. CASE DoReopenForReview
    BY <2>17 DEF DoReopenForReview, CanReopenForReview, ReopenForReview
  <2>18. CASE DoReportChapter
    BY <2>18 DEF DoReportChapter, CanReportChapter, ReportChapter
  <2>19. CASE DoRecordSegmentCompleted
    BY <2>19 DEF DoRecordSegmentCompleted, CanRecordSegmentCompleted, RecordSegmentCompleted
  <2>20. CASE DoBeginAssembly
    BY <2>20 DEF DoBeginAssembly, CanBeginAssembly, BeginAssembly, AdvanceTo, Reported
  <2>21. CASE DoComplete
    BY <2>21 DEF DoComplete, CanComplete, Complete
  <2>22. CASE ClaimReviewedScript
    <3>1. PICK done \in Counts, total \in Counts, c \in Digests :
            /\ CanResumeApprovedRender(job)
            /\ CanBeginRendering(ResumeApprovedRender(job), done, total)
            /\ Becomes(BindRenderContract(BeginRendering(ResumeApprovedRender(job), done, total), c))
      BY <2>22 DEF ClaimReviewedScript
    <3>2. /\ job'.state = "running" /\ job'.stage = "rendering" /\ job'.revision = job.revision
          /\ job'.direction = job.direction /\ job'.done = done /\ job'.total = total
          /\ job'.book = job.book /\ job'.warnings = job.warnings /\ job'.error = job.error
          /\ job'.command = job.command
      BY <3>1 DEF BindRenderContract, BeginRendering, AdvanceTo, Reported, ResumeApprovedRender
    <3> QED
      BY <3>1, <3>2
      DEF CanResumeApprovedRender, CanBeginRendering, ResumeApprovedRender, Reported
  <2>23. CASE UNCHANGED vars
    BY <2>23 DEF vars
  <2> QED
    BY <1>2, <2>3, <2>4, <2>5, <2>6, <2>7, <2>8, <2>9, <2>10, <2>11, <2>12, <2>13,
       <2>14, <2>15, <2>16, <2>17, <2>18, <2>19, <2>20, <2>21, <2>22, <2>23
    DEF Next, Command
<1> QED
  BY <1>1, <1>2, TypeCorrect, PTL DEF Spec, LifecycleInv

\* No job is rendered or assembled whose direction was not complete, for any chapter counts.
THEOREM RenderedDirected == Spec => []RenderedScriptIsDirected
<1>1. Spec => [](SnapshotReadable /\ RenderedScriptIsDirected /\ ReviewedWarningsStand)
  BY LifecycleSafe
<1> QED
  BY <1>1, PTL

\* The warnings a human reviews are the warnings of the job until it is reopened or directed anew.
THEOREM ReviewedStand == Spec => []ReviewedWarningsStand
<1>1. Spec => [](SnapshotReadable /\ RenderedScriptIsDirected /\ ReviewedWarningsStand)
  BY LifecycleSafe
<1> QED
  BY <1>1, PTL

-----------------------------------------------------------------------------
(* A job never goes on under another command, render contract or book than *)
(* the one it was first bound to.                                          *)
THEOREM InputsBound == Spec => BoundInputsStand
<1>1. ASSUME TypeOK, [Next]_vars PROVE [KeepsBindings]_vars
  <2>1. job \in Jobs
    BY <1>1 DEF TypeOK
  <2> SUFFICES KeepsBindings \/ UNCHANGED vars
    OBVIOUS
  <2> USE <2>1 DEF Becomes, Rederives, Jobs, KeepsBindings
  <2>2. CASE DoBindCommand
    BY <2>2 DEF DoBindCommand, CanBindCommand, BindCommand
  <2>3. CASE DoBindRenderContract
    BY <2>3 DEF DoBindRenderContract, CanBindRenderContract, BindRenderContract
  <2>4. CASE DoStart
    BY <2>4 DEF DoStart, CanStart, Start, Reported
  <2>5. CASE DoMarkAbandoned
    BY <2>5 DEF DoMarkAbandoned, CanMarkAbandoned, MarkAbandoned
  <2>6. CASE DoFail
    BY <2>6 DEF DoFail, CanFail, Fail
  <2>7. CASE DoRecover
    BY <2>7 DEF DoRecover, CanRecover, Interrupted, Recover
  <2>8. CASE DoResumeExtracting
    BY <2>8 DEF DoResumeExtracting, CanResumeExtracting, Interrupted, ResumeExtracting, Retaken
  <2>9. CASE DoResumeDirecting
    BY <2>9 DEF DoResumeDirecting, CanResumeDirecting, Interrupted, ResumeDirecting, Retaken
  <2>10. CASE DoResumeSegments
    BY <2>10 DEF DoResumeSegments, CanResumeSegments, Interrupted, ResumeSegments, Retaken
  <2>11. CASE DoAttachBook
    BY <2>11 DEF DoAttachBook, CanAttachBook, AttachBook
  <2>12. CASE DoBeginDirection
    BY <2>12 DEF DoBeginDirection, CanBeginDirection, BeginDirection, AdvanceTo, Reported
  <2>13. CASE DoRecordDirectionProgress
    BY <2>13 DEF DoRecordDirectionProgress, CanRecordDirectionProgress, RecordDirectionProgress
  <2>14. CASE DoAddFallbackWarning
    BY <2>14 DEF DoAddFallbackWarning, CanAddFallbackWarning, AddFallbackWarning
  <2>15. CASE DoAwaitReview
    BY <2>15 DEF DoAwaitReview, CanAwaitReview, AwaitReview
  <2>16. CASE DoReopenForReview
    BY <2>16 DEF DoReopenForReview, CanReopenForReview, ReopenForReview
  <2>17. CASE DoReportChapter
    BY <2>17 DEF DoReportChapter, CanReportChapter, ReportChapter
  <2>18. CASE DoRecordSegmentCompleted
    BY <2>18 DEF DoRecordSegmentCompleted, CanRecordSegmentCompleted, RecordSegmentCompleted
  <2>19. CASE DoBeginAssembly
    BY <2>19 DEF DoBeginAssembly, CanBeginAssembly, BeginAssembly, AdvanceTo, Reported
  <2>20. CASE DoComplete
    BY <2>20 DEF DoComplete, CanComplete, Complete
  <2>21. CASE ClaimReviewedScript
    <3>1. PICK done \in Counts, total \in Counts, c \in Digests :
            /\ job.contract \in {NoDigest, c}
            /\ Becomes(BindRenderContract(BeginRendering(ResumeApprovedRender(job), done, total), c))
      BY <2>21 DEF ClaimReviewedScript, CanBindRenderContract, BeginRendering, AdvanceTo,
                   Reported, ResumeApprovedRender
    <3>2. job'.command = job.command /\ job'.contract = c /\ job'.book = job.book
      BY <3>1 DEF BindRenderContract, BeginRendering, AdvanceTo, Reported, ResumeApprovedRender
    <3> QED
      BY <3>1, <3>2
  <2> QED
    BY <1>1, <2>2, <2>3, <2>4, <2>5, <2>6, <2>7, <2>8, <2>9, <2>10, <2>11, <2>12,
       <2>13, <2>14, <2>15, <2>16, <2>17, <2>18, <2>19, <2>20, <2>21
    DEF Next, Command
<1> QED
  BY <1>1, TypeCorrect, PTL DEF Spec, BoundInputsStand

(* Every change of state or stage is one of the two tables', a recovery or *)
(* a reopened review.                                                      *)
THEOREM TablesFollowed == Spec => TransitionsFollowTables
<1>1. ASSUME TypeOK, [Next]_vars PROVE [FollowsTables]_vars
  <2>1. job \in Jobs
    BY <1>1 DEF TypeOK
  <2> SUFFICES FollowsTables \/ UNCHANGED vars
    OBVIOUS
  <2> USE <2>1
  DEF Becomes, Rederives, Jobs, FollowsTables, CanTransition, CanAdvanceStage, Interrupted
  <2>2. CASE DoBindCommand
    BY <2>2 DEF DoBindCommand, CanBindCommand, BindCommand
  <2>3. CASE DoBindRenderContract
    BY <2>3 DEF DoBindRenderContract, CanBindRenderContract, BindRenderContract
  <2>4. CASE DoStart
    BY <2>4 DEF DoStart, CanStart, Start, Reported
  <2>5. CASE DoMarkAbandoned
    BY <2>5 DEF DoMarkAbandoned, CanMarkAbandoned, MarkAbandoned
  <2>6. CASE DoFail
    BY <2>6 DEF DoFail, CanFail, Fail
  <2>7. CASE DoRecover
    BY <2>7 DEF DoRecover, CanRecover, Interrupted, Recover
  <2>8. CASE DoResumeExtracting
    BY <2>8 DEF DoResumeExtracting, CanResumeExtracting, Interrupted, ResumeExtracting, Retaken
  <2>9. CASE DoResumeDirecting
    BY <2>9 DEF DoResumeDirecting, CanResumeDirecting, Interrupted, ResumeDirecting, Retaken
  <2>10. CASE DoResumeSegments
    BY <2>10 DEF DoResumeSegments, CanResumeSegments, Interrupted, ResumeSegments, Retaken
  <2>11. CASE DoAttachBook
    BY <2>11 DEF DoAttachBook, CanAttachBook, AttachBook
  <2>12. CASE DoBeginDirection
    BY <2>12 DEF DoBeginDirection, CanBeginDirection, BeginDirection, AdvanceTo, Reported
  <2>13. CASE DoRecordDirectionProgress
    BY <2>13 DEF DoRecordDirectionProgress, CanRecordDirectionProgress, RecordDirectionProgress
  <2>14. CASE DoAddFallbackWarning
    BY <2>14 DEF DoAddFallbackWarning, CanAddFallbackWarning, AddFallbackWarning
  <2>15. CASE DoAwaitReview
    BY <2>15 DEF DoAwaitReview, CanAwaitReview, AwaitReview
  <2>16. CASE DoReopenForReview
    BY <2>16 DEF DoReopenForReview, CanReopenForReview, ReopenForReview
  <2>17. CASE DoReportChapter
    BY <2>17 DEF DoReportChapter, CanReportChapter, ReportChapter
  <2>18. CASE DoRecordSegmentCompleted
    BY <2>18 DEF DoRecordSegmentCompleted, CanRecordSegmentCompleted, RecordSegmentCompleted
  <2>19. CASE DoBeginAssembly
    BY <2>19 DEF DoBeginAssembly, CanBeginAssembly, BeginAssembly, AdvanceTo, Reported
  <2>20. CASE DoComplete
    BY <2>20 DEF DoComplete, CanComplete, Complete
  <2>21. CASE ClaimReviewedScript
    BY <2>21
    DEF ClaimReviewedScript, CanResumeApprovedRender, ResumeApprovedRender,
        CanBeginRendering, BeginRendering, BindRenderContract, AdvanceTo, Reported
  <2> QED
    BY <1>1, <2>2, <2>3, <2>4, <2>5, <2>6, <2>7, <2>8, <2>9, <2>10, <2>11, <2>12,
       <2>13, <2>14, <2>15, <2>16, <2>17, <2>18, <2>19, <2>20, <2>21
    DEF Next, Command
<1> QED
  BY <1>1, TypeCorrect, PTL DEF Spec, TransitionsFollowTables
=============================================================================
