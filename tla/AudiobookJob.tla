---------------------------- MODULE AudiobookJob ----------------------------
(***************************************************************************)
(* The AudiobookJob aggregate of packages/domain, as operators on the      *)
(* record that its snapshot persists.  Every command of the class is a     *)
(* pair: CanX(j, ..) is the condition under which the method does not      *)
(* throw and X(j, ..) is the object it leaves behind.                      *)
(*                                                                         *)
(* Abstractions: a digest, a book ID and a warned segment are members of   *)
(* sets; currentChapterId is kept as "is there one" (onChapter) and the    *)
(* progress message as its kind (msg), because nothing in the aggregate    *)
(* looks further into either.  A direction of null is the record of zero   *)
(* totals: beginDirection and every checkpoint require at least one        *)
(* chapter, so the two cannot be confused.                                 *)
(***************************************************************************)
EXTENDS Integers

CONSTANTS
  Books,        \* stable book IDs
  NoBook,       \* bookId is null
  Digests,      \* SHA-256 values of generation inputs and of render inputs
  NoDigest,     \* commandIdentity or renderContract is null
  Warned        \* segment IDs a fallback warning may name

ASSUME NullsAssumption ==
  /\ NoBook \notin Books
  /\ NoDigest \notin Digests

States == {"pending", "running", "awaiting_review", "abandoned", "failed", "completed"}
Stages == {"extracting", "directing", "rendering", "assembling", "completed"}

NoRevision == -1      \* catalogRevision is null

Messages == {"waiting", "progress", "review", "abandoned", "error", "completed"}

Directions == [chapters: Nat, ofChapters: Nat, passages: Nat, ofPassages: Nat]

NoDirection == [chapters |-> 0, ofChapters |-> 0, passages |-> 0, ofPassages |-> 0]

Jobs ==
  [state: States, stage: Stages,
   command: Digests \cup {NoDigest}, contract: Digests \cup {NoDigest},
   revision: Nat \cup {NoRevision}, book: Books \cup {NoBook},
   onChapter: BOOLEAN, direction: Directions, done: Nat, total: Nat,
   msg: Messages, warnings: SUBSET Warned, error: BOOLEAN]

\* new AudiobookJob(id)
NewJob ==
  [state |-> "pending", stage |-> "extracting",
   command |-> NoDigest, contract |-> NoDigest,
   revision |-> NoRevision, book |-> NoBook,
   onChapter |-> FALSE, direction |-> NoDirection, done |-> 0, total |-> 0,
   msg |-> "waiting", warnings |-> {}, error |-> FALSE]

-----------------------------------------------------------------------------
(* Progress values the class accepts *)

\* beginDirection's totals, and the totals of a direction checkpoint
ValidTotals(d) == d.ofChapters >= 1 /\ d.ofPassages >= d.ofChapters

\* validateDirectionCheckpoint; the same inequalities close validateSnapshot
ValidDirection(d) ==
  /\ ValidTotals(d)
  /\ d.chapters <= d.ofChapters
  /\ d.passages <= d.ofPassages

Directed(d) == d.chapters = d.ofChapters /\ d.passages = d.ofPassages

-----------------------------------------------------------------------------
(* Binding inputs *)

CanBindCommand(j, c) ==
  /\ j.command \in {NoDigest, c}
  /\ j.state = "pending" \/ j.command # NoDigest

BindCommand(j, c) == [j EXCEPT !.command = c]

CanBindRenderContract(j, c) == j.contract \in {NoDigest, c}

BindRenderContract(j, c) == [j EXCEPT !.contract = c]

-----------------------------------------------------------------------------
(* Taking and giving up ownership *)

\* report(null, ..) on a running job
Reported(j) == [j EXCEPT !.onChapter = FALSE, !.msg = "progress"]

CanStart(j) == j.state = "pending" /\ j.command # NoDigest

Start(j) == Reported([j EXCEPT !.state = "running"])

\* Mutant: a job under review can be abandoned too
CanMarkAbandonedInReview(j) == j.state \in {"running", "awaiting_review"}

CanMarkAbandoned(j) == j.state = "running"

MarkAbandoned(j) == [j EXCEPT !.state = "abandoned", !.msg = "abandoned"]

CanFail(j) == j.state = "running"

Fail(j) == [j EXCEPT !.state = "failed", !.error = TRUE, !.msg = "error"]

Interrupted(j) == j.state \in {"failed", "abandoned"}

\* retry and recoverAbandoned both call resetForRecovery
CanRecover(j) == Interrupted(j)

Recover(j) ==
  [j EXCEPT !.state = "running", !.stage = "extracting", !.onChapter = FALSE,
            !.direction = NoDirection, !.done = 0, !.total = 0, !.msg = "progress",
            !.warnings = {}, !.revision = NoRevision, !.error = FALSE]

\* What the three branches of resumeFailedStage share
Retaken(j) ==
  [j EXCEPT !.state = "running", !.onChapter = FALSE, !.msg = "progress",
            !.revision = NoRevision, !.error = FALSE]

CanResumeExtracting(j) == Interrupted(j) /\ j.stage = "extracting"

ResumeExtracting(j) ==
  [Retaken(j) EXCEPT !.direction = NoDirection, !.done = 0, !.total = 0, !.warnings = {}]

CanResumeDirecting(j, d) ==
  Interrupted(j) /\ j.stage = "directing" /\ j.book # NoBook /\ ValidDirection(d)

ResumeDirecting(j, d) ==
  [Retaken(j) EXCEPT !.direction = d, !.done = 0, !.total = 0, !.warnings = {}]

CanResumeSegments(j, done, total) ==
  /\ Interrupted(j)
  /\ j.stage \in {"rendering", "assembling"}
  /\ j.book # NoBook
  /\ total >= 1 /\ done <= total
  /\ j.stage = "assembling" => done = total

ResumeSegments(j, done, total) == [Retaken(j) EXCEPT !.done = done, !.total = total]

-----------------------------------------------------------------------------
(* Extraction and direction *)

\* Mutant: the identity of an attached book is not compared
CanAttachAnyBook(j, b) == j.state = "running" /\ j.stage = "extracting"

CanAttachBook(j, b) ==
  /\ j.state = "running" /\ j.stage = "extracting"
  /\ j.book \in {NoBook, b}

AttachBook(j, b) == [j EXCEPT !.book = b]

\* advance: only a running job moves, and only to the next stage
AdvanceTo(j, stage) == Reported([j EXCEPT !.stage = stage])

CanBeginDirection(j, ofChapters, ofPassages) ==
  /\ j.state = "running" /\ j.stage = "extracting"
  /\ j.book # NoBook
  /\ ofChapters >= 1 /\ ofPassages >= ofChapters

BeginDirection(j, ofChapters, ofPassages) ==
  [AdvanceTo(j, "directing") EXCEPT
     !.direction = [chapters |-> 0, ofChapters |-> ofChapters,
                    passages |-> 0, ofPassages |-> ofPassages]]

CanRecordDirectionProgress(j, chapters, passages) ==
  /\ j.state = "running" /\ j.stage = "directing"
  /\ j.direction # NoDirection
  /\ j.direction.chapters <= chapters /\ chapters <= j.direction.ofChapters
  /\ j.direction.passages <= passages /\ passages <= j.direction.ofPassages

RecordDirectionProgress(j, chapters, passages) ==
  [j EXCEPT !.onChapter = TRUE, !.msg = "progress",
            !.direction.chapters = chapters, !.direction.passages = passages]

\* Mutant: warnings at any stage
CanAddFallbackWarningLate(j) == j.state = "running" /\ j.book # NoBook

CanAddFallbackWarning(j) ==
  j.state = "running" /\ j.stage = "directing" /\ j.book # NoBook

AddFallbackWarning(j, s) == [j EXCEPT !.warnings = @ \cup {s}]

\* Mutant: only chapters have to be complete
CanAwaitReviewByChapter(j) ==
  /\ j.state = "running" /\ j.stage = "directing"
  /\ j.book # NoBook /\ j.direction # NoDirection
  /\ j.direction.chapters = j.direction.ofChapters

CanAwaitReview(j) ==
  /\ j.state = "running" /\ j.stage = "directing"
  /\ j.book # NoBook /\ j.direction # NoDirection /\ Directed(j.direction)

AwaitReview(j) == [j EXCEPT !.state = "awaiting_review", !.onChapter = FALSE, !.msg = "review"]

-----------------------------------------------------------------------------
(* Review, rendering and assembly *)

CanResumeApprovedRender(j) == j.state = "awaiting_review"

ResumeApprovedRender(j) == Reported([j EXCEPT !.state = "running"])

CanReopenForReview(j) == j.state = "completed"

\* Mutant: the segment progress survives
ReopenForReviewCounting(j) ==
  [j EXCEPT !.state = "awaiting_review", !.stage = "directing", !.revision = NoRevision,
            !.error = FALSE, !.onChapter = FALSE, !.msg = "review"]

ReopenForReview(j) ==
  [j EXCEPT !.state = "awaiting_review", !.stage = "directing", !.revision = NoRevision,
            !.error = FALSE, !.onChapter = FALSE, !.done = 0, !.total = 0, !.msg = "review"]

CanBeginRendering(j, done, total) ==
  /\ j.state = "running" /\ j.stage = "directing"
  /\ total >= 1 /\ done <= total

BeginRendering(j, done, total) ==
  [AdvanceTo(j, "rendering") EXCEPT !.done = done, !.total = total]

\* report(chapter.id, ..)
CanReportChapter(j) == j.state = "running" /\ j.stage \in {"directing", "rendering"}

ReportChapter(j) == [j EXCEPT !.onChapter = TRUE, !.msg = "progress"]

CanRecordSegmentCompleted(j) ==
  j.state = "running" /\ j.stage = "rendering" /\ j.done < j.total

RecordSegmentCompleted(j) == [j EXCEPT !.done = @ + 1, !.msg = "progress"]

CanBeginAssembly(j) == j.state = "running" /\ j.stage = "rendering" /\ j.done = j.total

BeginAssembly(j) == AdvanceTo(j, "assembling")

CanComplete(j) ==
  /\ j.state = "running" /\ j.stage = "assembling"
  /\ j.book # NoBook /\ j.total >= 1

Complete(j, revision) ==
  [j EXCEPT !.state = "completed", !.stage = "completed", !.revision = revision,
            !.onChapter = FALSE, !.msg = "completed"]

-----------------------------------------------------------------------------
(* validateSnapshot: what reconstitute accepts.  A job row that fails it   *)
(* can never be opened again, because findJob reconstitutes every row.     *)

HeaderAccepted(j) ==
  /\ j.state # "pending" => j.command # NoDigest
  /\ (j.stage = "completed") <=> (j.state = "completed")
  /\ (j.revision # NoRevision) <=> (j.state = "completed")
  /\ j.error <=> j.state = "failed"
  /\ j.direction # NoDirection => ValidDirection(j.direction)
  /\ j.done <= j.total

WarningsAccepted(j) == j.warnings # {} => j.book # NoBook

PendingAccepted(j) ==
  /\ j.stage = "extracting" /\ j.book = NoBook /\ j.direction = NoDirection
  /\ j.total = 0 /\ ~j.onChapter /\ j.msg = "waiting" /\ j.warnings = {}

AwaitingReviewAccepted(j) ==
  /\ j.stage = "directing" /\ j.book # NoBook
  /\ j.direction # NoDirection => Directed(j.direction)
  /\ j.total = 0 /\ ~j.onChapter /\ j.msg = "review"

StageAccepted(j) ==
  \/ /\ j.stage = "extracting" /\ j.direction = NoDirection
     /\ j.total = 0 /\ ~j.onChapter /\ j.warnings = {}
  \/ j.stage = "directing" /\ j.book # NoBook /\ j.total = 0
  \/ j.stage = "rendering" /\ j.book # NoBook /\ j.total >= 1
  \/ /\ j.stage = "assembling" /\ j.book # NoBook /\ j.total >= 1
     /\ j.done = j.total /\ ~j.onChapter
  \/ /\ j.stage = "completed" /\ j.book # NoBook /\ j.total >= 1
     /\ j.done = j.total /\ ~j.onChapter /\ j.msg = "completed"

LifecycleAccepted(j) ==
  CASE j.state = "pending"         -> PendingAccepted(j)
    [] j.state = "awaiting_review" -> AwaitingReviewAccepted(j)
    [] OTHER -> /\ j.state = "failed" => j.msg = "error"
                /\ j.state = "abandoned" => j.msg = "abandoned"
                /\ StageAccepted(j)

SnapshotAccepted(j) == HeaderAccepted(j) /\ WarningsAccepted(j) /\ LifecycleAccepted(j)

-----------------------------------------------------------------------------
(* allowedStateTransitions and nextStage *)

CanTransition(from, to) ==
  <<from, to>> \in {<<"pending", "running">>,
                    <<"running", "awaiting_review">>, <<"running", "abandoned">>,
                    <<"running", "failed">>, <<"running", "completed">>,
                    <<"awaiting_review", "running">>, <<"abandoned", "running">>,
                    <<"failed", "running">>, <<"completed", "awaiting_review">>}

CanAdvanceStage(from, to) ==
  <<from, to>> \in {<<"extracting", "directing">>, <<"directing", "rendering">>,
                    <<"rendering", "assembling">>, <<"assembling", "completed">>}
=============================================================================
